---------------------------- MODULE MCVariantJobs ----------------------------
(* VariantJobs for TLC: the jobs are the numbers of their deliveries. *)
EXTENDS VariantJobs

TwoJobs == {1, 2}
TriesOf == [j \in TwoJobs |-> j]
==============================================================================
