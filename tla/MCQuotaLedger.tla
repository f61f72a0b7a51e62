---------------------------- MODULE MCQuotaLedger ----------------------------
(* QuotaLedger for TLC: one object of size 2, the others of size 1. *)
EXTENDS QuotaLedger

CONSTANT Large

MCSize == [o \in Objects |-> IF o = Large THEN 2 ELSE 1]
=============================================================================
