----------------------------- MODULE MCShareLinks -----------------------------
(* ShareLinks for TLC: links and slots are interchangeable. *)
EXTENDS ShareLinks, TLC

Symmetric == Permutations(Requests) \cup Permutations(Tokens)
==============================================================================
