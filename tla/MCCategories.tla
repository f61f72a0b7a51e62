----------------------------- MODULE MCCategories -----------------------------
(* CategoryTurns for TLC: ids and slugs are interchangeable. *)
EXTENDS CategoryTurns, TLC

Symmetric == Permutations(Ids) \cup Permutations(Slugs)
==============================================================================
