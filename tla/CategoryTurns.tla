----------------------------- MODULE CategoryTurns -----------------------------
(***************************************************************************)
(* Categories with the history variable alone: whether no two requests     *)
(* that write have overlapped so far.  What the controllers' checks are    *)
(* meant to keep is stated of such histories; Categories says what is left *)
(* of it once requests overlap.                                            *)
(***************************************************************************)
EXTENDS Categories

VARIABLE alone

Serving == {s \in Slots : req[s].at # "idle"}
TakingTurns == \A s, t \in Serving : s = t

TurnsInit == Init /\ alone = TRUE
TurnsNext == Next /\ alone' = (alone /\ TakingTurns')
TurnsSpec == TurnsInit /\ [][TurnsNext]_<<vars, alone>>

(* Requests that take turns keep the tree within its depth (category.py:232-234). *)
WithinDepthInTurn == alone => WithinDepth

(* They leave no two siblings, roots included, on one slug (category.py:28-30). *)
SiblingsDifferInTurn == alone => SiblingsDiffer
================================================================================
