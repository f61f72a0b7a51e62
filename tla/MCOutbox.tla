------------------------------- MODULE MCOutbox -------------------------------
(* Outbox for TLC: one subscription takes every event, the other only the
   later ones. *)
EXTENDS Outbox

MCEvents == {1, 2}
MCWants == [s \in Subs |-> IF s = CHOOSE t \in Subs : TRUE THEN {1, 2} ELSE {2}]
==============================================================================
