------------------------------- MODULE MCLibrary -------------------------------
EXTENDS Library

(* alice and bob share a tenant, carol and dave have none, root is superuser.
   Objects 1 to 4; categories 11 to 13 of the tenant, 14 of carol. *)
MCTenantOf == [u \in Users |-> IF u \in {"alice", "bob"} THEN "t" ELSE Null]
MCOwnerOf == [x \in Owned |-> CASE x \in {1, 2, 11, 12} -> "alice" [] x \in {3, 13} -> "bob"
                                [] OTHER -> "carol"]

Plain == [branch |-> Null, deep |-> TRUE, unfiled |-> FALSE, owner |-> Null,
          deleted |-> FALSE, down |-> FALSE]
MCQueries == {Plain, [Plain EXCEPT !.down = TRUE], [Plain EXCEPT !.unfiled = TRUE],
              [Plain EXCEPT !.branch = 11], [Plain EXCEPT !.branch = 11, !.deep = FALSE],
              [Plain EXCEPT !.owner = "alice", !.deleted = TRUE]}

(* Two objects tie on their key, one of them filed twice in one branch; the
   last one is uploaded meanwhile. *)
MCStart ==
  {[state |-> [o \in Media |-> IF o = 4 THEN "new" ELSE "live"],
    visibility |-> [o \in Media |-> IF o = 3 THEN v ELSE IF o = 4 THEN "tenant" ELSE "private"],
    key |-> [o \in Media |-> IF o \in {1, 2} THEN 1 ELSE 2],
    filed |-> [o \in Media |-> CASE o = 1 -> {11, 12} [] o = 2 -> {13} [] OTHER -> {}],
    exists |-> Categories,
    parent |-> [c \in Categories |-> CASE c = 12 -> 11 [] c = 13 -> 12 [] OTHER -> Null]]
   : v \in {"tenant", "public"}}
=============================================================================
