-------------------------- MODULE MCImportCollection --------------------------
(* ImportCollection for TLC; the slots are interchangeable. *)
EXTENDS ImportCollection, TLC

Symmetric == Permutations(Importers)

a == <<"a">>
ab == <<"a", "b">>
c == <<"c">>
MCPaths == {a, ab, c}

(* One document files two rows in a branch and a root.  One files a row of the
   first elsewhere too, in paths its tree omits, and has a file of it that no
   upload could have.  The last is over a ceiling. *)
Whole1 == [rows |-> <<"e1", "e2">>, paths |-> [e \in Entries |-> IF e = "e1" THEN {ab} ELSE {a}],
           tree |-> {a}, packed |-> {"e1"}, unfit |-> {}]
Partial == [rows |-> <<"e1">>, paths |-> [e \in Entries |-> IF e = "e1" THEN {ab, c} ELSE {}],
            tree |-> {a}, packed |-> {"e1"}, unfit |-> {"e1"}]
Large == [Whole1 EXCEPT !.rows = <<"e1", "e2", "e1">>]
MCDocuments == {Whole1, Partial, Large}
=============================================================================
