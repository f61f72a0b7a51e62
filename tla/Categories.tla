----------------------------- MODULE Categories -----------------------------
(***************************************************************************)
(* The category tree of one tenant, or of one user without a tenant: an    *)
(* adjacency list that create, update, delete and the importer change      *)
(* (controllers/category.py).                                              *)
(*                                                                         *)
(* Nothing but the controllers keeps the parent chain acyclic, bounded and *)
(* free of twins.  They read, check and write in READ COMMITTED            *)
(* transactions without a lock: each check and each commit is a step.  The *)
(* rows one request loads before its depth check are read in one step.     *)
(***************************************************************************)
EXTENDS Naturals, Sequences, FiniteSets

CONSTANTS Ids,        \* primary keys the table may hand out
          Slugs,      \* the slugs callers use
          Movers,     \* slots serving update_category
          Creators,   \* slots serving create_category
          Deleters,   \* slots serving delete_category
          Importers,  \* slots running ensure_category_path
          Tenanted,   \* TRUE: the rows carry a tenant_id
          MaxDepth,   \* MEDIA_IMPORT_MAX_CATEGORY_DEPTH
          None        \* no category

Slots == Movers \cup Creators \cup Deleters \cup Importers

ASSUME CategoryAssumption == /\ Tenanted \in BOOLEAN
                             /\ MaxDepth \in Nat \ {0}
                             /\ IsFiniteSet(Ids)
                             /\ None \notin Ids /\ None \notin Slugs

VARIABLES row,     \* per id: not handed out yet, live, or deleted
          parent,  \* parent_id
          slug,    \* slug
          req      \* per slot: the request it serves

vars == <<row, parent, slug, req>>

Live == {i \in Ids : row[i] = "live"}

(* What a slug path of the manifest may name (path_chain, tree_chains). *)
Paths == UNION {[1..n -> Slugs] : n \in 1..MaxDepth}

(* at: next step; id: row to change, None for a create; to, slug: what it
   asks for; was, had: the parent and slug it loaded; path: levels to import *)
Requests == [at : {"idle", "depth", "slug", "save", "remove", "lookup", "insert"},
             id : Ids \cup {None}, to : Ids \cup {None}, was : Ids \cup {None},
             slug : Slugs \cup {None}, had : Slugs \cup {None}, path : Seq(Slugs)]

Idle == [at |-> "idle", id |-> None, to |-> None, was |-> None,
         slug |-> None, had |-> None, path |-> <<>>]

(* Types, and what the foreign key keeps: whatever a live row hangs from is live. *)
TypeOK == /\ row \in [Ids -> {"new", "live", "gone"}]
          /\ parent \in [Ids -> Ids \cup {None}]
          /\ slug \in [Ids -> Slugs \cup {None}]
          /\ req \in [Slots -> Requests]
          /\ \A i \in Ids : parent[i] # None => i \in Live /\ parent[i] \in Live

Init == /\ row = [i \in Ids |-> "new"]
        /\ parent = [i \in Ids |-> None]
        /\ slug = [i \in Ids |-> None]
        /\ req = [s \in Slots |-> Idle]

Goto(s, label) == req' = [req EXCEPT ![s].at = label]
Finish(s) == req' = [req EXCEPT ![s] = Idle]
Refuse(s) == Finish(s) /\ UNCHANGED <<row, parent, slug>>

-----------------------------------------------------------------------------
(* The tree                                                                *)

(* Nothing above a member of S, in the parent map t, is outside S. *)
Closed(t, S) == \A i \in S : t[i] \in S \cup {None}

(* i and everything above it. *)
Chain(t, i) ==
  IF i = None THEN {}
  ELSE {a \in Ids : \A S \in SUBSET Ids : i \in S /\ Closed(t, S) => a \in S}

(* The tree with i's branch cut off, and the rows of that branch. *)
Cut(i) == [parent EXCEPT ![i] = None]
Branch(i) == {d \in Live \cup {i} : i \in Chain(Cut(i), d)}

(* _sibling_with_slug: who holds g under p. *)
Siblings(g, p) == {i \in Live : parent[i] = p /\ slug[i] = g}

(* The foreign key on parent_id and uq_category_tenant_parent_slug, in which
   no two NULLs are equal. *)
Accepted(i, p, g) ==
  /\ p # None => row[p] = "live"
  /\ Tenanted /\ p # None => Siblings(g, p) \subseteq {i}

(* A row the table hands out, under p. *)
InsertRow(i, p, g) ==
  /\ row[i] = "new" /\ Accepted(i, p, g)
  /\ row' = [row EXCEPT ![i] = "live"]
  /\ parent' = [parent EXCEPT ![i] = p]
  /\ slug' = [slug EXCEPT ![i] = g]

(* IntegrityError, and the request ends with it.  So it does when the ids have
   run out, which bounds the runs. *)
InsertFails(s, p, g) == (\A i \in Ids : row[i] = "new" => ~Accepted(i, p, g)) /\ Refuse(s)

-----------------------------------------------------------------------------
(* create_category and update_category                                     *)

(* _load_parent finds the parent, when one is named. *)
StartCreate(s) ==
  /\ s \in Creators /\ req[s].at = "idle"
  /\ \E p \in Live \cup {None}, g \in Slugs :
       req' = [req EXCEPT ![s] = [Idle EXCEPT !.at = "depth", !.to = p, !.slug = g]]
  /\ UNCHANGED <<row, parent, slug>>

(* The walk starts above the parent. *)
NoCycleAbove(i, p) == i \notin Chain(parent, p) \ {p}

(* _reject_cycle: no walk up from the parent asked for may meet the row. *)
NoCycle(i, p) == i \notin Chain(parent, p)

(* The row and the parent are loaded and the chain above it is walked. *)
StartUpdate(s) ==
  /\ s \in Movers /\ req[s].at = "idle"
  /\ \E i \in Live, p \in Live \cup {None}, g \in Slugs :
       /\ <<p, g>> # <<parent[i], slug[i]>>
       /\ p # parent[i] => NoCycle(i, p)
       /\ req' = [req EXCEPT ![s] =
                    [Idle EXCEPT !.at = IF p = parent[i] THEN "slug" ELSE "depth",
                                 !.id = i, !.to = p, !.was = parent[i],
                                 !.slug = g, !.had = slug[i]]]
  /\ UNCHANGED <<row, parent, slug>>

(* The branch below the row is not counted. *)
RoomForRow(i, p) == Cardinality(Chain(parent, p) \cap Live) + 1 <= MaxDepth

(* The rows above a new row or a moved branch leave it room. *)
RoomFor(i, p) ==
  LET above == Cardinality(Chain(parent, p) \cap Live)
  IN  /\ above + 1 <= MaxDepth
      /\ i # None => \A d \in Branch(i) : above + Cardinality(Chain(Cut(i), d)) <= MaxDepth

(* _reject_depth_overflow *)
CheckDepth(s) ==
  /\ req[s].at = "depth"
  /\ \/ RoomFor(req[s].id, req[s].to) /\ Goto(s, "slug")
     \/ ~RoomFor(req[s].id, req[s].to) /\ Finish(s)
  /\ UNCHANGED <<row, parent, slug>>

(* Left to the unique constraint. *)
CheckSlugNever(s) == req[s].at = "slug" /\ Goto(s, "save") /\ UNCHANGED <<row, parent, slug>>

(* _reject_duplicate_slug *)
CheckSlug(s) ==
  LET twins == Siblings(req[s].slug, req[s].to) \ {req[s].id}
  IN  /\ req[s].at = "slug"
      /\ \/ twins = {} /\ Goto(s, "save")
         \/ twins # {} /\ Finish(s)
      /\ UNCHANGED <<row, parent, slug>>

SaveCreate(s) ==
  /\ req[s].at = "save" /\ req[s].id = None
  /\ \/ Finish(s) /\ \E i \in Ids : InsertRow(i, req[s].to, req[s].slug)
     \/ InsertFails(s, req[s].to, req[s].slug)

(* Only the columns that differ from what was loaded are written; a row
   deleted meanwhile is a StaleDataError. *)
SaveUpdate(s) ==
  LET i == req[s].id
      p == IF req[s].to = req[s].was THEN parent[i] ELSE req[s].to
      g == IF req[s].slug = req[s].had THEN slug[i] ELSE req[s].slug
  IN  /\ req[s].at = "save" /\ i # None
      /\ \/ /\ row[i] = "live" /\ Accepted(i, p, g)
            /\ parent' = [parent EXCEPT ![i] = p]
            /\ slug' = [slug EXCEPT ![i] = g]
            /\ Finish(s) /\ UNCHANGED row
         \/ ~(row[i] = "live" /\ Accepted(i, p, g)) /\ Refuse(s)

-----------------------------------------------------------------------------
(* delete_category                                                         *)

(* 409 for a category with a child. *)
StartDelete(s) ==
  /\ s \in Deleters /\ req[s].at = "idle"
  /\ \E i \in Live :
       /\ \A j \in Live : parent[j] # i
       /\ req' = [req EXCEPT ![s] = [Idle EXCEPT !.at = "remove", !.id = i]]
  /\ UNCHANGED <<row, parent, slug>>

(* The flush first sets parent_id to NULL on the children the row has by now:
   Category.children has no cascade. *)
Remove(s) ==
  LET i == req[s].id
  IN  /\ req[s].at = "remove"
      /\ row' = [row EXCEPT ![i] = "gone"]
      /\ parent' = [j \in Ids |-> IF j = i \/ parent[j] = i THEN None ELSE parent[j]]
      /\ slug' = [slug EXCEPT ![i] = None]
      /\ Finish(s)

-----------------------------------------------------------------------------
(* ensure_category_path                                                    *)

StartImport(s) ==
  /\ s \in Importers /\ req[s].at = "idle"
  /\ \E path \in Paths :
       req' = [req EXCEPT ![s] = [Idle EXCEPT !.at = "lookup", !.path = path]]
  /\ UNCHANGED <<row, parent, slug>>

(* The level is resolved to i: on to the next one, if there is one. *)
Descend(s, i) ==
  LET rest == Tail(req[s].path)
  IN  req' = [req EXCEPT ![s] = IF rest = <<>> THEN Idle
                                ELSE [Idle EXCEPT !.at = "lookup", !.to = i, !.path = rest]]

LookUp(s) ==
  LET held == Siblings(Head(req[s].path), req[s].to)
  IN  /\ req[s].at = "lookup"
      /\ \/ \E i \in held : Descend(s, i)
         \/ held = {} /\ Goto(s, "insert")
      /\ UNCHANGED <<row, parent, slug>>

(* Each level is committed on its own. *)
InsertLevel(s) ==
  LET g == Head(req[s].path)
  IN  /\ req[s].at = "insert"
      /\ \/ \E i \in Ids : InsertRow(i, req[s].to, g) /\ Descend(s, i)
         \/ InsertFails(s, req[s].to, g)

-----------------------------------------------------------------------------
Create(s) == StartCreate(s) \/ SaveCreate(s)
Update(s) == StartUpdate(s) \/ SaveUpdate(s)
Check(s) == CheckDepth(s) \/ CheckSlug(s)
Delete(s) == StartDelete(s) \/ Remove(s)
Import(s) == StartImport(s) \/ LookUp(s) \/ InsertLevel(s)

Next == \E s \in Slots : Create(s) \/ Update(s) \/ Check(s) \/ Delete(s) \/ Import(s)

Spec == Init /\ [][Next]_vars

-----------------------------------------------------------------------------
(* Properties                                                              *)

(* The parent chain stays acyclic (category.py:27-28): among any rows there is
   one whose parent is not among them.  _reject_cycle is what it rests on. *)
Acyclic == \A S \in SUBSET Live : S # {} => \E i \in S : parent[i] \notin S

(* The tree is a forest: no chain closes, and no row, living or gone, hangs
   from one that is gone (the foreign key and the flush of delete_category). *)
Forest == Acyclic /\ \A i \in Ids : parent[i] # None => i \in Live /\ parent[i] \in Live

(* No branch is deeper than an import would take (category.py:232-234), though
   depth is checked against a tree that other requests go on changing. *)
WithinDepth == \A i \in Live : Cardinality(Chain(parent, i)) <= MaxDepth

(* No two siblings, roots included, hold one slug (category.py:28-30): the path
   an export writes for a category names one category. *)
SiblingsDiffer == \A i, j \in Live : i # j => <<parent[i], slug[i]>> # <<parent[j], slug[j]>>

(* A delete moves no category that stays (category.py:750-753): what hangs below
   another category hangs there after it. *)
ChildrenKept ==
  [][(\E i \in Live : row'[i] = "gone")
       => \A j \in Live : row'[j] = "live" => parent'[j] = parent[j]]_vars
=============================================================================
