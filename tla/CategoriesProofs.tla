-------------------------- MODULE CategoriesProofs --------------------------
(***************************************************************************)
(* What the unlocked checks of the controllers are enough for.  Types and  *)
(* foreign keys hold whatever overlaps.  As long as update_category never  *)
(* runs twice at once, the tree stays a forest, whatever creates, deletes  *)
(* and imports run beside it.  As long as no two requests that write       *)
(* overlap, it stays within its depth and without twins as well.           *)
(***************************************************************************)
EXTENDS CategoryTurns, FiniteSetTheorems, TLAPS

(* The requests that are on their way to a create or an update. *)
Writing(s) == req[s].at \in {"depth", "slug", "save"}

(* What a request carries at the step it has reached. *)
CarriesOK(s) ==
  /\ Writing(s) => /\ req[s].slug \in Slugs
                   /\ req[s].id # None => s \in Movers /\ row[req[s].id] # "new"
                   /\ req[s].to # None => row[req[s].to] # "new"
  /\ req[s].at = "remove" => req[s].id \in Ids
  /\ req[s].at \in {"lookup", "insert"} => req[s].path # <<>>

(* An update that has passed _reject_cycle: its row is still not above the
   parent it asks for. *)
StillNoCycle(s) ==
  Writing(s) /\ req[s].id # None /\ req[s].to # None /\ req[s].to # req[s].was
    => NoCycle(req[s].id, req[s].to)

RowsOK == TypeOK /\ \A s \in Slots : CarriesOK(s)

TreeOK == Acyclic /\ \A s \in Slots : StillNoCycle(s)

(* What every step but the save of an update keeps, whatever overlaps it. *)
Keeps == RowsOK' /\ (TreeOK => TreeOK')

OneMover == \A m, n \in Movers : m = n

(* s serves the only update under way. *)
OnlyUpdate(s) == \A q \in Slots : Writing(q) /\ req[q].id # None => q = s

-----------------------------------------------------------------------------
(* The tree                                                                *)

(* A row is not above p exactly when some set closed under parents holds p
   and not the row. *)
LEMMA ChainWitness ==
  ASSUME NEW t, NEW i \in Ids, NEW p \in Ids
  PROVE  i \notin Chain(t, p) <=> \E S \in SUBSET Ids : p \in S /\ Closed(t, S) /\ i \notin S
BY CategoryAssumption DEF Chain

(* Cutting rows off the tree puts nothing above anything. *)
LEMMA CutKeepsApart ==
  ASSUME NEW t, NEW u, NEW i \in Ids, NEW p \in Ids, i \notin Chain(t, p),
         \A x \in Ids : u[x] \in {t[x], None}
  PROVE  i \notin Chain(u, p)
<1>1. PICK S \in SUBSET Ids : p \in S /\ Closed(t, S) /\ i \notin S
  BY ChainWitness
<1>2. Closed(u, S)
  BY <1>1 DEF Closed
<1> QED BY <1>1, <1>2, ChainWitness

(* Nor does hanging a row into it that nothing hangs from. *)
LEMMA LeafKeepsApart ==
  ASSUME NEW t, NEW u, NEW i \in Ids, NEW p \in Ids, NEW leaf \in Ids,
         i \notin Chain(t, p), p # leaf,
         \A x \in Ids : t[x] # leaf,
         \A x \in Ids : x # leaf => u[x] = t[x]
  PROVE  i \notin Chain(u, p)
<1>1. PICK S \in SUBSET Ids : p \in S /\ Closed(t, S) /\ i \notin S
  BY ChainWitness
<1>2. Closed(u, S \ {leaf})
  BY <1>1, CategoryAssumption DEF Closed
<1> QED BY <1>1, <1>2, ChainWitness

-----------------------------------------------------------------------------
(* The steps, by what they do to the tree                                  *)

(* A step that leaves the rows alone and gives one slot its next request. *)
LEMMA CheckStep ==
  ASSUME RowsOK, NEW s \in Slots, NEW r \in Requests,
         req' = [req EXCEPT ![s] = r], UNCHANGED <<row, parent, slug>>,
         CarriesOK(s)', TreeOK => StillNoCycle(s)'
  PROVE  Keeps
<1>1. TypeOK'
  BY DEF RowsOK, TypeOK, Live
<1>2. \A q \in Slots : q # s => req'[q] = req[q]
  BY DEF RowsOK, TypeOK
<1>3. \A q \in Slots : CarriesOK(q)'
  BY <1>2 DEF RowsOK, CarriesOK, Writing
<1>4. ASSUME TreeOK PROVE TreeOK'
  BY <1>2, <1>4 DEF TreeOK, StillNoCycle, Writing, NoCycle, Acyclic, Live
<1> QED BY <1>1, <1>3, <1>4 DEF Keeps, RowsOK

(* A row is handed out: no row hangs from it yet, so it closes no cycle. *)
LEMMA InsertStep ==
  ASSUME RowsOK, NEW s \in Slots, NEW r \in Requests,
         NEW i \in Ids, NEW p \in Ids \cup {None}, NEW g \in Slugs,
         InsertRow(i, p, g),
         req' = [req EXCEPT ![s] = r],
         CarriesOK(s)', ~Writing(s)'
  PROVE  Keeps
<1> USE CategoryAssumption
<1>1. TypeOK'
  <2>1. \A x \in Ids : parent'[x] # None => row'[x] = "live" /\ parent'[x] \in Ids /\ row'[parent'[x]] = "live"
    BY DEF RowsOK, TypeOK, InsertRow, Accepted, Live
  <2> QED BY <2>1 DEF RowsOK, TypeOK, InsertRow, Live
<1>2. \A q \in Slots : CarriesOK(q)'
  <2> SUFFICES ASSUME NEW q \in Slots, q # s PROVE CarriesOK(q)'
    OBVIOUS
  <2>1. req'[q] = req[q] /\ CarriesOK(q)
    BY DEF RowsOK, TypeOK
  <2>2. \A x \in Ids : row[x] # "new" => row'[x] # "new"
    BY DEF RowsOK, TypeOK, InsertRow
  <2>3. req[q] \in Requests
    BY DEF RowsOK, TypeOK
  <2> QED BY <2>1, <2>2, <2>3 DEF CarriesOK, Writing, Requests
<1>3. TreeOK => \A q \in Slots : StillNoCycle(q)'
  <2> SUFFICES ASSUME TreeOK, NEW q \in Slots, q # s,
                      Writing(q), req[q].id # None, req[q].to # None, req[q].to # req[q].was
               PROVE  req[q].id \notin Chain(parent', req[q].to)
    BY DEF RowsOK, TypeOK, StillNoCycle, Writing, NoCycle
  <2>1. req[q].id \in Ids /\ req[q].to \in Ids
    BY DEF RowsOK, TypeOK, Requests
  <2>2. req[q].id \notin Chain(parent, req[q].to)
    BY DEF TreeOK, StillNoCycle, NoCycle
  <2>3. req[q].to # i
    BY DEF RowsOK, CarriesOK, InsertRow
  <2>4. \A x \in Ids : parent[x] # i
    BY DEF RowsOK, TypeOK, InsertRow, Live
  <2>5. \A x \in Ids : x # i => parent'[x] = parent[x]
    BY DEF RowsOK, TypeOK, InsertRow
  <2> DEFINE a == req[q].id
             b == req[q].to
  <2>6. a \in Ids /\ b \in Ids /\ a \notin Chain(parent, b) /\ b # i
    BY <2>1, <2>2, <2>3
  <2> HIDE DEF a, b
  <2>7. a \notin Chain(parent', b)
    BY <2>4, <2>5, <2>6, LeafKeepsApart
  <2> QED BY <2>7 DEF a, b
<1>4. TreeOK => Acyclic'
  <2> SUFFICES ASSUME TreeOK, NEW S \in SUBSET Live', S # {} PROVE \E x \in S : parent'[x] \notin S
    BY DEF Acyclic
  <2>1. \A x \in Ids : x # i => parent'[x] = parent[x] /\ parent[x] # i
    BY DEF RowsOK, TypeOK, InsertRow, Live
  <2>2. CASE S = {i}
    BY <2>2 DEF RowsOK, TypeOK, InsertRow, Accepted
  <2>3. CASE S # {i}
    <3>1. S \ {i} \in SUBSET Live /\ S \ {i} # {}
      BY <2>3 DEF RowsOK, TypeOK, InsertRow, Live
    <3>2. PICK x \in S \ {i} : parent[x] \notin S \ {i}
      BY <3>1 DEF TreeOK, Acyclic
    <3> QED BY <2>1, <3>1, <3>2 DEF Live
  <2> QED BY <2>2, <2>3
<1> QED BY <1>1, <1>2, <1>3, <1>4 DEF Keeps, RowsOK, TreeOK

(* The one update under way saves.  A set that the new edge closed would, cut
   down to what is above the new parent, have been closed before. *)
LEMMA UpdateStep ==
  ASSUME RowsOK, NEW s \in Slots, SaveUpdate(s), row[req[s].id] = "live",
         Finish(s),
         parent' = [parent EXCEPT ![req[s].id] =
                      IF req[s].to = req[s].was THEN parent[req[s].id] ELSE req[s].to],
         Accepted(req[s].id, IF req[s].to = req[s].was THEN parent[req[s].id] ELSE req[s].to,
                  IF req[s].slug = req[s].had THEN slug[req[s].id] ELSE req[s].slug),
         slug' = [slug EXCEPT ![req[s].id] =
                    IF req[s].slug = req[s].had THEN slug[req[s].id] ELSE req[s].slug],
         UNCHANGED row
  PROVE  RowsOK' /\ (TreeOK /\ OnlyUpdate(s) => TreeOK')
<1> USE CategoryAssumption
<1> DEFINE i == req[s].id
           p == IF req[s].to = req[s].was THEN parent[i] ELSE req[s].to
<1>1. i \in Ids /\ p \in Ids \cup {None} /\ req[s] \in Requests /\ Writing(s)
  BY DEF RowsOK, TypeOK, Requests, SaveUpdate, Writing
<1>2. parent' = [parent EXCEPT ![i] = p]
  OBVIOUS
<1>3. p # None => row[p] = "live"
  BY DEF Accepted
<1>4. req[s].slug \in Slugs
  BY <1>1 DEF RowsOK, CarriesOK
<1> HIDE DEF p
<1>5. TypeOK'
  <2>1. parent' \in [Ids -> Ids \cup {None}] /\ slug' \in [Ids -> Slugs \cup {None}]
    BY <1>1, <1>2, <1>4 DEF RowsOK, TypeOK
  <2>2. req' \in [Slots -> Requests]
    BY DEF RowsOK, TypeOK, Finish, Idle, Requests
  <2>3. \A x \in Ids : parent'[x] # None => x \in Live' /\ parent'[x] \in Live'
    BY <1>1, <1>2, <1>3 DEF RowsOK, TypeOK, Live
  <2> QED BY <2>1, <2>2, <2>3 DEF RowsOK, TypeOK
<1>6. \A q \in Slots : CarriesOK(q)'
  BY DEF RowsOK, TypeOK, CarriesOK, Writing, Finish, Idle
<1>7. OnlyUpdate(s) => \A q \in Slots : StillNoCycle(q)'
  <2>1. \A q \in Slots : q # s => req'[q] = req[q]
    BY DEF RowsOK, TypeOK, Finish
  <2>2. req'[s].at = "idle"
    BY DEF RowsOK, TypeOK, Finish, Idle
  <2> QED BY <2>1, <2>2 DEF OnlyUpdate, StillNoCycle, Writing
<1>8. TreeOK => Acyclic'
  <2> SUFFICES ASSUME TreeOK, NEW S \in SUBSET Live', S # {}, \A x \in S : parent'[x] \in S
               PROVE  FALSE
    BY DEF Acyclic
  <2>1. S \in SUBSET Live /\ S \in SUBSET Ids /\ \A x \in S : x # i => parent'[x] = parent[x]
    BY <1>1, <1>2 DEF RowsOK, TypeOK, Live
  <2>2. i \in S /\ p \in S /\ p # parent[i]
    BY <1>1, <1>2, <2>1 DEF RowsOK, TypeOK, TreeOK, Acyclic, Live
  <2>3. p = req[s].to /\ p \in Ids /\ req[s].to # req[s].was
    BY <2>1, <2>2 DEF p
  <2>4. i \notin Chain(parent, p)
    BY <1>1, <2>3 DEF TreeOK, StillNoCycle, NoCycle
  <2>5. PICK W \in SUBSET Ids : p \in W /\ Closed(parent, W) /\ i \notin W
    BY <1>1, <2>3, <2>4, ChainWitness
  <2>6. \A x \in S \cap W : parent[x] \in S \cap W
    BY <2>1, <2>5 DEF Closed
  <2> QED BY <2>1, <2>2, <2>5, <2>6 DEF TreeOK, Acyclic
<1> QED BY <1>5, <1>6, <1>7, <1>8 DEF RowsOK, TreeOK

(* A delete cuts the row's children off, and the row itself. *)
LEMMA RemoveStep ==
  ASSUME RowsOK, NEW s \in Slots, Remove(s)
  PROVE  Keeps
<1> USE CategoryAssumption
<1> DEFINE i == req[s].id
<1>1. i \in Ids
  BY DEF RowsOK, CarriesOK, Remove
<1>2. /\ row' = [row EXCEPT ![i] = "gone"]
      /\ parent' = [j \in Ids |-> IF j = i \/ parent[j] = i THEN None ELSE parent[j]]
      /\ slug' = [slug EXCEPT ![i] = None]
      /\ req' = [req EXCEPT ![s] = Idle]
  BY DEF Remove, Finish
<1> HIDE DEF i
<1>3. TypeOK'
  <2>1. req' \in [Slots -> Requests]
    BY <1>2 DEF RowsOK, TypeOK, Idle, Requests
  <2>2. \A x \in Ids : parent'[x] # None => x \in Live' /\ parent'[x] \in Live'
    BY <1>1, <1>2 DEF RowsOK, TypeOK, Live
  <2>3. parent' \in [Ids -> Ids \cup {None}]
    BY <1>2 DEF RowsOK, TypeOK
  <2>4. row' \in [Ids -> {"new", "live", "gone"}] /\ slug' \in [Ids -> Slugs \cup {None}]
    BY <1>1, <1>2 DEF RowsOK, TypeOK
  <2> QED BY <2>1, <2>2, <2>3, <2>4 DEF TypeOK
<1>4. \A q \in Slots : CarriesOK(q)'
  <2> SUFFICES ASSUME NEW q \in Slots PROVE CarriesOK(q)'
    OBVIOUS
  <2>1. CASE q = s
    BY <1>2, <2>1 DEF RowsOK, TypeOK, CarriesOK, Writing, Idle
  <2>2. CASE q # s
    <3>1. req'[q] = req[q] /\ req[q] \in Requests /\ CarriesOK(q)
      BY <1>2, <2>2 DEF RowsOK, TypeOK
    <3>2. \A x \in Ids : row[x] # "new" => row'[x] # "new"
      BY <1>1, <1>2 DEF RowsOK, TypeOK
    <3> QED BY <3>1, <3>2 DEF CarriesOK, Writing, Requests
  <2> QED BY <2>1, <2>2
<1>5. TreeOK => \A q \in Slots : StillNoCycle(q)'
  <2> SUFFICES ASSUME TreeOK, NEW q \in Slots, q # s,
                      Writing(q), req[q].id # None, req[q].to # None, req[q].to # req[q].was
               PROVE  req[q].id \notin Chain(parent', req[q].to)
    BY <1>2 DEF RowsOK, TypeOK, StillNoCycle, Writing, NoCycle, Idle
  <2>1. req[q].id \in Ids /\ req[q].to \in Ids
    BY DEF RowsOK, TypeOK, Requests
  <2>2. req[q].id \notin Chain(parent, req[q].to)
    BY DEF TreeOK, StillNoCycle, NoCycle
  <2>3. \A x \in Ids : parent'[x] \in {parent[x], None}
    BY <1>2
  <2> QED BY <2>1, <2>2, <2>3, CutKeepsApart
<1>6. TreeOK => Acyclic'
  <2> SUFFICES ASSUME TreeOK, NEW S \in SUBSET Live', S # {} PROVE \E x \in S : parent'[x] \notin S
    BY DEF Acyclic
  <2>1. S \in SUBSET Live /\ S \in SUBSET Ids
    BY <1>1, <1>2 DEF RowsOK, TypeOK, Live
  <2>2. PICK x \in S : parent[x] \notin S
    BY <2>1 DEF TreeOK, Acyclic
  <2> QED BY <1>2, <2>1, <2>2
<1> QED BY <1>3, <1>4, <1>5, <1>6 DEF Keeps, RowsOK, TreeOK

-----------------------------------------------------------------------------
(* The requests the handlers start with                                    *)

(* A slot that serves nothing. *)
LEMMA IdleRequest == Idle \in Requests
BY DEF Idle, Requests

LEMMA CreateRequest ==
  ASSUME NEW p \in Ids \cup {None}, NEW g \in Slugs,
         NEW r, r = [Idle EXCEPT !.at = "depth", !.to = p, !.slug = g]
  PROVE  r \in Requests
BY IdleRequest DEF Requests

LEMMA DeleteRequest ==
  ASSUME NEW i \in Ids, NEW r, r = [Idle EXCEPT !.at = "remove", !.id = i]
  PROVE  r \in Requests
BY IdleRequest DEF Requests

-----------------------------------------------------------------------------
(* The theorem                                                             *)

LEMMA IdleStep ==
  ASSUME RowsOK, NEW s \in Slots, Refuse(s)
  PROVE  Keeps
<1>1. Idle \in Requests
  BY IdleRequest
<1>2. req'[s] = Idle
  BY DEF RowsOK, TypeOK, Refuse, Finish
<1>3. req'[s].at = "idle"
  BY <1>2 DEF Idle
<1>4. CarriesOK(s)' /\ StillNoCycle(s)'
  BY <1>3 DEF CarriesOK, StillNoCycle, Writing
<1> QED BY <1>1, <1>4, CheckStep DEF Refuse, Finish

LEMMA DescendKeeps ==
  ASSUME RowsOK, NEW s \in Slots, req[s].at \in {"lookup", "insert"}, NEW i \in Ids, Descend(s, i)
  PROVE  \E r \in Requests : /\ req' = [req EXCEPT ![s] = r]
                             /\ CarriesOK(s)' /\ ~Writing(s)'
<1> DEFINE rest == Tail(req[s].path)
           r == IF rest = <<>> THEN Idle
                ELSE [Idle EXCEPT !.at = "lookup", !.to = i, !.path = rest]
<1>1. req[s].path \in Seq(Slugs) /\ req[s].path # <<>>
  BY DEF RowsOK, TypeOK, Requests, CarriesOK
<1>2. rest \in Seq(Slugs)
  BY <1>1
<1>3. r \in Requests
  BY <1>2 DEF Idle, Requests
<1>4. req' = [req EXCEPT ![s] = r] /\ req'[s] = r
  BY DEF Descend, RowsOK, TypeOK
<1>5. r.at \in {"idle", "lookup"} /\ (r.at = "lookup" => r.path # <<>>)
  BY DEF Idle
<1> QED BY <1>3, <1>4, <1>5 DEF CarriesOK, Writing

LEMMA InitOK == Init => RowsOK /\ TreeOK
<1> SUFFICES ASSUME Init PROVE RowsOK /\ TreeOK
  OBVIOUS
<1>1. RowsOK
  BY IdleRequest DEF Init, RowsOK, TypeOK, CarriesOK, Writing, Live, Idle
<1>2. TreeOK
  BY DEF Init, TreeOK, StillNoCycle, Writing, Acyclic, Live, Idle
<1> QED BY <1>1, <1>2

(* Updates take turns when one slot serves them all, and when all requests do. *)
LEMMA UpdatesTakeTurns ==
  ASSUME RowsOK, OneMover \/ TakingTurns, NEW s \in Slots, SaveUpdate(s)
  PROVE  OnlyUpdate(s)
<1>1. Writing(s) /\ req[s].id # None
  BY DEF SaveUpdate, Writing
<1>2. CASE OneMover
  BY <1>1, <1>2 DEF RowsOK, CarriesOK, OneMover, OnlyUpdate
<1>3. CASE TakingTurns
  BY <1>1, <1>3 DEF TakingTurns, Serving, Writing, OnlyUpdate
<1> QED BY <1>2, <1>3

LEMMA NextKeeps ==
  RowsOK /\ [Next]_vars => RowsOK' /\ (TreeOK /\ (OneMover \/ TakingTurns) => TreeOK')
<1> SUFFICES ASSUME RowsOK, [Next]_vars
             PROVE  RowsOK' /\ (TreeOK /\ (OneMover \/ TakingTurns) => TreeOK')
  OBVIOUS
<1> USE CategoryAssumption
<1>0. CASE UNCHANGED vars
  <2>1. RowsOK'
    BY <1>0 DEF vars, RowsOK, TypeOK, CarriesOK, Writing, Live
  <2>2. TreeOK => TreeOK'
    BY <1>0 DEF vars, TreeOK, StillNoCycle, Writing, NoCycle, Acyclic, Live
  <2> QED BY <2>1, <2>2
<1>1. ASSUME NEW s \in Slots, StartCreate(s) PROVE Keeps
  <2>1. PICK p \in Live \cup {None}, g \in Slugs :
          req' = [req EXCEPT ![s] = [Idle EXCEPT !.at = "depth", !.to = p, !.slug = g]]
    BY <1>1 DEF StartCreate
  <2> DEFINE r == [Idle EXCEPT !.at = "depth", !.to = p, !.slug = g]
  <2>2. r \in Requests /\ req'[s] = r
    <3>1. r \in Requests
      BY CreateRequest DEF Live
    <3>2. req'[s] = r
      BY <2>1 DEF RowsOK, TypeOK
    <3> QED BY <3>1, <3>2
  <2>3. CarriesOK(s)' /\ StillNoCycle(s)'
    BY <1>1, <2>1, <2>2 DEF StartCreate, CarriesOK, StillNoCycle, Writing, Idle, Live
  <2> QED BY <1>1, <2>1, <2>2, <2>3, CheckStep DEF StartCreate
<1>2. ASSUME NEW s \in Slots, StartUpdate(s) PROVE Keeps
  <2>1. PICK i \in Live, p \in Live \cup {None}, g \in Slugs :
          /\ p # parent[i] => NoCycle(i, p)
          /\ req' = [req EXCEPT ![s] =
                       [Idle EXCEPT !.at = IF p = parent[i] THEN "slug" ELSE "depth",
                                    !.id = i, !.to = p, !.was = parent[i],
                                    !.slug = g, !.had = slug[i]]]
    BY <1>2 DEF StartUpdate
  <2> DEFINE r == [Idle EXCEPT !.at = IF p = parent[i] THEN "slug" ELSE "depth",
                               !.id = i, !.to = p, !.was = parent[i],
                               !.slug = g, !.had = slug[i]]
  <2>2. i \in Ids /\ parent[i] \in Ids \cup {None} /\ slug[i] \in Slugs \cup {None}
    BY DEF Live, RowsOK, TypeOK
  <2>3. r \in Requests /\ req'[s] = r
    <3> DEFINE a == IF p = parent[i] THEN "slug" ELSE "depth"
               w == parent[i]
               h == slug[i]
    <3>1. a \in {"slug", "depth"} /\ p \in Ids \cup {None}
      BY DEF Live
    <3>2. r = [Idle EXCEPT !.at = a, !.id = i, !.to = p, !.was = w, !.slug = g, !.had = h]
      OBVIOUS
    <3>3. w \in Ids \cup {None} /\ h \in Slugs \cup {None}
      BY <2>2
    <3> HIDE DEF r, a, w, h
    <3>4. r \in Requests
      BY <2>2, <3>1, <3>2, <3>3, IdleRequest DEF Requests
    <3>5. req'[s] = r
      BY <2>1 DEF RowsOK, TypeOK, r
    <3> QED BY <3>4, <3>5
  <2>4. CarriesOK(s)' /\ StillNoCycle(s)'
    BY <1>2, <2>1, <2>2, <2>3
       DEF StartUpdate, CarriesOK, StillNoCycle, Writing, NoCycle, Idle, Live
  <2> QED BY <1>2, <2>1, <2>3, <2>4, CheckStep DEF StartUpdate
<1>3. ASSUME NEW s \in Slots, CheckDepth(s) \/ CheckSlug(s) PROVE Keeps
  <2>1. CASE Finish(s)
    BY <1>3, <2>1, IdleStep DEF CheckDepth, CheckSlug, Refuse
  <2>2. CASE \E label \in {"slug", "save"} : Goto(s, label)
    <3>1. PICK label \in {"slug", "save"} : Goto(s, label)
      BY <2>2
    <3> DEFINE r == [req[s] EXCEPT !.at = label]
    <3>2. r \in Requests /\ req' = [req EXCEPT ![s] = r] /\ req'[s] = r
      BY <3>1 DEF Goto, Requests, RowsOK, TypeOK
    <3>3. Writing(s) /\ CarriesOK(s) /\ (TreeOK => StillNoCycle(s)) /\ req[s] \in Requests
      BY <1>3 DEF CheckDepth, CheckSlug, Writing, RowsOK, TreeOK, TypeOK
    <3>4. UNCHANGED <<row, parent, slug>>
      BY <1>3 DEF CheckDepth, CheckSlug
    <3>5. /\ r.slug = req[s].slug /\ r.id = req[s].id /\ r.to = req[s].to
          /\ r.was = req[s].was /\ r.at = label
      BY <3>3 DEF Requests
    <3>6. CarriesOK(s)' /\ (StillNoCycle(s) => StillNoCycle(s)')
      BY <3>2, <3>3, <3>4, <3>5 DEF CarriesOK, StillNoCycle, Writing, NoCycle
    <3> QED BY <3>2, <3>3, <3>4, <3>6, CheckStep
  <2> QED BY <1>3, <2>1, <2>2 DEF CheckDepth, CheckSlug
<1>4. ASSUME NEW s \in Slots, SaveCreate(s) PROVE Keeps
  <2>1. CASE Refuse(s)
    BY <2>1, IdleStep
  <2>2. CASE Finish(s) /\ \E i \in Ids : InsertRow(i, req[s].to, req[s].slug)
    <3>1. PICK i \in Ids : InsertRow(i, req[s].to, req[s].slug)
      BY <2>2
    <3>2. req[s].to \in Ids \cup {None} /\ req[s].slug \in Slugs
      BY <1>4 DEF SaveCreate, RowsOK, TypeOK, Requests, CarriesOK, Writing
    <3>3. Idle \in Requests /\ req' = [req EXCEPT ![s] = Idle] /\ req'[s] = Idle
      BY <2>2 DEF Idle, Requests, Finish, RowsOK, TypeOK
    <3>4. CarriesOK(s)' /\ ~Writing(s)'
      BY <3>3 DEF CarriesOK, Writing, Idle
    <3> QED BY <3>1, <3>2, <3>3, <3>4, InsertStep
  <2> QED BY <1>4, <2>1, <2>2 DEF SaveCreate, InsertFails
<1>5. ASSUME NEW s \in Slots, SaveUpdate(s)
      PROVE  RowsOK' /\ (TreeOK /\ (OneMover \/ TakingTurns) => TreeOK')
  <2>1. CASE Refuse(s)
    BY <2>1, IdleStep DEF Keeps
  <2>2. CASE ~Refuse(s)
    <3>1. RowsOK' /\ (TreeOK /\ OnlyUpdate(s) => TreeOK')
      BY <1>5, <2>2, UpdateStep DEF SaveUpdate
    <3> QED BY <1>5, <3>1, UpdatesTakeTurns
  <2> QED BY <2>1, <2>2
<1>6. ASSUME NEW s \in Slots, StartDelete(s) PROVE Keeps
  <2>1. PICK i \in Live : req' = [req EXCEPT ![s] = [Idle EXCEPT !.at = "remove", !.id = i]]
    BY <1>6 DEF StartDelete
  <2> DEFINE r == [Idle EXCEPT !.at = "remove", !.id = i]
  <2>2. r \in Requests /\ req'[s] = r
    <3>1. r \in Requests
      BY DeleteRequest DEF Live
    <3>2. req'[s] = r
      BY <2>1 DEF RowsOK, TypeOK
    <3> QED BY <3>1, <3>2
  <2>3. CarriesOK(s)' /\ StillNoCycle(s)'
    BY <2>2 DEF CarriesOK, StillNoCycle, Writing, Idle, Live
  <2> QED BY <1>6, <2>1, <2>2, <2>3, CheckStep DEF StartDelete
<1>7. ASSUME NEW s \in Slots, Remove(s) PROVE Keeps
  BY <1>7, RemoveStep
<1>8. ASSUME NEW s \in Slots, StartImport(s) PROVE Keeps
  <2>1. PICK path \in Paths :
          req' = [req EXCEPT ![s] = [Idle EXCEPT !.at = "lookup", !.path = path]]
    BY <1>8 DEF StartImport
  <2> DEFINE r == [Idle EXCEPT !.at = "lookup", !.path = path]
  <2>2. path \in Seq(Slugs) /\ path # <<>>
    BY DEF Paths
  <2>3. r \in Requests /\ req'[s] = r
    BY <2>1, <2>2 DEF Idle, Requests, RowsOK, TypeOK
  <2>4. CarriesOK(s)' /\ StillNoCycle(s)'
    BY <2>2, <2>3 DEF CarriesOK, StillNoCycle, Writing, Idle
  <2> QED BY <1>8, <2>1, <2>3, <2>4, CheckStep DEF StartImport
<1>9. ASSUME NEW s \in Slots, LookUp(s) PROVE Keeps
  <2>1. CASE Goto(s, "insert")
    <3> DEFINE r == [req[s] EXCEPT !.at = "insert"]
    <3>1. r \in Requests /\ req' = [req EXCEPT ![s] = r] /\ req'[s] = r
      BY <2>1 DEF Goto, Requests, RowsOK, TypeOK
    <3>2. r.at = "insert" /\ r.path # <<>>
      BY <1>9 DEF LookUp, RowsOK, TypeOK, Requests, CarriesOK
    <3>3. CarriesOK(s)' /\ StillNoCycle(s)'
      BY <3>1, <3>2 DEF CarriesOK, StillNoCycle, Writing
    <3> QED BY <1>9, <3>1, <3>3, CheckStep DEF LookUp
  <2>2. CASE \E i \in Ids : Descend(s, i)
    <3>1. PICK r \in Requests : /\ req' = [req EXCEPT ![s] = r]
                                /\ CarriesOK(s)' /\ ~Writing(s)'
      BY <1>9, <2>2, DescendKeeps DEF LookUp
    <3> QED BY <1>9, <3>1, CheckStep DEF LookUp, StillNoCycle
  <2> QED BY <1>9, <2>1, <2>2 DEF LookUp, Siblings, Live
<1>10. ASSUME NEW s \in Slots, InsertLevel(s) PROVE Keeps
  <2>1. CASE Refuse(s)
    BY <2>1, IdleStep
  <2>2. CASE \E i \in Ids : InsertRow(i, req[s].to, Head(req[s].path)) /\ Descend(s, i)
    <3>1. PICK i \in Ids : InsertRow(i, req[s].to, Head(req[s].path)) /\ Descend(s, i)
      BY <2>2
    <3>2. req[s].path \in Seq(Slugs) /\ req[s].path # <<>> /\ req[s].to \in Ids \cup {None}
      BY <1>10 DEF InsertLevel, RowsOK, TypeOK, Requests, CarriesOK
    <3>3. Head(req[s].path) \in Slugs
      BY <3>2
    <3>4. PICK r \in Requests : /\ req' = [req EXCEPT ![s] = r]
                                /\ CarriesOK(s)' /\ ~Writing(s)'
      BY <1>10, <3>1, DescendKeeps DEF InsertLevel
    <3> QED BY <3>1, <3>2, <3>3, <3>4, InsertStep
  <2> QED BY <1>10, <2>1, <2>2 DEF InsertLevel, InsertFails
<1> QED BY <1>0, <1>1, <1>2, <1>3, <1>4, <1>5, <1>6, <1>7, <1>8, <1>9, <1>10
        DEF Keeps, Next, Create, Update, Check, Delete, Import

(* Rows and requests keep their types, and no live row hangs from one that is not
   (the foreign key and the flush of delete_category), whatever overlaps. *)
THEOREM TypeCorrect == Spec => []TypeOK
<1>1. RowsOK => TypeOK
  BY DEF RowsOK
<1> QED BY InitOK, NextKeeps, <1>1, PTL DEF Spec

(* With updates one at a time the tree stays a forest, however many creates,
   deletes and imports run beside them (_reject_cycle; two updates at once can
   close a cycle, category.py:716). *)
THEOREM ForestHolds == ASSUME OneMover PROVE Spec => []Forest
<1>1. RowsOK /\ TreeOK => Forest
  BY DEF RowsOK, TreeOK, TypeOK, Forest
<1>2. RowsOK /\ TreeOK /\ [Next]_vars => RowsOK' /\ TreeOK'
  BY NextKeeps
<1> QED BY InitOK, <1>1, <1>2, PTL DEF Spec

-----------------------------------------------------------------------------
(* How long chains get                                                     *)

(* A chain is the least set closed under parents that holds its row. *)
LEMMA ChainLeast ==
  ASSUME NEW t, NEW d \in Ids, NEW S \in SUBSET Ids, d \in S, Closed(t, S)
  PROVE  Chain(t, d) \subseteq S
BY CategoryAssumption DEF Chain

LEMMA ChainHolds ==
  ASSUME NEW t \in [Ids -> Ids \cup {None}], NEW d \in Ids
  PROVE  d \in Chain(t, d) /\ Closed(t, Chain(t, d))
<1>1. d \in Chain(t, d)
  BY CategoryAssumption DEF Chain
<1>2. ASSUME NEW a \in Chain(t, d), t[a] # None PROVE t[a] \in Chain(t, d)
  <2>1. a \in Ids /\ t[a] \in Ids
    BY <1>2, CategoryAssumption DEF Chain
  <2>2. \A S \in SUBSET Ids : d \in S /\ Closed(t, S) => a \in S
    BY CategoryAssumption DEF Chain
  <2>3. \A S \in SUBSET Ids : d \in S /\ Closed(t, S) => t[a] \in S
    BY <1>2, <2>2 DEF Closed
  <2> QED BY <2>1, <2>3, CategoryAssumption DEF Chain
<1> QED BY <1>1, <1>2 DEF Closed

LEMMA ChainSize ==
  ASSUME NEW t, NEW p \in Ids \cup {None}
  PROVE  /\ Chain(t, p) \subseteq Ids /\ IsFiniteSet(Chain(t, p))
         /\ Cardinality(Chain(t, p)) \in Nat
         /\ p = None => Chain(t, p) = {} /\ Cardinality(Chain(t, p)) = 0
<1>1. Chain(t, p) \in SUBSET Ids
  BY DEF Chain
<1>2. IsFiniteSet(Chain(t, p))
  BY <1>1, CategoryAssumption, FS_Subset
<1>3. Cardinality(Chain(t, p)) \in Nat
  BY <1>2, FS_CardinalityType
<1>4. p = None => Chain(t, p) = {}
  BY DEF Chain
<1> QED BY <1>1, <1>2, <1>3, <1>4, FS_EmptySet

(* Everything above a live row is live. *)
LEMMA ChainLive ==
  ASSUME TypeOK, NEW p \in Live \cup {None}
  PROVE  Chain(parent, p) \subseteq Live
<1>1. CASE p = None
  BY <1>1, ChainSize
<1>2. CASE p \in Live
  <2>1. Closed(parent, Live)
    BY DEF Closed, TypeOK, Live
  <2> QED BY <1>2, <2>1, ChainLeast DEF Live
<1> QED BY <1>1, <1>2

(* A row put under p is one below it. *)
LEMMA ChainUnder ==
  ASSUME NEW t \in [Ids -> Ids \cup {None}], NEW u,
         NEW i \in Ids, NEW p \in Ids \cup {None}, u[i] = p,
         \A x \in Chain(t, p) : u[x] = t[x]
  PROVE  Cardinality(Chain(u, i)) <= Cardinality(Chain(t, p)) + 1
<1> DEFINE above == Chain(t, p)
           S == above \cup {i}
<1>1. above \subseteq Ids /\ IsFiniteSet(above) /\ Cardinality(above) \in Nat
      /\ (p = None => above = {})
  BY ChainSize
<1>2. Closed(t, above) /\ p \in above \cup {None}
  BY <1>1, ChainHolds DEF Closed
<1> HIDE DEF above
<1>3. Closed(u, S)
  BY <1>2 DEF Closed, above
<1>4. Chain(u, i) \in SUBSET S
  BY <1>1, <1>3, ChainLeast
<1>5. IsFiniteSet(S) /\ Cardinality(S) <= Cardinality(above) + 1
  <2>1. /\ IsFiniteSet(above \cup {i})
        /\ Cardinality(above \cup {i})
             = IF i \in above THEN Cardinality(above) ELSE Cardinality(above) + 1
    BY <1>1, FS_AddElement
  <2> QED BY <1>1, <2>1
<1>6. Cardinality(Chain(u, i)) <= Cardinality(S)
  BY <1>4, <1>5, FS_Subset
<1>7. Cardinality(Chain(u, i)) \in Nat /\ Cardinality(S) \in Nat
  BY <1>5, ChainSize, FS_CardinalityType
<1> QED BY <1>1, <1>5, <1>6, <1>7 DEF above

(* Where the parents stay, or are cut, no chain grows. *)
LEMMA ChainShrinks ==
  ASSUME NEW t \in [Ids -> Ids \cup {None}], NEW u, NEW d \in Ids,
         \A x \in Chain(t, d) : u[x] \in {t[x], None}
  PROVE  Chain(u, d) \subseteq Chain(t, d) /\ Cardinality(Chain(u, d)) <= Cardinality(Chain(t, d))
<1>1. Closed(u, Chain(t, d))
  BY ChainHolds DEF Closed
<1>2. Chain(u, d) \in SUBSET Chain(t, d)
  BY <1>1, ChainHolds, ChainLeast, ChainSize
<1> QED BY <1>2, ChainSize, FS_Subset

(* A branch moved from i's old place to one under p, i not above it: what is
   above a row of it is what was below i, and what is above p. *)
LEMMA ChainMoves ==
  ASSUME NEW t \in [Ids -> Ids \cup {None}], NEW u, NEW v \in [Ids -> Ids \cup {None}],
         NEW i \in Ids, NEW p \in Ids \cup {None}, NEW d \in Ids,
         i \notin Chain(t, p),
         \A x \in Ids : x # i => u[x] = t[x] /\ v[x] = t[x],
         u[i] = p, v[i] = None
  PROVE  Cardinality(Chain(u, d)) <= Cardinality(Chain(t, p)) + Cardinality(Chain(v, d))
<1> DEFINE above == Chain(t, p)
           below == Chain(v, d)
<1>1. /\ above \subseteq Ids /\ IsFiniteSet(above) /\ Cardinality(above) \in Nat
      /\ below \subseteq Ids /\ IsFiniteSet(below) /\ Cardinality(below) \in Nat
  BY ChainSize
<1>2. Closed(t, above) /\ p \in above \cup {None}
  BY ChainSize, ChainHolds DEF Closed
<1>3. Closed(v, below) /\ d \in below
  BY ChainHolds
<1>4. i \notin above
  OBVIOUS
<1> HIDE DEF above, below
<1>5. Closed(u, above \cup below)
  BY <1>1, <1>2, <1>3, <1>4 DEF Closed
<1>6. Chain(u, d) \in SUBSET (above \cup below)
  BY <1>1, <1>3, <1>5, ChainLeast
<1>7. /\ IsFiniteSet(above \cup below)
      /\ Cardinality(above \cup below)
           = Cardinality(above) + Cardinality(below) - Cardinality(above \cap below)
  BY <1>1, FS_Union
<1>8. IsFiniteSet(above \cap below)
  <2>1. above \cap below \in SUBSET above
    OBVIOUS
  <2> QED BY <1>1, <2>1, FS_Subset
<1>9. Cardinality(above \cap below) \in Nat /\ Cardinality(above \cup below) \in Nat
  BY <1>7, <1>8, FS_CardinalityType
<1>10. Cardinality(Chain(u, d)) <= Cardinality(above \cup below)
  BY <1>6, <1>7, FS_Subset
<1>11. Cardinality(Chain(u, d)) \in Nat
  BY ChainSize
<1> QED BY <1>1, <1>7, <1>9, <1>10, <1>11 DEF above, below

-----------------------------------------------------------------------------
(* Requests that take turns                                                *)

(* What the request under way may rely on while nothing overlaps it: what it
   loaded is still so, and what it checked still holds. *)
Solo(s) ==
  /\ Writing(s) /\ req[s].id # None => /\ row[req[s].id] = "live"
                                       /\ parent[req[s].id] = req[s].was
                                       /\ slug[req[s].id] = req[s].had
  /\ Writing(s) \/ req[s].at = "lookup" \/ req[s].at = "insert" => req[s].to \in Live \cup {None}
  /\ req[s].at \in {"slug", "save"} /\ (req[s].id = None \/ req[s].to # req[s].was)
       => RoomFor(req[s].id, req[s].to)
  /\ req[s].at = "save" => Siblings(req[s].slug, req[s].to) \subseteq {req[s].id}
  /\ req[s].at \in {"lookup", "insert"}
       => Cardinality(Chain(parent, req[s].to)) + Len(req[s].path) <= MaxDepth
  /\ req[s].at = "insert" => Siblings(Head(req[s].path), req[s].to) = {}
  /\ req[s].at = "remove" => row[req[s].id] = "live" /\ \A j \in Live : parent[j] # req[s].id

InTurn == /\ TakingTurns
          /\ SiblingsDiffer /\ WithinDepth
          /\ \A s \in Slots : Solo(s)

(* Nothing is asked of a slot that serves nothing. *)
LEMMA IdleSolo ==
  ASSUME NEW s \in Slots, req[s].at = "idle"
  PROVE  Solo(s)
BY DEF Solo, Writing

(* Where requests take turns, only the one that moves is under way. *)
LEMMA OnlyOne ==
  ASSUME RowsOK, TakingTurns, TakingTurns', NEW s \in Slots, NEW r,
         req' = [req EXCEPT ![s] = r], req[s].at # "idle" \/ r.at # "idle"
  PROVE  \A q \in Slots : q # s => Solo(q)'
<1> SUFFICES ASSUME NEW q \in Slots, q # s PROVE Solo(q)'
  OBVIOUS
<1>1. req'[q] = req[q] /\ req'[s] = r
  BY DEF RowsOK, TypeOK
<1>2. req'[q].at = "idle"
  BY <1>1 DEF TakingTurns, Serving
<1> QED BY <1>2 DEF Solo, Writing

(* A step that leaves the rows alone leaves nothing to show but its own request. *)
LEMMA TurnCheck ==
  ASSUME RowsOK, InTurn, TakingTurns', NEW s \in Slots, NEW r,
         req' = [req EXCEPT ![s] = r], req[s].at # "idle" \/ r.at # "idle",
         UNCHANGED <<row, parent, slug>>, Solo(s)'
  PROVE  InTurn'
<1>1. \A q \in Slots : Solo(q)'
  BY OnlyOne DEF InTurn
<1>2. SiblingsDiffer' /\ WithinDepth'
  BY DEF InTurn, SiblingsDiffer, WithinDepth, Live
<1> QED BY <1>1, <1>2 DEF InTurn

(* The request ends. *)
LEMMA TurnEnds ==
  ASSUME RowsOK, InTurn, TakingTurns', NEW s \in Slots, req[s].at # "idle", Finish(s),
         SiblingsDiffer', WithinDepth'
  PROVE  InTurn'
<1>1. req' = [req EXCEPT ![s] = Idle] /\ req'[s] = Idle
  BY DEF Finish, RowsOK, TypeOK
<1>2. Solo(s)'
  BY <1>1 DEF Solo, Writing, Idle
<1> QED BY <1>1, <1>2, OnlyOne, IdleRequest DEF InTurn

LEMMA TurnRefused ==
  ASSUME RowsOK, InTurn, TakingTurns', NEW s \in Slots, req[s].at # "idle", Refuse(s)
  PROVE  InTurn'
<1>1. SiblingsDiffer' /\ WithinDepth'
  BY DEF Refuse, InTurn, SiblingsDiffer, WithinDepth, Live
<1> QED BY <1>1, TurnEnds DEF Refuse

-----------------------------------------------------------------------------
(* The writes, when nothing overlaps them                                  *)

(* A row handed out where there is room, and where nobody holds its slug. *)
LEMMA TurnInsert ==
  ASSUME RowsOK, RowsOK', SiblingsDiffer, WithinDepth,
         NEW i \in Ids, NEW p \in Live \cup {None}, NEW g \in Slugs,
         InsertRow(i, p, g), Siblings(g, p) = {},
         Cardinality(Chain(parent, p)) + 1 <= MaxDepth
  PROVE  /\ SiblingsDiffer' /\ WithinDepth'
         /\ Cardinality(Chain(parent', i)) <= Cardinality(Chain(parent, p)) + 1
<1> USE CategoryAssumption
<1>1. /\ parent \in [Ids -> Ids \cup {None}] /\ parent'[i] = p /\ slug'[i] = g
      /\ \A x \in Ids : x # i => parent'[x] = parent[x] /\ slug'[x] = slug[x]
      /\ i \notin Live /\ Live' = Live \cup {i}
  BY DEF RowsOK, TypeOK, InsertRow, Live
<1>2. p \in Ids \cup {None} /\ Chain(parent, p) \subseteq Live
  BY ChainLive DEF RowsOK, Live
<1>3. \A x \in Chain(parent, p) : parent'[x] = parent[x]
  BY <1>1, <1>2 DEF Live
<1>4. Cardinality(Chain(parent', i)) <= Cardinality(Chain(parent, p)) + 1
  BY <1>1, <1>2, <1>3, ChainUnder
<1>5. SiblingsDiffer'
  <2> SUFFICES ASSUME NEW j \in Live', NEW k \in Live', j # k,
                      parent'[j] = parent'[k], slug'[j] = slug'[k]
               PROVE  FALSE
    BY DEF SiblingsDiffer
  <2>1. \A x \in Live : parent[x] # p \/ slug[x] # g
    BY DEF Siblings
  <2>2. j \in Live /\ k \in Live
    BY <1>1, <2>1 DEF Live
  <2>3. parent[j] = parent[k] /\ slug[j] = slug[k]
    BY <1>1, <2>2 DEF Live
  <2> QED BY <2>2, <2>3 DEF SiblingsDiffer
<1>6. WithinDepth'
  <2> SUFFICES ASSUME NEW d \in Live' PROVE Cardinality(Chain(parent', d)) <= MaxDepth
    BY DEF WithinDepth
  <2>1. Cardinality(Chain(parent', d)) \in Nat /\ Cardinality(Chain(parent, p)) \in Nat
    BY <1>1, <1>2, ChainSize DEF Live
  <2>2. CASE d = i
    BY <1>4, <2>1, <2>2
  <2>3. CASE d # i
    <3>1. d \in Live /\ d \in Ids
      BY <1>1, <2>3 DEF Live
    <3>2. Chain(parent, d) \subseteq Live
      BY <3>1, ChainLive DEF RowsOK
    <3>3. \A x \in Chain(parent, d) : parent'[x] \in {parent[x], None}
      BY <1>1, <3>2 DEF Live
    <3>4. Cardinality(Chain(parent', d)) <= Cardinality(Chain(parent, d))
      BY <1>1, <3>1, <3>3, ChainShrinks
    <3>5. Cardinality(Chain(parent, d)) <= MaxDepth /\ Cardinality(Chain(parent, d)) \in Nat
      BY <3>1, ChainSize DEF WithinDepth
    <3> QED BY <2>1, <3>4, <3>5
  <2> QED BY <2>2, <2>3
<1> QED BY <1>4, <1>5, <1>6

(* An update that moved no row and gave it a slug its siblings do not hold, or
   moved a branch to where there is room for it. *)
LEMMA TurnMove ==
  ASSUME RowsOK, SiblingsDiffer, WithinDepth,
         NEW i \in Live, NEW p \in Live \cup {None}, NEW g \in Slugs,
         UNCHANGED row,
         parent' = [parent EXCEPT ![i] = p], slug' = [slug EXCEPT ![i] = g],
         Siblings(g, p) \subseteq {i},
         p # parent[i] => RoomFor(i, p) /\ i \notin Chain(parent, p)
  PROVE  SiblingsDiffer' /\ WithinDepth'
<1> USE CategoryAssumption
<1>1. /\ parent \in [Ids -> Ids \cup {None}] /\ parent'[i] = p /\ slug'[i] = g /\ i \in Ids
      /\ \A x \in Ids : x # i => parent'[x] = parent[x] /\ slug'[x] = slug[x]
      /\ Live' = Live
  BY DEF RowsOK, TypeOK, Live
<1>2. SiblingsDiffer'
  <2> SUFFICES ASSUME NEW j \in Live, NEW k \in Live, j # k,
                      parent'[j] = parent'[k], slug'[j] = slug'[k]
               PROVE  FALSE
    BY <1>1 DEF SiblingsDiffer
  <2>1. \A x \in Live : x # i => parent[x] # p \/ slug[x] # g
    BY DEF Siblings
  <2>2. j # i /\ k # i
    BY <1>1, <2>1 DEF Live
  <2>3. parent[j] = parent[k] /\ slug[j] = slug[k]
    BY <1>1, <2>2 DEF Live
  <2> QED BY <2>3 DEF SiblingsDiffer
<1>3. WithinDepth'
  <2> SUFFICES ASSUME NEW d \in Live PROVE Cardinality(Chain(parent', d)) <= MaxDepth
    BY <1>1 DEF WithinDepth
  <2>1. d \in Ids /\ p \in Ids \cup {None}
    BY DEF Live
  <2>2. Cardinality(Chain(parent, d)) <= MaxDepth
    BY DEF WithinDepth
  <2>3. /\ Cardinality(Chain(parent, d)) \in Nat /\ Cardinality(Chain(parent', d)) \in Nat
        /\ Cardinality(Chain(parent, p)) \in Nat
    BY <2>1, ChainSize
  <2>4. CASE p = parent[i]
    <3>1. \A x \in Chain(parent, d) : parent'[x] \in {parent[x], None}
      BY <1>1, <2>1, <2>4, ChainSize
    <3>2. Cardinality(Chain(parent', d)) <= Cardinality(Chain(parent, d))
      BY <1>1, <2>1, <3>1, ChainShrinks
    <3> QED BY <2>2, <2>3, <3>2
  <2>5. CASE p # parent[i]
    <3> DEFINE v == Cut(i)
    <3>1. /\ v \in [Ids -> Ids \cup {None}] /\ v[i] = None
          /\ \A x \in Ids : x # i => v[x] = parent[x]
      BY <1>1 DEF Cut
    <3>2. Cardinality(Chain(v, d)) \in Nat
      BY <2>1, ChainSize
    <3>3. CASE i \in Chain(v, d)
      <4>1. Chain(parent, p) \cap Live = Chain(parent, p)
        BY ChainLive DEF RowsOK
      <4>2. Cardinality(Chain(parent, p)) + Cardinality(Chain(v, d)) <= MaxDepth
        BY <2>5, <3>3, <4>1 DEF RoomFor, Branch, Live
      <4> HIDE DEF v
      <4>3. Cardinality(Chain(parent', d)) <= Cardinality(Chain(parent, p)) + Cardinality(Chain(v, d))
        BY <1>1, <2>1, <2>5, <3>1, ChainMoves
      <4> QED BY <2>3, <3>2, <4>2, <4>3
    <3>4. CASE i \notin Chain(v, d)
      <4> HIDE DEF v
      <4>1. Chain(v, d) \subseteq Ids
        BY <2>1, ChainSize
      <4>2. \A x \in Chain(v, d) : parent'[x] \in {v[x], None}
        BY <1>1, <3>1, <3>4, <4>1
      <4>3. Cardinality(Chain(parent', d)) <= Cardinality(Chain(v, d))
        BY <2>1, <3>1, <4>2, ChainShrinks
      <4>4. \A x \in Chain(parent, d) : v[x] \in {parent[x], None}
        BY <2>1, <3>1, ChainSize
      <4>5. Cardinality(Chain(v, d)) <= Cardinality(Chain(parent, d))
        BY <1>1, <2>1, <4>4, ChainShrinks
      <4> QED BY <2>2, <2>3, <3>2, <4>3, <4>5
    <3> QED BY <3>3, <3>4
  <2> QED BY <2>4, <2>5
<1> QED BY <1>2, <1>3

(* A row deleted that has no child. *)
LEMMA TurnRemove ==
  ASSUME RowsOK, SiblingsDiffer, WithinDepth, NEW s \in Slots, Remove(s),
         \A j \in Live : parent[j] # req[s].id
  PROVE  SiblingsDiffer' /\ WithinDepth'
<1> DEFINE i == req[s].id
<1>1. i \in Ids
  BY DEF RowsOK, CarriesOK, Remove
<1>2. /\ parent \in [Ids -> Ids \cup {None}] /\ Live' = Live \ {i}
      /\ \A x \in Ids : parent'[x] \in {parent[x], None}
      /\ \A x \in Live \ {i} : parent'[x] = parent[x] /\ slug'[x] = slug[x]
  BY <1>1 DEF RowsOK, TypeOK, Remove, Live
<1> HIDE DEF i
<1>3. SiblingsDiffer'
  BY <1>2 DEF SiblingsDiffer
<1>4. WithinDepth'
  <2> SUFFICES ASSUME NEW d \in Live PROVE Cardinality(Chain(parent', d)) <= MaxDepth
    BY <1>2 DEF WithinDepth
  <2>1. d \in Ids /\ Cardinality(Chain(parent, d)) <= MaxDepth
    BY DEF Live, WithinDepth
  <2>2. \A x \in Chain(parent, d) : parent'[x] \in {parent[x], None}
    BY <1>2, <2>1, ChainSize
  <2>3. Cardinality(Chain(parent', d)) <= Cardinality(Chain(parent, d))
    BY <1>2, <2>1, <2>2, ChainShrinks
  <2>4. Cardinality(Chain(parent', d)) \in Nat /\ Cardinality(Chain(parent, d)) \in Nat
    BY <2>1, ChainSize
  <2> QED BY <2>1, <2>3, <2>4, CategoryAssumption
<1> QED BY <1>3, <1>4

(* A level of an import resolved to i, which lies under the level before. *)
LEMMA TurnDescends ==
  ASSUME RowsOK, InTurn, TakingTurns', NEW s \in Slots, req[s].at \in {"lookup", "insert"},
         NEW i \in Ids, Descend(s, i), row'[i] = "live",
         Cardinality(Chain(parent', i)) <= Cardinality(Chain(parent, req[s].to)) + 1,
         SiblingsDiffer', WithinDepth'
  PROVE  InTurn'
<1> USE CategoryAssumption
<1> DEFINE path == req[s].path
           rest == Tail(path)
           r == IF rest = <<>> THEN Idle
                ELSE [Idle EXCEPT !.at = "lookup", !.to = i, !.path = rest]
<1>1. /\ path \in Seq(Slugs) /\ path # <<>> /\ req[s].to \in Ids \cup {None}
  BY DEF RowsOK, TypeOK, Requests, CarriesOK
<1>2. Len(path) \in Nat /\ Len(rest) = Len(path) - 1
  BY <1>1
<1>3. req' = [req EXCEPT ![s] = r] /\ req'[s] = r
  BY DEF Descend, RowsOK, TypeOK
<1>4. Cardinality(Chain(parent, req[s].to)) + Len(path) <= MaxDepth
  BY DEF InTurn, Solo
<1>5. Cardinality(Chain(parent, req[s].to)) \in Nat /\ Cardinality(Chain(parent', i)) \in Nat
  BY <1>1, ChainSize
<1>6. Cardinality(Chain(parent', i)) + Len(rest) <= MaxDepth
  BY <1>2, <1>4, <1>5
<1>7. Solo(s)'
  <2>1. CASE rest = <<>>
    BY <1>3, <2>1 DEF Solo, Writing, Idle
  <2>2. CASE rest # <<>>
    <3>1. r.at = "lookup" /\ r.to = i /\ r.path = rest
      BY <2>2 DEF Idle
    <3>2. i \in Live'
      BY DEF Live
    <3> HIDE DEF r, rest
    <3> QED BY <1>3, <1>6, <3>1, <3>2 DEF Solo, Writing
  <2> QED BY <2>1, <2>2
<1>8. \A q \in Slots : q # s => Solo(q)'
  BY <1>3, OnlyOne DEF InTurn
<1> QED BY <1>7, <1>8 DEF InTurn

LEMMA InitInTurn == Init => InTurn
<1> SUFFICES ASSUME Init PROVE InTurn
  OBVIOUS
<1>1. \A s \in Slots : req[s].at = "idle"
  BY DEF Init, Idle
<1>2. Live = {}
  BY DEF Init, Live
<1> QED BY <1>1, <1>2, IdleSolo
        DEF InTurn, TakingTurns, Serving, SiblingsDiffer, WithinDepth

LEMMA NextInTurn ==
  ASSUME RowsOK, TreeOK, InTurn, Next, RowsOK', TakingTurns'
  PROVE  InTurn'
<1> USE CategoryAssumption
<1>1. ASSUME NEW s \in Slots, StartCreate(s) PROVE InTurn'
  <2>1. PICK p \in Live \cup {None}, g \in Slugs :
          req' = [req EXCEPT ![s] = [Idle EXCEPT !.at = "depth", !.to = p, !.slug = g]]
    BY <1>1 DEF StartCreate
  <2> DEFINE r == [Idle EXCEPT !.at = "depth", !.to = p, !.slug = g]
  <2>2. r.at = "depth" /\ r.id = None /\ r.to = p
    BY DEF Idle
  <2>3. req' = [req EXCEPT ![s] = r] /\ req'[s] = r
    BY <2>1 DEF RowsOK, TypeOK
  <2> HIDE DEF r
  <2>4. Solo(s)'
    BY <1>1, <2>2, <2>3 DEF StartCreate, Solo, Writing, Live
  <2> QED BY <1>1, <2>2, <2>3, <2>4, TurnCheck DEF StartCreate
<1>2. ASSUME NEW s \in Slots, StartUpdate(s) PROVE InTurn'
  <2>1. PICK i \in Live, p \in Live \cup {None}, g \in Slugs :
          /\ p # parent[i] => NoCycle(i, p)
          /\ req' = [req EXCEPT ![s] =
                       [Idle EXCEPT !.at = IF p = parent[i] THEN "slug" ELSE "depth",
                                    !.id = i, !.to = p, !.was = parent[i],
                                    !.slug = g, !.had = slug[i]]]
    BY <1>2 DEF StartUpdate
  <2> DEFINE r == [Idle EXCEPT !.at = IF p = parent[i] THEN "slug" ELSE "depth",
                               !.id = i, !.to = p, !.was = parent[i],
                               !.slug = g, !.had = slug[i]]
  <2>2. /\ r.at = IF p = parent[i] THEN "slug" ELSE "depth"
        /\ r.id = i /\ r.to = p /\ r.was = parent[i] /\ r.slug = g /\ r.had = slug[i]
    BY DEF Idle
  <2>3. req' = [req EXCEPT ![s] = r] /\ req'[s] = r
    BY <2>1 DEF RowsOK, TypeOK
  <2>4. row[i] = "live" /\ i \in Ids
    BY DEF Live
  <2> HIDE DEF r
  <2>5. Solo(s)'
    BY <1>2, <2>2, <2>3, <2>4 DEF StartUpdate, Solo, Writing, Live
  <2> QED BY <1>2, <2>2, <2>3, <2>5, TurnCheck DEF StartUpdate
<1>3. ASSUME NEW s \in Slots, CheckDepth(s) \/ CheckSlug(s) PROVE InTurn'
  <2>1. CASE Finish(s)
    BY <1>3, <2>1, TurnRefused DEF CheckDepth, CheckSlug, Refuse
  <2>2. CASE \/ CheckDepth(s) /\ Goto(s, "slug") /\ RoomFor(req[s].id, req[s].to)
             \/ CheckSlug(s) /\ Goto(s, "save") /\ Siblings(req[s].slug, req[s].to) \subseteq {req[s].id}
    <3>1. PICK label \in {"slug", "save"} : Goto(s, label)
      BY <2>2
    <3> DEFINE r == [req[s] EXCEPT !.at = label]
    <3>2. /\ req' = [req EXCEPT ![s] = r] /\ req'[s] = r
          /\ r.slug = req[s].slug /\ r.id = req[s].id /\ r.to = req[s].to
          /\ r.was = req[s].was /\ r.had = req[s].had /\ r.at = label
      BY <3>1 DEF Goto, RowsOK, TypeOK, Requests
    <3>3. Writing(s) /\ Solo(s) /\ UNCHANGED <<row, parent, slug>>
      BY <1>3 DEF CheckDepth, CheckSlug, Writing, InTurn
    <3>4. \/ req[s].at = "depth" /\ label = "slug" /\ RoomFor(req[s].id, req[s].to)
          \/ /\ req[s].at = "slug" /\ label = "save"
             /\ Siblings(req[s].slug, req[s].to) \subseteq {req[s].id}
      <4>1. Goto(s, "slug") => label = "slug"
        BY <3>2 DEF Goto, RowsOK, TypeOK, Requests
      <4>2. Goto(s, "save") => label = "save"
        BY <3>2 DEF Goto, RowsOK, TypeOK, Requests
      <4> QED BY <2>2, <4>1, <4>2 DEF CheckDepth, CheckSlug
    <3> HIDE DEF r
    <3>5. label = "save" => Siblings(req[s].slug, req[s].to) \subseteq {req[s].id}
      BY <3>4
    <3>6. req[s].id = None \/ req[s].to # req[s].was => RoomFor(req[s].id, req[s].to)
      BY <3>3, <3>4 DEF Solo
    <3>7. /\ \A i, p : RoomFor(i, p)' = RoomFor(i, p)
          /\ \A g, p : Siblings(g, p)' = Siblings(g, p)
      BY <3>3 DEF RoomFor, Branch, Cut, Siblings, Live
    <3>8. Solo(s)'
      BY <3>2, <3>3, <3>5, <3>6, <3>7 DEF Solo, Writing, Live
    <3> QED BY <3>2, <3>3, <3>8, TurnCheck DEF Writing
  <2>3. Siblings(req[s].slug, req[s].to) \ {req[s].id} = {}
          <=> Siblings(req[s].slug, req[s].to) \subseteq {req[s].id}
    OBVIOUS
  <2> QED BY <1>3, <2>1, <2>2, <2>3 DEF CheckDepth, CheckSlug
<1>4. ASSUME NEW s \in Slots, SaveCreate(s) PROVE InTurn'
  <2>1. req[s].at = "save" /\ Solo(s) /\ Writing(s) /\ req[s].id = None
    BY <1>4 DEF SaveCreate, InTurn, Writing
  <2>2. CASE Refuse(s)
    BY <2>1, <2>2, TurnRefused
  <2>3. CASE Finish(s) /\ \E i \in Ids : InsertRow(i, req[s].to, req[s].slug)
    <3>1. PICK i \in Ids : InsertRow(i, req[s].to, req[s].slug)
      BY <2>3
    <3>2. req[s].to \in Live \cup {None} /\ req[s].slug \in Slugs
      BY <2>1 DEF Solo, RowsOK, CarriesOK
    <3>3. Siblings(req[s].slug, req[s].to) = {}
      BY <2>1 DEF Solo, Siblings, Live
    <3>4. RoomFor(req[s].id, req[s].to)
      BY <2>1 DEF Solo
    <3>5. Chain(parent, req[s].to) \cap Live = Chain(parent, req[s].to)
      BY <3>2, ChainLive DEF RowsOK
    <3>6. Cardinality(Chain(parent, req[s].to)) + 1 <= MaxDepth
      BY <3>4, <3>5 DEF RoomFor
    <3>7. SiblingsDiffer' /\ WithinDepth'
      BY <3>1, <3>2, <3>3, <3>6, TurnInsert DEF InTurn
    <3> QED BY <2>1, <2>3, <3>7, TurnEnds
  <2> QED BY <1>4, <2>2, <2>3 DEF SaveCreate, InsertFails
<1>5. ASSUME NEW s \in Slots, SaveUpdate(s) PROVE InTurn'
  <2> DEFINE i == req[s].id
             p == req[s].to
             g == req[s].slug
  <2>1. /\ req[s].at = "save" /\ Solo(s) /\ Writing(s) /\ i # None /\ i \in Live
    BY <1>5 DEF SaveUpdate, InTurn, Writing, Solo, RowsOK, TypeOK, Requests, Live
  <2>2. CASE Refuse(s)
    BY <2>1, <2>2, TurnRefused
  <2>3. CASE ~Refuse(s)
    <3>1. /\ UNCHANGED row /\ Finish(s)
          /\ parent' = [parent EXCEPT ![i] = IF p = req[s].was THEN parent[i] ELSE p]
          /\ slug' = [slug EXCEPT ![i] = IF g = req[s].had THEN slug[i] ELSE g]
      BY <1>5, <2>3 DEF SaveUpdate
    <3>2. parent[i] = req[s].was /\ slug[i] = req[s].had
      BY <2>1 DEF Solo
    <3>3. parent' = [parent EXCEPT ![i] = p] /\ slug' = [slug EXCEPT ![i] = g]
      BY <3>1, <3>2
    <3>4. p \in Live \cup {None} /\ g \in Slugs /\ Siblings(g, p) \subseteq {i}
      BY <2>1 DEF Solo, RowsOK, CarriesOK
    <3>5. p # parent[i] => RoomFor(i, p)
      BY <2>1, <3>2 DEF Solo
    <3>6. p # parent[i] => i \notin Chain(parent, p)
      <4>1. CASE p = None
        BY <4>1, ChainSize
      <4>2. CASE p # None
        BY <2>1, <3>2, <4>2 DEF TreeOK, StillNoCycle, NoCycle
      <4> QED BY <4>1, <4>2
    <3> HIDE DEF i, p, g
    <3>7. SiblingsDiffer' /\ WithinDepth'
      BY <2>1, <3>1, <3>3, <3>4, <3>5, <3>6, TurnMove DEF InTurn
    <3> QED BY <2>1, <3>1, <3>7, TurnEnds
  <2> QED BY <2>2, <2>3
<1>6. ASSUME NEW s \in Slots, StartDelete(s) PROVE InTurn'
  <2>1. PICK i \in Live :
          /\ \A j \in Live : parent[j] # i
          /\ req' = [req EXCEPT ![s] = [Idle EXCEPT !.at = "remove", !.id = i]]
    BY <1>6 DEF StartDelete
  <2> DEFINE r == [Idle EXCEPT !.at = "remove", !.id = i]
  <2>2. r.at = "remove" /\ r.id = i
    BY DEF Idle
  <2>3. req' = [req EXCEPT ![s] = r] /\ req'[s] = r
    BY <2>1 DEF RowsOK, TypeOK
  <2> HIDE DEF r
  <2>4. Solo(s)'
    BY <1>6, <2>1, <2>2, <2>3 DEF StartDelete, Solo, Writing, Live
  <2> QED BY <1>6, <2>2, <2>3, <2>4, TurnCheck DEF StartDelete
<1>7. ASSUME NEW s \in Slots, Remove(s) PROVE InTurn'
  <2>1. Solo(s) /\ req[s].at = "remove" /\ Finish(s)
    BY <1>7 DEF InTurn, Remove
  <2>2. SiblingsDiffer' /\ WithinDepth'
    BY <1>7, <2>1, TurnRemove DEF InTurn, Solo
  <2> QED BY <2>1, <2>2, TurnEnds
<1>8. ASSUME NEW s \in Slots, StartImport(s) PROVE InTurn'
  <2>1. PICK path \in Paths :
          req' = [req EXCEPT ![s] = [Idle EXCEPT !.at = "lookup", !.path = path]]
    BY <1>8 DEF StartImport
  <2> DEFINE r == [Idle EXCEPT !.at = "lookup", !.path = path]
  <2>2. Len(path) \in Nat /\ Len(path) <= MaxDepth
    BY DEF Paths
  <2>3. r.at = "lookup" /\ r.to = None /\ r.path = path
    BY DEF Idle
  <2>4. req' = [req EXCEPT ![s] = r] /\ req'[s] = r
    BY <2>1 DEF RowsOK, TypeOK
  <2>5. Cardinality(Chain(parent', None)) = 0
    BY ChainSize
  <2> HIDE DEF r
  <2>6. Solo(s)'
    BY <2>2, <2>3, <2>4, <2>5 DEF Solo, Writing
  <2> QED BY <1>8, <2>3, <2>4, <2>6, TurnCheck DEF StartImport
<1>9. ASSUME NEW s \in Slots, LookUp(s) PROVE InTurn'
  <2> DEFINE to == req[s].to
             g == Head(req[s].path)
  <2>1. /\ req[s].at = "lookup" /\ Solo(s) /\ UNCHANGED <<row, parent, slug>>
        /\ to \in Live \cup {None} /\ to \in Ids \cup {None}
    BY <1>9 DEF LookUp, InTurn, Solo, Live
  <2>2. SiblingsDiffer' /\ WithinDepth'
    BY <2>1 DEF InTurn, SiblingsDiffer, WithinDepth, Live
  <2>3. CASE Siblings(g, to) = {} /\ Goto(s, "insert")
    <3> DEFINE r == [req[s] EXCEPT !.at = "insert"]
    <3>1. /\ req' = [req EXCEPT ![s] = r] /\ req'[s] = r
          /\ r.to = to /\ r.path = req[s].path /\ r.at = "insert"
      BY <2>3 DEF Goto, RowsOK, TypeOK, Requests
    <3>2. Siblings(g, to)' = {} /\ to' = r.to /\ g' = Head(r.path)
      BY <2>1, <2>3, <3>1 DEF Siblings, Live
    <3> HIDE DEF r
    <3>3. Solo(s)'
      BY <2>1, <3>1, <3>2 DEF Solo, Writing, Live
    <3> QED BY <2>1, <3>1, <3>3, TurnCheck
  <2>4. CASE \E i \in Siblings(g, to) : Descend(s, i)
    <3>1. PICK i \in Siblings(g, to) : Descend(s, i)
      BY <2>4
    <3>2. i \in Ids /\ row'[i] = "live" /\ parent'[i] = to
      BY <2>1 DEF Siblings, Live
    <3>3. Cardinality(Chain(parent', i)) <= Cardinality(Chain(parent, to)) + 1
      BY <2>1, <3>2, ChainUnder DEF RowsOK, TypeOK
    <3> QED BY <2>1, <2>2, <3>1, <3>2, <3>3, TurnDescends
  <2> QED BY <1>9, <2>3, <2>4 DEF LookUp
<1>10. ASSUME NEW s \in Slots, InsertLevel(s) PROVE InTurn'
  <2> DEFINE to == req[s].to
             path == req[s].path
  <2>1. req[s].at = "insert" /\ Solo(s)
    BY <1>10 DEF InsertLevel, InTurn
  <2>2. CASE Refuse(s)
    BY <2>1, <2>2, TurnRefused
  <2>3. CASE \E i \in Ids : InsertRow(i, to, Head(path)) /\ Descend(s, i)
    <3>1. PICK i \in Ids : InsertRow(i, to, Head(path)) /\ Descend(s, i)
      BY <2>3
    <3>2. /\ path \in Seq(Slugs) /\ path # <<>> /\ to \in Live \cup {None}
          /\ Cardinality(Chain(parent, to)) + Len(path) <= MaxDepth
          /\ Siblings(Head(path), to) = {}
      BY <2>1 DEF RowsOK, TypeOK, Requests, CarriesOK, Solo
    <3>3. Head(path) \in Slugs /\ Len(path) \in Nat /\ Len(path) >= 1
      BY <3>2
    <3>4. Cardinality(Chain(parent, to)) \in Nat
      BY <3>2, ChainSize DEF Live
    <3>5. Cardinality(Chain(parent, to)) + 1 <= MaxDepth
      BY <3>2, <3>3, <3>4
    <3> HIDE DEF path, to
    <3>6. /\ SiblingsDiffer' /\ WithinDepth'
          /\ Cardinality(Chain(parent', i)) <= Cardinality(Chain(parent, to)) + 1
      BY <3>1, <3>2, <3>3, <3>5, TurnInsert DEF InTurn
    <3>7. row'[i] = "live"
      BY <3>1 DEF InsertRow, RowsOK, TypeOK
    <3> QED BY <2>1, <3>1, <3>6, <3>7, TurnDescends DEF to
  <2> QED BY <1>10, <2>2, <2>3 DEF InsertLevel, InsertFails
<1> QED BY <1>1, <1>2, <1>3, <1>4, <1>5, <1>6, <1>7, <1>8, <1>9, <1>10
        DEF Next, Create, Update, Check, Delete, Import

-----------------------------------------------------------------------------
(* The invariant of histories: whatever overlaps, rows keep their types; until
   something does, the tree is as the checks mean to keep it. *)
TurnsInv == RowsOK /\ alone \in BOOLEAN /\ (alone => TreeOK /\ InTurn)

LEMMA InitTurns == TurnsInit => TurnsInv
BY InitOK, InitInTurn DEF TurnsInit, TurnsInv

LEMMA NextTurns == TurnsInv /\ [TurnsNext]_<<vars, alone>> => TurnsInv'
<1> SUFFICES ASSUME TurnsInv, [TurnsNext]_<<vars, alone>> PROVE TurnsInv'
  OBVIOUS
<1>1. CASE TurnsNext
  <2>1. Next /\ alone' = (alone /\ TakingTurns')
    BY <1>1 DEF TurnsNext
  <2>2. RowsOK' /\ (TreeOK /\ TakingTurns => TreeOK')
    BY <2>1, NextKeeps DEF TurnsInv
  <2>3. alone' \in BOOLEAN
    BY <2>1 DEF TurnsInv
  <2>4. ASSUME alone' PROVE TreeOK' /\ InTurn'
    <3>1. alone /\ TakingTurns'
      BY <2>1, <2>4
    <3>2. TreeOK /\ InTurn /\ RowsOK
      BY <3>1 DEF TurnsInv
    <3>3. TakingTurns
      BY <3>2 DEF InTurn
    <3> QED BY <2>1, <2>2, <3>1, <3>2, <3>3, NextInTurn
  <2> QED BY <2>2, <2>3, <2>4 DEF TurnsInv
<1>2. CASE UNCHANGED <<vars, alone>>
  <2>1. RowsOK' /\ (TreeOK => TreeOK')
    <3>1. RowsOK'
      BY <1>2 DEF TurnsInv, vars, RowsOK, TypeOK, CarriesOK, Writing, Live
    <3>2. TreeOK => TreeOK'
      BY <1>2 DEF vars, TreeOK, StillNoCycle, Writing, NoCycle, Acyclic, Live
    <3> QED BY <3>1, <3>2
  <2>2. TakingTurns => TakingTurns'
    BY <1>2 DEF vars, TakingTurns, Serving
  <2>3. SiblingsDiffer /\ WithinDepth => SiblingsDiffer' /\ WithinDepth'
    BY <1>2 DEF vars, SiblingsDiffer, WithinDepth, Live
  <2>4. ASSUME NEW s \in Slots, Solo(s) PROVE Solo(s)'
    BY <1>2, <2>4 DEF vars, Solo, Writing, RoomFor, Branch, Cut, Siblings, Live
  <2> QED BY <1>2, <2>1, <2>2, <2>3, <2>4 DEF TurnsInv, InTurn
<1> QED BY <1>1, <1>2

(* As long as requests take turns, no branch gets deeper than the cap, whether it
   is created, moved or imported (_reject_depth_overflow, ensure_category_path). *)
THEOREM DepthHolds == TurnsSpec => []WithinDepthInTurn
<1>1. TurnsInv => WithinDepthInTurn
  BY DEF TurnsInv, InTurn, WithinDepthInTurn
<1> QED BY InitTurns, NextTurns, <1>1, PTL DEF TurnsSpec

(* As long as requests take turns, no two siblings hold one slug, roots included,
   which no constraint of the database says (_reject_duplicate_slug). *)
THEOREM NoTwins == TurnsSpec => []SiblingsDifferInTurn
<1>1. TurnsInv => SiblingsDifferInTurn
  BY DEF TurnsInv, InTurn, SiblingsDifferInTurn
<1> QED BY InitTurns, NextTurns, <1>1, PTL DEF TurnsSpec
=============================================================================
