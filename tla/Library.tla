-------------------------------- MODULE Library --------------------------------
(***************************************************************************)
(* Reading the library: the paginated listing of media objects, its        *)
(* visibility scope and its category filter (controllers/objects.py), and  *)
(* the category tree those are read through (controllers/category.py,      *)
(* core/category_tree.py).                                                 *)
(*                                                                         *)
(* A client walks the listing page by page while objects and categories go *)
(* on changing.  A page is several statements, each on the rows committed  *)
(* by then: the category branch first, then the objects.                   *)
(***************************************************************************)
EXTENDS Naturals, Sequences, FiniteSetsExt

CONSTANTS Media,        \* ids of media objects: numbers, for their order
          Keys,         \* values of the column sorted by: numbers
          Categories,   \* ids of categories
          Users, Superusers,
          TenantOf,     \* per user: tenant, or Null
          OwnerOf,      \* per object and per category: owner_user_id, owner_id
          Slots,        \* clients walking the listing
          Callers,      \* who walks: users, or Anonymous
          Queries,      \* the parameters they list with
          Limit,        \* ObjectListParams.limit
          Start,        \* what the database holds at first
          EditCap,      \* bound: changes made during a walk
          Anonymous, Null

Owned == Media \cup Categories

(* user_tenant_id: a row's tenant is that of whoever wrote it. *)
Tenant(x) == TenantOf[OwnerOf[x]]

(* _scope_key: what two categories must agree on to live in one tree. *)
ScopeKey(c) == IF Tenant(c) # Null THEN <<Tenant(c), Null>> ELSE <<Null, OwnerOf[c]>>

(* branch: category_id; deep: include_descendants; unfiled: uncategorized;
   owner, deleted: owner_user_id and include_deleted, heeded for superusers; down: order *)
Query == [branch : Categories \cup {Null}, deep : BOOLEAN, unfiled : BOOLEAN,
          owner : Users \cup {Null}, deleted : BOOLEAN, down : BOOLEAN]

Database == [state : [Media -> {"new", "live", "deleted"}],
             visibility : [Media -> {"private", "tenant", "public", "sensitive"}],
             key : [Media -> Keys], filed : [Media -> SUBSET Categories],
             exists : SUBSET Categories, parent : [Categories -> Categories \cup {Null}]]

ASSUME LibraryAssumption ==
  /\ Superusers \subseteq Users /\ Callers \subseteq Users \cup {Anonymous}
  /\ DOMAIN TenantOf = Users /\ OwnerOf \in [Owned -> Users]
  /\ Queries \subseteq Query
  /\ \A q \in Queries : q.unfiled => q.branch = Null
  /\ Limit \in Nat \ {0} /\ EditCap \in Nat
  /\ Media \subseteq Nat /\ Keys \subseteq Nat
  /\ IsFiniteSet(Media) /\ IsFiniteSet(Categories)
  /\ Anonymous \notin Users /\ Null \notin Categories /\ Null \notin Callers

(* Foreign keys hold at first, and parents are in the tree of their children. *)
ASSUME StartAssumption ==
  /\ Start \subseteq Database
  /\ \A t \in Start :
       /\ \A o \in Media : t.filed[o] \subseteq t.exists
       /\ \A c \in Categories : t.parent[c] # Null =>
            /\ c \in t.exists /\ t.parent[c] \in t.exists
            /\ ScopeKey(t.parent[c]) = ScopeKey(c)

VARIABLES state,       \* per object: "new", "live", "deleted" (deleted_at is set)
          visibility,  \* per object
          key,         \* per object: the column the listing is sorted by
          filed,       \* per object: its categories
          exists,      \* categories there are
          parent,      \* per category: parent_id
          walk,        \* per slot: the walk of a client
          edits        \* changes made since

libraryVars == <<state, visibility, key, filed, exists, parent, walk, edits>>
tables == <<state, visibility, key, filed, exists, parent>>

(* at: next step; cursor: of the last page, if any; branch: category ids read
   for this page; page: ids on it; times: how often each object was returned;
   steady: objects that matched all along and kept their key; fixed: objects
   that kept their key *)
NoWalk == [at |-> "idle", caller |-> Null, query |-> Null, cursor |-> <<>>, branch |-> {},
           page |-> {}, times |-> [o \in Media |-> 0], steady |-> {}, fixed |-> {}]

LibraryTypeOK ==
  /\ state \in [Media -> {"new", "live", "deleted"}]
  /\ visibility \in [Media -> {"private", "tenant", "public", "sensitive"}]
  /\ key \in [Media -> Keys]
  /\ exists \subseteq Categories
  /\ filed \in [Media -> SUBSET exists]
  /\ parent \in [Categories -> exists \cup {Null}]
  /\ \A c \in Categories \ exists : parent[c] = Null
  /\ edits \in 0 .. EditCap
  /\ \A s \in Slots : /\ walk[s].at \in {"idle", "branch", "list", "done"}
                      /\ walk[s].caller \in Callers \cup {Null}
                      /\ walk[s].branch \subseteq Categories
                      /\ walk[s].page \subseteq Media
                      /\ walk[s].times \in [Media -> Nat]

LibraryInit ==
  /\ \E t \in Start : /\ state = t.state /\ visibility = t.visibility /\ key = t.key
                      /\ filed = t.filed /\ exists = t.exists /\ parent = t.parent
  /\ walk = [s \in Slots |-> NoWalk]
  /\ edits = 0

-----------------------------------------------------------------------------
(* Who may read what                                                       *)

(* require_visibility_access: the rule for one object, fetched by id. *)
MayRead(u, o) ==
  \/ visibility[o] = "public"
  \/ /\ u # Anonymous
     /\ \/ u \in Superusers \/ OwnerOf[o] = u
        \/ visibility[o] = "tenant" /\ TenantOf[u] # Null /\ Tenant(o) = TenantOf[u]

(* _fetch_object before it. *)
Fetchable(u, o) == state[o] = "live" /\ MayRead(u, o)

(* The tenant clause without its check for NULL. *)
ScopedByTenant(u, q, o) ==
  /\ state[o] = "live"
  /\ \/ visibility[o] = "public"
     \/ u # Anonymous /\ (u \in Superusers \/ OwnerOf[o] = u)
     \/ u # Anonymous /\ visibility[o] = "tenant" /\ Tenant(o) = TenantOf[u]

(* _scoped_query: the rule for a listing, as its WHERE. *)
Scoped(u, q, o) ==
  /\ state[o] # "new"
  /\ IF u = Anonymous THEN visibility[o] = "public" /\ state[o] = "live"
     ELSE IF u \in Superusers
     THEN (q.owner = Null \/ OwnerOf[o] = q.owner) /\ (q.deleted \/ state[o] = "live")
     ELSE /\ state[o] = "live"
          /\ \/ OwnerOf[o] = u \/ visibility[o] = "public"
             \/ TenantOf[u] # Null /\ visibility[o] = "tenant" /\ Tenant(o) = TenantOf[u]

(* category.py, _in_scope and _scoped_query. *)
InScope(u, c) == \/ u \in Superusers
                 \/ TenantOf[u] # Null /\ Tenant(c) = TenantOf[u]
                 \/ TenantOf[u] = Null /\ Tenant(c) = Null /\ OwnerOf[c] = u

Scope(u) == {c \in exists : InScope(u, c)}

-----------------------------------------------------------------------------
(* The tree                                                                *)

Children(S, c) == {d \in S : parent[d] = c}

(* Where a walk within S may go next: down to the children, up to the parent. *)
Down(S) == [c \in Categories |-> Children(S, c)]
Up(S) == [c \in Categories |-> {parent[c]} \cap S]

(* A walk from c takes what is pending, one id after the other, and passes over
   what it has seen before. *)
Walk(next, c) ==
  LET walked[seen \in SUBSET Categories] ==
        LET pending == ({c} \cup UNION {next[d] : d \in seen}) \ seen
        IN  IF pending = {} THEN seen
            ELSE walked[seen \cup {CHOOSE d \in pending : TRUE}]
  IN  walked[{}]

(* The category and its children. *)
BranchOfTwo(S, c) == {c} \cup Children(S, c)

(* collect_branch_ids *)
Branch(S, c) == Walk(Down(S), c)

(* resolve_category_paths: up from c until the set, or a cycle, ends the walk. *)
Path(S, c) == Walk(Up(S), c)

(* build_category_tree: a row whose parent is not among the rows is a root. *)
Roots(S) == {c \in S : parent[c] \notin S}

(* Post-order: what a node weighs, and what is below it. *)
RollUp(weight, S) ==
  LET total[c \in S] == weight[c] + MapThenSumSet(LAMBDA d : total[d], Children(S, c))
  IN  total

Sum(f, S) == MapThenSumSet(LAMBDA c : f[c], S)

(* count_category_nodes *)
CountNodes(S) == Sum(RollUp([c \in S |-> 1], S), Roots(S))

(* get_category_tree counts link rows, whatever they link. *)
ObjectCount == [c \in Categories |-> Cardinality({o \in Media : c \in filed[o]})]

(* _roll_up_counts: total_object_count *)
TotalObjectCount(S) == RollUp(ObjectCount, S)

-----------------------------------------------------------------------------
(* The listing                                                             *)

Ordered(down, k, n, l, m) == IF down THEN k > l \/ (k = l /\ n > m)
                             ELSE k < l \/ (k = l /\ n < m)

(* No tie on the column is broken. *)
AfterByKey(w, o) ==
  \/ w.cursor = <<>>
  \/ IF w.query.down THEN key[o] < w.cursor[1] ELSE key[o] > w.cursor[1]

(* _keyset_predicate: strictly after the (value, id) of the cursor. *)
After(w, o) == w.cursor = <<>> \/ Ordered(w.query.down, w.cursor[1], w.cursor[2], key[o], o)

(* _apply_category_filter, with the branch read before; no branch filters
   nothing, an empty one everything. *)
InBranch(w, o) == IF w.query.unfiled THEN filed[o] = {}
                  ELSE w.query.branch = Null \/ filed[o] \cap w.branch # {}

(* What the page's SELECT finds. *)
Rows(w) == {o \in Media : Scoped(w.caller, w.query, o) /\ InBranch(w, o) /\ After(w, o)}

(* What a listing is for: what the caller may fetch, filed at or below the
   category asked for. *)
Below(c) == {d \in exists : \A T \in SUBSET exists :
               c \in T /\ (\A e \in exists : parent[e] \in T => e \in T) => d \in T}

Matches(u, q, o) ==
  /\ Fetchable(u, o)
  /\ u \in Superusers /\ q.owner # Null => OwnerOf[o] = q.owner
  /\ q.unfiled => filed[o] = {}
  /\ q.branch # Null => /\ u # Anonymous
                        /\ filed[o] \cap (IF q.deep THEN Below(q.branch) ELSE {q.branch})
                             \cap Scope(u) # {}

OpenWalk(s) ==
  /\ walk[s].at = "idle"
  /\ \E u \in Callers, q \in Queries :
       walk' = [walk EXCEPT ![s] = [NoWalk EXCEPT !.at = "branch", !.caller = u, !.query = q,
                  !.steady = {o \in Media : Matches(u, q, o)}, !.fixed = Media]]
  /\ UNCHANGED <<tables, edits>>

(* branch_category_ids: 404 or 403 for a category the caller cannot see, no
   category at all for an anonymous one. *)
ReadBranch(s) ==
  LET w == walk[s]
      c == w.query.branch
      asked == c # Null /\ w.caller # Anonymous
      ids == IF ~asked THEN {} ELSE IF w.query.deep THEN Branch(Scope(w.caller), c) ELSE {c}
  IN  /\ w.at = "branch"
      /\ walk' = [walk EXCEPT ![s] = IF asked /\ c \notin Scope(w.caller) THEN NoWalk
                                     ELSE [w EXCEPT !.at = "list", !.branch = ids]]
      /\ UNCHANGED <<tables, edits>>

Return(s, page, label, cursor) ==
  walk' = [walk EXCEPT ![s].at = label, ![s].page = page, ![s].branch = {}, ![s].cursor = cursor,
             ![s].times = [o \in Media |-> IF o \in page THEN @[o] + 1 ELSE @[o]]]

(* One row more than the page is read, to know whether there is a next one; the
   cursor is the last row's. *)
ReadPage(s) ==
  LET w == walk[s]
      UpTo(last) == {o \in Rows(w) : o = last \/ Ordered(w.query.down, key[o], o, key[last], last)}
  IN  /\ w.at = "list"
      /\ \/ Cardinality(Rows(w)) <= Limit /\ Return(s, Rows(w), "done", <<>>)
         \/ /\ Cardinality(Rows(w)) > Limit
            /\ \E last \in Rows(w) : /\ Cardinality(UpTo(last)) = Limit
                                     /\ Return(s, UpTo(last), "branch", <<key[last], last>>)
      /\ UNCHANGED <<tables, edits>>

Stop(s) == /\ walk[s].at = "done"
           /\ walk' = [walk EXCEPT ![s] = NoWalk]
           /\ UNCHANGED <<tables, edits>>

-----------------------------------------------------------------------------
(* What changes meanwhile                                                  *)

(* Whose walk is thrown off by a change of the objects, or of the tree. *)
Edit(tree) ==
  /\ edits < EditCap /\ edits' = edits + 1
  /\ walk' = [s \in Slots |->
       LET w == walk[s]
           kept == {o \in w.fixed : key'[o] = key[o]}
       IN  IF w.at = "idle" THEN w
           ELSE [w EXCEPT !.fixed = kept,
                   !.steady = IF tree /\ w.query.branch # Null THEN {}
                              ELSE {o \in w.steady \cap kept :
                                      \E u \in {w.caller}, q \in {w.query} : Matches(u, q, o)'}]]

(* A completed upload; the filing is that of its session. *)
Complete(o) ==
  /\ state[o] = "new"
  /\ state' = [state EXCEPT ![o] = "live"]
  /\ UNCHANGED <<visibility, key, filed, exists, parent>> /\ Edit(FALSE)

Delete(o) ==
  /\ state[o] = "live"
  /\ state' = [state EXCEPT ![o] = "deleted"]
  /\ UNCHANGED <<visibility, key, filed, exists, parent>> /\ Edit(FALSE)

(* update_object: another visibility, another name, another filing. *)
SetVisibility(o) ==
  /\ state[o] = "live"
  /\ \E v \in {"private", "tenant", "public"} \ {visibility[o]} :
       visibility' = [visibility EXCEPT ![o] = v]
  /\ UNCHANGED <<state, key, filed, exists, parent>> /\ Edit(FALSE)

Rename(o) ==
  /\ state[o] = "live"
  /\ \E k \in Keys \ {key[o]} : key' = [key EXCEPT ![o] = k]
  /\ UNCHANGED <<state, visibility, filed, exists, parent>> /\ Edit(FALSE)

Refile(o) ==
  /\ state[o] = "live"
  /\ \E C \in SUBSET Scope(OwnerOf[o]) : C # filed[o] /\ filed' = [filed EXCEPT ![o] = C]
  /\ UNCHANGED <<state, visibility, key, exists, parent>> /\ Edit(FALSE)

(* update_category (_load_parent), or a row written straight to the database:
   within one tree, and closing a cycle or not. *)
Reparent(c) ==
  /\ c \in exists
  /\ \E p \in ({d \in exists : ScopeKey(d) = ScopeKey(c)} \cup {Null}) \ {parent[c]} :
       parent' = [parent EXCEPT ![c] = p]
  /\ UNCHANGED <<state, visibility, key, filed, exists>> /\ Edit(TRUE)

RemoveCategory(c) ==
  /\ c \in exists /\ Children(exists, c) = {}
  /\ exists' = exists \ {c} /\ parent' = [parent EXCEPT ![c] = Null]
  /\ filed' = [o \in Media |-> filed[o] \ {c}]
  /\ UNCHANGED <<state, visibility, key>> /\ Edit(TRUE)

-----------------------------------------------------------------------------
Read(s) == OpenWalk(s) \/ ReadBranch(s) \/ ReadPage(s) \/ Stop(s)
Change == \/ \E o \in Media : Complete(o) \/ Delete(o) \/ SetVisibility(o) \/ Rename(o) \/ Refile(o)
          \/ \E c \in Categories : Reparent(c) \/ RemoveCategory(c)

LibraryNext == (\E s \in Slots : Read(s)) \/ Change

LibrarySpec == LibraryInit /\ [][LibraryNext]_libraryVars

-----------------------------------------------------------------------------
(* Properties                                                              *)

(* Pagination loses nothing and repeats nothing (objects.py:120-130): whatever
   else changes while a client pages on, an object that it could fetch and that
   matched all along is returned exactly once, and no object twice unless it
   was renamed. *)
SteadyListedOnce ==
  \A s \in Slots :
    /\ \A o \in walk[s].fixed : walk[s].times[o] <= 1
    /\ walk[s].at = "done" => \A o \in walk[s].steady : walk[s].times[o] = 1

(* "the listing never surfaces a row the caller could not also fetch by id"
   (objects.py:158-160): every row of a page is fetchable when it is read, and,
   under a filter, filed in a category the caller sees. *)
ListedIsReadable ==
  [][\A s \in Slots : walk[s].at = "list" /\ walk'[s].at \in {"branch", "done"} =>
       \A o \in walk'[s].page :
         LET w == walk[s]
         IN  /\ Fetchable(w.caller, o) \/ w.caller \in Superusers
             /\ w.query.branch # Null => /\ w.caller # Anonymous
                                         /\ \E c \in filed[o] : InScope(w.caller, c)]_libraryVars

Acyclic(S) == \A c \in S : parent[c] \in S => c \notin Path(S, parent[c])

(* The three walks over the tree agree (core/category_tree.py): the branch of a
   category is what has it on its path, even over rows that form a cycle; where
   they form none, the tree has every row at some depth, once, and a node's
   total is the sum over its branch. *)
WalksAgree ==
  \A u \in Callers \ {Anonymous} :
    LET S == Scope(u)
    IN  /\ \A c, d \in S : d \in Branch(S, c) <=> c \in Path(S, d)
        /\ Acyclic(S) =>
             /\ CountNodes(S) = Cardinality(S)
             /\ \A c \in S : TotalObjectCount(S)[c] = Sum(ObjectCount, Branch(S, c))

(* total_object_count: "Distinct media objects filed on this category or any
   descendant" (db_models/categories.py:182). *)
TotalsAreDistinct ==
  \A u \in Callers \ {Anonymous} :
    LET S == Scope(u)
    IN  Acyclic(S) => \A c \in S :
          TotalObjectCount(S)[c] = Cardinality({o \in Media : filed[o] \cap Branch(S, c) # {}})
=============================================================================
