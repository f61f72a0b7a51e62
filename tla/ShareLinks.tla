------------------------------ MODULE ShareLinks ------------------------------
(***************************************************************************)
(* Share links (controllers/shares.py): rows of share_token created and    *)
(* revoked by the owner of an object, and resolved by anyone through       *)
(* request slots that run concurrently.                                    *)
(*                                                                         *)
(* A resolve is four statements with a window between any two of them:     *)
(* load the share, load the object, consume one use, presign.  The object  *)
(* is seen through what resolve reads of it: whether its row is live, soft *)
(* deleted or purged, and whether its scan came back clean.                *)
(***************************************************************************)
EXTENDS Integers, FiniteSets

CONSTANTS Tokens,     \* ids of share_token rows
          Objects,    \* ids of media_object rows
          Requests,   \* slots serving public resolves
          MaxUses,    \* values of max_uses an owner may ask for
          Unlimited,  \* max_uses = NULL
          None,       \* no link, no object
          UsesCap     \* bound: no resolve starts on a row with this many uses

ASSUME ShareAssumption ==
  /\ MaxUses \subseteq (Nat \ {0}) \cup {Unlimited}
  /\ Unlimited \notin Int
  /\ None \notin Tokens \cup Objects
  /\ IsFiniteSet(Requests)
  /\ UsesCap \in Nat

VARIABLES row,        \* share_token: "none" before creation, "live", "dropped"
          of,         \* share_token.media_object_id
          max_uses,   \* share_token.max_uses
          uses,       \* share_token.uses
          revoked,    \* links whose row has revoked = TRUE
          expired,    \* links whose expires_at has passed
          objRow,     \* media_object: "live", "deleted" or "purged"
          clean,      \* objects with scan_status CLEAN
          pc, token,  \* per slot: the next statement, and the link resolved
          granted,    \* history: URLs handed out per link
          burned      \* history: uses consumed without a URL handed out

shareVars == <<row, of, max_uses, uses, revoked, expired>>
objVars == <<objRow, clean>>
reqVars == <<pc, token>>
histVars == <<granted, burned>>
vars == <<row, of, max_uses, uses, revoked, expired, objRow, clean, pc, token,
          granted, burned>>

TypeOK ==
  /\ row \in [Tokens -> {"none", "live", "dropped"}]
  /\ of \in [Tokens -> Objects \cup {None}]
  /\ max_uses \in [Tokens -> MaxUses \cup {Unlimited}]
  /\ uses \in [Tokens -> Nat]
  /\ revoked \in SUBSET Tokens
  /\ expired \in SUBSET Tokens
  /\ objRow \in [Objects -> {"live", "deleted", "purged"}]
  /\ clean \in SUBSET Objects
  /\ pc \in [Requests -> {"idle", "active", "cleared", "won"}]
  /\ token \in [Requests -> Tokens \cup {None}]
  /\ granted \in [Tokens -> Nat]
  /\ burned \in [Tokens -> Nat]

Init ==
  /\ row = [t \in Tokens |-> "none"]
  /\ of = [t \in Tokens |-> None]
  /\ max_uses = [t \in Tokens |-> Unlimited]
  /\ uses = [t \in Tokens |-> 0]
  /\ revoked = {}
  /\ expired = {}
  /\ objRow = [o \in Objects |-> "live"]
  /\ clean \in SUBSET Objects
  /\ pc = [r \in Requests |-> "idle"]
  /\ token = [r \in Requests |-> None]
  /\ granted = [t \in Tokens |-> 0]
  /\ burned = [t \in Tokens |-> 0]

-----------------------------------------------------------------------------
(* The owner, and the object behind the link                               *)

(* SharesController.create: the object must be live to be loaded. *)
Create(t) ==
  /\ row[t] = "none"
  /\ row' = [row EXCEPT ![t] = "live"]
  /\ \E o \in Objects : /\ objRow[o] = "live"
                        /\ of' = [of EXCEPT ![t] = o]
  /\ \E m \in MaxUses : max_uses' = [max_uses EXCEPT ![t] = m]
  /\ UNCHANGED <<uses, revoked, expired, objVars, reqVars, histVars>>

(* SharesController.revoke; a second revoke returns early. *)
Revoke(t) ==
  /\ row[t] = "live"
  /\ t \notin revoked
  /\ revoked' = revoked \cup {t}
  /\ UNCHANGED <<row, of, max_uses, uses, expired, objVars, reqVars, histVars>>

(* The clock passes expires_at. *)
Expire(t) ==
  /\ row[t] = "live"
  /\ t \notin expired
  /\ expired' = expired \cup {t}
  /\ UNCHANGED <<row, of, max_uses, uses, revoked, objVars, reqVars, histVars>>

(* A scan verdict reaches the object, also after it was soft-deleted. *)
ScanVerdict(o) ==
  /\ objRow[o] # "purged"
  /\ \/ clean' = clean \cup {o}
     \/ clean' = clean \ {o}
  /\ UNCHANGED <<objRow, shareVars, reqVars, histVars>>

(* The object is soft-deleted: its links stay, resolve refuses them. *)
SoftDelete(o) ==
  /\ objRow[o] = "live"
  /\ objRow' = [objRow EXCEPT ![o] = "deleted"]
  /\ UNCHANGED <<clean, shareVars, reqVars, histVars>>

(* The object is hard-purged: ON DELETE CASCADE drops its links. *)
HardPurge(o) ==
  /\ objRow[o] = "deleted"
  /\ objRow' = [objRow EXCEPT ![o] = "purged"]
  /\ row' = [t \in Tokens |-> IF row[t] = "live" /\ of[t] = o
                                THEN "dropped" ELSE row[t]]
  /\ UNCHANGED <<of, max_uses, uses, revoked, expired, clean, reqVars, histVars>>

-----------------------------------------------------------------------------
(* SharesController.resolve                                                *)

Alive(t) == row[t] = "live" /\ t \notin revoked /\ t \notin expired

Exhausted(t) == max_uses[t] # Unlimited /\ uses[t] >= max_uses[t]

Step(r, label) == pc' = [pc EXCEPT ![r] = label] /\ UNCHANGED token

(* The slot answers its caller: a URL, or a refusal that changes nothing. *)
Answer(r) == /\ pc' = [pc EXCEPT ![r] = "idle"]
             /\ token' = [token EXCEPT ![r] = None]

(* _load_active_share: only a row that exists and is not revoked, expired or
   exhausted goes on (404 or 403 otherwise); it may be stale one statement
   later. *)
LoadActiveShare(r, t) ==
  /\ pc[r] = "idle"
  /\ Alive(t)
  /\ ~Exhausted(t)
  /\ max_uses[t] = Unlimited => uses[t] < UsesCap
  /\ pc' = [pc EXCEPT ![r] = "active"]
  /\ token' = [token EXCEPT ![r] = t]
  /\ UNCHANGED <<shareVars, objVars, histVars>>

(* The object must be live (404 otherwise) and scanned clean (409). *)
LoadObject(r) ==
  /\ pc[r] = "active"
  /\ IF objRow[of[token[r]]] = "live" /\ of[token[r]] \in clean
       THEN Step(r, "cleared")
       ELSE Answer(r)
  /\ UNCHANGED <<shareVars, objVars, histVars>>

(* A read-then-increment consume, as it was before the conditional update:
   only the read-time check of _load_active_share bounds the uses. *)
ConsumeUseUnguarded(r) ==
  /\ pc[r] = "cleared"
  /\ uses' = [uses EXCEPT ![token[r]] = @ + 1]
  /\ Step(r, "won")
  /\ UNCHANGED <<row, of, max_uses, revoked, expired, objVars, histVars>>

(* The conditional update without its revoked and expires_at predicates. *)
ConsumeUseBudgetOnly(r) ==
  /\ pc[r] = "cleared"
  /\ IF row[token[r]] = "live" /\ ~Exhausted(token[r])
       THEN uses' = [uses EXCEPT ![token[r]] = @ + 1] /\ Step(r, "won")
       ELSE UNCHANGED uses /\ Answer(r)
  /\ UNCHANGED <<row, of, max_uses, revoked, expired, objVars, histVars>>

(* _consume_use: one conditional UPDATE evaluates the predicate and the
   increment on the row as it is now, and commits; rowcount tells the winner. *)
ConsumeUse(r) ==
  /\ pc[r] = "cleared"
  /\ IF Alive(token[r]) /\ ~Exhausted(token[r])
       THEN uses' = [uses EXCEPT ![token[r]] = @ + 1] /\ Step(r, "won")
       ELSE UNCHANGED uses /\ Answer(r)
  /\ UNCHANGED <<row, of, max_uses, revoked, expired, objVars, histVars>>

(* A presign that leaves the slot able to hand out a second URL for the use. *)
PresignAgain(r) ==
  /\ pc[r] = "won"
  /\ granted' = [granted EXCEPT ![token[r]] = @ + 1]
  /\ UNCHANGED <<burned, reqVars, shareVars, objVars>>

(* The commit expired the object, so presigning reads its row again; a row
   purged meanwhile, or a failing presign, answers 500 with the use gone. *)
Presign(r) ==
  /\ pc[r] = "won"
  /\ \/ /\ objRow[of[token[r]]] # "purged"
        /\ granted' = [granted EXCEPT ![token[r]] = @ + 1]
        /\ UNCHANGED burned
     \/ /\ burned' = [burned EXCEPT ![token[r]] = @ + 1]
        /\ UNCHANGED granted
  /\ Answer(r)
  /\ UNCHANGED <<shareVars, objVars>>

Resolve(r) == \/ \E t \in Tokens : LoadActiveShare(r, t)
              \/ LoadObject(r)
              \/ ConsumeUse(r)
              \/ Presign(r)

Next == \/ \E t \in Tokens : Create(t) \/ Revoke(t) \/ Expire(t)
        \/ \E o \in Objects : ScanVerdict(o) \/ SoftDelete(o) \/ HardPurge(o)
        \/ \E r \in Requests : Resolve(r)

Spec == Init /\ [][Next]_vars

-----------------------------------------------------------------------------
(* Properties                                                              *)

(* No link hands out more URLs than max_uses, however many resolves passed
   the read-time check of _load_active_share on the same last use. *)
GrantsWithinBudget ==
  \A t \in Tokens : max_uses[t] # Unlimited => granted[t] <= max_uses[t]

Winners(t) == {r \in Requests : pc[r] = "won" /\ token[r] = t}

(* Every recorded use is one URL handed out, one use lost to a presign that
   failed, or one winner of _consume_use still to presign: no use is lost
   between concurrent increments and none is spent twice. *)
UsesAccountedFor ==
  \A t \in Tokens :
    uses[t] = granted[t] + burned[t] + Cardinality(Winners(t))

(* resolve implements the budget its owner set: uses are taken one at a time
   and only from a link that is neither revoked, expired nor dropped. *)
LifeOf(t) == IF row[t] = "none" THEN "unminted"
             ELSE IF Alive(t) THEN "alive" ELSE "dead"
LeftOf(t) == IF row[t] = "none" THEN 0
             ELSE IF max_uses[t] = Unlimited THEN Unlimited
             ELSE max_uses[t] - uses[t]

Budget == INSTANCE UseBudget WITH life <- [t \in Tokens |-> LifeOf(t)],
                                  left <- [t \in Tokens |-> LeftOf(t)]

ImplementsBudget == Budget!Spec
==============================================================================
