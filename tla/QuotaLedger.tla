------------------------------ MODULE QuotaLedger ------------------------------
(***************************************************************************)
(* Storage accounting of one (owner, tenant) scope: core/quotas.py with    *)
(* the transactions of complete_upload, delete_object and set_quota that   *)
(* write the storage_usage row.                                            *)
(*                                                                         *)
(* Requests run concurrently on READ COMMITTED transactions, one step per  *)
(* statement.  A completion reads its row FOR UPDATE and keeps it locked   *)
(* until it commits; a deletion reads it without a lock and writes the     *)
(* value it computed when it commits.  The unique constraint on the scope  *)
(* binds only tenanted scopes: tenant_id NULL is distinct from NULL.       *)
(***************************************************************************)
EXTENDS Integers, FiniteSets, FiniteSetsExt

CONSTANTS Objects,        \* upload sessions and the objects they become
          Size,           \* actual stored size of each object
          Completers,     \* slots serving complete_upload
          Deleters,       \* slots serving delete_object
          Rows,           \* ids a storage_usage row of the scope may get
          Tenanted,       \* TRUE: the unique constraint holds for the scope
          DefaultBytes,   \* MEDIA_DEFAULT_QUOTA_BYTES, or Unlimited
          DefaultObjects, \* MEDIA_DEFAULT_QUOTA_OBJECTS, or Unlimited
          Overrides,      \* ceilings set_quota may store
          Unlimited,      \* no ceiling (an unset default or override)
          None            \* no row, no object, no slot

Slots == Completers \cup Deleters

ASSUME QuotaAssumption ==
  /\ IsFiniteSet(Objects)
  /\ Size \in [Objects -> Nat \ {0}]
  /\ Tenanted \in BOOLEAN
  /\ Unlimited \notin Int
  /\ DefaultBytes \in Nat \cup {Unlimited}
  /\ DefaultObjects \in Nat \cup {Unlimited}
  /\ Overrides \subseteq Nat
  /\ None \notin Rows \cup Objects \cup Slots

VARIABLES
  present,       \* committed storage_usage rows of the scope
  bytes, count,  \* total_bytes and object_count per row
  quota_bytes, quota_objects,  \* per-row overrides, None when NULL
  status,        \* "none", "initiated", "uploaded", "rejected", "deleted"
  pc, job,       \* per slot: next statement and the object it works on
  mine,          \* per slot: the usage row it loaded or created
  seenBytes, seenCount,        \* per slot: the totals it read
  lock,          \* the slot whose transaction locks each usage row
  objLock,       \* the slot whose transaction locks each object row
  drifted        \* history: a debit was applied to totals it did not match

usageVars == <<present, bytes, count>>
quotaVars == <<quota_bytes, quota_objects>>
slotVars == <<pc, job, mine, seenBytes, seenCount>>
lockVars == <<lock, objLock>>
vars == <<present, bytes, count, quota_bytes, quota_objects, status, pc, job,
          mine, seenBytes, seenCount, lock, objLock, drifted>>

TypeOK ==
  /\ present \in SUBSET Rows
  /\ bytes \in [Rows -> Nat] /\ count \in [Rows -> Nat]
  /\ quota_bytes \in [Rows -> Overrides \cup {None}]
  /\ quota_objects \in [Rows -> Overrides \cup {None}]
  /\ status \in [Objects ->
       {"none", "initiated", "uploaded", "rejected", "deleted"}]
  /\ pc \in [Slots -> {"idle", "reserve", "insert", "credit", "overrun",
                     "read", "debit"}]
  /\ job \in [Slots -> Objects \cup {None}]
  /\ mine \in [Slots -> Rows \cup {None}]
  /\ seenBytes \in [Slots -> Nat] /\ seenCount \in [Slots -> Nat]
  /\ lock \in [Rows -> Slots \cup {None}]
  /\ objLock \in [Objects -> Slots \cup {None}]
  /\ drifted \in BOOLEAN

Init ==
  /\ present = {}
  /\ bytes = [w \in Rows |-> 0] /\ count = [w \in Rows |-> 0]
  /\ quota_bytes = [w \in Rows |-> None] /\ quota_objects = [w \in Rows |-> None]
  /\ status = [o \in Objects |-> "none"]
  /\ pc = [s \in Slots |-> "idle"] /\ job = [s \in Slots |-> None]
  /\ mine = [s \in Slots |-> None]
  /\ seenBytes = [s \in Slots |-> 0] /\ seenCount = [s \in Slots |-> 0]
  /\ lock = [w \in Rows |-> None] /\ objLock = [o \in Objects |-> None]
  /\ drifted = FALSE

-----------------------------------------------------------------------------
(* Ceilings                                                                *)

(* effective_quota_bytes, effective_quota_objects *)
CeilingBytes(w) == IF w \in present /\ quota_bytes[w] # None
                     THEN quota_bytes[w] ELSE DefaultBytes
CeilingObjects(w) == IF w \in present /\ quota_objects[w] # None
                       THEN quota_objects[w] ELSE DefaultObjects

Within(total, ceiling) == IF ceiling = Unlimited THEN TRUE ELSE total <= ceiling

(* The comparison with a strict bound: the last unit is refused, or not. *)
FitsOneMore(w, b, c, size) == /\ Within(b + size, CeilingBytes(w))
                              /\ Within(c, CeilingObjects(w))

(* What check_quota and reserve_storage_for_object compare. *)
Fits(w, b, c, size) == /\ Within(b + size, CeilingBytes(w))
                       /\ Within(c + 1, CeilingObjects(w))

(* stage_upload: check_quota reads the totals of whichever row the query
   returns first, or zero, and refuses before a session exists.  What it
   checks is the declared size, which completion holds the stored one to. *)
Initiate(o) ==
  /\ status[o] = "none"
  /\ IF present = {}
       THEN Fits(None, 0, 0, Size[o])
       ELSE \E w \in present : Fits(w, bytes[w], count[w], Size[o])
  /\ status' = [status EXCEPT ![o] = "initiated"]
  /\ UNCHANGED <<usageVars, quotaVars, slotVars, lockVars, drifted>>

(* set_quota: writes an override column only, under the row's lock; NULL
   clears it.  A scope without a row gets a zeroed one, as get_quota gives it;
   an untenanted one may get it from a query that ran before the first. *)
SetQuota ==
  \E w \in Rows, q \in Overrides \cup {None} :
    /\ lock[w] = None
    /\ w \in present \/ present = {} \/ ~Tenanted
    /\ Tenanted => \A v \in Rows \ present : lock[v] = None
    /\ present' = present \cup {w}
    /\ \/ /\ quota_bytes' = [quota_bytes EXCEPT ![w] = q]
          /\ UNCHANGED quota_objects
       \/ /\ quota_objects' = [quota_objects EXCEPT ![w] = q]
          /\ UNCHANGED quota_bytes
    /\ UNCHANGED <<bytes, count, status, slotVars, lockVars, drifted>>

-----------------------------------------------------------------------------
(* complete_upload                                                         *)

(* A request that ends without releasing the object row it flushed. *)
FinishHolding(s) ==
  /\ pc' = [pc EXCEPT ![s] = "idle"]
  /\ job' = [job EXCEPT ![s] = None]
  /\ mine' = [mine EXCEPT ![s] = None]
  /\ seenBytes' = [seenBytes EXCEPT ![s] = 0]
  /\ seenCount' = [seenCount EXCEPT ![s] = 0]
  /\ lock' = [w \in Rows |-> IF lock[w] = s THEN None ELSE lock[w]]
  /\ UNCHANGED objLock

(* Commit or rollback: the transaction ends and releases its row locks. *)
Finish(s) ==
  /\ pc' = [pc EXCEPT ![s] = "idle"]
  /\ job' = [job EXCEPT ![s] = None]
  /\ mine' = [mine EXCEPT ![s] = None]
  /\ seenBytes' = [seenBytes EXCEPT ![s] = 0]
  /\ seenCount' = [seenCount EXCEPT ![s] = 0]
  /\ lock' = [w \in Rows |-> IF lock[w] = s THEN None ELSE lock[w]]
  /\ objLock' = [o \in Objects |-> IF objLock[o] = s THEN None ELSE objLock[o]]

(* _ensure_completable: the session is still INITIATED when it is read. *)
StartComplete(s, o) ==
  /\ s \in Completers /\ pc[s] = "idle"
  /\ status[o] = "initiated"
  /\ pc' = [pc EXCEPT ![s] = "reserve"]
  /\ job' = [job EXCEPT ![s] = o]
  /\ UNCHANGED <<usageVars, quotaVars, status, mine, seenBytes, seenCount,
                 lockVars, drifted>>

(* A content check rejects the upload before any accounting.  Rejecting a
   session another completion has settled violates the primary key. *)
RejectContent(s) ==
  /\ pc[s] = "reserve"
  /\ status' = IF status[job[s]] = "initiated"
                 THEN [status EXCEPT ![job[s]] = "rejected"] ELSE status
  /\ Finish(s)
  /\ UNCHANGED <<usageVars, quotaVars, drifted>>

(* reserve_storage_for_object on the totals the slot's row holds: the credit
   goes ahead, or the upload is over quota. *)
Verdict(s, w, b, c) == IF Fits(w, b, c, Size[job[s]]) THEN "credit" ELSE "overrun"

(* _lock_or_create_usage as a plain SELECT: nothing keeps the row it read. *)
LockUsageUnlocked(s) ==
  /\ pc[s] = "reserve"
  /\ IF present = {}
       THEN /\ pc' = [pc EXCEPT ![s] = "insert"]
            /\ UNCHANGED <<mine, seenBytes, seenCount>>
       ELSE \E w \in present :
              /\ pc' = [pc EXCEPT ![s] = Verdict(s, w, bytes[w], count[w])]
              /\ mine' = [mine EXCEPT ![s] = w]
              /\ seenBytes' = [seenBytes EXCEPT ![s] = bytes[w]]
              /\ seenCount' = [seenCount EXCEPT ![s] = count[w]]
  /\ UNCHANGED <<usageVars, quotaVars, status, job, lockVars, drifted>>

(* reserve_storage_for_object: SELECT ... FOR UPDATE waits for, then locks,
   every row of the scope; the first one returned is read and judged. *)
LockUsage(s) ==
  /\ pc[s] = "reserve"
  /\ \A w \in present : lock[w] = None
  /\ IF present = {}
       THEN /\ pc' = [pc EXCEPT ![s] = "insert"]
            /\ UNCHANGED <<mine, seenBytes, seenCount, lock>>
       ELSE \E w \in present :
              /\ pc' = [pc EXCEPT ![s] = Verdict(s, w, bytes[w], count[w])]
              /\ mine' = [mine EXCEPT ![s] = w]
              /\ seenBytes' = [seenBytes EXCEPT ![s] = bytes[w]]
              /\ seenCount' = [seenCount EXCEPT ![s] = count[w]]
              /\ lock' = [v \in Rows |-> IF v \in present THEN s ELSE lock[v]]
  /\ UNCHANGED <<usageVars, quotaVars, status, job, objLock, drifted>>

(* The scope had no row: insert one, flush, and judge it.  On a tenanted scope
   the unique index makes the insert wait for another uncommitted one, and
   fail once a row is committed; on an untenanted scope it always succeeds. *)
InsertUsage(s) ==
  /\ pc[s] = "insert"
  /\ \/ /\ Tenanted /\ present # {}
        /\ Finish(s)
     \/ /\ ~Tenanted \/ present = {}
        /\ Tenanted => \A w \in Rows : lock[w] = None
        /\ \E w \in Rows \ present :
             /\ lock[w] = None
             /\ lock' = [lock EXCEPT ![w] = s]
             /\ mine' = [mine EXCEPT ![s] = w]
             /\ pc' = [pc EXCEPT ![s] = Verdict(s, w, 0, 0)]
        /\ UNCHANGED <<job, seenBytes, seenCount, objLock>>
  /\ UNCHANGED <<usageVars, quotaVars, status, drifted>>

(* The promotion: the UPLOADED object and its credit commit together.  If the
   session was settled meanwhile, the INSERT of the object violates its
   primary key and everything rolls back. *)
CommitCredit(s) ==
  LET w == mine[s]
      o == job[s]
  IN
  /\ pc[s] = "credit"
  /\ \/ /\ status[o] = "initiated"
        /\ status' = [status EXCEPT ![o] = "uploaded"]
        /\ present' = present \cup {w}
        /\ bytes' = [bytes EXCEPT ![w] = seenBytes[s] + Size[o]]
        /\ count' = [count EXCEPT ![w] = seenCount[s] + 1]
     \/ /\ status[o] # "initiated"
        /\ UNCHANGED <<usageVars, status>>
  /\ Finish(s)
  /\ UNCHANGED <<quotaVars, drifted>>

(* _reject_upload over quota: the object is committed REJECTED without a
   credit, together with the row just inserted if there was none. *)
RejectOverQuota(s) ==
  /\ pc[s] = "overrun"
  /\ \/ /\ status[job[s]] = "initiated"
        /\ status' = [status EXCEPT ![job[s]] = "rejected"]
        /\ present' = present \cup {mine[s]}
     \/ /\ status[job[s]] # "initiated"
        /\ UNCHANGED <<present, status>>
  /\ Finish(s)
  /\ UNCHANGED <<bytes, count, quotaVars, drifted>>

-----------------------------------------------------------------------------
(* delete_object                                                           *)

(* _load_object: the object row is read before anything is locked. *)
StartDelete(s, o) ==
  /\ s \in Deleters /\ pc[s] = "idle"
  /\ status[o] \in {"uploaded", "rejected"}
  /\ pc' = [pc EXCEPT ![s] = "read"]
  /\ job' = [job EXCEPT ![s] = o]
  /\ UNCHANGED <<usageVars, quotaVars, status, mine, seenBytes, seenCount,
                 lockVars, drifted>>

(* record_object_removed: its query flushes the soft-delete first, which locks
   the object row; get_or_create_usage then reads the totals without a lock. *)
ReadUsage(s) ==
  /\ pc[s] = "read"
  /\ objLock[job[s]] = None
  /\ objLock' = [objLock EXCEPT ![job[s]] = s]
  /\ pc' = [pc EXCEPT ![s] = "debit"]
  /\ IF present = {}
       THEN UNCHANGED <<mine, seenBytes, seenCount>>
       ELSE \E w \in present :
              /\ mine' = [mine EXCEPT ![s] = w]
              /\ seenBytes' = [seenBytes EXCEPT ![s] = bytes[w]]
              /\ seenCount' = [seenCount EXCEPT ![s] = count[w]]
  /\ UNCHANGED <<usageVars, quotaVars, status, job, lock, drifted>>

Clamped(n) == IF n < 0 THEN 0 ELSE n

(* The debit matches the ledger: its object was credited and is still, and the
   totals are those it was computed from. *)
Matches(s) == /\ status[job[s]] = "uploaded"
              /\ mine[s] # None
              /\ bytes[mine[s]] = seenBytes[s] /\ count[mine[s]] = seenCount[s]

(* The commit writes the totals computed from what was read, waiting for the
   row's lock and leaving alone a total the clamp did not change.  With no row
   read it inserts a zeroed one, which the unique index may refuse. *)
CommitDebit(s) ==
  LET w == mine[s]
      newBytes == Clamped(seenBytes[s] - Size[job[s]])
      newCount == Clamped(seenCount[s] - 1)
  IN
  /\ pc[s] = "debit"
  /\ \/ /\ w # None /\ lock[w] = None
        /\ bytes' = IF newBytes = seenBytes[s] THEN bytes
                    ELSE [bytes EXCEPT ![w] = newBytes]
        /\ count' = IF newCount = seenCount[s] THEN count
                    ELSE [count EXCEPT ![w] = newCount]
        /\ status' = [status EXCEPT ![job[s]] = "deleted"]
        /\ drifted' = (drifted \/ ~Matches(s))
        /\ UNCHANGED present
     \/ /\ w = None /\ ~(Tenanted /\ present # {})
        /\ \E v \in Rows \ present :
             /\ IF Tenanted THEN \A u \in Rows : lock[u] = None ELSE lock[v] = None
             /\ present' = present \cup {v}
        /\ status' = [status EXCEPT ![job[s]] = "deleted"]
        /\ drifted' = (drifted \/ status[job[s]] # "rejected")
        /\ UNCHANGED <<bytes, count>>
     \/ /\ w = None /\ Tenanted /\ present # {}
        /\ UNCHANGED <<usageVars, status, drifted>>
  /\ Finish(s)
  /\ UNCHANGED quotaVars

(* A failing statement, or the end of the process: the transaction rolls back. *)
Rollback(s) ==
  /\ pc[s] # "idle"
  /\ Finish(s)
  /\ UNCHANGED <<usageVars, quotaVars, status, drifted>>

-----------------------------------------------------------------------------
Complete(s) == \/ RejectContent(s) \/ LockUsage(s)
               \/ InsertUsage(s) \/ CommitCredit(s)
               \/ RejectOverQuota(s)
Delete(s) == ReadUsage(s) \/ CommitDebit(s)

Next ==
  \/ \E o \in Objects : Initiate(o)
  \/ SetQuota
  \/ \E s \in Completers, o \in Objects : StartComplete(s, o)
  \/ \E s \in Deleters, o \in Objects : StartDelete(s, o)
  \/ \E s \in Slots : Complete(s) \/ Delete(s) \/ Rollback(s)

Spec == Init /\ [][Next]_vars

(* A request that can go on does, and a lock's waiters are served in turn. *)
FairSpec == Spec /\ \A s \in Slots : SF_vars(Complete(s)) /\ SF_vars(Delete(s))

-----------------------------------------------------------------------------
(* Properties                                                              *)

Uploaded == {o \in Objects : status[o] = "uploaded"}
Stored == MapThenSumSet(LAMBDA o : Size[o], Uploaded)

(* reserve_storage_for_object: a promotion leaves the totals it raises within
   the ceilings in force when it commits, whatever the other requests of the
   scope and the admin's overrides did since the request began. *)
CreditsRespectCeiling ==
  [][\A o \in Objects, w \in Rows :
       /\ status[o] # "uploaded" /\ status'[o] = "uploaded"
       /\ bytes'[w] # bytes[w] \/ count'[w] # count[w]
       => /\ Within(bytes'[w], CeilingBytes(w))
          /\ Within(count'[w], CeilingObjects(w))]_vars

(* complete_upload: the promotion and the credit are one transaction, so an
   object becomes UPLOADED exactly when one row rises by its size and by one;
   a credit computed from a stale read would lose a concurrent one. *)
CompletionCreditsExactly ==
  [][\A o \in Objects :
       status[o] # "uploaded" /\ status'[o] = "uploaded" =>
         \E w \in Rows : /\ bytes' = [bytes EXCEPT ![w] = @ + Size[o]]
                         /\ count' = [count EXCEPT ![w] = @ + 1]]_vars

(* The running totals equal what is stored until a deletion debits totals it
   did not match: a REJECTED or already deleted object, or totals another
   request changed between its read and its commit.  Nothing else drifts. *)
LedgerExact ==
  Tenanted /\ ~drifted =>
    \A w \in present : bytes[w] = Stored /\ count[w] = Cardinality(Uploaded)

(* delete_object: the freed bytes are debited in the same transaction as the
   soft-delete, so totals that were right fall by exactly what was stored. *)
DeletionDebitsExactly ==
  [][\A o \in Objects :
       ~drifted /\ status[o] = "uploaded" /\ status'[o] = "deleted" =>
         \E w \in Rows : /\ bytes' = [bytes EXCEPT ![w] = @ - Size[o]]
                         /\ count' = [count EXCEPT ![w] = @ - 1]]_vars

(* delete_object is idempotent: deleting a deleted object debits nothing. *)
RepeatDeleteDebitsNothing ==
  [][\A s \in Deleters :
       pc[s] = "debit" /\ status[job[s]] = "deleted" /\ pc'[s] = "idle" =>
         UNCHANGED <<bytes, count>>]_vars

(* Totals track stored objects: a REJECTED one was never credited, so deleting
   it frees nothing. *)
RejectedHoldsNoCredit ==
  [][\A o \in Objects :
       status[o] = "rejected" /\ status'[o] = "deleted" =>
         UNCHANGED <<bytes, count>>]_vars

(* complete_upload: concurrent completions cannot overrun the quota. *)
StoredWithinQuota ==
  ~drifted => /\ Within(Stored, DefaultBytes)
              /\ Within(Cardinality(Uploaded), DefaultObjects)

(* Every request ends: the usage-row and object-row locks that completions and
   deletions wait for are never held in a cycle nor left behind. *)
AllRequestsFinish == \A s \in Slots : pc[s] # "idle" ~> pc[s] = "idle"
=============================================================================
