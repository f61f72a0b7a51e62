--------------------------- MODULE ObjectLifecycle ---------------------------
(***************************************************************************)
(* One media object after its upload: the media_object row, the copies of  *)
(* its bytes in the visibility and archive buckets, and the requests that  *)
(* move both (controllers/objects.py, controllers/maintenance.py).         *)
(*                                                                         *)
(* The database and the object store share no transaction: every mover     *)
(* copies first, commits the row, then drops the old copy.  Requests act   *)
(* on the row as they loaded it and write back only the columns they       *)
(* changed; no row is locked.  Each store call and each commit is a step.  *)
(***************************************************************************)
EXTENDS Naturals, FiniteSets

CONSTANTS Updaters,      \* slots serving update_object
          Deleters,      \* slots serving delete_object
          Purgers,       \* runs of hard_purge_expired
          Repairers,     \* runs of reconcile_orphans with repair
          Visibilities,  \* visibilities in use
          Initially,     \* visibilities the object may be uploaded with
          Faults,        \* TRUE: store calls, commits and processes may fail
          VerdictCap,    \* bound: scan verdicts the worker may report
          None           \* no bucket, no visibility

Slots == Updaters \cup Deleters \cup Purgers \cup Repairers

(* bucket_for_visibility *)
BucketOf(v) == CASE v = "public" -> "public-media"
                 [] v \in {"private", "tenant"} -> "private-media"
                 [] v = "sensitive" -> "sensitive-media"

Archive == "archive-media"
Buckets == {"public-media", "private-media", "sensitive-media", Archive}

ASSUME LifecycleAssumption ==
  /\ Visibilities \subseteq {"public", "private", "tenant", "sensitive"}
  /\ Initially \subseteq Visibilities
  /\ Faults \in BOOLEAN
  /\ VerdictCap \in Nat
  /\ None \notin Buckets \cup Visibilities

VARIABLES
  exists,        \* the row has not been purged
  status, scan, visibility, bucket,   \* its columns
  deleted,       \* deleted_at is set
  aged,          \* deleted_at is older than MEDIA_RETENTION_PURGE_DAYS
  stored,        \* buckets that hold a copy of the bytes
  scanBucket,    \* bucket named in the scan job enqueued at completion
  infected,      \* whether the antivirus finds something in the bytes
  pc,            \* per slot: next step
  fromVis, fromBucket,   \* per slot: visibility and bucket as loaded
  toVis, toBucket,       \* per slot: visibility asked for, bucket repointed to
  verdicts,      \* verdict events staged in the outbox
  deletions,     \* object.deleted events staged in the outbox
  failed,        \* history: a removal, commit or process failed
  unarchived,    \* history: the store failed to copy to the archive
  wiped          \* history: a purge has removed the bytes

rowVars == <<exists, status, scan, visibility, bucket, deleted, aged>>
jobVars == <<scanBucket, infected>>
reqVars == <<fromVis, fromBucket, toVis, toBucket>>
histVars == <<verdicts, deletions, failed, unarchived, wiped>>
vars == <<rowVars, stored, jobVars, pc, reqVars, histVars>>

TypeOK ==
  /\ exists \in BOOLEAN /\ deleted \in BOOLEAN /\ aged \in BOOLEAN
  /\ status \in {"uploaded", "ready", "deleted"}
  /\ scan \in {"pending", "clean", "quarantined"}
  /\ visibility \in Visibilities
  /\ bucket \in Buckets /\ stored \in SUBSET Buckets
  /\ scanBucket \in Buckets /\ infected \in BOOLEAN
  /\ pc \in [Slots -> {"idle", "relocate", "save", "undo", "drop", "archive",
                       "softDelete", "dropPublic", "wipe", "purgeRow", "repair"}]
  /\ fromVis \in [Slots -> Visibilities \cup {None}]
  /\ toVis \in [Slots -> Visibilities \cup {None}]
  /\ fromBucket \in [Slots -> Buckets \cup {None}]
  /\ toBucket \in [Slots -> Buckets \cup {None}]
  /\ verdicts \in 0 .. VerdictCap /\ deletions \in Nat
  /\ failed \in BOOLEAN /\ unarchived \in BOOLEAN /\ wiped \in BOOLEAN

(* complete_upload has promoted the object and enqueued its scan. *)
Init ==
  /\ exists = TRUE /\ deleted = FALSE /\ aged = FALSE
  /\ status = "uploaded" /\ scan = "pending"
  /\ visibility \in Initially
  /\ bucket = BucketOf(visibility) /\ stored = {bucket} /\ scanBucket = bucket
  /\ infected \in BOOLEAN
  /\ pc = [s \in Slots |-> "idle"]
  /\ fromVis = [s \in Slots |-> None] /\ fromBucket = [s \in Slots |-> None]
  /\ toVis = [s \in Slots |-> None] /\ toBucket = [s \in Slots |-> None]
  /\ verdicts = 0 /\ deletions = 0
  /\ failed = FALSE /\ unarchived = FALSE /\ wiped = FALSE

-----------------------------------------------------------------------------
(* Steps of a request                                                      *)

Goto(s, label) == pc' = [pc EXCEPT ![s] = label]

Finish(s) == /\ Goto(s, "idle")
             /\ fromVis' = [fromVis EXCEPT ![s] = None]
             /\ toVis' = [toVis EXCEPT ![s] = None]
             /\ fromBucket' = [fromBucket EXCEPT ![s] = None]
             /\ toBucket' = [toBucket EXCEPT ![s] = None]

(* The row is loaded into the slot's session; v is the visibility asked for. *)
Load(s, v) == /\ fromVis' = [fromVis EXCEPT ![s] = visibility]
              /\ toVis' = [toVis EXCEPT ![s] = v]
              /\ fromBucket' = [fromBucket EXCEPT ![s] = bucket]
              /\ toBucket' = [toBucket EXCEPT ![s] = bucket]

Moved(s) == toBucket[s] # fromBucket[s]

(* storage.copy_object from the bucket the slot loaded; the source may have
   been dropped by somebody else. *)
Copy(s, dest) == /\ fromBucket[s] \in stored
                 /\ stored' = stored \cup {dest}
                 /\ toBucket' = [toBucket EXCEPT ![s] = dest]

CopyFails(s) == (fromBucket[s] \notin stored \/ Faults) /\ UNCHANGED stored

(* _best_effort_remove: an absent copy is no error, a failure is swallowed. *)
Remove(b) == \/ stored' = stored \ {b} /\ UNCHANGED failed
             \/ Faults /\ failed' = TRUE /\ UNCHANGED stored

-----------------------------------------------------------------------------
(* update_object                                                           *)

(* _load_object, then _relocate_for_visibility up to its early returns. *)
LoadForUpdate(s, v) ==
  /\ s \in Updaters /\ pc[s] = "idle"
  /\ exists /\ ~deleted
  /\ Load(s, v)
  /\ Goto(s, IF v = visibility \/ BucketOf(v) = bucket THEN "save" ELSE "relocate")
  /\ UNCHANGED <<rowVars, stored, jobVars, histVars>>

(* A move in the store, ahead of the commit that repoints the row. *)
RelocateByMoving(s) ==
  /\ pc[s] = "relocate" /\ fromBucket[s] \in stored
  /\ stored' = (stored \cup {BucketOf(toVis[s])}) \ {fromBucket[s]}
  /\ toBucket' = [toBucket EXCEPT ![s] = BucketOf(toVis[s])]
  /\ Goto(s, "save")
  /\ UNCHANGED <<rowVars, jobVars, fromVis, fromBucket, toVis, histVars>>

(* The bytes are copied to the new bucket, or the request answers 502. *)
Relocate(s) ==
  /\ pc[s] = "relocate"
  /\ \/ /\ Copy(s, BucketOf(toVis[s]))
        /\ Goto(s, "save")
        /\ UNCHANGED <<fromVis, fromBucket, toVis>>
     \/ CopyFails(s) /\ Finish(s)
  /\ UNCHANGED <<rowVars, jobVars, histVars>>

(* A visibility change that leaves storage_bucket as it was. *)
SaveVisibilityOnly(s) ==
  /\ pc[s] = "save" /\ exists
  /\ visibility' = IF toVis[s] # fromVis[s] THEN toVis[s] ELSE visibility
  /\ IF Moved(s) THEN Goto(s, "drop") /\ UNCHANGED reqVars ELSE Finish(s)
  /\ UNCHANGED <<exists, status, scan, bucket, deleted, aged, stored, jobVars,
                 histVars>>

(* The commit writes the columns this request changed.  It fails when the row
   is gone; a move whose commit failed is undone. *)
SaveUpdate(s) ==
  /\ pc[s] = "save"
  /\ \/ /\ exists
        /\ visibility' = IF toVis[s] # fromVis[s] THEN toVis[s] ELSE visibility
        /\ bucket' = IF Moved(s) THEN toBucket[s] ELSE bucket
        /\ IF Moved(s) THEN Goto(s, "drop") /\ UNCHANGED reqVars ELSE Finish(s)
        /\ UNCHANGED failed
     \/ /\ ~exists \/ Faults
        /\ failed' = (failed \/ exists)
        /\ IF Moved(s) THEN Goto(s, "undo") /\ UNCHANGED reqVars ELSE Finish(s)
        /\ UNCHANGED <<visibility, bucket>>
  /\ UNCHANGED <<exists, status, scan, deleted, aged, stored, jobVars, verdicts,
                 deletions, unarchived, wiped>>

(* The copy without a row is removed again. *)
UndoMove(s) ==
  /\ pc[s] = "undo"
  /\ Remove(toBucket[s])
  /\ Finish(s)
  /\ UNCHANGED <<rowVars, jobVars, verdicts, deletions, unarchived, wiped>>

(* A mover that keeps the old copy. *)
KeepOld(s) ==
  /\ pc[s] = "drop"
  /\ Finish(s)
  /\ UNCHANGED <<rowVars, stored, jobVars, histVars>>

(* The copy in the bucket the slot loaded is removed, also after a delete. *)
DropOld(s) ==
  /\ pc[s] = "drop"
  /\ Remove(fromBucket[s])
  /\ Finish(s)
  /\ UNCHANGED <<rowVars, jobVars, verdicts, deletions, unarchived, wiped>>

-----------------------------------------------------------------------------
(* delete_object                                                           *)

(* A row already soft-deleted returns early. *)
LoadForDelete(s) ==
  /\ s \in Deleters /\ pc[s] = "idle"
  /\ exists /\ ~deleted
  /\ Load(s, visibility)
  /\ Goto(s, "archive")
  /\ UNCHANGED <<rowVars, stored, jobVars, histVars>>

(* An archive move that drops the source ahead of the commit. *)
ArchiveByMoving(s) ==
  /\ pc[s] = "archive"
  /\ IF fromBucket[s] \in stored
       THEN /\ stored' = (stored \cup {Archive}) \ {fromBucket[s]}
            /\ toBucket' = [toBucket EXCEPT ![s] = Archive]
       ELSE UNCHANGED <<stored, toBucket>>
  /\ Goto(s, "softDelete")
  /\ UNCHANGED <<rowVars, jobVars, fromVis, toVis, fromBucket, histVars>>

(* _archive_deleted_bytes: a failed copy leaves the bucket as loaded. *)
ArchiveBytes(s) ==
  /\ pc[s] = "archive"
  /\ \/ Copy(s, Archive) /\ UNCHANGED unarchived
     \/ /\ CopyFails(s)
        /\ unarchived' = (unarchived \/ fromBucket[s] \in stored)
        /\ UNCHANGED toBucket
  /\ Goto(s, "softDelete")
  /\ UNCHANGED <<rowVars, jobVars, fromVis, toVis, fromBucket, verdicts,
                 deletions, failed, wiped>>

(* The commit soft-deletes the row and stages object.deleted. *)
CommitSoftDelete(s) ==
  /\ pc[s] = "softDelete"
  /\ \/ /\ exists
        /\ deleted' = TRUE /\ status' = "deleted"
        /\ bucket' = IF Moved(s) THEN toBucket[s] ELSE bucket
        /\ deletions' = deletions + 1
        /\ Goto(s, IF Moved(s) THEN "drop" ELSE "dropPublic")
        /\ UNCHANGED <<failed, reqVars>>
     \/ /\ ~exists \/ Faults
        /\ failed' = TRUE
        /\ Finish(s)
        /\ UNCHANGED <<deleted, status, bucket, deletions>>
  /\ UNCHANGED <<exists, scan, visibility, aged, stored, jobVars, verdicts,
                 unarchived, wiped>>

(* A soft-delete that forgets the public bytes it could not archive. *)
KeepPublic(s) ==
  /\ pc[s] = "dropPublic"
  /\ Finish(s)
  /\ UNCHANGED <<rowVars, stored, jobVars, histVars>>

(* Not archived: the row as it is after the commit says whether the bytes are
   public, and from which bucket to take them. *)
DropPublic(s) ==
  /\ pc[s] = "dropPublic"
  /\ IF exists /\ visibility = "public"
       THEN Remove(bucket) ELSE UNCHANGED <<stored, failed>>
  /\ Finish(s)
  /\ UNCHANGED <<rowVars, jobVars, verdicts, deletions, unarchived, wiped>>

-----------------------------------------------------------------------------
(* apply_scan_result, and the worker that calls it                         *)

(* The media worker removes infected bytes before it reports (external). *)
WorkerRemovesInfected ==
  /\ infected /\ verdicts < VerdictCap
  /\ stored' = stored \ {scanBucket}
  /\ UNCHANGED <<rowVars, jobVars, pc, reqVars, histVars>>

(* Loads the row also when soft-deleted, and commits the columns it sets; the
   load and the commit are one step, since any step between them could as well
   come before or after both. *)
ApplyScanResult ==
  /\ exists /\ verdicts < VerdictCap
  /\ \/ /\ ~infected
        /\ scan' = "clean" /\ status' = "ready"
     \/ /\ scan' = "quarantined"
        /\ UNCHANGED status
  /\ verdicts' = verdicts + 1
  /\ UNCHANGED <<exists, visibility, bucket, deleted, aged, stored, jobVars, pc,
                 reqVars, deletions, failed, unarchived, wiped>>

-----------------------------------------------------------------------------
(* Maintenance                                                             *)

(* The retention window, a day at least, outlasts the requests that were in
   flight when the row was soft-deleted. *)
RetentionElapses ==
  /\ deleted /\ ~aged
  /\ \A s \in Updaters \cup Deleters : pc[s] = "idle"
  /\ aged' = TRUE
  /\ UNCHANGED <<exists, status, scan, visibility, bucket, deleted, stored,
                 jobVars, pc, reqVars, histVars>>

(* hard_purge_expired selects the row; its re-assertion reads the same copy. *)
SelectExpired(p) ==
  /\ p \in Purgers /\ pc[p] = "idle"
  /\ exists /\ deleted /\ aged /\ status = "deleted"
  /\ Load(p, visibility)
  /\ Goto(p, "wipe")
  /\ UNCHANGED <<rowVars, stored, jobVars, histVars>>

WipeBytes(p) ==
  /\ pc[p] = "wipe"
  /\ Remove(fromBucket[p])
  /\ wiped' = TRUE
  /\ Goto(p, "purgeRow")
  /\ UNCHANGED <<rowVars, jobVars, reqVars, verdicts, deletions, unarchived>>

(* The variants of a clean image hold a foreign key on the row. *)
PurgeRowBlocked(p) ==
  /\ pc[p] = "purgeRow"
  /\ exists' = (exists /\ scan = "clean")
  /\ Finish(p)
  /\ UNCHANGED <<status, scan, visibility, bucket, deleted, aged, stored,
                 jobVars, histVars>>

(* The row goes with the batch's commit, if another run has not taken it. *)
PurgeRow(p) ==
  /\ pc[p] = "purgeRow"
  /\ exists' = FALSE
  /\ Finish(p)
  /\ UNCHANGED <<status, scan, visibility, bucket, deleted, aged, stored,
                 jobVars, histVars>>

PurgeFails(p) ==
  /\ Faults /\ pc[p] = "purgeRow"
  /\ failed' = TRUE
  /\ Finish(p)
  /\ UNCHANGED <<rowVars, stored, jobVars, verdicts, deletions, unarchived, wiped>>

(* A key with a row anywhere is taken for accounted for. *)
FindOrphanByKey(r, b) ==
  /\ r \in Repairers /\ pc[r] = "idle"
  /\ b \in stored /\ ~exists
  /\ fromBucket' = [fromBucket EXCEPT ![r] = b]
  /\ Goto(r, "repair")
  /\ UNCHANGED <<rowVars, stored, jobVars, fromVis, toVis, toBucket, histVars>>

(* reconcile_orphans with repair: a listed key without a row at this bucket. *)
FindOrphan(r, b) ==
  /\ r \in Repairers /\ pc[r] = "idle"
  /\ b \in stored /\ ~(exists /\ bucket = b)
  /\ fromBucket' = [fromBucket EXCEPT ![r] = b]
  /\ Goto(r, "repair")
  /\ UNCHANGED <<rowVars, stored, jobVars, fromVis, toVis, toBucket, histVars>>

RemoveOrphan(r) ==
  /\ pc[r] = "repair"
  /\ Remove(fromBucket[r])
  /\ Finish(r)
  /\ UNCHANGED <<rowVars, jobVars, verdicts, deletions, unarchived, wiped>>

(* The process serving a request ends between two of its steps. *)
Crash(s) ==
  /\ Faults /\ pc[s] # "idle"
  /\ failed' = TRUE
  /\ Finish(s)
  /\ UNCHANGED <<rowVars, stored, jobVars, verdicts, deletions, unarchived, wiped>>

-----------------------------------------------------------------------------
Update(s) == Relocate(s) \/ SaveUpdate(s) \/ UndoMove(s) \/ DropOld(s)
Delete(s) == ArchiveBytes(s) \/ CommitSoftDelete(s) \/ DropPublic(s)
Purge(p) == SelectExpired(p) \/ WipeBytes(p) \/ PurgeRow(p)

Next ==
  \/ \E s \in Slots : Update(s) \/ Delete(s) \/ LoadForDelete(s) \/ Crash(s)
  \/ \E s \in Updaters, v \in Visibilities : LoadForUpdate(s, v)
  \/ WorkerRemovesInfected \/ ApplyScanResult \/ RetentionElapses
  \/ \E p \in Purgers : Purge(p) \/ PurgeFails(p)
  \/ \E r \in Repairers : RemoveOrphan(r) \/ \E b \in Buckets : FindOrphan(r, b)

Spec == Init /\ [][Next]_vars

(* Requests are served to their end, time passes, and the daily purge comes
   again after a failure until one run succeeds, as does a repair. *)
FairSpec == /\ Spec
            /\ \A s \in Slots : WF_vars(Update(s) \/ Delete(s))
            /\ WF_vars(RetentionElapses)
            /\ \A p \in Purgers : /\ SF_vars(SelectExpired(p))
                                  /\ SF_vars(WipeBytes(p))
                                  /\ SF_vars(PurgeRow(p))
            /\ \A r \in Repairers, b \in {BucketOf(v) : v \in Visibilities} \cup {Archive} :
                   /\ SF_vars(FindOrphan(r, b))
                   /\ SF_vars(RemoveOrphan(r) /\ fromBucket[r] = b /\ b \notin stored')

-----------------------------------------------------------------------------
(* Properties                                                              *)

Quiet == \A s \in Slots : pc[s] = "idle"

(* update_object, delete_object: the row never points at bytes that are not
   there.  Only the worker's removal of infected bytes leaves a live row
   without them. *)
LiveBytesPresent == exists /\ ~deleted /\ ~infected => bucket \in stored

(* update_object: metadata never diverges from where the object lives. *)
BytesFollowVisibility == exists /\ ~deleted => bucket = BucketOf(visibility)

(* The buckets hold only what the service still serves: between requests, if
   no call failed, no copy is left but the one the row points at. *)
NothingLeftBehind ==
  Quiet /\ ~failed => stored \subseteq (IF exists THEN {bucket} ELSE {})

(* delete_object: a deleted object's bytes leave the public bucket, also when
   they could not be archived. *)
PublicGoesDark == Quiet /\ ~failed /\ deleted => "public-media" \notin stored

(* delete_object: a deleted object's bytes wait in the bucket the row names
   for the whole retention window, whatever fails; only public ones that the
   store failed to archive are given up. *)
Recoverable ==
  exists /\ deleted /\ ~wiped /\ ~infected /\ (unarchived => visibility # "public")
    => bucket \in stored

(* delete_object: a repeated delete emits no second object.deleted. *)
DeletedOnce == deletions <= 1

(* apply_scan_result: re-applying a verdict is a no-op. *)
SameVerdictIsNoOp ==
  [][/\ scan # "pending" /\ scan' = scan /\ status' = status /\ ~deleted
     => verdicts' = verdicts]_vars

(* hard_purge_expired reclaims a soft-deleted row in the end, unless a CLEAN
   verdict reported after the delete has made it READY again. *)
EventuallyPurged == deleted ~> (~exists \/ status = "ready")

(* reconcile_orphans with repair: every copy that failures left without a row
   at its bucket is reclaimed, unless the row comes to point at it. *)
OrphansReclaimed ==
  \A b \in Buckets :
    b \in stored /\ ~(exists /\ bucket = b)
      ~> (b \notin stored \/ (exists /\ bucket = b))

(* hard_purge_expired: a row whose status is flipped back between the SELECT
   and the DELETE is skipped. *)
RestoredIsKept == [][exists /\ ~exists' => status = "deleted"]_vars

(* README: the hard purge removes objects soft-deleted longer than the
   retention window. *)
DeletedIsPurged == deleted ~> ~exists
==============================================================================
