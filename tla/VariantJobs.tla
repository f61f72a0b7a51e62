----------------------------- MODULE VariantJobs -----------------------------
(***************************************************************************)
(* The image variants of one media object: jobs that render them, the      *)
(* worker's registrations, and what deletes, purges and repairs do to      *)
(* their rows and bytes (controllers/variants.py, core/presets.py,         *)
(* controllers/maintenance.py).                                            *)
(*                                                                         *)
(* A variant's key follows from its name, its bucket is the one the object *)
(* had when the job was asked for.  A job is served first by the route     *)
(* that creates it, then by the external worker, which may be given it     *)
(* again; a registration is a SELECT and a commit of the service.          *)
(***************************************************************************)
EXTENDS Naturals, FiniteSets

CONSTANTS Names,      \* variant names presets expand to
          Buckets,    \* buckets the object may live in
          Jobs,       \* ids of variant jobs
          Deleters,   \* slots serving delete_variant
          Purgers,    \* runs of hard_purge_expired
          MaxTries,   \* per job: deliveries to the worker
          Faults,     \* TRUE: store calls, commits and processes may fail
          None

ASSUME VariantAssumption ==
  /\ MaxTries \in [Jobs -> Nat]
  /\ Faults \in BOOLEAN
  /\ None \notin Buckets \cup Names

VARIABLES object,   \* "ready", "deleted" or "gone"
          bucket,   \* the object's storage_bucket
          rows,     \* per name: the media_variant row, if any
          born,     \* per name: rows inserted so far; the last one's id
          bytes,    \* stored variants: <<bucket, name>>
          status,   \* per job: variant_job.status, "none" without a row
          want,     \* per job: names of its specs
          target,   \* per job: target_bucket of its specs
          step,     \* per job: what happens to it next
          tries,    \* per job: deliveries so far
          done,     \* per job: names registered in this delivery
          at,       \* per job: name being rendered and registered
          read,     \* per job: the row register_variant found
          held,     \* per deleter: [name, row] it loaded, or None
          dropped,  \* per deleter: the row's delete is committed
          purge,    \* per purger: next step
          listed,   \* per purger: names of the rows it selected, with ids
          crossed,  \* history: names a job and a delete or purge worked on at once,
                    \* or a repair removed
          loose     \* history: bytes the service has lost track of

objectVars == <<object, bucket>>
rowVars    == <<rows, born>>
jobVars    == <<want, target, tries, done>>
callVars   == <<at, read>>
slotVars   == <<held, dropped>>
purgeVars  == <<purge, listed>>
vars == <<objectVars, rowVars, bytes, status, step, jobVars, callVars, slotVars,
          purgeVars, crossed, loose>>

Row == [id : Nat, bucket : Buckets]

TypeOK ==
  /\ object \in {"ready", "deleted", "gone"} /\ bucket \in Buckets
  /\ rows \in [Names -> Row \cup {None}]
  /\ born \in [Names -> Nat]
  /\ bytes \subseteq Buckets \X Names
  /\ status \in [Jobs -> {"none", "queued", "processing", "completed", "failed"}]
  /\ want \in [Jobs -> SUBSET Names]
  /\ target \in [Jobs -> Buckets \cup {None}]
  /\ step \in [Jobs -> {"idle", "commit", "enqueue", "sent", "run", "post", "upsert",
                        "giveUp", "over"}]
  /\ tries \in [Jobs -> Nat] /\ \A j \in Jobs : tries[j] <= MaxTries[j]
  /\ done \in [Jobs -> SUBSET Names]
  /\ at \in [Jobs -> Names \cup {None}]
  /\ read \in [Jobs -> Row \cup {None}]
  /\ held \in [Deleters -> [name : Names, row : Row] \cup {None}]
  /\ dropped \in [Deleters -> BOOLEAN]
  /\ purge \in [Purgers -> {"idle", "wipe", "commit"}]
  /\ listed \in [Purgers -> SUBSET (Names \X Row)]
  /\ crossed \subseteq Names
  /\ loose \subseteq Buckets \X Names
  (* The foreign keys of media_variant and variant_job. *)
  /\ object = "gone" => /\ \A n \in Names : rows[n] = None
                        /\ \A j \in Jobs : status[j] = "none"

Init ==
  /\ object = "ready" /\ bucket \in Buckets
  /\ rows = [n \in Names |-> None] /\ born = [n \in Names |-> 0]
  /\ bytes = {}
  /\ status = [j \in Jobs |-> "none"]
  /\ want = [j \in Jobs |-> {}] /\ target = [j \in Jobs |-> None]
  /\ step = [j \in Jobs |-> "idle"] /\ tries = [j \in Jobs |-> 0]
  /\ done = [j \in Jobs |-> {}]
  /\ at = [j \in Jobs |-> None] /\ read = [j \in Jobs |-> None]
  /\ held = [d \in Deleters |-> None] /\ dropped = [d \in Deleters |-> FALSE]
  /\ purge = [p \in Purgers |-> "idle"] /\ listed = [p \in Purgers |-> {}]
  /\ crossed = {} /\ loose = {}

-----------------------------------------------------------------------------
(* Where bytes are                                                         *)

LocationOf(n, row) == <<row.bucket, n>>

Listed == {LocationOf(n, rows[n]) : n \in {m \in Names : rows[m] # None}}

Targets(j) == {<<target[j], n>> : n \in want[j]}

(* The names that a job and a delete or a purge are at work on at once. *)
Overlap == crossed' = crossed \cup {n \in Names :
             /\ \E j \in Jobs : at'[j] = n
             /\ \/ \E d \in Deleters : held'[d] # None /\ held'[d].name = n
                \/ \E p \in Purgers : purge'[p] # "idle"}

(* The service's knowledge of a location ends: history only. *)
Lose(locations) == loose' = loose \cup (locations \cap bytes')

GotoJob(j, label) == step' = [step EXCEPT ![j] = label]

-----------------------------------------------------------------------------
(* The object, which ObjectLifecycle details                               *)

MoveObject ==
  /\ object = "ready"
  /\ \E b \in Buckets \ {bucket} : bucket' = b
  /\ UNCHANGED <<object, rowVars, bytes, status, step, jobVars, callVars, slotVars,
                 purgeVars, crossed, loose>>

DeleteObject ==
  /\ object = "ready"
  /\ object' = "deleted"
  /\ UNCHANGED <<bucket, rowVars, bytes, status, step, jobVars, callVars, slotVars,
                 purgeVars, crossed, loose>>

-----------------------------------------------------------------------------
(* generate: the route                                                     *)

(* resolve_presets: one spec per preset and format; a request of unknown names,
   or of too many outputs, is refused before anything is written. *)
Requests == SUBSET Names \ {{}}

(* The object must be READY and CLEAN; its specs name the bucket it is in. *)
LoadForGenerate(j, ns) ==
  /\ step[j] = "idle" /\ object = "ready" /\ ns \in Requests
  /\ want' = [want EXCEPT ![j] = ns]
  /\ target' = [target EXCEPT ![j] = bucket]
  /\ GotoJob(j, "commit")
  /\ UNCHANGED <<objectVars, rowVars, bytes, status, tries, done, callVars, slotVars,
                 purgeVars, crossed, loose>>

(* The job is inserted QUEUED, unless its object is gone. *)
CommitJob(j) ==
  /\ step[j] = "commit"
  /\ \/ /\ object # "gone"
        /\ status' = [status EXCEPT ![j] = "queued"]
        /\ GotoJob(j, "enqueue")
     \/ /\ object = "gone" \/ Faults
        /\ GotoJob(j, "over")
        /\ UNCHANGED status
  /\ UNCHANGED <<objectVars, rowVars, bytes, jobVars, callVars, slotVars, purgeVars,
                 crossed, loose>>

(* The route enqueues after the commit; if it cannot, the row stays QUEUED. *)
EnqueueVariants(j) ==
  /\ step[j] = "enqueue"
  /\ GotoJob(j, "sent") \/ (Faults /\ GotoJob(j, "over"))
  /\ UNCHANGED <<objectVars, rowVars, bytes, status, jobVars, callVars, slotVars,
                 purgeVars, crossed, loose>>

-----------------------------------------------------------------------------
(* The worker and its callbacks                                            *)

(* update_job_status writes what it is given, 404 without a row. *)
UpdateJobStatus(j, s) ==
  status' = [status EXCEPT ![j] = IF @ = "none" THEN "none" ELSE s]

(* The worker takes the job up and says so. *)
Take(j) ==
  /\ step[j] = "sent" /\ tries[j] < MaxTries[j]
  /\ tries' = [tries EXCEPT ![j] = @ + 1]
  /\ done' = [done EXCEPT ![j] = {}]
  /\ UpdateJobStatus(j, "processing")
  /\ GotoJob(j, "run")
  /\ UNCHANGED <<objectVars, rowVars, bytes, want, target, callVars, slotVars, purgeVars,
                 crossed, loose>>

(* It writes one output at the target its spec names... *)
Render(j, n) ==
  /\ step[j] = "run" /\ n \in want[j] \ done[j]
  /\ bytes' = bytes \cup {<<target[j], n>>}
  /\ loose' = loose \ {<<target[j], n>>}
  /\ at' = [at EXCEPT ![j] = n]
  /\ GotoJob(j, "post")
  /\ UNCHANGED <<objectVars, rowVars, status, jobVars, read, slotVars, purgeVars>>
  /\ Overlap

(* ...and registers it.  register_variant: 404 without the object, deleted ones
   included; the row of that name, if any, is read. *)
LoadVariant(j) ==
  /\ step[j] = "post"
  /\ IF object = "gone"
       THEN GotoJob(j, "giveUp") /\ UNCHANGED read
       ELSE GotoJob(j, "upsert") /\ read' = [read EXCEPT ![j] = rows[at[j]]]
  /\ UNCHANGED <<objectVars, rowVars, bytes, status, jobVars, at, slotVars, purgeVars,
                 crossed, loose>>

(* The unlocked SELECT decides: an insert needs the name free and the object
   there, an update the row it read still there. *)
Writable(n, found) == /\ object # "gone"
                      /\ IF found = None THEN rows[n] = None
                         ELSE rows[n] # None /\ rows[n].id = found.id

Upserted(n, found, b) ==
  /\ born' = [born EXCEPT ![n] = IF found = None THEN @ + 1 ELSE @]
  /\ rows' = [rows EXCEPT ![n] = [id |-> born'[n], bucket |-> b]]

(* The commit of the row and its variant.ready.  The answer may be lost: then,
   as after a refusal, the worker ends this delivery. *)
Upsert(j) ==
  LET n == at[j] IN
  /\ step[j] = "upsert"
  /\ \/ /\ Writable(n, read[j])
        /\ Upserted(n, read[j], target[j])
        /\ UNCHANGED bytes
        /\ Lose({location \in Listed : location[2] = n} \ {<<target[j], n>>})
        /\ \/ /\ done' = [done EXCEPT ![j] = @ \cup {n}]
              /\ at' = [at EXCEPT ![j] = None]
              /\ GotoJob(j, "run")
           \/ Faults /\ GotoJob(j, "giveUp") /\ UNCHANGED <<done, at>>
     \/ /\ ~Writable(n, read[j]) \/ Faults
        /\ GotoJob(j, "giveUp")
        /\ UNCHANGED <<rowVars, bytes, done, at, loose>>
  /\ read' = [read EXCEPT ![j] = None]
  /\ UNCHANGED <<objectVars, status, want, target, tries, slotVars, purgeVars, crossed>>

(* The job's last word; what it wrote and did not register is lost, unless the
   acknowledgement is, and the job is delivered again. *)
Conclude(j, s) ==
  /\ UpdateJobStatus(j, s)
  /\ at' = [at EXCEPT ![j] = None]
  /\ UNCHANGED <<objectVars, rowVars, bytes, jobVars, read, slotVars, purgeVars, crossed>>
  /\ \/ GotoJob(j, "over") /\ Lose(Targets(j) \ Listed)
     \/ Faults /\ tries[j] < MaxTries[j] /\ GotoJob(j, "sent") /\ UNCHANGED loose

Complete(j) == step[j] = "run" /\ done[j] = want[j] /\ Conclude(j, "completed")

Abandon(j) == step[j] = "giveUp" /\ Conclude(j, "failed")

(* A delivery that ends without an acknowledgement, at any point, is followed by
   another, unless there have been enough. *)
Redeliver(j) ==
  /\ step[j] \in {"run", "post", "giveUp"} /\ (Faults \/ step[j] = "giveUp")
  /\ tries[j] < MaxTries[j]
  /\ at' = [at EXCEPT ![j] = None]
  /\ GotoJob(j, "sent")
  /\ UNCHANGED <<objectVars, rowVars, bytes, status, jobVars, read, slotVars, purgeVars,
                 crossed, loose>>

-----------------------------------------------------------------------------
(* delete_variant                                                          *)

(* The object is live and has the variant. *)
LoadForDelete(d, n) ==
  /\ held[d] = None /\ object = "ready" /\ rows[n] # None
  /\ held' = [held EXCEPT ![d] = [name |-> n, row |-> rows[n]]]
  /\ UNCHANGED <<objectVars, rowVars, bytes, status, step, jobVars, callVars, dropped,
                 purgeVars, loose>>
  /\ Overlap

Release(d) == /\ held' = [held EXCEPT ![d] = None]
              /\ dropped' = [dropped EXCEPT ![d] = FALSE]

DropRow(d) == rows' = [rows EXCEPT ![held[d].name] =
                         IF @ # None /\ @.id = held[d].row.id THEN None ELSE @]

(* The bytes go before the row is committed. *)
RemoveThenCommit(d) ==
  /\ held[d] # None /\ ~dropped[d]
  /\ bytes' = bytes \ {LocationOf(held[d].name, held[d].row)}
  /\ \/ DropRow(d) /\ dropped' = [dropped EXCEPT ![d] = TRUE] /\ UNCHANGED held
     \/ Faults /\ Release(d) /\ UNCHANGED rows
  /\ UNCHANGED <<objectVars, born, status, step, jobVars, callVars, purgeVars, crossed,
                 loose>>

(* The row goes by its id; a row no longer there is no error. *)
CommitDelete(d) ==
  /\ held[d] # None /\ ~dropped[d]
  /\ \/ DropRow(d) /\ dropped' = [dropped EXCEPT ![d] = TRUE] /\ UNCHANGED held
     \/ Faults /\ Release(d) /\ UNCHANGED rows
  /\ UNCHANGED <<objectVars, born, bytes, status, step, jobVars, callVars, purgeVars,
                 crossed, loose>>

(* The bytes go best-effort, or not at all if the process ends first. *)
RemoveVariant(d) ==
  /\ held[d] # None /\ dropped[d]
  /\ LET location == LocationOf(held[d].name, held[d].row) IN
     \/ bytes' = bytes \ {location} /\ loose' = loose \ {location}
     \/ Faults /\ UNCHANGED bytes /\ Lose({location})
  /\ Release(d)
  /\ UNCHANGED <<objectVars, rowVars, status, step, jobVars, callVars, purgeVars, crossed>>

-----------------------------------------------------------------------------
(* hard_purge_expired and reconcile_orphans                                *)

GotoPurge(p, label) == purge' = [purge EXCEPT ![p] = label]

(* The expired object and its variants are read... *)
SelectVariants(p) ==
  /\ purge[p] = "idle" /\ object = "deleted"
  /\ listed' = [listed EXCEPT ![p] = {<<n, rows[n]>> : n \in {m \in Names : rows[m] # None}}]
  /\ GotoPurge(p, "wipe")
  /\ UNCHANGED <<objectVars, rowVars, bytes, status, step, jobVars, callVars, slotVars,
                 loose>>
  /\ Overlap

(* Their bytes are looked for where the object is. *)
WipeWhereObjectIs(p) ==
  /\ purge[p] = "wipe"
  /\ bytes' = bytes \ {<<bucket, v[1]>> : v \in listed[p]}
  /\ GotoPurge(p, "commit")
  /\ UNCHANGED <<objectVars, rowVars, status, step, jobVars, callVars, slotVars, listed,
                 crossed, loose>>

(* ...their bytes removed, each best-effort... *)
WipeVariants(p) ==
  LET locations == {LocationOf(v[1], v[2]) : v \in listed[p]} IN
  /\ purge[p] = "wipe"
  /\ \E removed \in (IF Faults THEN SUBSET locations ELSE {locations}) :
       /\ bytes' = bytes \ removed
       /\ loose' = (loose \ removed) \cup ((locations \ removed) \cap bytes)
  /\ GotoPurge(p, "commit")
  /\ UNCHANGED <<objectVars, rowVars, status, step, jobVars, callVars, slotVars, listed,
                 crossed>>

(* No variant refers to the object but those the purge has selected. *)
Childless(p) == \A n \in Names : rows[n] # None =>
                  \E v \in listed[p] : v[1] = n /\ v[2].id = rows[n].id

FinishPurge(p) == GotoPurge(p, "idle") /\ listed' = [listed EXCEPT ![p] = {}]

(* The jobs of the object are left where they are. *)
PurgeVariantsOnly(p) ==
  /\ purge[p] = "commit"
  /\ IF Childless(p) /\ \A j \in Jobs : status[j] = "none"
       THEN object' = "gone" /\ rows' = [n \in Names |-> None]
       ELSE UNCHANGED <<object, rows>>
  /\ FinishPurge(p)
  /\ UNCHANGED <<bucket, born, bytes, status, step, jobVars, callVars, slotVars, crossed,
                 loose>>

(* ...and variants, jobs and object go in one commit, which a variant
   registered meanwhile makes fail: its foreign key has no cascade. *)
CommitPurge(p) ==
  /\ purge[p] = "commit"
  /\ \/ /\ Childless(p)
        /\ object' = "gone"
        /\ rows' = [n \in Names |-> None]
        /\ status' = [j \in Jobs |-> "none"]
     \/ (~Childless(p) \/ Faults) /\ UNCHANGED <<object, rows, status>>
  /\ FinishPurge(p)
  /\ UNCHANGED <<bucket, born, bytes, step, jobVars, callVars, slotVars, crossed, loose>>

(* reconcile_orphans sweeps every bucket and looks a listed key up among the
   media_object rows, where no variant has one. *)
RepairOrphan ==
  /\ \E location \in bytes :
       /\ bytes' = bytes \ {location}
       /\ loose' = loose \ {location}
       /\ crossed' = crossed \cup {location[2]}
  /\ UNCHANGED <<objectVars, rowVars, status, step, jobVars, callVars, slotVars, purgeVars>>

-----------------------------------------------------------------------------
Serve(j) == \/ CommitJob(j) \/ EnqueueVariants(j) \/ LoadVariant(j) \/ Upsert(j)
            \/ Complete(j) \/ Abandon(j) \/ Take(j) \/ Redeliver(j)

Next ==
  \/ MoveObject \/ DeleteObject \/ RepairOrphan
  \/ \E j \in Jobs : \/ Serve(j)
                     \/ \E ns \in Requests : LoadForGenerate(j, ns)
                     \/ \E n \in Names : Render(j, n)
  \/ \E d \in Deleters : \/ CommitDelete(d) \/ RemoveVariant(d)
                         \/ \E n \in Names : LoadForDelete(d, n)
  \/ \E p \in Purgers : SelectVariants(p) \/ WipeVariants(p) \/ CommitPurge(p)

Spec == Init /\ [][Next]_vars

(* The daily purge comes again after a failure, until one run commits.  Jobs and
   deletes may stop anywhere. *)
FairSpec == /\ Spec
            /\ \A p \in Purgers : /\ WF_vars(SelectVariants(p))
                                  /\ WF_vars(WipeVariants(p))
                                  /\ SF_vars(CommitPurge(p) /\ object' = "gone")
                                  /\ WF_vars(CommitPurge(p))

-----------------------------------------------------------------------------
(* Properties                                                              *)

(* list_variants: a variant listed for a READY object can be fetched, unless a
   delete of it and a job writing it overlapped or a repair removed it. *)
ListedHasBytes ==
  object = "ready" => \A n \in Names \ crossed :
    rows[n] # None => LocationOf(n, rows[n]) \in bytes

(* delete_variant, hard_purge_expired: no bytes are left behind that no row
   lists, no job is about to register and no request is about to remove, but
   those a failure, a change of bucket or a refused registration gave up, or a
   job wrote beside a delete or purge. *)
BytesAccountedFor ==
  \A location \in bytes \ loose :
    \/ location \in Listed
    \/ location[2] \in crossed
    \/ \E j \in Jobs : step[j] # "over" /\ location \in Targets(j)
    \/ \E d \in Deleters : held[d] # None /\ location = LocationOf(held[d].name, held[d].row)

(* reconcile_orphans with repair removes stored keys with no row. *)
RepairSparesListed == [][RepairOrphan => (Listed \cap bytes) \subseteq bytes']_vars

(* hard_purge_expired: an object with variants and jobs is purgeable, whatever
   registrations arrive meanwhile. *)
EventuallyPurged == object = "deleted" ~> object = "gone"

(* update_job_status advances a job: a finished one is not taken back. *)
FinishedIsFinal ==
  [][\A j \in Jobs : status[j] \in {"completed", "failed"}
                       => status'[j] \in {status[j], "none"}]_vars
=============================================================================
