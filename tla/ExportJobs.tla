------------------------------ MODULE ExportJobs ------------------------------
(***************************************************************************)
(* The archive exports of one caller: the export_job rows, the requests    *)
(* that create and enqueue them, the worker's callbacks, and the archive   *)
(* bytes the orphan repair may reclaim (controllers/transfer.py,           *)
(* routes/transfer.py, maintenance.py).                                    *)
(*                                                                         *)
(* A request looks for an unfinished job, inserts its own, and enqueues it *)
(* after the commit; a callback loads the job, decides, and commits.  The  *)
(* broker and the archive worker are outside this repository: a call the   *)
(* worker has made may reach the service late, twice or never.             *)
(***************************************************************************)
EXTENDS Naturals, FiniteSets

CONSTANTS Jobs,       \* export_job ids
          None,       \* no job
          Requests,   \* slots serving POST /export
          Handlers,   \* slots serving PATCH /internal/export-jobs/{id}
          MaxTries,   \* bound on deliveries of one job to the worker
          Ambiguous,  \* TRUE: an enqueue may raise though the broker took the job
          Crashes,    \* TRUE: the process serving a request may stop
          Repairs     \* TRUE: an operator runs the orphan repair

ASSUME ExportAssumption ==
  None \notin Jobs /\ MaxTries \in Nat \ {0} /\ {Ambiguous, Crashes, Repairs} \subseteq BOOLEAN

VARIABLES job,      \* export_job.status, "none" before the row is in
          window,   \* expires_at: not set, to come, or passed
          archive,  \* bytes are stored under the job's key
          req,      \* per request slot: next step and job
          handler,  \* per callback slot: the job and status asked for, as loaded
          work,     \* per job: what the broker and the worker make of it
          tries,    \* per job: deliveries to the worker
          calls,    \* callbacks the worker has sent
          repair,   \* the orphan repair, and the jobs whose keys it spares
          stranded  \* history: jobs whose request stopped before it was answered

vars == <<job, window, archive, req, handler, work, tries, calls, repair, stranded>>

Asks == {"processing", "completed", "failed"}
Active == {"queued", "processing"}

TypeOK ==
  /\ job \in [Jobs -> {"none", "queued"} \cup Asks]
  /\ window \in [Jobs -> {"unset", "open", "lapsed"}]
  /\ archive \in [Jobs -> BOOLEAN]
  /\ req \in [Requests -> [at : {"idle", "insert", "enqueue", "fail", "commitFail"},
                           id : Jobs \cup {None}]]
  /\ handler \in [Handlers -> [id : Jobs \cup {None}, ask : Asks,
                               seen : {"queued"} \cup Asks]]
  /\ work \in [Jobs -> {"none", "queued", "taken", "built", "done"}]
  /\ tries \in [Jobs -> 0..MaxTries]
  /\ calls \subseteq Jobs \X Asks
  /\ stranded \subseteq Jobs
  /\ repair \in [on : BOOLEAN, spared : SUBSET Jobs]

Free == [at |-> "idle", id |-> None]
NoCall == [id |-> None, ask |-> "processing", seen |-> "queued"]
NoRepair == [on |-> FALSE, spared |-> {}]

Init ==
  /\ job = [j \in Jobs |-> "none"] /\ window = [j \in Jobs |-> "unset"]
  /\ archive = [j \in Jobs |-> FALSE]
  /\ req = [r \in Requests |-> Free] /\ handler = [h \in Handlers |-> NoCall]
  /\ work = [j \in Jobs |-> "none"] /\ tries = [j \in Jobs |-> 0]
  /\ calls = {} /\ repair = NoRepair /\ stranded = {}

Goto(r, label, j) == req' = [req EXCEPT ![r] = [at |-> label, id |-> j]]
Respond(r) == req' = [req EXCEPT ![r] = Free]

-----------------------------------------------------------------------------
(* POST /export, format archive                                            *)

(* Nothing looks for an unfinished job. *)
StartUnchecked(r) ==
  /\ req[r] = Free
  /\ Goto(r, "insert", None)
  /\ UNCHANGED <<job, window, archive, handler, work, tries, calls, repair, stranded>>

(* _active_export_job: 409 while the caller has an unfinished job. *)
Start(r) ==
  /\ req[r] = Free
  /\ \A j \in Jobs : job[j] \notin Active
  /\ Goto(r, "insert", None)
  /\ UNCHANGED <<job, window, archive, handler, work, tries, calls, repair, stranded>>

(* Past the ceilings, the row is committed QUEUED. *)
Insert(r) ==
  /\ req[r].at = "insert"
  /\ \E j \in Jobs :
       /\ job[j] = "none"
       /\ job' = [job EXCEPT ![j] = "queued"]
       /\ Goto(r, "enqueue", j)
  /\ UNCHANGED <<window, archive, handler, work, tries, calls, repair, stranded>>

(* Too many objects or bytes: 422 before a row exists that would hold the slot. *)
RefuseOversized(r) ==
  /\ req[r].at = "insert" /\ Respond(r)
  /\ UNCHANGED <<job, window, archive, handler, work, tries, calls, repair, stranded>>

(* enqueue_export_archive, which raises when the broker does not answer. *)
Enqueue(r) ==
  LET j == req[r].id
      took == work' = [work EXCEPT ![j] = "queued"]
  IN /\ req[r].at = "enqueue"
     /\ \/ took /\ Respond(r)
        \/ UNCHANGED work /\ Goto(r, "fail", j)
        \/ Ambiguous /\ took /\ Goto(r, "fail", j)
     /\ UNCHANGED <<job, window, archive, handler, tries, calls, repair, stranded>>

(* The job that was not enqueued is left as it is. *)
FailNothing(r) ==
  /\ req[r].at = "fail" /\ Respond(r)
  /\ UNCHANGED <<job, window, archive, handler, work, tries, calls, repair, stranded>>

(* fail_unqueued_export: only a QUEUED job is failed... *)
FailUnqueued(r) ==
  /\ req[r].at = "fail"
  /\ IF job[req[r].id] = "queued" THEN Goto(r, "commitFail", req[r].id) ELSE Respond(r)
  /\ UNCHANGED <<job, window, archive, handler, work, tries, calls, repair, stranded>>

(* ...whatever it has become by the commit. *)
CommitFail(r) ==
  /\ req[r].at = "commitFail"
  /\ job' = [job EXCEPT ![req[r].id] = "failed"]
  /\ Respond(r)
  /\ UNCHANGED <<window, archive, handler, work, tries, calls, repair, stranded>>

Crash(r) ==
  /\ Crashes /\ req[r] # Free
  /\ stranded' = stranded \cup ({req[r].id} \ {None})
  /\ Respond(r)
  /\ UNCHANGED <<job, window, archive, handler, work, tries, calls, repair>>

-----------------------------------------------------------------------------
(* The broker and media-worker, as the code in this repository uses them   *)

Call(j, ask) == calls' = calls \cup {<<j, ask>>}

(* A delivered job is announced as PROCESSING. *)
Take(j) ==
  /\ work[j] = "queued"
  /\ work' = [work EXCEPT ![j] = "taken"]
  /\ tries' = [tries EXCEPT ![j] = @ + 1]
  /\ Call(j, "processing")
  /\ UNCHANGED <<job, window, archive, req, handler, repair, stranded>>

(* The archive is stored under the commissioned key... *)
Build(j) ==
  /\ work[j] = "taken"
  /\ archive' = [archive EXCEPT ![j] = TRUE]
  /\ work' = [work EXCEPT ![j] = "built"]
  /\ UNCHANGED <<job, window, req, handler, tries, calls, repair, stranded>>

(* ...and then reported, or the attempt as failed. *)
Report(j) ==
  /\ \/ work[j] = "built" /\ Call(j, "completed")
     \/ work[j] = "taken" /\ Call(j, "failed")
  /\ work' = [work EXCEPT ![j] = "done"]
  /\ UNCHANGED <<job, window, archive, req, handler, tries, repair, stranded>>

(* A worker that stops, or gets no answer, sees the job again. *)
Redeliver(j) ==
  /\ work[j] \in {"taken", "built", "done"} /\ tries[j] < MaxTries
  /\ work' = [work EXCEPT ![j] = "queued"]
  /\ UNCHANGED <<job, window, archive, req, handler, tries, calls, repair, stranded>>

-----------------------------------------------------------------------------
(* update_export_job                                                       *)

(* Any callback is taken. *)
PermitsAll(seen, ask) == TRUE

(* A terminal job is 409 to every callback but a repeat of its own. *)
Permits(seen, ask) == seen \in Active \cup {ask}

Receive(h, j, ask) ==
  /\ handler[h] = NoCall /\ <<j, ask>> \in calls
  /\ Permits(job[j], ask)
  /\ handler' = [handler EXCEPT ![h] = [id |-> j, ask |-> ask, seen |-> job[j]]]
  /\ UNCHANGED <<job, window, archive, req, work, tries, calls, repair, stranded>>

(* Every COMPLETED callback opens the window. *)
ApplyAgain(h) ==
  LET j == handler[h].id ask == handler[h].ask IN
  /\ handler[h] # NoCall
  /\ job' = [job EXCEPT ![j] = ask]
  /\ window' = IF ask = "completed" THEN [window EXCEPT ![j] = "open"] ELSE window
  /\ handler' = [handler EXCEPT ![h] = NoCall]
  /\ UNCHANGED <<archive, req, work, tries, calls, repair, stranded>>

(* A change is written over what the job has become; a repeat writes nothing
   but updated_at. *)
Apply(h) ==
  LET j == handler[h].id
      ask == handler[h].ask
      change == handler[h].seen # ask
  IN /\ handler[h] # NoCall
     /\ job' = IF change THEN [job EXCEPT ![j] = ask] ELSE job
     /\ window' = IF change /\ ask = "completed"
                    THEN [window EXCEPT ![j] = "open"] ELSE window
     /\ handler' = [handler EXCEPT ![h] = NoCall]
     /\ UNCHANGED <<archive, req, work, tries, calls, repair, stranded>>

Lapse(j) ==
  /\ window[j] = "open"
  /\ window' = [window EXCEPT ![j] = "lapsed"]
  /\ UNCHANGED <<job, archive, req, handler, work, tries, calls, repair, stranded>>

-----------------------------------------------------------------------------
(* reconcile_orphans with repair                                           *)

(* _live_export_keys: COMPLETED jobs whose window is open. *)
StartRepair ==
  /\ Repairs /\ ~repair.on
  /\ repair' = [on |-> TRUE,
                spared |-> {j \in Jobs : job[j] = "completed" /\ window[j] = "open"}]
  /\ UNCHANGED <<job, window, archive, req, handler, work, tries, calls,
                 stranded>>

(* A listed key with no media_object row is removed. *)
RemoveOrphan(j) ==
  /\ repair.on /\ archive[j] /\ j \notin repair.spared
  /\ archive' = [archive EXCEPT ![j] = FALSE]
  /\ UNCHANGED <<job, window, req, handler, work, tries, calls, repair, stranded>>

EndRepair ==
  /\ repair.on
  /\ repair' = NoRepair
  /\ UNCHANGED <<job, window, archive, req, handler, work, tries, calls,
                 stranded>>

-----------------------------------------------------------------------------
Request(r) == \/ Insert(r) \/ RefuseOversized(r) \/ Enqueue(r)
              \/ FailUnqueued(r) \/ CommitFail(r)
Worker(j) == Take(j) \/ Build(j) \/ Report(j)

Next == \/ \E r \in Requests : Start(r) \/ Request(r) \/ Crash(r)
        \/ \E j \in Jobs : Worker(j) \/ Redeliver(j) \/ Lapse(j) \/ RemoveOrphan(j)
        \/ \E h \in Handlers : Apply(h) \/ \E j \in Jobs, ask \in Asks : Receive(h, j, ask)
        \/ StartRepair \/ EndRepair

Spec == Init /\ [][Next]_vars

(* Requests are served to their end, the worker's last try comes to a result,
   and what it reports arrives at least once. *)
FairSpec ==
  /\ Spec
  /\ \A r \in Requests : WF_vars(Request(r))
  /\ \A j \in Jobs : /\ WF_vars(Worker(j))
                     /\ SF_vars(\E h \in Handlers : Receive(h, j, "completed"))
                     /\ SF_vars(\E h \in Handlers : Receive(h, j, "failed"))
  /\ \A h \in Handlers : WF_vars(Apply(h))

-----------------------------------------------------------------------------
(* Properties                                                              *)

(* ACTIVE_EXPORT_STATUSES: a caller holds at most one unfinished export. *)
OneActive == Cardinality({j \in Jobs : job[j] \in Active}) <= 1

(* update_export_job: a terminal job stays what it is, whatever callbacks are
   repeated or late. *)
TerminalIsFinal ==
  [][\A j \in Jobs : job[j] \in {"completed", "failed"} => job'[j] = job[j]]_vars

(* update_export_job: no late or repeated callback reopens a lapsed download
   window, whose bytes may be gone. *)
WindowNeverReopens ==
  [][\A j \in Jobs : window[j] = "lapsed" => window'[j] = "lapsed"]_vars

(* _live_export_keys: a finished export is there for its owner to collect as
   long as its window is open. *)
CollectableIsThere ==
  \A j \in Jobs : job[j] = "completed" /\ window[j] = "open" => archive[j]

(* fail_unqueued_export: no job holds its caller's single slot for good, but
   one whose request stopped between commit and enqueue. *)
SlotIsFreed ==
  \A j \in Jobs : job[j] \in Active ~> job[j] \notin Active \/ j \in stranded
==============================================================================
