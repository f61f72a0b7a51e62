---------------------------- MODULE UploadSessions ----------------------------
(***************************************************************************)
(* One upload: the upload_session row, the bytes a client posts or an      *)
(* import puts in the store, and the media_object row completion creates   *)
(* (controllers/uploads.py, controllers/transfer_import.py,                *)
(* AdminController.purge_stale_uploads).                                   *)
(*                                                                         *)
(* An import stores the bytes, records the session under the id the        *)
(* archive gives and completes it like any other.                          *)
(* complete, abort and purge each load the session, work on the store, and *)
(* commit the columns they set, whatever the row has become meanwhile;     *)
(* only the primary key of media_object, which is the session's id, stands *)
(* between two completions.  Each store call and each commit is a step.    *)
(***************************************************************************)
EXTENDS Naturals, FiniteSets

CONSTANTS Completers,  \* slots serving complete_upload
          Importers,   \* slots importing an archive's row with this id
          Aborters,    \* slots serving abort_upload
          Purgers,     \* runs of purge_stale_uploads
          Faults       \* TRUE: store calls, commits and processes may fail

Slots == Completers \cup Importers \cup Aborters \cup Purgers

ASSUME UploadAssumption == Faults \in BOOLEAN

VARIABLES status,   \* upload_session.status, "none" before the row is in
          lapsed,   \* expires_at, and with it the POST policy, has passed
          bytes,    \* what is stored: nothing, what was declared, or not that
          object,   \* media_object row with the session's id, if any
          queued,   \* the scan job of the promoted object is enqueued
          pc,       \* per slot: next step
          seen,     \* per slot: session status as loaded
          crossed   \* history: an abort, a purge, an expiry or an import's
                    \* put and another request were under way at once

vars == <<status, lapsed, bytes, object, queued, pc, seen, crossed>>

Statuses == {"none", "initiated", "completed", "aborted", "expired"}

TypeOK ==
  /\ status \in Statuses /\ lapsed \in BOOLEAN
  /\ bytes \in {"none", "good", "bad"}
  /\ object \in {"none", "uploaded", "rejected"}
  /\ queued \in BOOLEAN
  /\ pc \in [Slots -> {"idle", "stat", "expire", "sniff", "digest", "pin", "reserve",
                       "promote", "enqueue", "reject", "discard", "abortBytes",
                       "abort", "purgeBytes", "purge", "put", "unput", "record",
                       "complete"}]
  /\ seen \in [Slots -> Statuses]
  /\ crossed \in BOOLEAN

Init ==
  /\ status = "none" /\ lapsed = FALSE /\ bytes = "none"
  /\ object = "none" /\ queued = FALSE
  /\ pc = [s \in Slots |-> "idle"]
  /\ seen = [s \in Slots |-> "none"]
  /\ crossed = FALSE

(* Steps of the requests that end a session some other way than by its bytes, or
   change the bytes before there is a session. *)
Unchecked == {"expire", "abortBytes", "abort", "purgeBytes", "purge",
              "put", "unput", "record"}

Enter(s, label) ==
  /\ pc' = [pc EXCEPT ![s] = label]
  /\ crossed' = \/ crossed
                \/ \E e, t \in Slots : e # t /\ pc'[e] \in Unchecked /\ pc'[t] # "idle"

Goto(s, label) == Enter(s, label) /\ UNCHANGED seen

Finish(s) == Enter(s, "idle") /\ seen' = [seen EXCEPT ![s] = "none"]

(* The session is loaded into the slot's database session. *)
Load(s, label) == /\ pc[s] = "idle"
                  /\ Enter(s, label)
                  /\ seen' = [seen EXCEPT ![s] = status]

(* storage.remove_object, its failure logged and swallowed. *)
Remove == bytes' = "none" \/ (Faults /\ UNCHANGED bytes)

(* A request that fails at the store or the database ends with an error and
   leaves everything as it is. *)
Fails(s) == Faults /\ Finish(s) /\ UNCHANGED <<status, bytes, object, queued>>

-----------------------------------------------------------------------------
(* The client and the clock                                                *)

(* initiate_upload hands the signed form out once the session is recorded. *)
Initiate ==
  /\ status = "none"
  /\ status' = "initiated"
  /\ UNCHANGED <<lapsed, bytes, object, queued, pc, seen, crossed>>

(* The signed form stores what it is given until it lapses. *)
ClientPosts ==
  /\ status # "none" /\ ~lapsed
  /\ bytes' \in {"good", "bad"}
  /\ UNCHANGED <<status, lapsed, object, queued, pc, seen, crossed>>

Lapse ==
  /\ status # "none" /\ ~lapsed
  /\ lapsed' = TRUE
  /\ UNCHANGED <<status, bytes, object, queued, pc, seen, crossed>>

-----------------------------------------------------------------------------
(* complete_upload                                                         *)

(* _load_owned_session, _ensure_completable: 409 unless INITIATED. *)
StartComplete(s) ==
  /\ s \in Completers
  /\ status = "initiated"
  /\ Load(s, IF lapsed THEN "expire" ELSE "stat")
  /\ UNCHANGED <<status, lapsed, bytes, object, queued>>

(* A lapsed session is committed EXPIRED, its bytes untouched. *)
CommitExpired(s) ==
  /\ pc[s] = "expire"
  /\ \/ status' = "expired" /\ Finish(s) /\ UNCHANGED <<bytes, object, queued>>
     \/ Fails(s)
  /\ UNCHANGED lapsed

(* stat_object: 422 without bytes, and the session stays INITIATED. *)
Stat(s) ==
  /\ pc[s] = "stat"
  /\ \/ bytes # "none" /\ Goto(s, "sniff")
     \/ (bytes = "none" \/ Faults) /\ Finish(s)
  /\ UNCHANGED <<status, lapsed, bytes, object, queued>>

(* The size stat_object gave, and the magic bytes.  A head that cannot be read
   sniffs as nothing, which only text types may. *)
Sniff(s) ==
  /\ pc[s] = "sniff"
  /\ \/ bytes # "bad" /\ Goto(s, "digest")
     \/ (bytes # "good" \/ Faults) /\ Goto(s, "reject")
  /\ UNCHANGED <<status, lapsed, bytes, object, queued>>

(* The digest, when the client gave one: 422 if the bytes cannot be read, and
   the session stays INITIATED. *)
Digest(s) ==
  /\ pc[s] = "digest"
  /\ \/ Goto(s, "pin")
     \/ bytes = "bad" /\ Goto(s, "reject")
     \/ (bytes = "none" \/ Faults) /\ Finish(s)
  /\ UNCHANGED <<status, lapsed, bytes, object, queued>>

(* set_object_content_type: 422 if the bytes are gone. *)
Pin(s) ==
  /\ pc[s] = "pin"
  /\ \/ bytes # "none" /\ Goto(s, "reserve")
     \/ (bytes = "none" \/ Faults) /\ Finish(s)
  /\ UNCHANGED <<status, lapsed, bytes, object, queued>>

(* reserve_storage_for_object, which QuotaLedger details. *)
Reserve(s) ==
  /\ pc[s] = "reserve"
  /\ Goto(s, "promote") \/ Goto(s, "reject")
  /\ UNCHANGED <<status, lapsed, bytes, object, queued>>

(* An upsert of the object. *)
PromoteAnyway(s) ==
  /\ pc[s] = "promote"
  /\ object' = "uploaded" /\ status' = "completed"
  /\ Goto(s, "enqueue")
  /\ UNCHANGED <<lapsed, bytes, queued>>

(* The promotion leaves the session as it was. *)
PromoteObjectOnly(s) ==
  /\ pc[s] = "promote" /\ object = "none"
  /\ object' = "uploaded"
  /\ Goto(s, "enqueue")
  /\ UNCHANGED <<status, lapsed, bytes, queued>>

(* The object is inserted UPLOADED and the session COMPLETED in one commit,
   unless the primary key is taken. *)
Promote(s) ==
  /\ pc[s] = "promote"
  /\ \/ /\ object = "none"
        /\ object' = "uploaded" /\ status' = "completed"
        /\ Goto(s, "enqueue")
        /\ UNCHANGED <<bytes, queued>>
     \/ object # "none" /\ Finish(s) /\ UNCHANGED <<status, bytes, object, queued>>
     \/ Fails(s)
  /\ UNCHANGED lapsed

(* The route enqueues the scan after the commit. *)
Enqueue(s) ==
  /\ pc[s] = "enqueue"
  /\ \/ queued' = TRUE /\ Finish(s) /\ UNCHANGED <<status, bytes, object>>
     \/ Fails(s)
  /\ UNCHANGED lapsed

(* The bytes of a rejected upload go before its REJECTED row is in. *)
RejectDiscardingFirst(s) ==
  /\ pc[s] = "reject"
  /\ bytes' = "none"
  /\ IF object = "none"
       THEN object' = "rejected" /\ status' = "aborted"
       ELSE UNCHANGED <<object, status>>
  /\ Finish(s)
  /\ UNCHANGED <<lapsed, queued>>

(* _reject_upload: the object is inserted REJECTED and the session ABORTED in
   one commit, unless the primary key is taken... *)
Reject(s) ==
  /\ pc[s] = "reject"
  /\ \/ /\ object = "none"
        /\ object' = "rejected" /\ status' = "aborted"
        /\ Goto(s, "discard")
        /\ UNCHANGED <<bytes, queued>>
     \/ object # "none" /\ Finish(s) /\ UNCHANGED <<status, bytes, object, queued>>
     \/ Fails(s)
  /\ UNCHANGED lapsed

(* ...and only then are the bytes removed. *)
Discard(s) ==
  /\ pc[s] = "discard"
  /\ Remove
  /\ Finish(s)
  /\ UNCHANGED <<status, lapsed, object, queued>>

-----------------------------------------------------------------------------
(* _import_one_file                                                        *)

(* An object with the id of the row, of whatever status, is never uploaded
   again; what _importable_match, stage_upload and the request's schema refuse
   writes nothing. *)
StartImport(s) ==
  /\ s \in Importers
  /\ object = "none"
  /\ Load(s, "put")
  /\ UNCHANGED <<status, lapsed, bytes, object, queued>>

(* The archive's bytes, which need not be what its manifest says.  A put that
   fails may have stored something. *)
Put(s) ==
  /\ pc[s] = "put"
  /\ \/ bytes' \in {"good", "bad"} /\ Goto(s, "record")
     \/ Faults /\ bytes' \in {bytes, "good", "bad"} /\ Goto(s, "unput")
  /\ UNCHANGED <<status, lapsed, object, queued>>

Unput(s) ==
  /\ pc[s] = "unput"
  /\ Remove
  /\ Finish(s)
  /\ UNCHANGED <<status, lapsed, object, queued>>

(* The session is inserted INITIATED with a fresh expiry; an id already used,
   by whatever session, ends the whole import with an error. *)
Record(s) ==
  /\ pc[s] = "record"
  /\ \/ /\ status = "none"
        /\ status' = "initiated"
        /\ Goto(s, "complete")
        /\ UNCHANGED <<bytes, object, queued>>
     \/ status # "none" /\ Finish(s) /\ UNCHANGED <<status, bytes, object, queued>>
     \/ Fails(s)
  /\ UNCHANGED lapsed

(* complete_upload as the importer calls it: its refusals are reported. *)
ImportCompletes(s) ==
  /\ pc[s] = "complete"
  /\ IF status = "initiated"
       THEN /\ Enter(s, IF lapsed THEN "expire" ELSE "stat")
            /\ seen' = [seen EXCEPT ![s] = status]
       ELSE Finish(s)
  /\ UNCHANGED <<status, lapsed, bytes, object, queued>>

-----------------------------------------------------------------------------
(* abort_upload                                                            *)

(* 409 when COMPLETED; only an INITIATED session's bytes are removed. *)
StartAbort(s) ==
  /\ s \in Aborters
  /\ status \notin {"none", "completed"}
  /\ Load(s, IF status = "initiated" THEN "abortBytes" ELSE "abort")
  /\ UNCHANGED <<status, lapsed, bytes, object, queued>>

AbortBytes(s) ==
  /\ pc[s] = "abortBytes"
  /\ Remove
  /\ Goto(s, "abort")
  /\ UNCHANGED <<status, lapsed, object, queued>>

CommitAbort(s) ==
  /\ pc[s] = "abort"
  /\ \/ /\ status' = IF seen[s] = "aborted" THEN status ELSE "aborted"
        /\ Finish(s)
        /\ UNCHANGED <<bytes, object, queued>>
     \/ Fails(s)
  /\ UNCHANGED lapsed

-----------------------------------------------------------------------------
(* purge_stale_uploads                                                     *)

(* It expects the form to be still open. *)
SelectFresh(p) ==
  /\ p \in Purgers
  /\ status = "initiated" /\ ~lapsed
  /\ Load(p, "purgeBytes")
  /\ UNCHANGED <<status, lapsed, bytes, object, queued>>

SelectStale(p) ==
  /\ p \in Purgers
  /\ status = "initiated" /\ lapsed
  /\ Load(p, "purgeBytes")
  /\ UNCHANGED <<status, lapsed, bytes, object, queued>>

PurgeBytes(p) ==
  /\ pc[p] = "purgeBytes"
  /\ Remove
  /\ Goto(p, "purge")
  /\ UNCHANGED <<status, lapsed, object, queued>>

CommitPurge(p) ==
  /\ pc[p] = "purge"
  /\ \/ status' = "expired" /\ Finish(p) /\ UNCHANGED <<bytes, object, queued>>
     \/ Fails(p)
  /\ UNCHANGED lapsed

(* The process serving a request ends between two of its steps. *)
Crash(s) ==
  /\ pc[s] # "idle"
  /\ Fails(s)
  /\ UNCHANGED lapsed

-----------------------------------------------------------------------------
Complete(s) == \/ CommitExpired(s) \/ Stat(s) \/ Sniff(s) \/ Digest(s) \/ Pin(s)
               \/ Reserve(s) \/ Promote(s) \/ Enqueue(s) \/ Reject(s) \/ Discard(s)
Import(s) == Put(s) \/ Unput(s) \/ Record(s) \/ ImportCompletes(s)
Abort(s) == AbortBytes(s) \/ CommitAbort(s)
Purge(p) == SelectStale(p) \/ PurgeBytes(p) \/ CommitPurge(p)

Next == \/ Initiate \/ ClientPosts \/ Lapse
        \/ \E s \in Slots : \/ StartComplete(s) \/ Complete(s)
                            \/ StartImport(s) \/ Import(s)
                            \/ StartAbort(s) \/ Abort(s)
                            \/ Purge(s) \/ Crash(s)

Spec == Init /\ [][Next]_vars

(* Time passes, requests are served to their end, and the hourly purge comes
   again after a failure until one run commits. *)
FairSpec == /\ Spec
            /\ WF_vars(Lapse)
            /\ \A s \in Slots : WF_vars(Complete(s) \/ Import(s) \/ Abort(s))
            /\ \A p \in Purgers : /\ SF_vars(SelectStale(p))
                                  /\ SF_vars(PurgeBytes(p))
                                  /\ SF_vars(CommitPurge(p) /\ status' = "expired")

-----------------------------------------------------------------------------
(* Properties                                                              *)

(* The primary key decides between concurrent completions: once an upload is
   promoted or rejected, no other request changes the verdict. *)
OneVerdict == [][object # "none" => object' = object]_vars

(* complete_upload: a promoted object has bytes, unless an abort, a purge or an
   import's put overlapped.  A completion that loses to a promotion must not discard what
   the promotion found in the store. *)
UploadedHasBytes == object = "uploaded" /\ ~crossed => bytes # "none"

(* The session's status tells what became of the upload, unless an abort, a
   purge, an expiry or an import's put overlapped. *)
SessionTellsOutcome == ~crossed =>
                       /\ status = "completed" <=> object = "uploaded"
                       /\ object = "rejected" => status = "aborted"

(* purge_stale_uploads: no session stays INITIATED for good, whatever fails. *)
SessionsSettle == status = "initiated" ~> status # "initiated"

(* transfer_import: a row's failure is a row's failure.  An import that has
   stored the bytes of a row goes on to complete it. *)
StoredIsRecorded ==
  [][\A s \in Importers : pc[s] = "record" => pc'[s] # "idle"]_vars

(* abort_upload cannot abort a completed upload. *)
CompletedIsFinal == [][status = "completed" => status' = "completed"]_vars

(* purge_stale_uploads: the unvalidated bytes of a session that lapsed without
   being completed do not sit in the bucket indefinitely. *)
StaleBytesRemoved ==
  lapsed /\ status = "initiated" ~> (bytes = "none" \/ object = "uploaded")

(* The complete route enqueues the antivirus job of every object it promotes. *)
UploadedIsScanned == object = "uploaded" ~> queued
==============================================================================
