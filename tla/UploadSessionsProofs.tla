------------------------- MODULE UploadSessionsProofs -------------------------
(* An upload is settled once, and what settles it leaves session, object   *)
(* and bytes in step, for any number of completions, imports, aborts and   *)
(* purges and whatever fails.                                              *)
EXTENDS UploadSessions, TLAPS

(* A request that ends a session on the status it loaded. *)
Ending == {"expire", "abortBytes", "abort", "purgeBytes", "purge"}
Importing == {"put", "unput", "record"}
Checking == {"sniff", "digest", "pin", "reserve", "promote"}

(* As long as none has crossed another, such a request is alone. *)
Alone == \A e, t \in Slots : e # t /\ pc[e] \in Unchecked => pc[t] = "idle"

(* What each request then still finds as it loaded it; the bytes a completion
   has looked at are there, or another one has settled the upload. *)
FoundOK(s) ==
  /\ pc[s] \in Ending \ {"abortBytes", "abort"} => status = "initiated"
  /\ pc[s] = "abortBytes" => status = "initiated" /\ status = seen[s]
  /\ pc[s] = "abort" => status = seen[s] /\ status \notin {"none", "completed"}
  /\ pc[s] \in Importing => object = "none"
  /\ pc[s] \in Checking => bytes # "none" \/ object # "none"

IInv == /\ TypeOK
        /\ \A s \in Slots : pc[s] = "discard" => object = "rejected"
        /\ ~crossed => /\ Alone
                       /\ \A s \in Slots : FoundOK(s)
        /\ UploadedHasBytes
        /\ SessionTellsOutcome

-----------------------------------------------------------------------------
LEMMA InitIInv == Init => IInv
BY DEF Init, IInv, TypeOK, Statuses, Alone, FoundOK, Unchecked, Ending, Importing, Checking,
       UploadedHasBytes, SessionTellsOutcome

Labels == {"idle", "stat", "expire", "sniff", "digest", "pin", "reserve", "promote",
           "enqueue", "reject", "discard", "abortBytes", "abort", "purgeBytes", "purge",
           "put", "unput", "record", "complete"}

(* Every request moves by Enter. *)
Moves(s) == \E l \in Labels : Enter(s, l)

LEMMA EveryStepMoves ==
  ASSUME NEW s \in Slots,
         \/ StartComplete(s) \/ Complete(s) \/ StartImport(s) \/ Import(s)
         \/ StartAbort(s) \/ Abort(s) \/ Purge(s) \/ Crash(s)
  PROVE  Moves(s)
<1>1. CASE StartComplete(s) \/ StartImport(s) \/ StartAbort(s) \/ SelectStale(s)
  BY <1>1 DEF StartComplete, StartImport, StartAbort, SelectStale, Load, Moves, Labels
<1>2. CASE Complete(s)
  BY <1>2 DEF Complete, CommitExpired, Stat, Sniff, Digest, Pin, Reserve, Promote, Enqueue,
         Reject, Discard, Goto, Finish, Fails, Moves, Labels
<1>3. CASE Import(s) \/ Abort(s) \/ PurgeBytes(s) \/ CommitPurge(s) \/ Crash(s)
  BY <1>3 DEF Import, Put, Unput, Record, ImportCompletes, Abort, AbortBytes, CommitAbort,
         PurgeBytes, CommitPurge, Crash, Goto, Finish, Fails, Moves, Labels
<1> QED BY <1>1, <1>2, <1>3 DEF Purge

(* A step that crosses nothing leaves a request that ends a session alone. *)
LEMMA MovesAlone ==
  ASSUME TypeOK, NEW s \in Slots, Moves(s), ~crossed'
  PROVE  ~crossed /\ Alone' /\ \A t \in Slots \ {s} : pc'[t] = pc[t]
BY DEF TypeOK, Moves, Labels, Enter, Alone

(* Whatever a request does, its label and the history stay in their types. *)
LEMMA MovesType ==
  ASSUME TypeOK, NEW s \in Slots, Moves(s)
  PROVE  crossed' \in BOOLEAN /\ pc' \in [Slots -> Labels]
BY DEF TypeOK, Moves, Enter, Labels

LEMMA TypeStep == TypeOK /\ [Next]_vars => TypeOK'
<1> SUFFICES ASSUME TypeOK, [Next]_vars PROVE TypeOK'
  OBVIOUS
<1> USE DEF TypeOK, Statuses
<1>1. CASE Initiate \/ ClientPosts \/ Lapse
  BY <1>1 DEF Initiate, ClientPosts, Lapse
<1>2. CASE UNCHANGED vars
  BY <1>2 DEF vars
<1>3. ASSUME NEW s \in Slots,
             \/ StartComplete(s) \/ Complete(s) \/ StartImport(s) \/ Import(s)
             \/ StartAbort(s) \/ Abort(s) \/ Purge(s) \/ Crash(s)
      PROVE  TypeOK'
  <2>1. crossed' \in BOOLEAN /\ pc' \in [Slots -> Labels]
    BY <1>3, EveryStepMoves, MovesType
  <2>2. /\ status' \in Statuses /\ lapsed' \in BOOLEAN /\ bytes' \in {"none", "good", "bad"}
        /\ object' \in {"none", "uploaded", "rejected"} /\ queued' \in BOOLEAN
        /\ seen' \in [Slots -> Statuses]
    <3> USE DEF Goto, Finish, Load, Fails, Remove
    <3>1. CASE StartComplete(s) \/ StartImport(s) \/ StartAbort(s) \/ SelectStale(s)
      BY <3>1 DEF StartComplete, StartImport, StartAbort, SelectStale
    <3>2. CASE CommitExpired(s) \/ Stat(s) \/ Sniff(s) \/ Digest(s) \/ Pin(s) \/ Reserve(s)
      BY <3>2 DEF CommitExpired, Stat, Sniff, Digest, Pin, Reserve
    <3>3. CASE Promote(s) \/ Enqueue(s) \/ Reject(s) \/ Discard(s)
      BY <3>3 DEF Promote, Enqueue, Reject, Discard
    <3>4. CASE Import(s)
      BY <3>4 DEF Import, Put, Unput, Record, ImportCompletes
    <3>5. CASE Abort(s) \/ PurgeBytes(s) \/ CommitPurge(s) \/ Crash(s)
      BY <3>5 DEF Abort, AbortBytes, CommitAbort, PurgeBytes, CommitPurge, Crash
    <3> QED BY <1>3, <3>1, <3>2, <3>3, <3>4, <3>5 DEF Complete, Purge
  <2> QED BY <2>1, <2>2 DEF Labels
<1> QED BY <1>1, <1>2, <1>3 DEF Next

-----------------------------------------------------------------------------
(* The primary key of media_object decides: a settled upload stays as it is. *)
LEMMA VerdictStep == TypeOK /\ [Next]_vars => (object # "none" => object' = object)
<1> USE DEF Fails
<1>1. ASSUME NEW s \in Slots, Complete(s), object # "none" PROVE object' = object
  BY <1>1 DEF Complete, CommitExpired, Stat, Sniff, Digest, Pin, Reserve, Promote, Enqueue,
         Reject, Discard
<1>2. ASSUME NEW s \in Slots, Import(s) \/ Abort(s) \/ Purge(s) \/ Crash(s) PROVE object' = object
  BY <1>2 DEF Import, Put, Unput, Record, ImportCompletes, Abort, AbortBytes, CommitAbort,
         Purge, SelectStale, PurgeBytes, CommitPurge, Crash
<1> QED BY <1>1, <1>2 DEF Next, Initiate, ClientPosts, Lapse, StartComplete, StartImport,
           StartAbort, vars

LEMMA DiscardStep ==
  ASSUME IInv, [Next]_vars, NEW s \in Slots, pc'[s] = "discard" PROVE object' = "rejected"
<1> USE DEF IInv, TypeOK
<1>1. CASE pc[s] = "discard"
  BY <1>1, VerdictStep
<1>2. CASE pc[s] # "discard"
  <2>1. ASSUME NEW t \in Slots, Complete(t) PROVE object' = "rejected"
    BY <1>2, <2>1 DEF Complete, CommitExpired, Stat, Sniff, Digest, Pin, Reserve, Promote,
           Enqueue, Reject, Discard, Goto, Finish, Fails, Enter
  <2>2. ASSUME NEW t \in Slots,
               StartComplete(t) \/ StartImport(t) \/ Import(t) \/ StartAbort(t)
                 \/ Abort(t) \/ Purge(t) \/ Crash(t)
        PROVE  FALSE
    BY <1>2, <2>2 DEF StartComplete, StartImport, Import, Put, Unput, Record, ImportCompletes,
           StartAbort, Abort, AbortBytes, CommitAbort, Purge, SelectStale, PurgeBytes,
           CommitPurge, Crash, Load, Goto, Finish, Fails, Enter
  <2> QED BY <1>2, <2>1, <2>2 DEF Next, Initiate, ClientPosts, Lapse, vars
<1> QED BY <1>1, <1>2

-----------------------------------------------------------------------------
(* As long as no request has crossed another                               *)

Steps(s) == \/ StartComplete(s) \/ Complete(s) \/ StartImport(s) \/ Import(s)
            \/ StartAbort(s) \/ Abort(s) \/ Purge(s) \/ Crash(s)

(* A request that steps is not idle on both sides, so nobody else ends the
   session or imports. *)
LEMMA OthersCheck ==
  ASSUME IInv, NEW s \in Slots, Steps(s), ~crossed'
  PROVE  /\ ~crossed /\ Alone /\ Alone'
         /\ \A t \in Slots : FoundOK(t)
         /\ \A t \in Slots \ {s} : /\ pc'[t] = pc[t] /\ pc[t] \notin Unchecked
                                   /\ pc[s] \in Unchecked => pc[t] = "idle"
<1>1. ~crossed /\ Alone' /\ \A t \in Slots \ {s} : pc'[t] = pc[t]
  BY EveryStepMoves, MovesAlone DEF IInv, Steps
<1>2. pc[s] # "idle" \/ pc'[s] # "idle"
  <2>1. CASE StartComplete(s) \/ StartImport(s) \/ StartAbort(s) \/ SelectStale(s)
    BY <2>1 DEF StartComplete, StartImport, StartAbort, SelectStale, Load, Enter, IInv, TypeOK
  <2>2. CASE Complete(s) \/ Import(s) \/ Abort(s) \/ PurgeBytes(s) \/ CommitPurge(s) \/ Crash(s)
    BY <2>2 DEF Complete, CommitExpired, Stat, Sniff, Digest, Pin, Reserve, Promote, Enqueue,
           Reject, Discard, Import, Put, Unput, Record, ImportCompletes, Abort, AbortBytes,
           CommitAbort, PurgeBytes, CommitPurge, Crash
  <2> QED BY <2>1, <2>2 DEF Steps, Purge
<1>3. Alone /\ \A t \in Slots : FoundOK(t)
  BY <1>1 DEF IInv
<1> QED BY <1>1, <1>2, <1>3 DEF Alone

(* What has to be shown of the step of a request: what it finds itself, that
   bytes under check or promoted stay, and that the session tells what became
   of the upload. *)
Settles(s) ==
  /\ FoundOK(s)'
  /\ bytes' = "none" /\ bytes # "none" => object' = "rejected" \/ pc[s] \in Unchecked
  /\ object' = "uploaded" => bytes' # "none"
  /\ (status' = "completed" <=> object' = "uploaded") /\ (object' = "rejected" => status' = "aborted")

LEMMA StartSettles ==
  ASSUME IInv, NEW s \in Slots, ~crossed, ~crossed',
         StartComplete(s) \/ StartImport(s) \/ StartAbort(s) \/ SelectStale(s)
  PROVE  Settles(s)
<1> USE DEF IInv, TypeOK, Settles, FoundOK, Ending, Importing, Checking, Load, Enter,
        UploadedHasBytes, SessionTellsOutcome
<1>1. CASE StartComplete(s)
  BY <1>1 DEF StartComplete
<1>2. CASE StartImport(s)
  BY <1>2 DEF StartImport
<1>3. CASE StartAbort(s)
  BY <1>3 DEF StartAbort
<1>4. CASE SelectStale(s)
  BY <1>4 DEF SelectStale
<1> QED BY <1>1, <1>2, <1>3, <1>4

LEMMA CompleteSettles ==
  ASSUME IInv, NEW s \in Slots, ~crossed, ~crossed', FoundOK(s), Complete(s)
  PROVE  Settles(s)
<1> USE DEF IInv, TypeOK, Settles, FoundOK, Ending, Importing, Checking, Goto, Finish, Fails, Enter,
        UploadedHasBytes, SessionTellsOutcome
<1>1. CASE CommitExpired(s)
  BY <1>1 DEF CommitExpired
<1>2. CASE Stat(s) \/ Sniff(s)
  BY <1>2 DEF Stat, Sniff
<1>3. CASE Digest(s) \/ Pin(s) \/ Reserve(s)
  BY <1>3 DEF Digest, Pin, Reserve
<1>4. CASE Promote(s)
  BY <1>4 DEF Promote
<1>5. CASE Enqueue(s)
  BY <1>5 DEF Enqueue
<1>6. CASE Reject(s)
  BY <1>6 DEF Reject
<1>7. CASE Discard(s)
  BY <1>7 DEF Discard, Remove
<1> QED BY <1>1, <1>2, <1>3, <1>4, <1>5, <1>6, <1>7 DEF Complete

LEMMA ImportSettles ==
  ASSUME IInv, NEW s \in Slots, ~crossed, ~crossed', FoundOK(s), Import(s)
  PROVE  Settles(s)
<1> USE DEF IInv, TypeOK, Settles, FoundOK, Ending, Importing, Checking, Unchecked, Goto, Finish, Fails,
        Enter, UploadedHasBytes, SessionTellsOutcome
<1>1. CASE Put(s)
  BY <1>1 DEF Put
<1>2. CASE Unput(s)
  BY <1>2 DEF Unput, Remove
<1>3. CASE Record(s)
  BY <1>3 DEF Record
<1>4. CASE ImportCompletes(s)
  BY <1>4 DEF ImportCompletes
<1> QED BY <1>1, <1>2, <1>3, <1>4 DEF Import

LEMMA EndSettles ==
  ASSUME IInv, NEW s \in Slots, ~crossed, ~crossed', FoundOK(s),
         Abort(s) \/ PurgeBytes(s) \/ CommitPurge(s) \/ Crash(s)
  PROVE  Settles(s)
<1> USE DEF IInv, TypeOK, Settles, FoundOK, Ending, Importing, Checking, Unchecked, Goto, Finish, Fails,
        Enter, UploadedHasBytes, SessionTellsOutcome
<1>1. CASE AbortBytes(s)
  BY <1>1 DEF AbortBytes, Remove
<1>2. CASE CommitAbort(s)
  BY <1>2 DEF CommitAbort
<1>3. CASE PurgeBytes(s)
  BY <1>3 DEF PurgeBytes, Remove
<1>4. CASE CommitPurge(s)
  BY <1>4 DEF CommitPurge
<1>5. CASE Crash(s)
  BY <1>5 DEF Crash
<1> QED BY <1>1, <1>2, <1>3, <1>4, <1>5 DEF Abort

(* The client and the clock disturb no request. *)
LEMMA ClientStep ==
  ASSUME IInv, ~crossed', Initiate \/ ClientPosts \/ Lapse \/ UNCHANGED vars
  PROVE  /\ Alone' /\ \A s \in Slots : FoundOK(s)'
         /\ UploadedHasBytes' /\ SessionTellsOutcome'
<1> USE DEF IInv, TypeOK, Alone, FoundOK, Ending, Importing, Checking, UploadedHasBytes,
        SessionTellsOutcome
<1>1. CASE Initiate
  BY <1>1 DEF Initiate
<1>2. CASE ClientPosts
  BY <1>2 DEF ClientPosts
<1>3. CASE Lapse \/ UNCHANGED vars
  BY <1>3 DEF Lapse, vars
<1> QED BY <1>1, <1>2, <1>3

LEMMA NextIInv == IInv /\ [Next]_vars => IInv'
<1> SUFFICES ASSUME IInv, [Next]_vars PROVE IInv'
  OBVIOUS
<1>1. TypeOK' /\ \A s \in Slots : pc'[s] = "discard" => object' = "rejected"
  BY TypeStep, DiscardStep DEF IInv
<1>2. CASE crossed'
  BY <1>1, <1>2 DEF IInv, UploadedHasBytes, SessionTellsOutcome
<1>3. ASSUME ~crossed', NEW s \in Slots, Steps(s)
      PROVE  /\ Alone' /\ \A t \in Slots : FoundOK(t)'
             /\ UploadedHasBytes' /\ SessionTellsOutcome'
  <2>1. Settles(s)
    BY <1>3, OthersCheck, StartSettles, CompleteSettles, ImportSettles, EndSettles
       DEF Steps, Purge
  <2>2. ASSUME NEW t \in Slots \ {s} PROVE FoundOK(t)'
    <3>1. pc'[t] = pc[t] /\ pc[t] \notin Unchecked /\ FoundOK(t)
      BY <1>3, OthersCheck
    <3>2. CASE pc[t] \in Checking
      <4>1. pc[s] \notin Unchecked
        BY <1>3, <3>2, OthersCheck DEF Checking
      <4>2. object # "none" => object' = object
        BY VerdictStep DEF IInv
      <4> QED BY <2>1, <3>1, <3>2, <4>1, <4>2
              DEF FoundOK, Settles, Unchecked, Checking, Ending, Importing
    <3>3. CASE pc[t] \notin Checking
      BY <3>1, <3>3 DEF FoundOK, Unchecked, Ending, Importing
    <3> QED BY <3>2, <3>3
  <2> QED BY <1>3, <2>1, <2>2, OthersCheck DEF Settles, UploadedHasBytes, SessionTellsOutcome
<1>4. CASE ~crossed'
  BY <1>1, <1>3, <1>4, ClientStep DEF IInv, Next, Steps
<1> QED BY <1>2, <1>4

-----------------------------------------------------------------------------
(* The strengthened invariant holds in every behaviour. *)
THEOREM InductiveInvariant == Spec => []IInv
BY InitIInv, NextIInv, PTL DEF Spec

(* Every variable keeps its type: session and object only ever hold statuses
   the code knows. *)
THEOREM TypeCorrect == Spec => []TypeOK
<1>1. IInv => TypeOK
  BY DEF IInv
<1> QED BY <1>1, InductiveInvariant, PTL

(* A promoted or rejected upload keeps its verdict, however many completions
   and imports of one id overlap. *)
THEOREM VerdictStays == Spec => OneVerdict
<1>1. IInv /\ [Next]_vars => [object # "none" => object' = object]_vars
  BY VerdictStep DEF IInv
<1> QED BY <1>1, InductiveInvariant, PTL DEF Spec, OneVerdict

(* A promoted object has bytes, as long as no abort, purge or expiry crossed. *)
THEOREM PromotedHasBytes == Spec => []UploadedHasBytes
<1>1. IInv => UploadedHasBytes
  BY DEF IInv
<1> QED BY <1>1, InductiveInvariant, PTL

(* The session tells what became of the upload, under the same condition. *)
THEOREM SessionTells == Spec => []SessionTellsOutcome
<1>1. IInv => SessionTellsOutcome
  BY DEF IInv
<1> QED BY <1>1, InductiveInvariant, PTL
===============================================================================
