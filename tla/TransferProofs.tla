---------------------------- MODULE TransferProofs ----------------------------
(***************************************************************************)
(* The routes of app/routes/transfer.py: a caller's exports, and what      *)
(* imports make of an archive.  The two share no state, and each is proved *)
(* by itself: exports for any jobs and any number of deliveries, wherever  *)
(* requests stop and whatever repairs remove; imports for any documents,   *)
(* any number of them at once, the owner editing meanwhile.                *)
(***************************************************************************)
EXTENDS ExportJobs, ImportCollection, FiniteSetTheorems, SequenceTheorems, TLAPS

(* The requests that have inserted a job. *)
Holding(r) == req[r].at \in {"enqueue", "fail", "commitFail"}

(* A request holds a job of its own, and enqueues it once; a callback is about
   a job that is there. *)
HoldsOK(r) == /\ Holding(r) => req[r].id \in Jobs /\ job[req[r].id] # "none"
              /\ req[r].at = "enqueue" => work[req[r].id] = "none"
Apart(r, q) == r # q /\ Holding(r) /\ Holding(q) => req[r].id # req[q].id
CallOK(h) == handler[h] # NoCall => handler[h].id \in Jobs /\ job[handler[h].id] # "none"

CarriesOK == /\ \A r \in Requests : HoldsOK(r)
             /\ \A r, q \in Requests : Apart(r, q)
             /\ \A h \in Handlers : CallOK(h)

(* A job is delivered as often as it may be. *)
DeliveriesOK ==
  \A j \in Jobs : /\ job[j] = "none" => work[j] = "none"
                  /\ work[j] = "none" => tries[j] = 0
                  /\ work[j] = "queued" => tries[j] < MaxTries

TypeInv == TypeOK /\ CarriesOK /\ DeliveriesOK

-----------------------------------------------------------------------------
LEMMA InitTypeInv == Init => TypeInv
<1> SUFFICES ASSUME Init PROVE TypeInv
  OBVIOUS
<1> USE ExportAssumption DEF Init
<1>1. Free \in [at : {"idle", "insert", "enqueue", "fail", "commitFail"}, id : Jobs \cup {None}]
  BY DEF Free
<1>2. NoCall \in [id : Jobs \cup {None}, ask : Asks, seen : {"queued"} \cup Asks]
  BY DEF NoCall, Asks
<1>3. TypeOK
  BY <1>1, <1>2 DEF TypeOK, NoRepair
<1>4. CarriesOK
  BY DEF CarriesOK, HoldsOK, Apart, CallOK, Holding, Free
<1> QED BY <1>3, <1>4 DEF TypeInv, DeliveriesOK

(* A step of a request that hands its job on, or lets it go. *)
LEMMA HandsOn ==
  ASSUME TypeInv, NEW r \in Requests, \A q \in Requests \ {r} : req'[q] = req[q],
         UNCHANGED handler, req'[r].at # "enqueue",
         Holding(r)' => Holding(r) /\ req'[r].id = req[r].id,
         \A j \in Jobs : job[j] # "none" => job'[j] # "none",
         \A j \in Jobs : (req[r].id = j /\ Holding(r)) \/ work'[j] = work[j]
  PROVE  CarriesOK'
<1> USE DEF TypeInv, TypeOK, CarriesOK
<1>2. ASSUME NEW q \in Requests PROVE HoldsOK(q)'
  <2>1. HoldsOK(q) /\ HoldsOK(r) /\ Apart(q, r)
    OBVIOUS
  <2>2. CASE q = r
    BY <2>1, <2>2 DEF HoldsOK, Holding
  <2>3. CASE q # r
    BY <2>1, <2>3 DEF HoldsOK, Holding, Apart
  <2> QED BY <2>2, <2>3
<1>3. ASSUME NEW p \in Requests, NEW q \in Requests PROVE Apart(p, q)'
  <2>1. Apart(p, q) /\ Apart(r, q) /\ Apart(p, r)
    OBVIOUS
  <2> QED BY <2>1 DEF Apart, Holding
<1>4. ASSUME NEW h \in Handlers PROVE CallOK(h)'
  <2>1. CallOK(h)
    OBVIOUS
  <2> QED BY <2>1 DEF CallOK
<1> QED BY <1>2, <1>3, <1>4

(* A step of somebody else, which unmakes no job and no delivery. *)
LEMMA Bystander ==
  ASSUME TypeInv, UNCHANGED req,
         \A j \in Jobs : job[j] # "none" => job'[j] # "none",
         \A j \in Jobs : work[j] = "none" => work'[j] = "none",
         \A h \in Handlers : CallOK(h)'
  PROVE  CarriesOK'
<1>1. ASSUME NEW q \in Requests PROVE HoldsOK(q)'
  <2>1. HoldsOK(q)
    BY DEF TypeInv, CarriesOK
  <2> QED BY <2>1 DEF HoldsOK, Holding
<1>2. ASSUME NEW p \in Requests, NEW q \in Requests PROVE Apart(p, q)'
  <2>1. Apart(p, q)
    BY DEF TypeInv, CarriesOK
  <2> QED BY <2>1 DEF Apart, Holding
<1> QED BY <1>1, <1>2 DEF CarriesOK

LEMMA SameCalls ==
  ASSUME TypeInv, UNCHANGED handler, \A j \in Jobs : job[j] # "none" => job'[j] # "none"
  PROVE  \A h \in Handlers : CallOK(h)'
<1> SUFFICES ASSUME NEW h \in Handlers PROVE CallOK(h)'
  OBVIOUS
<1>1. CallOK(h)
  BY DEF TypeInv, CarriesOK
<1> QED BY <1>1 DEF CallOK

LEMMA RequestTyped ==
  ASSUME TypeInv, NEW r \in Requests, Start(r) \/ Request(r) \/ Crash(r) PROVE TypeInv'
<1> USE ExportAssumption DEF TypeOK, Free, Goto, Respond
<1>1. TypeOK /\ HoldsOK(r) /\ DeliveriesOK
  BY DEF TypeInv, CarriesOK
<1>2. CASE Start(r) \/ RefuseOversized(r)
  <2>1. PICK v \in {[at |-> "insert", id |-> None], [at |-> "idle", id |-> None]} :
          req' = [req EXCEPT ![r] = v]
    BY <1>2 DEF Start, RefuseOversized
  <2>2. UNCHANGED <<job, window, archive, handler, work, tries, calls, repair, stranded>>
    BY <1>2 DEF Start, RefuseOversized
  <2>3. TypeOK' /\ DeliveriesOK'
    BY <1>1, <2>1, <2>2 DEF DeliveriesOK
  <2>4. /\ \A q \in Requests \ {r} : req'[q] = req[q]
        /\ req'[r].at # "enqueue"
        /\ Holding(r)' => Holding(r) /\ req'[r].id = req[r].id
    BY <1>1, <2>1 DEF Holding
  <2>5. CarriesOK'
    BY <2>2, <2>4, HandsOn
  <2> QED BY <2>3, <2>5 DEF TypeInv
<1>3. CASE Insert(r)
  <2>1. PICK j \in Jobs : /\ job[j] = "none" /\ job' = [job EXCEPT ![j] = "queued"]
                          /\ req' = [req EXCEPT ![r] = [at |-> "enqueue", id |-> j]]
    BY <1>3 DEF Insert
  <2>2. UNCHANGED <<window, archive, handler, work, tries, calls, repair, stranded>>
    BY <1>3 DEF Insert
  <2>3. TypeOK' /\ DeliveriesOK'
    BY <1>1, <2>1, <2>2 DEF DeliveriesOK
  <2>4. work[j] = "none"
    BY <1>1, <2>1 DEF DeliveriesOK
  <2>5. ASSUME NEW q \in Requests PROVE HoldsOK(q)' /\ (q # r /\ Holding(q)' => req'[q].id # j)
    <3>1. HoldsOK(q)
      BY DEF TypeInv, CarriesOK
    <3>2. CASE q = r
      BY <1>1, <2>1, <2>2, <2>4, <3>2 DEF HoldsOK, Holding
    <3>3. CASE q # r
      BY <1>1, <2>1, <2>2, <3>1, <3>3 DEF HoldsOK, Holding
    <3> QED BY <3>2, <3>3
  <2>6. ASSUME NEW p \in Requests, NEW q \in Requests PROVE Apart(p, q)'
    <3>1. Apart(p, q)
      BY DEF TypeInv, CarriesOK
    <3>2. req'[r].id = j /\ \A t \in Requests \ {r} : req'[t] = req[t]
      BY <1>1, <2>1
    <3> QED BY <2>5, <3>1, <3>2 DEF Apart, Holding
  <2>7. \A h \in Handlers : CallOK(h)'
    BY <1>1, <2>1, <2>2, SameCalls
  <2> QED BY <2>3, <2>5, <2>6, <2>7 DEF TypeInv, CarriesOK
<1>4. CASE Enqueue(r)
  <2>1. req[r].id \in Jobs /\ work[req[r].id] = "none" /\ tries[req[r].id] = 0 /\ Holding(r)
    BY <1>1, <1>4 DEF Enqueue, HoldsOK, Holding, DeliveriesOK
  <2>2. PICK v \in {[at |-> "idle", id |-> None], [at |-> "fail", id |-> req[r].id]} :
          req' = [req EXCEPT ![r] = v]
    BY <1>4 DEF Enqueue
  <2>3. work' = work \/ work' = [work EXCEPT ![req[r].id] = "queued"]
    BY <1>4 DEF Enqueue
  <2>4. UNCHANGED <<job, window, archive, handler, tries, calls, repair, stranded>>
    BY <1>4 DEF Enqueue
  <2>5. TypeOK'
    BY <1>1, <2>1, <2>2, <2>3, <2>4
  <2>6. DeliveriesOK'
    BY <1>1, <2>1, <2>3, <2>4, HoldsOK(r) DEF DeliveriesOK, HoldsOK, Holding
  <2>7. /\ \A q \in Requests \ {r} : req'[q] = req[q]
        /\ req'[r].at # "enqueue"
        /\ Holding(r)' => Holding(r) /\ req'[r].id = req[r].id
    BY <1>1, <2>1, <2>2 DEF Holding
  <2>8. \A j \in Jobs : (req[r].id = j /\ Holding(r)) \/ work'[j] = work[j]
    BY <1>1, <2>1, <2>3
  <2>9. CarriesOK'
    BY <2>4, <2>7, <2>8, HandsOn
  <2> QED BY <2>5, <2>6, <2>9 DEF TypeInv
<1>5. CASE FailUnqueued(r) \/ CommitFail(r) \/ Crash(r)
  <2>1. PICK v \in {[at |-> "idle", id |-> None], [at |-> "commitFail", id |-> req[r].id]} :
          /\ req' = [req EXCEPT ![r] = v]
          /\ v.at = "commitFail" => Holding(r)
    BY <1>5 DEF FailUnqueued, CommitFail, Crash, Holding
  <2>2. /\ UNCHANGED <<window, archive, handler, work, tries, calls, repair>>
        /\ \/ UNCHANGED job
           \/ Holding(r) /\ job' = [job EXCEPT ![req[r].id] = "failed"]
        /\ stranded' \subseteq stranded \cup ({req[r].id} \ {None})
    BY <1>5 DEF FailUnqueued, CommitFail, Crash, Holding
  <2>3. TypeOK'
    BY <1>1, <2>1, <2>2 DEF HoldsOK, Asks, Holding
  <2>4. \A j \in Jobs : job[j] # "none" <=> job'[j] # "none"
    BY <1>1, <2>2 DEF HoldsOK
  <2>5. DeliveriesOK'
    BY <1>1, <2>2, <2>4 DEF DeliveriesOK
  <2>6. /\ \A q \in Requests \ {r} : req'[q] = req[q]
        /\ req'[r].at # "enqueue"
        /\ Holding(r)' => Holding(r) /\ req'[r].id = req[r].id
    BY <1>1, <2>1 DEF Holding
  <2>7. CarriesOK'
    BY <2>2, <2>4, <2>6, HandsOn
  <2> QED BY <2>3, <2>5, <2>7 DEF TypeInv
<1> QED BY <1>2, <1>3, <1>4, <1>5 DEF Request

LEMMA WorkerTyped ==
  ASSUME TypeInv, NEW j \in Jobs, Worker(j) \/ Redeliver(j) PROVE TypeInv'
<1> USE ExportAssumption
<1>1. TypeOK /\ DeliveriesOK
  BY DEF TypeInv
<1>2. /\ UNCHANGED <<job, window, req, handler, repair, stranded>>
      /\ work[j] # "none" /\ \A i \in Jobs \ {j} : work'[i] = work[i] /\ tries'[i] = tries[i]
      /\ work'[j] \in {"queued", "taken", "built", "done"}
      /\ tries'[j] \in 0..MaxTries /\ (work'[j] = "queued" => tries'[j] < MaxTries)
      /\ work' \in [Jobs -> {"none", "queued", "taken", "built", "done"}]
      /\ tries' \in [Jobs -> 0..MaxTries]
  <2>1. CASE Take(j)
    <3>1. tries[j] \in 0..MaxTries /\ tries[j] < MaxTries
      BY <1>1, <2>1 DEF TypeOK, DeliveriesOK, Take
    <3>2. tries[j] + 1 \in 0..MaxTries
      BY <3>1
    <3> QED BY <1>1, <2>1, <3>2 DEF TypeOK, Take
  <2>2. CASE Build(j) \/ Report(j)
    BY <1>1, <2>2 DEF TypeOK, Build, Report
  <2>3. CASE Redeliver(j)
    BY <1>1, <2>3 DEF TypeOK, Redeliver
  <2> QED BY <2>1, <2>2, <2>3 DEF Worker
<1>3. archive' \in [Jobs -> BOOLEAN] /\ calls' \subseteq Jobs \X Asks
  <2>1. CASE Take(j)
    BY <1>1, <2>1 DEF TypeOK, Take, Call, Asks
  <2>2. CASE Build(j)
    BY <1>1, <2>2 DEF TypeOK, Build
  <2>3. CASE Report(j)
    BY <1>1, <2>3 DEF TypeOK, Report, Call, Asks
  <2>4. CASE Redeliver(j)
    BY <1>1, <2>4 DEF TypeOK, Redeliver
  <2> QED BY <2>1, <2>2, <2>3, <2>4 DEF Worker
<1>4. TypeOK'
  BY <1>1, <1>2, <1>3 DEF TypeOK
<1>5. DeliveriesOK'
  BY <1>1, <1>2 DEF DeliveriesOK
<1>6. CarriesOK'
  BY <1>1, <1>2, SameCalls, Bystander
<1> QED BY <1>4, <1>5, <1>6 DEF TypeInv

LEMMA HandlerTyped ==
  ASSUME TypeInv, NEW h \in Handlers,
         Apply(h) \/ \E j \in Jobs, ask \in Asks : Receive(h, j, ask)
  PROVE  TypeInv'
<1>1. TypeOK /\ DeliveriesOK /\ \A g \in Handlers : CallOK(g)
  BY DEF TypeInv, CarriesOK
<1>2. CASE Apply(h)
  <2>1. handler[h].id \in Jobs /\ handler[h].ask \in Asks /\ job[handler[h].id] # "none"
    BY <1>1, <1>2 DEF TypeOK, CallOK, Apply
  <2>2. NoCall \in [id : Jobs \cup {None}, ask : Asks, seen : {"queued"} \cup Asks]
    BY DEF NoCall, Asks
  <2>3. /\ UNCHANGED <<archive, req, work, tries, calls, repair, stranded>>
        /\ handler' = [handler EXCEPT ![h] = NoCall]
        /\ UNCHANGED job \/ job' = [job EXCEPT ![handler[h].id] = handler[h].ask]
        /\ UNCHANGED window \/ window' = [window EXCEPT ![handler[h].id] = "open"]
    BY <1>2 DEF Apply
  <2>4. TypeOK'
    BY <1>1, <2>1, <2>2, <2>3 DEF TypeOK
  <2>5. \A j \in Jobs : job'[j] # "none" <=> job[j] # "none"
    BY <1>1, <2>1, <2>3 DEF TypeOK, Asks
  <2>6. DeliveriesOK'
    BY <1>1, <2>3, <2>5 DEF DeliveriesOK
  <2>7. ASSUME NEW g \in Handlers PROVE CallOK(g)'
    BY <1>1, <2>3, <2>5 DEF TypeOK, CallOK
  <2>8. CarriesOK'
    BY <2>3, <2>5, <2>7, Bystander
  <2> QED BY <2>4, <2>6, <2>8 DEF TypeInv
<1>3. ASSUME NEW j \in Jobs, NEW ask \in Asks, Receive(h, j, ask) PROVE TypeInv'
  <2>1. job[j] \in {"queued"} \cup Asks
    BY <1>3 DEF Receive, Permits, Active, Asks
  <2>2. /\ handler' = [handler EXCEPT ![h] = [id |-> j, ask |-> ask, seen |-> job[j]]]
        /\ UNCHANGED <<job, window, archive, req, work, tries, calls, repair, stranded>>
    BY <1>3 DEF Receive
  <2>3. TypeOK' /\ DeliveriesOK'
    BY <1>1, <2>1, <2>2 DEF TypeOK, DeliveriesOK
  <2>4. ASSUME NEW g \in Handlers PROVE CallOK(g)'
    BY <1>1, <2>1, <2>2 DEF TypeOK, CallOK, Asks
  <2>5. CarriesOK'
    BY <2>2, <2>4, Bystander
  <2> QED BY <2>3, <2>5 DEF TypeInv
<1> QED BY <1>2, <1>3

LEMMA NextTypeInv == TypeInv /\ [Next]_vars => TypeInv'
<1> SUFFICES ASSUME TypeInv, [Next]_vars PROVE TypeInv'
  OBVIOUS
<1>1. TypeOK /\ DeliveriesOK
  BY DEF TypeInv
<1>2. ASSUME UNCHANGED <<job, req, handler, work, tries>> PROVE DeliveriesOK' /\ CarriesOK'
  BY <1>1, <1>2, SameCalls, Bystander DEF DeliveriesOK
<1>3. ASSUME NEW j \in Jobs, Lapse(j) \/ RemoveOrphan(j) PROVE TypeInv'
  BY <1>1, <1>2, <1>3 DEF Lapse, RemoveOrphan, TypeInv, TypeOK
<1>4. CASE StartRepair \/ EndRepair
  <2>1. repair' \in [on : BOOLEAN, spared : SUBSET Jobs]
    <3>1. CASE StartRepair
      <4>1. {j \in Jobs : job[j] = "completed" /\ window[j] = "open"} \in SUBSET Jobs
        OBVIOUS
      <4> QED BY <3>1, <4>1 DEF StartRepair
    <3>2. CASE EndRepair
      BY <3>2 DEF EndRepair, NoRepair
    <3> QED BY <1>4, <3>1, <3>2
  <2>2. UNCHANGED <<job, window, archive, req, handler, work, tries, calls, stranded>>
    BY <1>4 DEF StartRepair, EndRepair
  <2> QED BY <1>1, <1>2, <2>1, <2>2 DEF TypeInv, TypeOK
<1>5. CASE UNCHANGED vars
  BY <1>1, <1>2, <1>5 DEF vars, TypeInv, TypeOK
<1> QED BY <1>3, <1>4, <1>5, RequestTyped, WorkerTyped, HandlerTyped DEF Next

(* Every variable keeps its type: no job is given to the worker more often than
   it is delivered, and no callback makes a job out of nothing. *)
THEOREM TypeCorrect == Spec => []TypeOK
<1>1. TypeInv => TypeOK
  BY DEF TypeInv
<1> QED BY <1>1, InitTypeInv, NextTypeInv, PTL DEF Spec

-----------------------------------------------------------------------------
(* Callbacks served in turn, for a broker that never takes a job it seems to
   refuse: what update_export_job and fail_unqueued_export loaded is still so
   when they commit. *)
CallsInTurn == ~Ambiguous /\ \A g, h \in Handlers : g = h

LoadedOK(h) == handler[h] # NoCall =>
  /\ job[handler[h].id] = handler[h].seen
  /\ Permits(handler[h].seen, handler[h].ask)
  /\ work[handler[h].id] # "none"
WaitsOK(r) == /\ Holding(r) => work[req[r].id] = "none"
              /\ req[r].at = "commitFail" => job[req[r].id] = "queued"
SentOK == \A j \in Jobs, ask \in Asks : <<j, ask>> \in calls => work[j] # "none"
WindowOK == \A j \in Jobs : window[j] # "unset" => job[j] = "completed"

SettleInv == /\ \A h \in Handlers : LoadedOK(h)
             /\ \A r \in Requests : WaitsOK(r)
             /\ SentOK /\ WindowOK

(* What a step must not do to a settled job, nor to a lapsed window. *)
Terminal == {"completed", "failed"}
KeepsSettled == /\ \A j \in Jobs : job[j] \in Terminal => job'[j] = job[j]
                /\ \A j \in Jobs : window[j] = "lapsed" => window'[j] = "lapsed"

LEMMA InitSettle == Init => SettleInv
BY DEF Init, SettleInv, LoadedOK, WaitsOK, SentOK, WindowOK, Holding, Free

(* A step that changes no job and takes none from the worker. *)
LEMMA SettleKept ==
  ASSUME TypeInv, SettleInv, UNCHANGED <<job, handler>>,
         \A j \in Jobs : work[j] # "none" => work'[j] # "none",
         \A r \in Requests : WaitsOK(r)', SentOK', WindowOK'
  PROVE  SettleInv'
<1>1. ASSUME NEW h \in Handlers PROVE LoadedOK(h)'
  <2>1. LoadedOK(h) /\ CallOK(h)
    BY DEF SettleInv, TypeInv, CarriesOK
  <2> QED BY <2>1 DEF LoadedOK, CallOK
<1> QED BY <1>1 DEF SettleInv

LEMMA RequestSettles ==
  ASSUME CallsInTurn, TypeInv, SettleInv, NEW r \in Requests,
         Start(r) \/ Request(r) \/ Crash(r)
  PROVE  SettleInv' /\ KeepsSettled
<1> USE DEF Goto, Respond, Free
<1>1. /\ TypeOK /\ DeliveriesOK /\ HoldsOK(r) /\ WaitsOK(r)
      /\ \A q \in Requests : WaitsOK(q) /\ HoldsOK(q) /\ Apart(q, r)
      /\ \A h \in Handlers : LoadedOK(h) /\ CallOK(h)
      /\ SentOK /\ WindowOK
  BY DEF TypeInv, CarriesOK, SettleInv
<1>2. UNCHANGED <<window, handler, calls>>
  BY DEF Start, Request, Insert, RefuseOversized, Enqueue, FailUnqueued, CommitFail, Crash
<1>3. \A q \in Requests \ {r} : req'[q] = req[q]
  BY <1>1 DEF Start, Request, Insert, RefuseOversized, Enqueue, FailUnqueued,
              CommitFail, Crash, TypeOK
<1>4. CASE Start(r) \/ RefuseOversized(r) \/ Crash(r)
  <2>1. UNCHANGED <<job, work>> /\ ~Holding(r)'
    BY <1>1, <1>4 DEF Start, RefuseOversized, Crash, Holding, TypeOK
  <2>2. ASSUME NEW q \in Requests PROVE WaitsOK(q)'
    BY <1>1, <1>3, <2>1 DEF WaitsOK, Holding
  <2>3. SentOK' /\ WindowOK'
    BY <1>1, <1>2, <2>1 DEF SentOK, WindowOK
  <2> QED BY <1>2, <2>1, <2>2, <2>3, SettleKept DEF KeepsSettled
<1>5. CASE Insert(r)
  <2>1. PICK j \in Jobs : /\ job[j] = "none" /\ job' = [job EXCEPT ![j] = "queued"]
                          /\ req' = [req EXCEPT ![r] = [at |-> "enqueue", id |-> j]]
    BY <1>5 DEF Insert
  <2>2. UNCHANGED work /\ work[j] = "none" /\ req'[r] = [at |-> "enqueue", id |-> j]
    BY <1>1, <1>5, <2>1 DEF Insert, DeliveriesOK, TypeOK
  <2>3. ASSUME NEW q \in Requests PROVE WaitsOK(q)'
    <3>1. CASE q = r
      BY <2>2, <3>1 DEF WaitsOK
    <3>2. CASE q # r
      BY <1>1, <1>3, <2>1, <2>2, <3>2 DEF WaitsOK, HoldsOK, Holding, TypeOK
    <3> QED BY <3>1, <3>2
  <2>4. ASSUME NEW h \in Handlers PROVE LoadedOK(h)'
    BY <1>1, <1>2, <2>1, <2>2 DEF LoadedOK, CallOK, TypeOK
  <2>5. SentOK' /\ WindowOK' /\ KeepsSettled
    BY <1>1, <1>2, <2>1, <2>2 DEF SentOK, WindowOK, KeepsSettled, Terminal, TypeOK
  <2> QED BY <2>3, <2>4, <2>5 DEF SettleInv
<1>6. CASE Enqueue(r) \/ FailUnqueued(r)
  <2>1. /\ UNCHANGED job /\ Holding(r)
        /\ \/ ~Holding(r)' /\ (work' = work \/ work' = [work EXCEPT ![req[r].id] = "queued"])
           \/ /\ UNCHANGED work /\ req'[r].id = req[r].id
              /\ req'[r].at = "commitFail" => job[req[r].id] = "queued"
    BY <1>1, <1>6 DEF Enqueue, FailUnqueued, CallsInTurn, Holding, TypeOK
  <2>2. /\ \A j \in Jobs : work[j] # "none" => work'[j] # "none"
        /\ \A j \in Jobs : j = req[r].id \/ work'[j] = work[j]
    BY <1>1, <2>1 DEF TypeOK
  <2>3. ASSUME NEW q \in Requests PROVE WaitsOK(q)'
    <3>1. CASE q = r
      BY <1>1, <2>1, <3>1 DEF WaitsOK, Holding
    <3>2. CASE q # r
      <4>1. Holding(q) => req[q].id \in Jobs /\ req[q].id # req[r].id
        BY <1>1, <2>1, <3>2 DEF HoldsOK, Apart
      <4>2. Holding(q)' <=> Holding(q)
        BY <1>3, <3>2 DEF Holding
      <4> QED BY <1>1, <1>3, <2>1, <2>2, <3>2, <4>1, <4>2 DEF WaitsOK, Holding
    <3> QED BY <3>1, <3>2
  <2>4. SentOK' /\ WindowOK'
    BY <1>1, <1>2, <2>1, <2>2 DEF SentOK, WindowOK
  <2> QED BY <1>2, <2>1, <2>2, <2>3, <2>4, SettleKept DEF KeepsSettled
<1>7. CASE CommitFail(r)
  <2>1. /\ req[r].id \in Jobs /\ job[req[r].id] = "queued" /\ work[req[r].id] = "none"
        /\ job' = [job EXCEPT ![req[r].id] = "failed"]
        /\ UNCHANGED work /\ ~Holding(r)' /\ Holding(r)
    BY <1>1, <1>7 DEF CommitFail, WaitsOK, HoldsOK, Holding, TypeOK
  <2>2. ASSUME NEW q \in Requests PROVE WaitsOK(q)'
    <3>1. CASE q = r
      BY <2>1, <3>1 DEF WaitsOK, Holding
    <3>2. CASE q # r
      BY <1>1, <1>3, <2>1, <3>2 DEF WaitsOK, HoldsOK, Apart, Holding, TypeOK
    <3> QED BY <3>1, <3>2
  <2>3. ASSUME NEW h \in Handlers PROVE LoadedOK(h)'
    BY <1>1, <1>2, <2>1 DEF LoadedOK, CallOK, TypeOK
  <2>4. SentOK' /\ WindowOK' /\ KeepsSettled
    BY <1>1, <1>2, <2>1 DEF SentOK, WindowOK, KeepsSettled, Terminal, TypeOK
  <2> QED BY <2>2, <2>3, <2>4 DEF SettleInv
<1> QED BY <1>4, <1>5, <1>6, <1>7 DEF Request

LEMMA WorkerSettles ==
  ASSUME TypeInv, SettleInv, NEW j \in Jobs,
         Worker(j) \/ Redeliver(j) \/ Lapse(j) \/ RemoveOrphan(j)
  PROVE  SettleInv' /\ KeepsSettled
<1>1. TypeOK /\ SentOK /\ WindowOK /\ \A q \in Requests : WaitsOK(q) /\ HoldsOK(q)
  BY DEF SettleInv, TypeInv, CarriesOK
<1>2. UNCHANGED <<job, req, handler>>
  BY DEF Worker, Take, Build, Report, Redeliver, Lapse, RemoveOrphan
<1>3. \A i \in Jobs : work'[i] = "none" <=> work[i] = "none"
  BY <1>1 DEF Worker, Take, Build, Report, Redeliver, Lapse, RemoveOrphan, TypeOK
<1>4. \A i \in Jobs : \/ window'[i] = window[i]
                      \/ window[i] = "open" /\ window'[i] = "lapsed"
  <2>1. CASE Lapse(j)
    BY <1>1, <2>1 DEF Lapse, TypeOK
  <2>2. CASE UNCHANGED window
    BY <2>2
  <2> QED BY <2>1, <2>2 DEF Worker, Take, Build, Report, Redeliver, RemoveOrphan
<1>5. SentOK'
  <2> SUFFICES ASSUME NEW i \in Jobs, NEW ask \in Asks, <<i, ask>> \in calls'
               PROVE  work[i] # "none"
    BY <1>3 DEF SentOK
  <2>1. <<i, ask>> \in calls \/ (i = j /\ work[j] # "none")
    <3>1. CASE Take(j)
      BY <3>1 DEF Take, Call
    <3>2. CASE Report(j)
      BY <3>2 DEF Report, Call
    <3>3. CASE UNCHANGED calls
      BY <3>3
    <3> QED BY <3>1, <3>2, <3>3 DEF Worker, Build, Redeliver, Lapse, RemoveOrphan
  <2> QED BY <1>1, <2>1 DEF SentOK
<1>6. WindowOK' /\ KeepsSettled
  <2>1. job' = job
    BY <1>2
  <2>2. WindowOK'
    BY <1>1, <1>4, <2>1 DEF WindowOK
  <2>3. KeepsSettled
    BY <1>4, <2>1 DEF KeepsSettled
  <2> QED BY <2>2, <2>3
<1>7. ASSUME NEW q \in Requests PROVE WaitsOK(q)'
  BY <1>1, <1>2, <1>3 DEF WaitsOK, HoldsOK, Holding
<1> QED BY <1>2, <1>3, <1>5, <1>6, <1>7, SettleKept

LEMMA HandlerSettles ==
  ASSUME CallsInTurn, TypeInv, SettleInv, NEW h \in Handlers,
         Apply(h) \/ \E j \in Jobs, ask \in Asks : Receive(h, j, ask)
  PROVE  SettleInv' /\ KeepsSettled
<1>1. /\ TypeOK /\ SentOK /\ WindowOK /\ LoadedOK(h) /\ CallOK(h)
      /\ \A q \in Requests : WaitsOK(q) /\ HoldsOK(q)
      /\ \A g \in Handlers : g = h
  BY DEF SettleInv, TypeInv, CarriesOK, CallsInTurn
<1>2. UNCHANGED <<req, work, calls>>
  BY DEF Apply, Receive
<1>3. CASE Apply(h)
  <2> DEFINE j == handler[h].id
             ask == handler[h].ask
  <2>1. /\ handler' = [handler EXCEPT ![h] = NoCall]
        /\ j \in Jobs /\ work[j] # "none" /\ ask \in Asks
        /\ job[j] = handler[h].seen /\ job[j] \in Active \cup {ask}
    BY <1>1, <1>3 DEF Apply, LoadedOK, CallOK, Permits, TypeOK
  <2>2. \/ UNCHANGED <<job, window>>
        \/ /\ job[j] \in Active /\ job' = [job EXCEPT ![j] = ask]
           /\ \/ UNCHANGED window
              \/ ask = "completed" /\ window' = [window EXCEPT ![j] = "open"]
    BY <1>1, <1>3, <2>1 DEF Apply
  <2>3. WindowOK' /\ KeepsSettled
    BY <1>1, <2>1, <2>2 DEF WindowOK, KeepsSettled, Terminal, Active, TypeOK
  <2>4. SentOK' /\ LoadedOK(h)'
    BY <1>1, <1>2, <2>1 DEF SentOK, LoadedOK, TypeOK
  <2>5. ASSUME NEW q \in Requests PROVE WaitsOK(q)'
    <3>1. Holding(q) => req[q].id \in Jobs /\ req[q].id # j
      BY <1>1, <2>1 DEF WaitsOK, HoldsOK
    <3>2. Holding(q) => job'[req[q].id] = job[req[q].id]
      BY <1>1, <2>1, <2>2, <3>1 DEF TypeOK
    <3> QED BY <1>1, <1>2, <3>2 DEF WaitsOK, Holding
  <2> QED BY <1>1, <2>3, <2>4, <2>5 DEF SettleInv
<1>4. ASSUME NEW j \in Jobs, NEW ask \in Asks, Receive(h, j, ask)
      PROVE  SettleInv' /\ KeepsSettled
  <2>1. /\ handler' = [handler EXCEPT ![h] = [id |-> j, ask |-> ask, seen |-> job[j]]]
        /\ UNCHANGED <<job, window>>
        /\ Permits(job[j], ask) /\ work[j] # "none"
    BY <1>1, <1>4 DEF Receive, SentOK
  <2>2. LoadedOK(h)'
    BY <1>1, <1>2, <2>1 DEF LoadedOK, TypeOK
  <2>3. SentOK' /\ WindowOK' /\ KeepsSettled
    BY <1>1, <1>2, <2>1 DEF SentOK, WindowOK, KeepsSettled
  <2>4. ASSUME NEW q \in Requests PROVE WaitsOK(q)'
    BY <1>1, <1>2, <2>1 DEF WaitsOK, Holding
  <2> QED BY <1>1, <2>2, <2>3, <2>4 DEF SettleInv
<1> QED BY <1>3, <1>4

LEMMA NextSettles ==
  ASSUME CallsInTurn, TypeInv, SettleInv, [Next]_vars PROVE SettleInv' /\ KeepsSettled
<1>1. ASSUME UNCHANGED <<job, window, req, handler, work, calls>>
      PROVE  SettleInv' /\ KeepsSettled
  BY <1>1 DEF SettleInv, LoadedOK, WaitsOK, SentOK, WindowOK, Holding, KeepsSettled
<1>2. CASE StartRepair \/ EndRepair \/ UNCHANGED vars
  BY <1>1, <1>2 DEF StartRepair, EndRepair, vars
<1> QED BY <1>2, RequestSettles, WorkerSettles, HandlerSettles DEF Next

(* update_export_job: as long as callbacks are served in turn, a terminal job
   stays what it is, however late or often the worker calls, and whatever
   requests fail or stop. *)
THEOREM TerminalStays == ASSUME CallsInTurn PROVE Spec => TerminalIsFinal
<1>1. TypeInv /\ SettleInv /\ [Next]_vars
        => [\A j \in Jobs : job[j] \in {"completed", "failed"} => job'[j] = job[j]]_vars
  BY NextSettles DEF KeepsSettled, Terminal
<1>2. TypeInv /\ SettleInv /\ [Next]_vars => SettleInv'
  BY NextSettles
<1> QED BY <1>1, <1>2, InitTypeInv, NextTypeInv, InitSettle, PTL DEF Spec, TerminalIsFinal

(* update_export_job: nor is a lapsed download window ever opened again. *)
THEOREM WindowStaysShut == ASSUME CallsInTurn PROVE Spec => WindowNeverReopens
<1>1. TypeInv /\ SettleInv /\ [Next]_vars
        => [\A j \in Jobs : window[j] = "lapsed" => window'[j] = "lapsed"]_vars
  BY NextSettles DEF KeepsSettled
<1>2. TypeInv /\ SettleInv /\ [Next]_vars => SettleInv'
  BY NextSettles
<1> QED BY <1>1, <1>2, InitTypeInv, NextTypeInv, InitSettle, PTL DEF Spec, WindowNeverReopens

-----------------------------------------------------------------------------
(* How many exports of a caller are unfinished.                            *)

(* A caller's unfinished exports, and the requests that found none. *)
Unfinished == {j \in Jobs : job[j] \in Active}
Cleared == {r \in Requests : req[r].at = "insert"}

(* Whoever is to insert found nothing unfinished, or stands beside whoever did. *)
SlotInv == /\ IsFiniteSet(Unfinished)
           /\ Cardinality(Unfinished) + Cardinality(Cleared) <= Cardinality(Requests)

(* A step that brings no job back and lets no request past the look. *)
LEMMA SlotKept ==
  ASSUME IsFiniteSet(Requests), SlotInv, Unfinished' \subseteq Unfinished, Cleared' \subseteq Cleared
  PROVE  SlotInv'
<1>1. IsFiniteSet(Unfinished) /\ IsFiniteSet(Cleared)
  BY FS_Subset DEF SlotInv, Cleared
<1>2. /\ IsFiniteSet(Unfinished') /\ Cardinality(Unfinished') <= Cardinality(Unfinished)
      /\ IsFiniteSet(Cleared') /\ Cardinality(Cleared') <= Cardinality(Cleared)
  BY <1>1, FS_Subset
<1>3. /\ Cardinality(Unfinished) \in Nat /\ Cardinality(Unfinished') \in Nat
      /\ Cardinality(Cleared) \in Nat /\ Cardinality(Cleared') \in Nat /\ Cardinality(Requests) \in Nat
  BY <1>1, <1>2, FS_CardinalityType
<1> QED BY <1>2, <1>3 DEF SlotInv

LEMMA NextSlotInv ==
  ASSUME IsFiniteSet(Requests), CallsInTurn, TypeInv, SettleInv, SlotInv, [Next]_vars
  PROVE  SlotInv'
<1>1. TypeOK /\ KeepsSettled
  BY NextSettles DEF TypeInv
<1>2. ASSUME NEW r \in Requests, Insert(r) PROVE SlotInv'
  <2>1. PICK j \in Jobs : /\ job[j] = "none" /\ job' = [job EXCEPT ![j] = "queued"]
                          /\ req' = [req EXCEPT ![r] = [at |-> "enqueue", id |-> j]]
    BY <1>2 DEF Insert, Goto
  <2>2. req[r].at = "insert"
    BY <1>2 DEF Insert
  <2>3. Unfinished' = Unfinished \cup {j} /\ j \notin Unfinished
    BY <1>1, <2>1 DEF Unfinished, Active, TypeOK
  <2>4. Cleared' = Cleared \ {r} /\ r \in Cleared
    BY <1>1, <2>1, <2>2 DEF Cleared, TypeOK
  <2>5. IsFiniteSet(Unfinished) /\ IsFiniteSet(Cleared)
    BY FS_Subset DEF SlotInv, Cleared
  <2>6. IsFiniteSet(Unfinished') /\ Cardinality(Unfinished') = Cardinality(Unfinished) + 1
    BY <2>3, <2>5, FS_AddElement
  <2>7. Cardinality(Cleared') = Cardinality(Cleared) - 1
    BY <2>4, <2>5, FS_RemoveElement
  <2>8. Cardinality(Unfinished) \in Nat /\ Cardinality(Cleared) \in Nat /\ Cardinality(Requests) \in Nat
    BY <2>5, FS_CardinalityType
  <2> QED BY <2>6, <2>7, <2>8 DEF SlotInv
<1>3. ASSUME NEW r \in Requests, Start(r) PROVE SlotInv'
  <2>1. Unfinished' = {}
    BY <1>3 DEF Start, Unfinished
  <2>2. Cleared' \in SUBSET Requests
    BY DEF Cleared
  <2>3. Cardinality(Unfinished') = 0 /\ IsFiniteSet(Unfinished')
    BY <2>1, FS_EmptySet
  <2>4. Cardinality(Cleared') <= Cardinality(Requests) /\ Cardinality(Cleared') \in Nat
    BY <2>2, FS_Subset, FS_CardinalityType
  <2> QED BY <2>3, <2>4 DEF SlotInv
<1>4. ASSUME NEW r \in Requests,
             RefuseOversized(r) \/ Enqueue(r) \/ FailUnqueued(r) \/ Crash(r) \/ CommitFail(r)
      PROVE  SlotInv'
  <2>1. Unfinished' \subseteq Unfinished
    BY <1>1, <1>4 DEF RefuseOversized, Enqueue, FailUnqueued, Crash, CommitFail, Unfinished, Active, TypeOK
  <2>2. Cleared' \subseteq Cleared
    BY <1>1, <1>4 DEF RefuseOversized, Enqueue, FailUnqueued, Crash, CommitFail, Goto,
                      Respond, Free, Cleared, TypeOK
  <2> QED BY <2>1, <2>2, SlotKept
<1>5. ASSUME NEW h \in Handlers, Apply(h) PROVE SlotInv'
  <2>1. LoadedOK(h) /\ CallOK(h)
    BY DEF SettleInv, TypeInv, CarriesOK
  <2>2. \/ UNCHANGED job
        \/ /\ handler[h].id \in Jobs /\ job[handler[h].id] \in Active
           /\ job' = [job EXCEPT ![handler[h].id] = handler[h].ask]
    BY <1>5, <2>1 DEF Apply, LoadedOK, CallOK, Permits
  <2>3. Unfinished' \subseteq Unfinished /\ Cleared' = Cleared
    BY <1>1, <1>5, <2>2 DEF Apply, Unfinished, Cleared, TypeOK
  <2> QED BY <2>3, SlotKept
<1>6. CASE UNCHANGED <<job, req>>
  BY <1>6, SlotKept DEF Unfinished, Cleared
<1>7. ASSUME NEW j \in Jobs, Worker(j) \/ Redeliver(j) \/ Lapse(j) \/ RemoveOrphan(j)
      PROVE  SlotInv'
  BY <1>6, <1>7 DEF Worker, Take, Build, Report, Redeliver, Lapse, RemoveOrphan
<1>8. ASSUME NEW h \in Handlers, NEW j \in Jobs, NEW ask \in Asks, Receive(h, j, ask)
      PROVE  SlotInv'
  BY <1>6, <1>8 DEF Receive
<1>9. CASE StartRepair \/ EndRepair \/ UNCHANGED vars
  BY <1>6, <1>9 DEF StartRepair, EndRepair, vars
<1> QED BY <1>2, <1>3, <1>4, <1>5, <1>7, <1>8, <1>9 DEF Next, Request

LEMMA InitSlotInv == ASSUME IsFiniteSet(Requests), Init PROVE SlotInv
<1>1. Unfinished = {} /\ Cleared = {}
  BY DEF Init, Free, Unfinished, Cleared, Active
<1> QED BY <1>1, FS_EmptySet, FS_CardinalityType DEF SlotInv

(* The count holds in every reachable state. *)
LEMMA SlotsCounted ==
  ASSUME CallsInTurn, IsFiniteSet(Requests) PROVE Spec => []SlotInv
<1>1. Init => SlotInv
  BY InitSlotInv
<1>2. TypeInv /\ SettleInv /\ SlotInv /\ [Next]_vars => SettleInv' /\ SlotInv'
  BY NextSettles, NextSlotInv
<1> QED BY <1>1, <1>2, InitTypeInv, NextTypeInv, InitSettle, PTL DEF Spec

LEMMA UnfinishedBounded ==
  ASSUME IsFiniteSet(Requests), SlotInv
  PROVE  Cardinality(Unfinished) \in Nat /\ Cardinality(Unfinished) <= Cardinality(Requests)
<1>1. IsFiniteSet(Cleared)
  BY FS_Subset DEF Cleared
<1>2. /\ Cardinality(Unfinished) \in Nat /\ Cardinality(Cleared) \in Nat
      /\ Cardinality(Requests) \in Nat
  BY <1>1, FS_CardinalityType DEF SlotInv
<1> QED BY <1>2 DEF SlotInv

(* _active_export_job (transfer.py:394) looks before another request inserts:
   requests that overlap can give a caller several unfinished exports, never
   more than the requests the service handles at once. *)
THEOREM NoMoreThanAsked ==
  ASSUME CallsInTurn, IsFiniteSet(Requests)
  PROVE  Spec => [](Cardinality(Unfinished) <= Cardinality(Requests))
<1>1. SlotInv => Cardinality(Unfinished) <= Cardinality(Requests)
  BY UnfinishedBounded
<1> QED BY <1>1, SlotsCounted, PTL

(* A caller's requests served in turn as well: the look for an unfinished job
   is still true when the row is inserted. *)
RequestsInTurn == \A q, r \in Requests : q = r

(* ACTIVE_EXPORT_STATUSES: a caller who asks for one export at a time never has
   two unfinished ones, whatever requests fail or stop and however the worker
   calls. *)
THEOREM NeverTwoActive ==
  ASSUME CallsInTurn, RequestsInTurn PROVE Spec => []OneActive
<1>1. IsFiniteSet(Requests) /\ Cardinality(Requests) <= 1 /\ Cardinality(Requests) \in Nat
  <2>1. CASE Requests = {}
    BY <2>1, FS_EmptySet
  <2>2. CASE Requests # {}
    <3>1. PICK r \in Requests : TRUE
      BY <2>2
    <3>2. Requests = {r}
      BY <3>1 DEF RequestsInTurn
    <3>3. IsFiniteSet({r}) /\ Cardinality({r}) = 1
      BY FS_Singleton
    <3> QED BY <3>2, <3>3
  <2> QED BY <2>1, <2>2
<1>2. SlotInv => OneActive
  <2> SUFFICES ASSUME SlotInv PROVE Cardinality(Unfinished) <= 1
    BY DEF OneActive, Unfinished
  <2> QED BY <1>1, UnfinishedBounded
<1>3. CallsInTurn
  OBVIOUS
<1> QED BY <1>1, <1>2, <1>3, SlotsCounted, PTL

-----------------------------------------------------------------------------
(* What is collected, where no orphan repair runs: only stored archives are
   reported, and nothing else removes them. *)
Reported(j) == work[j] = "built" \/ <<j, "completed">> \in calls \/ job[j] = "completed"

StoredInv == /\ ~repair.on
             /\ \A j \in Jobs : Reported(j) => archive[j]
             /\ \A h \in Handlers : handler[h] # NoCall /\ handler[h].ask = "completed"
                                      => archive[handler[h].id]

LEMMA NextStored ==
  ASSUME ~Repairs, TypeInv, StoredInv, [Next]_vars PROVE StoredInv'
<1>1. /\ TypeOK /\ \A h \in Handlers : CallOK(h)
      /\ ~repair.on /\ \A j \in Jobs : Reported(j) => archive[j]
      /\ \A h \in Handlers : handler[h] # NoCall /\ handler[h].ask = "completed"
                               => archive[handler[h].id]
  BY DEF TypeInv, CarriesOK, StoredInv
<1>2. ASSUME \A j \in Jobs : archive[j] => archive'[j], UNCHANGED <<handler, repair>>,
             \A j \in Jobs : Reported(j)' => Reported(j) \/ archive'[j]
      PROVE  StoredInv'
  BY <1>1, <1>2 DEF StoredInv, CallOK
<1>3. ASSUME NEW r \in Requests, Start(r) \/ Request(r) \/ Crash(r) PROVE StoredInv'
  <2>1. UNCHANGED <<archive, handler, repair, calls>>
    BY <1>3 DEF Start, Request, Insert, RefuseOversized, Enqueue, FailUnqueued, CommitFail, Crash
  <2>2. \A j \in Jobs : /\ job'[j] = "completed" => job[j] = "completed"
                        /\ work'[j] = "built" => work[j] = "built"
    BY <1>1, <1>3 DEF Start, Request, Insert, RefuseOversized, Enqueue, FailUnqueued,
                      CommitFail, Crash, TypeOK
  <2> QED BY <1>2, <2>1, <2>2 DEF Reported
<1>4. ASSUME NEW i \in Jobs, Worker(i) \/ Redeliver(i) \/ Lapse(i) \/ RemoveOrphan(i)
      PROVE  StoredInv'
  <2>1. UNCHANGED <<job, handler, repair>> /\ \A j \in Jobs : archive[j] => archive'[j]
    BY <1>1, <1>4 DEF Worker, Take, Build, Report, Redeliver, Lapse, RemoveOrphan, TypeOK
  <2>2. \A j \in Jobs : work'[j] = "built" => work[j] = "built" \/ archive'[j]
    BY <1>1, <1>4 DEF Worker, Take, Build, Report, Redeliver, Lapse, RemoveOrphan, TypeOK
  <2>3. \A j \in Jobs : <<j, "completed">> \in calls'
                          => <<j, "completed">> \in calls \/ work[j] = "built"
    BY <1>1, <1>4 DEF Worker, Take, Build, Report, Redeliver, Lapse, RemoveOrphan, Call
  <2> QED BY <1>1, <1>2, <2>1, <2>2, <2>3 DEF Reported
<1>5. ASSUME NEW h \in Handlers, Apply(h) PROVE StoredInv'
  <2>1. /\ UNCHANGED <<archive, work, calls, repair>>
        /\ handler' = [handler EXCEPT ![h] = NoCall] /\ handler[h] # NoCall
        /\ job' = job \/ job' = [job EXCEPT ![handler[h].id] = handler[h].ask]
    BY <1>5 DEF Apply
  <2>2. \A j \in Jobs : Reported(j)' => archive[j]
    BY <1>1, <2>1 DEF Reported, CallOK, TypeOK
  <2>3. \A g \in Handlers : handler'[g] # NoCall => handler'[g] = handler[g]
    BY <1>1, <2>1 DEF TypeOK
  <2> QED BY <1>1, <2>1, <2>2, <2>3 DEF StoredInv, Reported
<1>6. ASSUME NEW h \in Handlers, NEW i \in Jobs, NEW ask \in Asks, Receive(h, i, ask)
      PROVE  StoredInv'
  <2>1. /\ UNCHANGED <<job, archive, work, calls, repair>> /\ <<i, ask>> \in calls
        /\ handler' = [handler EXCEPT ![h] = [id |-> i, ask |-> ask, seen |-> job[i]]]
    BY <1>6 DEF Receive
  <2>2. \A g \in Handlers : \/ handler'[g] = handler[g]
                            \/ handler'[g].ask = ask /\ handler'[g].id = i
    BY <1>1, <2>1 DEF TypeOK
  <2> QED BY <1>1, <2>1, <2>2 DEF StoredInv, Reported
<1>7. CASE StartRepair \/ EndRepair \/ UNCHANGED vars
  BY <1>1, <1>2, <1>7 DEF Reported, StartRepair, EndRepair, vars
<1> QED BY <1>3, <1>4, <1>5, <1>6, <1>7 DEF Next

(* get_export (transfer.py): where no orphan repair removes bytes, every export
   its owner may collect is stored, however often its job was redelivered and
   whatever callbacks overlap. *)
THEOREM CollectableStored == ASSUME ~Repairs PROVE Spec => []CollectableIsThere
<1>1. Init => StoredInv
  BY DEF Init, StoredInv, Reported, NoRepair, Free
<1>2. TypeInv /\ StoredInv /\ [Next]_vars => StoredInv'
  BY NextStored
<1>3. StoredInv => CollectableIsThere
  BY DEF StoredInv, Reported, CollectableIsThere
<1> QED BY <1>1, <1>2, <1>3, InitTypeInv, NextTypeInv, PTL DEF Spec

-----------------------------------------------------------------------------
(* Imports: what a task carries at the step it has reached                 *)

Steps == {"idle", "tree", "match", "file", "put", "record", "complete", "scan", "done", "error"}
Task == [at : Steps, doc : Documents \cup {Null}, keys : SUBSET Paths,
         tree : UNION {[S -> Ids] : S \in SUBSET Paths}, n : Nat \ {0}, had : SUBSET Ids,
         report : Seq(Outcomes \cup {Null}), told : SUBSET Nat, since : Nat, again : BOOLEAN]

Serving(i) == import[i].at \notin {"idle", "error"}
AtRow(i) == import[i].at \in {"match", "file", "put", "record", "complete"}

(* The report is about the rows of the document, what it names is resolved or
   still to be, and the step is one there is something to do at. *)
TaskOK(i) ==
  /\ import[i].since <= edits
  /\ Serving(i) => /\ import[i].doc \in Documents
                   /\ DOMAIN import[i].report = DOMAIN import[i].doc.rows
                   /\ import[i].keys \subseteq Named(import[i].doc)
                   /\ Named(import[i].doc) \subseteq import[i].keys \cup DOMAIN import[i].tree
                   /\ import[i].at = "tree" <=> import[i].keys # {}
                   /\ import[i].at \notin {"scan", "done"} => import[i].told = {}
                   /\ import[i].at = "tree" => import[i].n = 1
  /\ AtRow(i) => import[i].n \in DOMAIN import[i].doc.rows
  /\ import[i].at = "file" => object[Entry(i)] # "none"

TasksOK == /\ import \in [Importers -> Task]
           /\ \A i \in Importers : TaskOK(i)

RowsTyped ==
  /\ row \in [Ids -> {"new", "live", "gone"}]
  /\ path \in [Ids -> Paths \cup {<<>>}]
  /\ object \in [Entries -> {"none", "live", "taken"}]
  /\ session \in [Entries -> {"none", "open", "closed"}]
  /\ stored \subseteq Entries /\ queued \subseteq Entries
  /\ filed \in [Entries -> SUBSET Live]
  /\ \A e \in Entries : object[e] = "none" => filed[e] = {}
  /\ edits \in 0 .. EditCap /\ landed \subseteq Documents /\ overlapped \in BOOLEAN

ImportTyped == RowsTyped /\ TasksOK

-----------------------------------------------------------------------------
LEMMA OwnPrefix == \A p \in Paths : p \in Prefixes(p)
<1> SUFFICES ASSUME NEW p \in Paths PROVE p \in Prefixes(p)
  OBVIOUS
<1>1. p \in Seq(Slugs) /\ p # <<>>
  BY ImportAssumption
<1>2. SubSeq(p, 1, Len(p)) = p
  BY <1>1, SubSeqFull
<1>3. Len(p) \in 1 .. Len(p)
  BY <1>1
<1> QED BY <1>2, <1>3 DEF Prefixes

LEMMA PrefixesOfPrefix == \A p \in Paths : \A q \in Prefixes(p) : Prefixes(q) \subseteq Prefixes(p)
<1> SUFFICES ASSUME NEW p \in Paths, NEW n \in 1 .. Len(p), NEW m \in 1 .. Len(SubSeq(p, 1, n))
             PROVE  SubSeq(SubSeq(p, 1, n), 1, m) \in Prefixes(p)
  BY DEF Prefixes
<1>1. p \in Seq(Slugs) /\ Len(p) \in Nat
  BY ImportAssumption
<1>2. Len(SubSeq(p, 1, n)) = n
  BY <1>1, SubSeqProperties
<1>3. SubSeq(SubSeq(p, 1, n), 1, m) = SubSeq(p, 1, m)
  <2>1. 1 \in 1 .. Len(p) /\ 1 \in 1 .. n - 1 + 1 /\ m \in 1 .. n - 1 + 1 /\ 1 + 1 - 1 = 1 /\ 1 + m - 1 = m
    BY <1>1, <1>2
  <2> QED BY <1>1, <2>1, SubSeqOfSubSeq
<1>4. m \in 1 .. Len(p)
  BY <1>1, <1>2
<1> QED BY <1>3, <1>4 DEF Prefixes

(* What a document names: paths, closed upwards, those of its rows among them. *)
LEMMA NamedPaths ==
  ASSUME NEW doc \in Documents
  PROVE  /\ doc.rows \in Seq(Entries) /\ DOMAIN doc.rows = 1 .. Len(doc.rows) /\ Len(doc.rows) \in Nat
         /\ Named(doc) \subseteq Paths
         /\ \A p \in Named(doc) : Prefixes(p) \subseteq Named(doc)
         /\ \A e \in Entries : doc.paths[e] \subseteq Named(doc)
<1>1. doc \in Document
  BY ImportAssumption
<1>2. doc.rows \in Seq(Entries) /\ doc.tree \subseteq Paths /\ doc.paths \in [Entries -> SUBSET Paths]
  BY <1>1 DEF Document
<1>3. \A p \in doc.tree \cup UNION {doc.paths[e] : e \in Entries} : p \in Paths
  BY <1>2
<1>4. Named(doc) \subseteq Paths
  BY <1>3, ImportAssumption DEF Named
<1>5. ASSUME NEW p \in Named(doc) PROVE Prefixes(p) \subseteq Named(doc)
  <2>1. PICK r \in doc.tree \cup UNION {doc.paths[e] : e \in Entries} : p \in Prefixes(r)
    BY DEF Named
  <2>2. Prefixes(p) \subseteq Prefixes(r)
    BY <1>3, <2>1, PrefixesOfPrefix
  <2> QED BY <2>1, <2>2 DEF Named
<1>6. ASSUME NEW e \in Entries, NEW p \in doc.paths[e] PROVE p \in Named(doc)
  <2>1. p \in Paths /\ p \in doc.tree \cup UNION {doc.paths[f] : f \in Entries}
    BY <1>3
  <2>2. p \in Prefixes(p)
    BY <2>1, OwnPrefix
  <2> QED BY <2>1, <2>2 DEF Named
<1> QED BY <1>2, <1>4, <1>5, <1>6

(* The row an import is at, and the rows of the tree it would file it in. *)
LEMMA EntryTyped ==
  ASSUME TasksOK, NEW i \in Importers, AtRow(i)
  PROVE  /\ Entry(i) \in Entries /\ CategoriesFor(i) \subseteq Ids
         /\ import[i].doc \in Documents
         /\ import[i].doc.paths[Entry(i)] \subseteq DOMAIN import[i].tree
         /\ \A p \in DOMAIN import[i].tree : p \in Paths /\ import[i].tree[p] \in Ids
<1>1. /\ TaskOK(i) /\ Serving(i) /\ import[i] \in Task /\ import[i].keys = {}
  BY DEF TasksOK, AtRow, Serving, TaskOK
<1>2. import[i].doc \in Documents /\ Named(import[i].doc) \subseteq DOMAIN import[i].tree
  BY <1>1 DEF TaskOK
<1>3. Entry(i) \in Entries
  BY <1>1, <1>2, NamedPaths, ElementOfSeq DEF TaskOK, Entry
<1>4. import[i].doc.paths[Entry(i)] \subseteq DOMAIN import[i].tree
  BY <1>2, <1>3, NamedPaths
<1>5. PICK S \in SUBSET Paths : import[i].tree \in [S -> Ids]
  BY <1>1 DEF Task
<1>6. \A p \in DOMAIN import[i].tree : p \in Paths /\ import[i].tree[p] \in Ids
  BY <1>5
<1> QED BY <1>2, <1>3, <1>4, <1>6 DEF CategoriesFor

-----------------------------------------------------------------------------
LEMMA IdleTask == NoImport \in Task /\ NoImport.at = "idle" /\ NoImport.since = 0
<1> DEFINE empty == [p \in {} |-> Null]
<1>1. empty \in UNION {[S -> Ids] : S \in SUBSET Paths}
  <2>1. empty \in [{} -> Ids]
    OBVIOUS
  <2> QED BY <2>1
<1>2. <<>> \in Seq(Outcomes \cup {Null})
  OBVIOUS
<1>3. NoImport = [at |-> "idle", doc |-> Null, keys |-> {}, tree |-> empty, n |-> 1,
                  had |-> {}, report |-> <<>>, told |-> {}, since |-> 0, again |-> FALSE]
  BY DEF NoImport
<1>4. "idle" \in Steps /\ Null \in Documents \cup {Null} /\ 1 \in Nat \ {0}
  BY DEF Steps
<1> HIDE DEF empty
<1>5. NoImport \in Task
  BY <1>1, <1>2, <1>3, <1>4, SMT DEF Task
<1> QED BY <1>3, <1>5

LEMMA InitImportTyped == ImportInit => ImportTyped
<1> SUFFICES ASSUME ImportInit PROVE ImportTyped
  OBVIOUS
<1>1. Owned \subseteq Entries /\ EditCap \in Nat
  BY ImportAssumption
<1>2. /\ row \in [Ids -> {"new", "live", "gone"}] /\ path \in [Ids -> Paths \cup {<<>>}]
      /\ object \in [Entries -> {"none", "live", "taken"}]
      /\ session \in [Entries -> {"none", "open", "closed"}]
      /\ stored \subseteq Entries /\ queued \subseteq Entries
  BY <1>1 DEF ImportInit
<1>3. filed = [e \in Entries |-> {}] /\ edits = 0 /\ landed = {} /\ overlapped = FALSE
  BY DEF ImportInit
<1>4. filed \in [Entries -> SUBSET Live] /\ \A e \in Entries : filed[e] = {}
  BY <1>3
<1>5. edits \in 0 .. EditCap /\ landed \subseteq Documents /\ overlapped \in BOOLEAN
  <2>1. 0 \in 0 .. EditCap
    BY <1>1
  <2> QED BY <1>3, <2>1, Zenon
<1>6. RowsTyped
  BY <1>2, <1>4, <1>5 DEF RowsTyped
<1>7. import = [i \in Importers |-> NoImport]
  BY DEF ImportInit
<1>8. ASSUME NEW i \in Importers PROVE TaskOK(i)
  BY <1>3, <1>7 DEF TaskOK, Serving, AtRow, NoImport
<1> QED BY <1>6, <1>7, <1>8, IdleTask DEF ImportTyped, TasksOK

(* What a step of one import leaves of its task and of the other ones. *)
Alone(i) == /\ import' \in [Importers -> Task]
            /\ \A j \in Importers \ {i} : import'[j] = import[j]
Continues(i) == /\ import'[i].doc = import[i].doc /\ import'[i].keys = import[i].keys
                /\ import'[i].tree = import[i].tree /\ import'[i].told = import[i].told
                /\ import'[i].since = import[i].since /\ import'[i].again = import[i].again

(* A row that is settled: its outcome is in the report, and the next step is
   that of the next row or the first scan. *)
LEMMA Settling ==
  ASSUME TasksOK, NEW i \in Importers, AtRow(i), NEW o \in Outcomes, Settle(i, o)
  PROVE  /\ Alone(i) /\ Continues(i)
         /\ import'[i].at \in {"match", "scan"}
         /\ import'[i].at = "match" => import'[i].n \in DOMAIN import[i].doc.rows
         /\ DOMAIN import'[i].report = DOMAIN import[i].report
         /\ import'[i].report[import[i].n] = o
         /\ \A n \in DOMAIN import[i].report \ {import[i].n} : import'[i].report[n] = import[i].report[n]
<1> DEFINE t == import[i]
           settled == [t EXCEPT !.report = [t.report EXCEPT ![t.n] = o], !.had = {},
                                !.n = IF IsLast(i) THEN 1 ELSE t.n + 1,
                                !.at = IF IsLast(i) THEN "scan" ELSE "match"]
<1>1. /\ t \in Task /\ t.doc \in Documents /\ t.n \in DOMAIN t.doc.rows
      /\ DOMAIN t.report = DOMAIN t.doc.rows /\ t.report \in Seq(Outcomes \cup {Null})
  BY DEF TasksOK, TaskOK, AtRow, Serving, Task
<1>2. DOMAIN t.doc.rows = 1 .. Len(t.doc.rows) /\ Len(t.doc.rows) \in Nat
  BY <1>1, NamedPaths
<1>3. DOMAIN t.report = 1 .. Len(t.report) /\ t.n \in 1 .. Len(t.report)
  BY <1>1
<1>4. /\ [t.report EXCEPT ![t.n] = o] \in Seq(Outcomes \cup {Null})
      /\ DOMAIN [t.report EXCEPT ![t.n] = o] = DOMAIN t.report
  BY <1>1, <1>3, ExceptSeq
<1>5. import' = [import EXCEPT ![i] = settled]
  BY DEF Settle, TasksOK
<1>6. settled \in Task
  <2>1. {} \in SUBSET Ids /\ 1 \in Nat \ {0} /\ t.n + 1 \in Nat \ {0}
    BY <1>1, <1>2
  <2> QED BY <1>1, <1>4, <2>1 DEF Task, Steps
<1>7. Alone(i)
  BY <1>5, <1>6 DEF Alone, TasksOK
<1>8. import'[i] = settled
  BY <1>5 DEF TasksOK
<1>9. ~IsLast(i) => t.n + 1 \in DOMAIN t.doc.rows
  BY <1>1, <1>2 DEF IsLast
<1>10. /\ Continues(i) /\ settled.at \in {"match", "scan"}
       /\ settled.at = "match" => settled.n \in DOMAIN t.doc.rows
       /\ settled.report = [t.report EXCEPT ![t.n] = o]
  BY <1>1, <1>8, <1>9 DEF Continues, Task
<1> QED BY <1>3, <1>4, <1>7, <1>8, <1>10

(* A row that goes on to a step of its own. *)
LEMMA Proceeding ==
  ASSUME TasksOK, NEW i \in Importers, NEW label \in Steps, Proceed(i, label)
  PROVE  /\ Alone(i) /\ Continues(i) /\ import'[i].at = label
         /\ import'[i].n = import[i].n /\ import'[i].report = import[i].report
BY DEF TasksOK, Task, Proceed, Alone, Continues

LEMMA Breaking ==
  ASSUME TasksOK, NEW i \in Importers, Break(i)
  PROVE  Alone(i) /\ import'[i].at = "error" /\ import'[i].since = 0
<1>1. [NoImport EXCEPT !.at = "error"] \in Task
  BY IdleTask DEF Task, Steps, NoImport
<1>2. [NoImport EXCEPT !.at = "error"].since = 0 /\ [NoImport EXCEPT !.at = "error"].at = "error"
  BY DEF NoImport
<1> QED BY <1>1, <1>2 DEF TasksOK, Break, Alone

(* Live rows stay live where no category is deleted. *)
LEMMA LiveKept ==
  ASSUME UNCHANGED row
  PROVE  Live' = Live
BY DEF Live

-----------------------------------------------------------------------------
(* Imports: types                                                          *)

(* A step leaves the tasks it does not touch as they should be. *)
LEMMA OthersTasked ==
  ASSUME TasksOK, NEW j \in Importers, import'[j] = import[j], edits \in Nat, edits' \in Nat,
         edits <= edits', \A e \in Entries : object[e] # "none" => object'[e] # "none"
  PROVE  TaskOK(j)'
<1>1. TaskOK(j) /\ import[j] \in Task
  BY DEF TasksOK
<1>2. import[j].at = "file" => Entry(j) \in Entries
  BY EntryTyped DEF AtRow
<1>3. import[j].since \in Nat
  BY <1>1 DEF Task
<1>4. import'[j].since <= edits'
  BY <1>1, <1>3 DEF TaskOK
<1>5. Entry(j)' = Entry(j) /\ (Serving(j)' <=> Serving(j)) /\ (AtRow(j)' <=> AtRow(j))
  BY DEF Entry, Serving, AtRow
<1>6. import'[j].at = "file" => object'[Entry(j)'] # "none"
  BY <1>1, <1>2, <1>5 DEF TaskOK
<1> QED BY <1>1, <1>4, <1>5, <1>6 DEF TaskOK

(* A row that is settled or goes on to a step of its own. *)
LEMMA RowTasked ==
  ASSUME TasksOK, NEW i \in Importers, AtRow(i), Alone(i), Continues(i), edits' = edits,
         DOMAIN import'[i].report = DOMAIN import[i].report,
         import'[i].at \in {"match", "file", "put", "record", "complete", "scan"},
         import'[i].at # "scan" => import'[i].n \in DOMAIN import[i].doc.rows,
         import'[i].at = "file" => object'[Entry(i)'] # "none"
  PROVE  TaskOK(i)'
<1>1. TaskOK(i) /\ Serving(i) /\ Serving(i)' /\ import[i].at # "tree"
  BY DEF TasksOK, AtRow, Serving
<1>2. import[i].keys = {} /\ import[i].told = {} /\ import[i].since <= edits
  BY <1>1 DEF TaskOK, AtRow
<1>3. import'[i].keys = {} /\ import'[i].told = {} /\ import'[i].since <= edits'
  BY <1>2 DEF Continues
<1>4. /\ import'[i].doc \in Documents
      /\ DOMAIN import'[i].report = DOMAIN import'[i].doc.rows
      /\ Named(import'[i].doc) \subseteq import'[i].keys \cup DOMAIN import'[i].tree
  BY <1>1, <1>2, <1>3 DEF TaskOK, Continues
<1>5. AtRow(i)' => import'[i].n \in DOMAIN import'[i].doc.rows
  BY DEF AtRow, Continues
<1> QED BY <1>3, <1>4, <1>5 DEF TaskOK

LEMMA SettleTasked ==
  ASSUME TasksOK, NEW i \in Importers, AtRow(i), NEW o \in Outcomes, Settle(i, o), UNCHANGED edits
  PROVE  Alone(i) /\ TaskOK(i)'
<1>1. TaskOK(i) /\ Serving(i)
  BY DEF TasksOK, AtRow, Serving
<1> QED BY <1>1, Settling, RowTasked DEF TaskOK

LEMMA ProceedTasked ==
  ASSUME TasksOK, NEW i \in Importers, AtRow(i), NEW label \in {"put", "record", "complete"},
         Proceed(i, label), UNCHANGED edits
  PROVE  Alone(i) /\ TaskOK(i)'
<1>1. TaskOK(i) /\ label \in Steps
  BY DEF TasksOK, Steps
<1>2. Alone(i) /\ Continues(i) /\ import'[i].at = label /\ import'[i].n = import[i].n
      /\ import'[i].report = import[i].report
  BY <1>1, Proceeding
<1>3. import[i].n \in DOMAIN import[i].doc.rows
  BY <1>1 DEF TaskOK
<1> QED BY <1>2, <1>3, RowTasked

(* A task that ends, with its report or without. *)
LEMMA EndTasked ==
  ASSUME TasksOK, NEW i \in Importers, edits \in Nat, UNCHANGED edits,
         Break(i) \/ import' = [import EXCEPT ![i] = NoImport]
  PROVE  Alone(i) /\ TaskOK(i)' /\ ~Serving(i)'
<1>1. CASE Break(i)
  BY <1>1, Breaking DEF TaskOK, Serving, AtRow
<1>2. CASE import' = [import EXCEPT ![i] = NoImport]
  <2>1. Alone(i) /\ import'[i] = NoImport
    BY <1>2, IdleTask DEF TasksOK, Alone
  <2> QED BY <2>1, IdleTask DEF TaskOK, Serving, AtRow
<1> QED BY <1>1, <1>2

(* A new task is about its document and has all the paths it names before it. *)
LEMMA BeginTasked ==
  ASSUME TasksOK, NEW i \in Importers, Begin(i), edits \in Nat
  PROVE  /\ Alone(i) /\ TaskOK(i)' /\ import[i].at = "idle"
         /\ import'[i].at \in {"tree", "match", "scan"}
         /\ import'[i].doc \in Documents /\ (import'[i].again <=> import'[i].doc \in landed)
         /\ DOMAIN import'[i].tree = {} /\ import'[i].had = {} /\ import'[i].told = {}
         /\ \A n \in DOMAIN import'[i].report : import'[i].report[n] = Null
<1>1. PICK doc \in Documents :
         import' = [import EXCEPT ![i] =
            [NoImport EXCEPT !.at = AfterTree(doc, Named(doc)), !.doc = doc, !.keys = Named(doc),
                             !.report = [n \in DOMAIN doc.rows |-> Null],
                             !.since = edits, !.again = doc \in landed]]
  BY DEF Begin
<1> DEFINE report == [n \in DOMAIN doc.rows |-> Null]
           again == doc \in landed
           begun == [NoImport EXCEPT !.at = AfterTree(doc, Named(doc)), !.doc = doc, !.keys = Named(doc),
                                     !.report = report, !.since = edits, !.again = again]
<1>2. import' = [import EXCEPT ![i] = begun]
  BY <1>1
<1>3. /\ doc.rows \in Seq(Entries) /\ DOMAIN doc.rows = 1 .. Len(doc.rows) /\ Len(doc.rows) \in Nat
      /\ Named(doc) \subseteq Paths
  BY NamedPaths
<1>4. report \in Seq(Outcomes \cup {Null})
  <2>1. report \in [1 .. Len(doc.rows) -> Outcomes \cup {Null}]
    BY <1>3
  <2>2. report \in UNION {[1 .. k -> Outcomes \cup {Null}] : k \in Nat}
    BY <1>3, <2>1
  <2> QED BY <2>2, SeqDef
<1>5. /\ NoImport \in Task /\ NoImport.tree = [p \in {} |-> Null] /\ NoImport.n = 1
      /\ NoImport.had = {} /\ NoImport.told = {}
  BY IdleTask DEF NoImport
<1>6. /\ AfterTree(doc, Named(doc)) \in {"tree", "match", "scan"}
      /\ AfterTree(doc, Named(doc)) = "tree" <=> Named(doc) # {}
      /\ AfterTree(doc, Named(doc)) = "match" => doc.rows # <<>>
  BY DEF AfterTree
<1>7. AfterTree(doc, Named(doc)) = "match" => 1 \in DOMAIN doc.rows
  BY <1>3, <1>6, EmptySeq
<1>8. /\ begun \in Task
      /\ begun.at = AfterTree(doc, Named(doc)) /\ begun.doc = doc /\ begun.keys = Named(doc)
      /\ begun.tree = NoImport.tree /\ begun.n = NoImport.n /\ begun.had = NoImport.had
      /\ begun.report = report /\ begun.told = NoImport.told /\ begun.since = edits
      /\ begun.again = again
  <2>1. AfterTree(doc, Named(doc)) \in Steps /\ again \in BOOLEAN
    BY <1>6 DEF Steps
  <2>2. Named(doc) \in SUBSET Paths /\ doc \in Documents \cup {Null}
    BY <1>3
  <2> HIDE DEF report, again
  <2> QED BY <1>4, <1>5, <2>1, <2>2 DEF Task
<1>9. import'[i] = begun /\ Alone(i)
  BY <1>2, <1>8 DEF TasksOK, Alone
<1> HIDE DEF begun
<1>10. DOMAIN NoImport.tree = {}
  BY <1>5
<1>11. edits' = edits /\ import[i].at = "idle"
  BY DEF Begin
<1>12. DOMAIN report = DOMAIN doc.rows /\ \A n \in DOMAIN report : report[n] = Null
  OBVIOUS
<1> HIDE DEF report
<1>13. TaskOK(i)'
  BY <1>5, <1>6, <1>7, <1>8, <1>9, <1>10, <1>11, <1>12 DEF TaskOK, Serving, AtRow
<1> QED BY <1>5, <1>6, <1>8, <1>9, <1>10, <1>11, <1>12, <1>13

-----------------------------------------------------------------------------
(* Imports: the rows of the tree                                           *)

(* Rows of the tree only come: none goes, moves or is renamed. *)
TreeGrows == /\ \A c \in Live : row'[c] = "live" /\ path'[c] = path[c]
             /\ \A p \in Paths : At(p) \subseteq At(p)'

LEMMA TreeStands ==
  ASSUME UNCHANGED <<row, path>>
  PROVE  TreeGrows /\ Live' = Live
BY DEF TreeGrows, Live, At

(* One path is resolved: rows come for what is missing above and at it, one
   for each, and the task has the row at it. *)
LEMMA Resolving ==
  ASSUME ImportTyped, NEW i \in Importers, EnsurePath(i)
  PROVE  \E p \in import[i].keys, c \in Ids :
           /\ p \in Named(import[i].doc) /\ p \in Paths
           /\ row' \in [Ids -> {"new", "live", "gone"}] /\ path' \in [Ids -> Paths \cup {<<>>}]
           /\ TreeGrows
           /\ \A b \in Live' \ Live : path'[b] \in Missing(p)
           /\ \A b, d \in Live' \ Live : path'[b] = path'[d] => b = d
           /\ Missing(p) = {} => UNCHANGED <<row, path>>
           /\ c \in At(p)'
           /\ Alone(i) /\ import'[i].keys = import[i].keys \ {p}
           /\ DOMAIN import'[i].tree = DOMAIN import[i].tree \cup {p}
           /\ \A q \in DOMAIN import[i].tree \cup {p} :
                import'[i].tree[q] = IF q = p THEN c ELSE import[i].tree[q]
           /\ import'[i].at = AfterTree(import[i].doc, import'[i].keys)
           /\ import'[i].doc = import[i].doc /\ import'[i].n = import[i].n
           /\ import'[i].report = import[i].report /\ import'[i].told = import[i].told
           /\ import'[i].since = import[i].since /\ import'[i].again = import[i].again
<1> DEFINE t == import[i]
<1>1. PICK p \in t.keys :
        LET id == CHOOSE id \in Numberings(p) : TRUE
            left == t.keys \ {p}
        IN  /\ t.at = "tree" /\ Numberings(p) # {}
            /\ row' = [c \in Ids |-> IF \E q \in Missing(p) : id[q] = c THEN "live" ELSE row[c]]
            /\ path' = [c \in Ids |-> IF \E q \in Missing(p) : id[q] = c
                                      THEN CHOOSE q \in Missing(p) : id[q] = c ELSE path[c]]
            /\ \E c \in Ids :
                 /\ row'[c] = "live" /\ path'[c] = p
                 /\ import' = [import EXCEPT ![i].keys = left,
                                 ![i].tree = [q \in DOMAIN @ \cup {p} |-> IF q = p THEN c ELSE @[q]],
                                 ![i].at = AfterTree(t.doc, left)]
  BY DEF EnsurePath
<1> DEFINE id == CHOOSE id \in Numberings(p) : TRUE
           left == t.keys \ {p}
<1>2. id \in Numberings(p)
  BY <1>1
<1> HIDE DEF id
<1>3. /\ t.at = "tree"
      /\ row' = [c \in Ids |-> IF \E q \in Missing(p) : id[q] = c THEN "live" ELSE row[c]]
      /\ path' = [c \in Ids |-> IF \E q \in Missing(p) : id[q] = c
                                THEN CHOOSE q \in Missing(p) : id[q] = c ELSE path[c]]
  BY <1>1 DEF id
<1>4. PICK c \in Ids :
        /\ row'[c] = "live" /\ path'[c] = p
        /\ import' = [import EXCEPT ![i] = [t EXCEPT !.keys = left,
                        !.tree = [q \in DOMAIN t.tree \cup {p} |-> IF q = p THEN c ELSE t.tree[q]],
                        !.at = AfterTree(t.doc, left)]]
  <2>1. PICK c \in Ids :
          /\ row'[c] = "live" /\ path'[c] = p
          /\ import' = [import EXCEPT ![i].keys = left,
                          ![i].tree = [q \in DOMAIN @ \cup {p} |-> IF q = p THEN c ELSE @[q]],
                          ![i].at = AfterTree(t.doc, left)]
    BY <1>1
  <2>2. import \in [Importers -> Task]
    BY DEF ImportTyped, TasksOK
  <2> HIDE DEF left, Task
  <2> QED BY <2>1, <2>2
<1>5. TaskOK(i) /\ t \in Task /\ RowsTyped /\ TasksOK
  BY DEF ImportTyped, TasksOK
<1>6. t.doc \in Documents /\ p \in Named(t.doc) /\ p \in Paths
  BY <1>3, <1>5, NamedPaths DEF TaskOK, Serving
<1>7. Missing(p) \subseteq Paths
  BY <1>6, ImportAssumption DEF Missing
<1>8. /\ \A q \in Missing(p) : id[q] \in Ids /\ row[id[q]] = "new"
      /\ \A q, r \in Missing(p) : id[q] = id[r] => q = r
  BY <1>2 DEF Numberings
<1>9. \A b \in Ids : /\ row[b] # "new" => row'[b] = row[b] /\ path'[b] = path[b]
                     /\ row'[b] # row[b] => /\ row'[b] = "live" /\ path'[b] \in Missing(p)
                                            /\ id[path'[b]] = b
  <2> TAKE b \in Ids
  <2>1. CASE \E q \in Missing(p) : id[q] = b
    <3> DEFINE r == CHOOSE q \in Missing(p) : id[q] = b
    <3>1. r \in Missing(p) /\ id[r] = b
      BY <2>1
    <3>2. row'[b] = "live" /\ path'[b] = r /\ row[b] = "new"
      BY <1>3, <1>8, <2>1
    <3> QED BY <3>1, <3>2
  <2>2. CASE ~\E q \in Missing(p) : id[q] = b
    BY <1>3, <2>2
  <2> QED BY <2>1, <2>2
<1>10. \A b \in Ids : b \in Live' \ Live => row'[b] # row[b]
  BY DEF Live
<1>11. TreeGrows
  BY <1>5, <1>9 DEF RowsTyped, TreeGrows, Live, At
<1>12. /\ \A b \in Live' \ Live : path'[b] \in Missing(p)
       /\ \A b, d \in Live' \ Live : path'[b] = path'[d] => b = d
  BY <1>9, <1>10 DEF Live
<1>13. row' \in [Ids -> {"new", "live", "gone"}] /\ path' \in [Ids -> Paths \cup {<<>>}]
  <2>1. \A b \in Ids : row'[b] \in {"new", "live", "gone"} /\ path'[b] \in Paths \cup {<<>>}
    <3> TAKE b \in Ids
    <3>1. CASE row'[b] # row[b]
      BY <1>7, <1>9, <3>1
    <3>2. CASE row'[b] = row[b]
      <4>1. CASE \E q \in Missing(p) : id[q] = b
        BY <1>3, <1>8, <3>2, <4>1
      <4>2. CASE ~\E q \in Missing(p) : id[q] = b
        BY <1>3, <1>5, <4>2 DEF RowsTyped
      <4> QED BY <4>1, <4>2
    <3> QED BY <3>1, <3>2
  <2> QED BY <1>3, <2>1
<1>14. Missing(p) = {} => UNCHANGED <<row, path>>
  <2> HAVE Missing(p) = {}
  <2>1. row' = [b \in Ids |-> row[b]] /\ path' = [b \in Ids |-> path[b]]
    BY <1>3
  <2> QED BY <1>5, <2>1 DEF RowsTyped
<1>15. c \in At(p)'
  BY <1>4 DEF At, Live
<1> DEFINE tree == [q \in DOMAIN t.tree \cup {p} |-> IF q = p THEN c ELSE t.tree[q]]
           resolved == [t EXCEPT !.keys = left, !.tree = tree, !.at = AfterTree(t.doc, left)]
<1>16. tree \in UNION {[S -> Ids] : S \in SUBSET Paths}
  <2>1. PICK S \in SUBSET Paths : t.tree \in [S -> Ids]
    BY <1>5 DEF Task
  <2>2. tree \in [S \cup {p} -> Ids] /\ S \cup {p} \in SUBSET Paths
    BY <1>6, <2>1
  <2> QED BY <2>2
<1>17. /\ resolved \in Task
       /\ resolved.keys = left /\ resolved.tree = tree /\ resolved.at = AfterTree(t.doc, left)
       /\ resolved.doc = t.doc /\ resolved.n = t.n /\ resolved.report = t.report
       /\ resolved.told = t.told /\ resolved.since = t.since /\ resolved.again = t.again
  <2>1. left \in SUBSET Paths /\ AfterTree(t.doc, left) \in Steps
    BY <1>5 DEF Task, AfterTree, Steps
  <2> HIDE DEF tree, left
  <2> QED BY <1>5, <1>16, <2>1 DEF Task
<1>18. Alone(i) /\ import'[i] = resolved
  <2> HIDE DEF resolved
  <2>1. import' = [import EXCEPT ![i] = resolved]
    BY <1>4 DEF resolved
  <2> QED BY <1>5, <1>17, <2>1 DEF TasksOK, Alone
<1>19. /\ DOMAIN tree = DOMAIN t.tree \cup {p}
       /\ \A q \in DOMAIN t.tree \cup {p} : tree[q] = IF q = p THEN c ELSE t.tree[q]
  OBVIOUS
<1> HIDE DEF resolved, tree
<1> QED BY <1>6, <1>11, <1>12, <1>13, <1>14, <1>15, <1>17, <1>18, <1>19

-----------------------------------------------------------------------------
(* What no import undoes, nor the purge: rows of the tree, objects, filing. *)
Unedited == /\ edits' = edits /\ TreeGrows
            /\ \A e \in Entries : /\ filed[e] \subseteq filed'[e]
                                  /\ object[e] # "none" => object'[e] = object[e]

LEMMA ImportUnedited ==
  ASSUME ImportTyped, NEW i \in Importers, Import(i)
  PROVE  Unedited
<1> USE DEF ImportTyped, RowsTyped, library
<1>1. CASE Begin(i) \/ Match(i) \/ RefuseComplete(i) \/ EnqueueScan(i) \/ Answer(i) \/ Leave(i)
  BY <1>1, TreeStands DEF Begin, Match, RefuseComplete, EnqueueScan, Answer, Leave, Unedited
<1>2. CASE EnsurePath(i)
  <2>1. TreeGrows
    BY <1>2, Resolving
  <2> QED BY <1>2, <2>1 DEF EnsurePath, Unedited
<1>3. CASE Put(i) \/ Record(i)
  BY <1>3, TreeStands DEF Put, Record, Unedited
<1>4. CASE FileInto(i) \/ Promote(i) \/ Reject(i)
  <2>1. AtRow(i) /\ UNCHANGED <<row, path, edits>>
    BY <1>4 DEF FileInto, Promote, Reject, AtRow
  <2>2. Entry(i) \in Entries /\ TreeGrows
    BY <2>1, EntryTyped, TreeStands
  <2>3. CASE FileInto(i)
    BY <2>1, <2>2, <2>3 DEF FileInto, Unedited
  <2>4. CASE Promote(i)
    BY <2>1, <2>2, <2>4 DEF Promote, Unedited
  <2>5. CASE Reject(i)
    BY <2>1, <2>2, <2>5 DEF Reject, Unedited
  <2> QED BY <1>4, <2>3, <2>4, <2>5
<1> QED BY <1>1, <1>2, <1>3, <1>4 DEF Import, Row

LEMMA PurgeUnedited ==
  ASSUME NEW e \in Entries, PurgeStale(e)
  PROVE  Unedited
BY TreeStands DEF PurgeStale, Unedited

(* The scans, one row after the other, and the answer. *)
LEMMA Scanning ==
  ASSUME TasksOK, NEW i \in Importers, EnqueueScan(i) \/ Answer(i)
  PROVE  /\ import[i].at = "scan" /\ Alone(i)
         /\ import'[i].doc = import[i].doc /\ import'[i].keys = import[i].keys
         /\ import'[i].tree = import[i].tree /\ import'[i].report = import[i].report
         /\ import'[i].since = import[i].since /\ import'[i].again = import[i].again
         /\ import'[i].at \in {"scan", "done"}
         /\ \/ UNCHANGED queued /\ import'[i].told = import[i].told
            \/ /\ Created(i) /\ ~Scanned(i) /\ queued' = queued \cup {Entry(i)}
               /\ import'[i].told = import[i].told \cup {import[i].n}
<1> DEFINE t == import[i]
<1>1. t \in Task /\ t.at = "scan"
  BY DEF EnqueueScan, Answer, TasksOK
<1>2. ASSUME NEW u \in Task, import' = [import EXCEPT ![i] = u]
      PROVE  Alone(i) /\ import'[i] = u
  BY <1>2 DEF Alone, TasksOK
<1>3. CASE Answer(i)
  <2> DEFINE u == [t EXCEPT !.at = "done"]
  <2>1. /\ u \in Task /\ u.at = "done" /\ u.doc = t.doc /\ u.keys = t.keys /\ u.tree = t.tree
        /\ u.report = t.report /\ u.since = t.since /\ u.again = t.again /\ u.told = t.told
    BY <1>1 DEF Task, Steps
  <2>2. import' = [import EXCEPT ![i] = u] /\ UNCHANGED queued
    BY <1>3 DEF Answer, Proceed, TasksOK
  <2> HIDE DEF u
  <2> QED BY <1>1, <1>2, <2>1, <2>2
<1>4. CASE EnqueueScan(i)
  <2>1. t.n + 1 \in Nat \ {0} /\ t.told \cup {t.n} \in SUBSET Nat
    BY <1>1 DEF Task
  <2>2. CASE UNCHANGED queued /\ import' = [import EXCEPT ![i].n = @ + 1]
    <3> DEFINE u == [t EXCEPT !.n = t.n + 1]
    <3>1. /\ u \in Task /\ u.at = t.at /\ u.doc = t.doc /\ u.keys = t.keys /\ u.tree = t.tree
          /\ u.report = t.report /\ u.since = t.since /\ u.again = t.again /\ u.told = t.told
      BY <1>1, <2>1 DEF Task
    <3>2. import' = [import EXCEPT ![i] = u]
      BY <2>2 DEF TasksOK
    <3> HIDE DEF u
    <3> QED BY <1>1, <1>2, <2>2, <3>1, <3>2
  <2>3. CASE /\ Created(i) /\ ~Scanned(i) /\ queued' = queued \cup {Entry(i)}
             /\ import' = [import EXCEPT ![i].told = @ \cup {t.n}, ![i].n = @ + 1]
    <3> DEFINE u == [t EXCEPT !.told = t.told \cup {t.n}, !.n = t.n + 1]
    <3>1. /\ u \in Task /\ u.at = t.at /\ u.doc = t.doc /\ u.keys = t.keys /\ u.tree = t.tree
          /\ u.report = t.report /\ u.since = t.since /\ u.again = t.again
          /\ u.told = t.told \cup {t.n}
      BY <1>1, <2>1 DEF Task
    <3>2. import' = [import EXCEPT ![i] = u]
      BY <2>3 DEF TasksOK
    <3> HIDE DEF u
    <3> QED BY <1>1, <1>2, <2>3, <3>1, <3>2
  <2> QED BY <1>4, <2>2, <2>3 DEF EnqueueScan
<1> QED BY <1>3, <1>4

LEMMA ImportTasked ==
  ASSUME ImportTyped, NEW i \in Importers, Import(i)
  PROVE  Alone(i) /\ TaskOK(i)'
<1> USE DEF ImportTyped
<1>1. edits \in Nat /\ edits' = edits /\ TaskOK(i)
  BY ImportUnedited, ImportAssumption DEF RowsTyped, Unedited, TasksOK
<1>2. {"created", "linked", "skipped", "failed"} \subseteq Outcomes
  BY DEF Outcomes
<1>3. ASSUME AtRow(i), Row(i) PROVE Alone(i) /\ TaskOK(i)'
  <2>1. CASE \E o \in Outcomes : Settle(i, o)
    BY <1>1, <1>3, <2>1, SettleTasked
  <2>2. CASE \E label \in {"put", "record", "complete"} : Proceed(i, label)
    BY <1>1, <1>3, <2>2, ProceedTasked
  <2>3. CASE Break(i)
    BY <1>1, <2>3, EndTasked
  <2>4. CASE /\ object[Entry(i)] = "live" /\ UNCHANGED object
             /\ import' = [import EXCEPT ![i].at = "file", ![i].had = filed[Entry(i)]]
    <3> DEFINE t == import[i]
               filing == [t EXCEPT !.at = "file", !.had = filed[Entry(i)]]
    <3>1. Entry(i) \in Entries /\ t \in Task /\ t.n \in DOMAIN t.doc.rows
      BY <1>1, <1>3, EntryTyped DEF TaskOK, TasksOK
    <3>2. filed[Entry(i)] \in SUBSET Ids
      BY <3>1 DEF RowsTyped, Live
    <3>3. /\ filing \in Task /\ filing.at = "file" /\ filing.doc = t.doc /\ filing.keys = t.keys
          /\ filing.tree = t.tree /\ filing.n = t.n /\ filing.report = t.report
          /\ filing.told = t.told /\ filing.since = t.since /\ filing.again = t.again
      BY <3>1, <3>2 DEF Task, Steps
    <3>4. import' = [import EXCEPT ![i] = filing]
      BY <2>4 DEF TasksOK
    <3> HIDE DEF filing
    <3>5. Alone(i) /\ import'[i] = filing
      BY <3>3, <3>4 DEF Alone, TasksOK
    <3>6. Continues(i) /\ object'[Entry(i)'] # "none"
      <4>1. Entry(i)' = Entry(i)
        BY <3>3, <3>5 DEF Entry
      <4> QED BY <2>4, <3>3, <3>5, <4>1 DEF Continues
    <3>7. /\ DOMAIN import'[i].report = DOMAIN t.report /\ import'[i].at = "file"
          /\ import'[i].n \in DOMAIN t.doc.rows
      BY <3>1, <3>3, <3>5
    <3> QED BY <1>1, <1>3, <3>5, <3>6, <3>7, RowTasked
  <2>5. CASE Match(i)
    BY <1>2, <2>1, <2>2, <2>3, <2>4, <2>5 DEF Match, library
  <2>6. CASE FileInto(i) \/ Put(i) \/ Record(i) \/ Promote(i) \/ Reject(i) \/ RefuseComplete(i)
    BY <1>2, <2>1, <2>2, <2>3, <2>6 DEF FileInto, Put, Record, Promote, Reject, RefuseComplete
  <2> QED BY <1>3, <2>5, <2>6 DEF Row
<1>4. CASE Row(i)
  <2>1. AtRow(i)
    BY <1>4 DEF Row, Match, FileInto, Put, Record, Promote, Reject, RefuseComplete, AtRow
  <2> QED BY <1>3, <1>4, <2>1
<1>5. CASE Begin(i)
  BY <1>1, <1>5, BeginTasked
<1>6. CASE Leave(i)
  BY <1>1, <1>6, EndTasked DEF Leave
<1>7. CASE EnsurePath(i)
  <2>1. Serving(i) /\ import[i].at = "tree"
    BY <1>7 DEF EnsurePath, Serving
  <2>2. PICK p \in import[i].keys, c \in Ids :
           /\ Alone(i) /\ import'[i].keys = import[i].keys \ {p}
           /\ DOMAIN import'[i].tree = DOMAIN import[i].tree \cup {p}
           /\ import'[i].at = AfterTree(import[i].doc, import'[i].keys)
           /\ import'[i].doc = import[i].doc /\ import'[i].n = import[i].n
           /\ import'[i].report = import[i].report /\ import'[i].told = import[i].told
           /\ import'[i].since = import[i].since
    BY <1>7, Resolving
  <2>3. /\ import'[i].at = "tree" <=> import'[i].keys # {}
        /\ import'[i].at \in {"tree", "match", "scan"}
        /\ import'[i].at = "match" => import[i].doc.rows # <<>>
    BY <2>2 DEF AfterTree
  <2>4. import[i].told = {} /\ import[i].doc \in Documents
    BY <1>1, <2>1 DEF TaskOK
  <2>5. AtRow(i)' => import'[i].n \in DOMAIN import'[i].doc.rows
    <3>1. import[i].doc.rows # <<>> => 1 \in DOMAIN import[i].doc.rows
      BY <2>4, NamedPaths, EmptySeq
    <3>2. import[i].n = 1
      BY <1>1, <2>1 DEF TaskOK
    <3> QED BY <2>2, <2>3, <3>1, <3>2 DEF AtRow
  <2> QED BY <1>1, <2>1, <2>2, <2>3, <2>4, <2>5 DEF TaskOK, Serving
<1>8. CASE EnqueueScan(i) \/ Answer(i)
  <2>1. import[i].at = "scan" /\ Serving(i)
    BY <1>8, Scanning DEF Serving
  <2> QED BY <1>1, <1>8, <2>1, Scanning DEF TaskOK, Serving, AtRow
<1> QED BY <1>4, <1>5, <1>6, <1>7, <1>8 DEF Import

(* Rows that are there may be linked, and only objects that are there are. *)
LinksOK == /\ filed \in [Entries -> SUBSET Live]
           /\ \A e \in Entries : object[e] = "none" => filed[e] = {}
CountsOK == /\ queued \subseteq Entries /\ landed \subseteq Documents
            /\ row \in [Ids -> {"new", "live", "gone"}] /\ path \in [Ids -> Paths \cup {<<>>}]
            /\ object \in [Entries -> {"none", "live", "taken"}]
            /\ session \in [Entries -> {"none", "open", "closed"}]
            /\ stored \subseteq Entries

LEMMA ImportRowsTyped ==
  ASSUME ImportTyped, NEW i \in Importers, Import(i)
  PROVE  RowsTyped'
<1> USE DEF ImportTyped, library
<1>1. CountsOK /\ LinksOK /\ TaskOK(i)
  BY DEF RowsTyped, CountsOK, LinksOK, TasksOK
<1>2. overlapped' \in BOOLEAN
  <2>1. CASE Begin(i)
    BY <2>1, Zenon DEF Begin
  <2>2. CASE UNCHANGED overlapped
    BY <2>2, Zenon DEF RowsTyped
  <2> QED BY <2>1, <2>2 DEF Import, Row, EnsurePath, Match, FileInto, Put, Record, Promote, Reject,
                           RefuseComplete, EnqueueScan, Answer, Leave
<1> HIDE DEF ImportTyped
<1>8. edits' \in 0 .. EditCap
  <2>1. edits' = edits
    BY ImportUnedited DEF Unedited
  <2> QED BY <2>1 DEF ImportTyped, RowsTyped
<1> SUFFICES CountsOK' /\ LinksOK'
  BY <1>2, <1>8, Zenon DEF RowsTyped, CountsOK, LinksOK
<1>3. CASE Begin(i) \/ Match(i) \/ RefuseComplete(i) \/ Leave(i)
  <2>1. UNCHANGED <<row, path, object, session, stored, filed, queued, edits, landed>>
    BY <1>3 DEF Begin, Match, RefuseComplete, Leave
  <2> QED BY <1>1, <2>1 DEF CountsOK, LinksOK, Live
<1>4. CASE EnsurePath(i)
  <2>1. /\ row' \in [Ids -> {"new", "live", "gone"}] /\ path' \in [Ids -> Paths \cup {<<>>}]
        /\ TreeGrows
    BY <1>4, Resolving
  <2>2. UNCHANGED <<object, session, stored, filed, queued, edits, landed>>
    BY <1>4 DEF EnsurePath
  <2>3. Live \subseteq Live'
    BY <2>1 DEF TreeGrows, Live
  <2>4. LinksOK'
    BY <1>1, <2>2, <2>3 DEF LinksOK
  <2> QED BY <1>1, <2>1, <2>2, <2>4 DEF CountsOK
<1>5. CASE EnqueueScan(i) \/ Answer(i)
  <2>1. /\ UNCHANGED <<row, path, object, session, stored, filed, edits>>
        /\ import[i].at = "scan" /\ import[i].doc \in Documents
    BY <1>1, <1>5 DEF EnqueueScan, Answer, TaskOK, Serving
  <2>2. queued' \subseteq Entries
    <3>1. CASE EnqueueScan(i) /\ Created(i) /\ ~Scanned(i)
      <4>1. import[i].n \in 1 .. Len(import[i].doc.rows)
        BY <2>1, <3>1, NamedPaths DEF ImportTyped, Scanned, TasksOK, Task
      <4>2. Entry(i) \in Entries
        BY <2>1, <4>1, NamedPaths, ElementOfSeq DEF Entry
      <4> QED BY <1>1, <3>1, <4>2 DEF EnqueueScan, CountsOK
    <3>2. CASE EnqueueScan(i) /\ ~Created(i)
      BY <1>1, <3>2 DEF EnqueueScan, CountsOK
    <3>3. CASE Answer(i)
      BY <1>1, <3>3 DEF Answer, CountsOK
    <3> QED BY <1>5, <3>1, <3>2, <3>3 DEF EnqueueScan
  <2>3. landed' \subseteq Documents
    BY <1>1, <1>5, <2>1 DEF EnqueueScan, Answer, CountsOK
  <2> QED BY <1>1, <2>1, <2>2, <2>3 DEF CountsOK, LinksOK, Live
<1>6. CASE FileInto(i) \/ Put(i) \/ Record(i) \/ Promote(i) \/ Reject(i)
  <2>1. AtRow(i) /\ UNCHANGED <<row, path, queued, edits, landed>>
    BY <1>6 DEF FileInto, Put, Record, Promote, Reject, AtRow
  <2>2. Entry(i) \in Entries /\ Live' = Live
    BY <2>1, EntryTyped, TreeStands DEF ImportTyped
  <2> USE DEF CountsOK, LinksOK
  <2>3. CASE FileInto(i)
    <3>1. UNCHANGED <<object, session, stored>> /\ import[i].at = "file" /\ object[Entry(i)] # "none"
      BY <1>1, <2>3 DEF FileInto, TaskOK
    <3>2. LinksOK'
      BY <1>1, <2>2, <2>3, <3>1 DEF FileInto
    <3> QED BY <1>1, <2>1, <3>1, <3>2
  <2>4. CASE Put(i)
    <3>1. UNCHANGED <<object, session, filed>> /\ stored' \subseteq Entries
      BY <1>1, <2>2, <2>4 DEF Put
    <3> QED BY <1>1, <2>1, <2>2, <3>1
  <2>5. CASE Record(i)
    <3>1. UNCHANGED <<object, stored, filed>> /\ session' \in [Entries -> {"none", "open", "closed"}]
      BY <1>1, <2>2, <2>5 DEF Record
    <3> QED BY <1>1, <2>1, <2>2, <3>1
  <2>6. CASE Promote(i)
    <3>1. /\ UNCHANGED stored /\ session' \in [Entries -> {"none", "open", "closed"}]
          /\ object' = [object EXCEPT ![Entry(i)] = "live"]
          /\ filed' = [filed EXCEPT ![Entry(i)] = CategoriesFor(i)] /\ CategoriesFor(i) \subseteq Live
      BY <1>1, <2>2, <2>6 DEF Promote
    <3>2. LinksOK'
      BY <1>1, <2>2, <3>1
    <3> QED BY <1>1, <2>1, <3>1, <3>2
  <2>7. CASE Reject(i)
    <3>1. /\ UNCHANGED filed /\ session' \in [Entries -> {"none", "open", "closed"}]
          /\ object' = [object EXCEPT ![Entry(i)] = "taken"] /\ stored' \subseteq Entries
      BY <1>1, <2>2, <2>7 DEF Reject
    <3>2. LinksOK'
      BY <1>1, <2>2, <3>1
    <3> QED BY <1>1, <2>1, <3>1, <3>2
  <2> QED BY <1>6, <2>3, <2>4, <2>5, <2>6, <2>7
<1> QED BY <1>3, <1>4, <1>5, <1>6 DEF Import, Row

(* An edit of the owner, and the purge. *)
LEMMA OwnerRowsTyped ==
  ASSUME ImportTyped, Owner
  PROVE  /\ RowsTyped' /\ UNCHANGED import /\ edits' = edits + 1 /\ landed' = {}
         /\ UNCHANGED <<session, stored, queued, overlapped>>
         /\ \A e \in Entries : \/ object'[e] = object[e]
                               \/ object[e] = "live" /\ object'[e] = "taken"
<1> USE DEF ImportTyped, Edit
<1>1. CountsOK /\ LinksOK /\ EditCap \in Nat
  BY ImportAssumption DEF RowsTyped, CountsOK, LinksOK
<1>2. UNCHANGED <<session, stored, queued, overlapped, import>> /\ landed' = {}
      /\ edits' = edits + 1 /\ edits < EditCap
  BY DEF Owner, DeleteCategory, MoveCategory, Refile, DeleteObject
<1>3. edits' \in 0 .. EditCap
  BY <1>1, <1>2 DEF RowsTyped
<1>4. overlapped' \in BOOLEAN
  BY <1>2, Zenon DEF RowsTyped
<1> DEFINE Kept ==
      /\ row' \in [Ids -> {"new", "live", "gone"}] /\ path' \in [Ids -> Paths \cup {<<>>}]
      /\ object' \in [Entries -> {"none", "live", "taken"}] /\ LinksOK'
      /\ \A e \in Entries : \/ object'[e] = object[e]
                            \/ object[e] = "live" /\ object'[e] = "taken"
<1>5. Kept
  <2> USE DEF CountsOK, LinksOK
  <2>1. ASSUME NEW c \in Ids, DeleteCategory(c) PROVE Kept
    BY <1>1, <2>1 DEF DeleteCategory, Live
  <2>2. ASSUME NEW c \in Ids, MoveCategory(c) PROVE Kept
    BY <1>1, <2>2 DEF MoveCategory, Live
  <2>3. ASSUME NEW e \in Entries, Refile(e) PROVE Kept
    BY <1>1, <2>3 DEF Refile, Live
  <2>4. ASSUME NEW e \in Entries, DeleteObject(e) PROVE Kept
    BY <1>1, <2>4 DEF DeleteObject, Live
  <2> QED BY <2>1, <2>2, <2>3, <2>4 DEF Owner
<1>6. session' \in [Entries -> {"none", "open", "closed"}] /\ stored' \subseteq Entries
      /\ queued' \subseteq Entries /\ landed' \subseteq Documents
  BY <1>1, <1>2 DEF CountsOK
<1> QED BY <1>2, <1>3, <1>4, <1>5, <1>6, Zenon DEF RowsTyped, LinksOK

LEMMA PurgeRowsTyped ==
  ASSUME ImportTyped, NEW e \in Entries, PurgeStale(e)
  PROVE  RowsTyped'
<1>1. session' \in [Entries -> {"none", "open", "closed"}] /\ stored' \subseteq Entries /\ Live' = Live
  BY TreeStands DEF ImportTyped, RowsTyped, PurgeStale
<1>2. UNCHANGED <<row, path, object, filed, queued, edits, landed, overlapped>>
  BY DEF PurgeStale
<1> QED BY <1>1, <1>2, Zenon DEF ImportTyped, RowsTyped

LEMMA NextImportTyped == ImportTyped /\ [ImportNext]_importVars => ImportTyped'
<1> SUFFICES ASSUME ImportTyped, [ImportNext]_importVars PROVE ImportTyped'
  OBVIOUS
<1>1. edits \in Nat /\ TasksOK
  BY ImportAssumption DEF ImportTyped, RowsTyped
<1>2. ASSUME NEW i \in Importers, Import(i) PROVE ImportTyped'
  <2>1. Unedited /\ Alone(i) /\ TaskOK(i)' /\ RowsTyped'
    BY <1>2, ImportUnedited, ImportTasked, ImportRowsTyped
  <2>2. ASSUME NEW j \in Importers \ {i} PROVE TaskOK(j)'
    BY <1>1, <2>1, OthersTasked DEF Unedited, Alone
  <2> QED BY <2>1, <2>2 DEF ImportTyped, TasksOK, Alone
<1>3. CASE Owner
  <2>1. ASSUME NEW j \in Importers PROVE TaskOK(j)'
    BY <1>1, <1>3, OwnerRowsTyped, OthersTasked
  <2> QED BY <1>1, <1>3, <2>1, OwnerRowsTyped DEF ImportTyped, TasksOK
<1>4. ASSUME NEW e \in Entries, PurgeStale(e) PROVE ImportTyped'
  <2>1. UNCHANGED <<object, edits, import>> /\ RowsTyped'
    BY <1>4, PurgeRowsTyped DEF PurgeStale
  <2>2. ASSUME NEW j \in Importers PROVE TaskOK(j)'
    BY <1>1, <2>1, OthersTasked
  <2> QED BY <1>1, <2>1, <2>2 DEF ImportTyped, TasksOK
<1>5. CASE UNCHANGED importVars
  <2>1. UNCHANGED <<row, path, object, session, stored, filed, queued, edits, landed, overlapped, import>>
    BY <1>5 DEF importVars
  <2>2. RowsTyped'
    BY <2>1, TreeStands, Zenon DEF ImportTyped, RowsTyped
  <2>3. ASSUME NEW j \in Importers PROVE TaskOK(j)'
    BY <1>1, <2>1, OthersTasked
  <2> QED BY <1>1, <2>1, <2>2, <2>3 DEF ImportTyped, TasksOK
<1> QED BY <1>2, <1>3, <1>4, <1>5 DEF ImportNext

(* Types, and the foreign keys: whatever documents are imported and whatever
   the owner edits, links join rows that are there. *)
THEOREM ImportTypes == ImportSpec => []ImportTypeOK
<1>1. ImportTyped => ImportTypeOK
  <2> SUFFICES ASSUME ImportTyped PROVE ImportTypeOK
    OBVIOUS
  <2>1. ASSUME NEW i \in Importers
        PROVE  /\ import[i].at \in Steps /\ import[i].doc \in Documents \cup {Null}
               /\ import[i].report \in Seq(Outcomes \cup {Null})
    BY DEF ImportTyped, TasksOK, Task
  <2> QED BY <2>1, Zenon DEF ImportTyped, RowsTyped, ImportTypeOK, Steps
<1> QED BY <1>1, InitImportTyped, NextImportTyped, PTL DEF ImportSpec

(* Filing is additive (_file_into, transfer_import.py:379): no step of any
   import unfiles an object, however imports and edits overlap. *)
THEOREM FilingStays == ImportSpec => FilingOnlyGrows
<1> DEFINE Grows == \A i \in Importers :
                      import'[i] # import[i] => \A e \in Entries : filed[e] \subseteq filed'[e]
<1>1. ImportTyped /\ [ImportNext]_importVars => [Grows]_importVars
  <2> SUFFICES ASSUME ImportTyped, ImportNext PROVE Grows
    BY Zenon
  <2>1. ASSUME NEW i \in Importers, Import(i) PROVE Grows
    BY <2>1, ImportUnedited DEF Unedited
  <2>2. CASE Owner
    BY <2>2, OwnerRowsTyped
  <2>3. ASSUME NEW e \in Entries, PurgeStale(e) PROVE Grows
    BY <2>3 DEF PurgeStale
  <2> QED BY <2>1, <2>2, <2>3 DEF ImportNext
<1> QED BY <1>1, InitImportTyped, NextImportTyped, PTL DEF ImportSpec, FilingOnlyGrows

-----------------------------------------------------------------------------
(* Imports: what stands as long as the owner edits nothing                 *)

Current(i) == Serving(i) /\ import[i].since = edits
FiledIn(e, paths) == \A p \in paths : At(p) \cap filed[e] # {}
RowLanded(doc, n) == /\ object[doc.rows[n]] = "live"
                     /\ FiledIn(doc.rows[n], doc.paths[doc.rows[n]])

(* The rows a task resolved are at their paths. *)
ResolvedOK(i) == Current(i) => \A p \in DOMAIN import[i].tree : import[i].tree[p] \in At(p)

(* What it has read of an object's filing still holds. *)
FilingOK(i) == Current(i) /\ import[i].at = "file" =>
                 object[Entry(i)] = "live" /\ import[i].had \subseteq filed[Entry(i)]

(* A row reported created or linked is there and filed. *)
SettledOK(i) == Current(i) =>
  \A n \in DOMAIN import[i].report :
    import[i].report[n] \in {"created", "linked"} => RowLanded(import[i].doc, n)

(* A document that had landed has nothing to insert, to store or to file. *)
AgainOK(i) == Current(i) /\ import[i].again =>
  /\ import[i].doc \in landed
  /\ import[i].at \notin {"put", "record", "complete"}
  /\ import[i].at = "file" => CategoriesFor(i) \subseteq import[i].had

StandsOK(i) == ResolvedOK(i) /\ FilingOK(i) /\ SettledOK(i) /\ AgainOK(i)

(* One row to a path; and a landed document is all there. *)
OneOfEach == \A b, d \in Live : path[b] = path[d] /\ path[b] \in Paths => b = d
LandedOK == \A doc \in landed : /\ \A p \in Named(doc) : At(p) # {}
                                /\ \A n \in DOMAIN doc.rows : RowLanded(doc, n)

StandInv == OneOfEach /\ LandedOK /\ \A i \in Importers : StandsOK(i)

-----------------------------------------------------------------------------
LEMMA RowStays ==
  ASSUME Unedited, NEW doc \in Documents, NEW n \in DOMAIN doc.rows, RowLanded(doc, n)
  PROVE  RowLanded(doc, n)'
<1>1. doc.rows[n] \in Entries /\ doc.paths[doc.rows[n]] \subseteq Paths
  BY NamedPaths, ElementOfSeq
<1> QED BY <1>1 DEF Unedited, TreeGrows, RowLanded, FiledIn

LEMMA LandedStays ==
  ASSUME ImportTyped, Unedited, LandedOK, landed' = landed
  PROVE  LandedOK'
<1> SUFFICES ASSUME NEW doc \in landed
             PROVE  /\ \A p \in Named(doc) : At(p)' # {}
                    /\ \A n \in DOMAIN doc.rows : RowLanded(doc, n)'
  BY DEF LandedOK
<1>1. doc \in Documents
  BY DEF ImportTyped, RowsTyped
<1>2. ASSUME NEW p \in Named(doc) PROVE At(p)' # {}
  <2>1. At(p) # {} /\ p \in Paths
    BY <1>1, NamedPaths DEF LandedOK
  <2> QED BY <2>1 DEF Unedited, TreeGrows
<1>3. ASSUME NEW n \in DOMAIN doc.rows PROVE RowLanded(doc, n)'
  BY <1>1, RowStays DEF LandedOK
<1> QED BY <1>2, <1>3

LEMMA TreeTyped ==
  ASSUME ImportTyped, NEW i \in Importers
  PROVE  \A p \in DOMAIN import[i].tree : p \in Paths /\ import[i].tree[p] \in Ids
<1>1. import[i] \in Task
  BY DEF ImportTyped, TasksOK
<1>2. PICK S \in SUBSET Paths : import[i].tree \in [S -> Ids]
  BY <1>1 DEF Task
<1> QED BY <1>2

(* The tree a task resolved stays resolved. *)
LEMMA ResolvedStays ==
  ASSUME ImportTyped, Unedited, NEW i \in Importers, ResolvedOK(i), Serving(i),
         import'[i].tree = import[i].tree, import'[i].since = import[i].since
  PROVE  ResolvedOK(i)'
<1>2. Current(i)' => Current(i)
  BY DEF Current, Unedited
<1>3. ASSUME Current(i), NEW p \in DOMAIN import[i].tree PROVE import[i].tree[p] \in At(p)'
  <2>1. p \in Paths /\ import[i].tree[p] \in At(p)
    BY <1>3, TreeTyped DEF ResolvedOK
  <2> QED BY <2>1 DEF Unedited, TreeGrows
<1> QED BY <1>2, <1>3 DEF ResolvedOK

LEMMA SettledStays ==
  ASSUME ImportTyped, Unedited, NEW i \in Importers, SettledOK(i), Serving(i),
         NEW doc \in Documents, import[i].doc = doc, import'[i].doc = doc, import'[i].since = import[i].since,
         DOMAIN import'[i].report = DOMAIN import[i].report,
         \A n \in DOMAIN import[i].report :
           \/ import'[i].report[n] = import[i].report[n]
           \/ Current(i) /\ import'[i].report[n] \in {"created", "linked"} => RowLanded(doc, n)'
  PROVE  SettledOK(i)'
<1>1. DOMAIN import[i].report = DOMAIN doc.rows
  BY DEF ImportTyped, TasksOK, TaskOK
<1>2. Current(i)' => Current(i)
  BY DEF Current, Unedited
<1>3. ASSUME Current(i), NEW n \in DOMAIN import[i].report,
             import'[i].report[n] \in {"created", "linked"}
      PROVE  RowLanded(doc, n)'
  <2>1. CASE import'[i].report[n] = import[i].report[n]
    BY <1>1, <1>3, <2>1, RowStays DEF SettledOK
  <2>2. CASE import'[i].report[n] # import[i].report[n]
    BY <1>3, <2>2
  <2> QED BY <2>1, <2>2
<1> QED BY <1>2, <1>3 DEF SettledOK

(* The other tasks. *)
LEMMA OthersStand ==
  ASSUME ImportTyped, Unedited, NEW j \in Importers, StandsOK(j), import'[j] = import[j],
         landed \subseteq landed'
  PROVE  StandsOK(j)'
<1>1. Current(j)' => Current(j)
  BY DEF Current, Serving, Unedited
<1>2. CASE ~Serving(j)
  BY <1>1, <1>2 DEF StandsOK, ResolvedOK, FilingOK, SettledOK, AgainOK, Current
<1>3. CASE Serving(j)
  <2>1. ResolvedOK(j)' /\ SettledOK(j)'
    <3>1. import[j].doc \in Documents
      BY <1>3 DEF ImportTyped, TasksOK, TaskOK
    <3> QED BY <1>3, <3>1, ResolvedStays, SettledStays DEF StandsOK
  <2>2. Entry(j)' = Entry(j) /\ CategoriesFor(j)' = CategoriesFor(j)
    BY DEF Entry, CategoriesFor
  <2>3. import[j].at = "file" => Entry(j) \in Entries
    BY EntryTyped DEF ImportTyped, AtRow
  <2>4. FilingOK(j)'
    BY <1>1, <2>2, <2>3 DEF StandsOK, FilingOK, Unedited
  <2>5. AgainOK(j)'
    BY <1>1, <2>2 DEF StandsOK, AgainOK
  <2> QED BY <2>1, <2>4, <2>5 DEF StandsOK
<1> QED BY <1>2, <1>3

(* The task whose row is settled: if it is reported created or linked, it is. *)
LEMMA SettlingStands ==
  ASSUME ImportTyped, Unedited, NEW i \in Importers, StandsOK(i), AtRow(i),
         NEW o \in Outcomes, Settle(i, o), landed' = landed,
         NEW doc \in Documents, import[i].doc = doc, NEW n \in Nat, import[i].n = n,
         Current(i) /\ o \in {"created", "linked"} => RowLanded(doc, n)'
  PROVE  StandsOK(i)'
<1>1. /\ Continues(i) /\ import'[i].at \in {"match", "scan"} /\ Serving(i)
      /\ DOMAIN import'[i].report = DOMAIN import[i].report
      /\ import'[i].report[n] = o
      /\ \A m \in DOMAIN import[i].report \ {n} : import'[i].report[m] = import[i].report[m]
  BY Settling DEF ImportTyped, AtRow, Serving
<1>2. UNCHANGED import[i].doc /\ UNCHANGED import[i].tree /\ UNCHANGED import[i].since
      /\ UNCHANGED import[i].again
  BY <1>1 DEF Continues
<1>3. ResolvedOK(i)'
  BY <1>1, <1>2, ResolvedStays DEF StandsOK
<1>4. SettledOK(i)'
  BY <1>1, <1>2, SettledStays DEF StandsOK
<1>5. FilingOK(i)'
  BY <1>1 DEF FilingOK
<1>6. AgainOK(i)'
  BY <1>1, <1>2 DEF StandsOK, AgainOK, Current, Unedited
<1> QED BY <1>3, <1>4, <1>5, <1>6 DEF StandsOK

(* The task that goes on to another step, its report unchanged. *)
LEMMA GoingOnStands ==
  ASSUME ImportTyped, Unedited, NEW i \in Importers, StandsOK(i), Serving(i), landed' = landed,
         import'[i].doc = import[i].doc, import'[i].tree = import[i].tree,
         import'[i].since = import[i].since, import'[i].again = import[i].again,
         import'[i].report = import[i].report,
         Current(i) /\ import[i].again => import'[i].at \notin {"put", "record", "complete"},
         FilingOK(i)',
         Current(i) /\ import[i].again /\ import'[i].at = "file"
           => CategoriesFor(i)' \subseteq import'[i].had
  PROVE  StandsOK(i)'
<1>1. import[i].doc \in Documents
  BY DEF ImportTyped, TasksOK, TaskOK
<1>2. ResolvedOK(i)'
  BY ResolvedStays DEF StandsOK
<1>3. SettledOK(i)'
  BY <1>1, SettledStays DEF StandsOK
<1>4. AgainOK(i)'
  BY DEF StandsOK, AgainOK, Current, Unedited
<1> QED BY <1>2, <1>3, <1>4 DEF StandsOK

LEMMA NotServingStands ==
  ASSUME NEW i \in Importers, ~Serving(i)'
  PROVE  StandsOK(i)'
BY DEF StandsOK, ResolvedOK, FilingOK, SettledOK, AgainOK, Current

(* What the row it is at has of its categories: rows of the tree that stand. *)
LEMMA CategoriesStand ==
  ASSUME ImportTyped, NEW i \in Importers, ResolvedOK(i), AtRow(i), Current(i)
  PROVE  /\ CategoriesFor(i) \subseteq Live
         /\ \A p \in import[i].doc.paths[Entry(i)] :
              p \in Paths /\ import[i].tree[p] \in At(p) \cap CategoriesFor(i)
<1>1. Entry(i) \in Entries /\ import[i].doc.paths[Entry(i)] \subseteq DOMAIN import[i].tree
  BY EntryTyped DEF ImportTyped
<1> QED BY <1>1, TreeTyped DEF ResolvedOK, CategoriesFor, At

(* One step of one task, but for the tree and the landed documents. *)
LEMMA RowStands ==
  ASSUME ImportTyped, StandInv, NEW i \in Importers, Row(i)
  PROVE  StandsOK(i)'
<1>1. AtRow(i) /\ landed' = landed /\ UNCHANGED <<row, path>>
  BY DEF Row, Match, FileInto, Put, Record, Promote, Reject, RefuseComplete, AtRow, library
<1>2. Unedited /\ StandsOK(i) /\ Serving(i)
  BY <1>1, ImportUnedited DEF Import, AtRow, Serving, StandInv
<1> DEFINE t == import[i]
<1>13. t.n \in Nat /\ t.doc \in Documents /\ Entry(i) \in Entries
  BY <1>1, EntryTyped DEF ImportTyped, TasksOK, Task
<1>14. PICK doc \in Documents, n \in Nat, e \in Entries : doc = t.doc /\ n = t.n /\ e = Entry(i)
  BY <1>13
<1>3. e = doc.rows[n] /\ n \in DOMAIN doc.rows
  BY <1>1, <1>14 DEF ImportTyped, TasksOK, TaskOK, Entry
<1>4. /\ {"created", "linked", "skipped", "failed"} \subseteq Outcomes
      /\ {"put", "record", "complete"} \subseteq Steps
  BY DEF Outcomes, Steps
<1>5. ASSUME NEW o \in {"skipped", "failed"}, Settle(i, o) PROVE StandsOK(i)'
  BY <1>1, <1>2, <1>3, <1>4, <1>14, <1>5, SettlingStands
<1>6. ASSUME Break(i) PROVE StandsOK(i)'
  BY <1>6, Breaking, NotServingStands DEF Serving, ImportTyped
<1>7. ASSUME Current(i), t.again
      PROVE  /\ t.doc \in landed /\ t.at \notin {"put", "record", "complete"}
             /\ object[e] = "live" /\ CategoriesFor(i) \subseteq filed[e]
  <2>1. t.doc \in landed /\ t.at \notin {"put", "record", "complete"}
    BY <1>2, <1>7 DEF StandsOK, AgainOK
  <2>2. RowLanded(doc, n)
    BY <1>3, <1>14, <2>1 DEF StandInv, LandedOK
  <2>3. ASSUME NEW c \in CategoriesFor(i) PROVE c \in filed[e]
    <3>1. PICK p \in doc.paths[e] : c = t.tree[p]
      BY <1>14 DEF CategoriesFor
    <3>2. p \in Paths /\ c \in At(p)
      BY <1>1, <1>2, <1>7, <1>14, <3>1, CategoriesStand DEF StandsOK
    <3>3. PICK b \in At(p) : b \in filed[e]
      BY <1>3, <2>2, <3>1 DEF RowLanded, FiledIn
    <3>4. b = c
      BY <3>2, <3>3 DEF StandInv, OneOfEach, At
    <3> QED BY <3>3, <3>4
  <2> QED BY <1>3, <2>1, <2>2, <2>3 DEF RowLanded
<1>8. ASSUME NEW label \in {"put", "record", "complete"}, Proceed(i, label),
             ~(Current(i) /\ t.again)
      PROVE  StandsOK(i)'
  <2>1. Continues(i) /\ import'[i].at = label /\ import'[i].report = t.report
    BY <1>4, <1>8, Proceeding DEF ImportTyped
  <2>2. FilingOK(i)'
    BY <2>1 DEF FilingOK
  <2> QED BY <1>1, <1>2, <1>8, <2>1, <2>2, GoingOnStands DEF Continues
<1>9. CASE Match(i)
  <2>1. CASE object[e] = "live" /\ import' = [import EXCEPT ![i].at = "file", ![i].had = filed[e]]
    <3>1. /\ import'[i].at = "file" /\ import'[i].had = filed[e] /\ import'[i].n = t.n
          /\ import'[i].doc = t.doc /\ import'[i].tree = t.tree /\ import'[i].since = t.since
          /\ import'[i].again = t.again /\ import'[i].report = t.report
      BY <2>1 DEF ImportTyped, TasksOK, Task
    <3>2. Entry(i)' = e /\ CategoriesFor(i)' = CategoriesFor(i) /\ UNCHANGED <<object, filed>>
      BY <1>9, <1>14, <3>1 DEF Entry, CategoriesFor, Match, library
    <3>3. FilingOK(i)'
      BY <2>1, <3>1, <3>2 DEF FilingOK
    <3> QED BY <1>1, <1>2, <1>7, <3>1, <3>2, <3>3, GoingOnStands
  <2>2. CASE object[e] # "live"
    BY <1>5, <1>6, <1>7, <1>8, <1>9, <1>14, <2>2 DEF Match
  <2> QED BY <1>5, <1>6, <1>9, <1>14, <2>1, <2>2 DEF Match
<1>10. CASE FileInto(i)
  <2>1. CASE Break(i)
    BY <1>6, <2>1
  <2>2. CASE Settle(i, "linked") /\ filed' = [filed EXCEPT ![e] = @ \cup (CategoriesFor(i) \ t.had)]
    <3>1. ASSUME Current(i) PROVE RowLanded(doc, n)'
      <4>1. object'[e] = "live" /\ t.had \subseteq filed[e]
        BY <1>2, <1>10, <1>14, <3>1 DEF StandsOK, FilingOK, FileInto
      <4>2. filed'[e] = filed[e] \cup (CategoriesFor(i) \ t.had)
        BY <2>2, <1>14 DEF ImportTyped, RowsTyped
      <4>3. \A p \in doc.paths[e] : p \in Paths /\ t.tree[p] \in At(p) \cap CategoriesFor(i)
        BY <1>1, <1>2, <1>14, <3>1, CategoriesStand DEF StandsOK
      <4>4. ASSUME NEW p \in doc.paths[e] PROVE At(p)' \cap filed'[e] # {}
        BY <1>2, <4>1, <4>2, <4>3 DEF Unedited, TreeGrows
      <4> QED BY <1>3, <4>1, <4>4 DEF RowLanded, FiledIn
    <3> QED BY <1>1, <1>2, <1>3, <1>4, <1>14, <2>2, <3>1, SettlingStands
  <2> QED BY <1>10, <1>14, <2>1, <2>2 DEF FileInto
<1>11. CASE Promote(i)
  <2>1. ASSUME Current(i) PROVE RowLanded(doc, n)'
    <3>1. object'[e] = "live" /\ filed'[e] = CategoriesFor(i)
      BY <1>11, <1>14 DEF Promote, ImportTyped, RowsTyped
    <3>2. \A p \in doc.paths[e] : p \in Paths /\ t.tree[p] \in At(p) \cap CategoriesFor(i)
      BY <1>1, <1>2, <1>14, <2>1, CategoriesStand DEF StandsOK
    <3>3. ASSUME NEW p \in doc.paths[e] PROVE At(p)' \cap filed'[e] # {}
      BY <1>2, <3>1, <3>2 DEF Unedited, TreeGrows
    <3> QED BY <1>3, <3>1, <3>3 DEF RowLanded, FiledIn
  <2> QED BY <1>1, <1>2, <1>3, <1>4, <1>14, <1>11, <2>1, SettlingStands DEF Promote
<1>12. CASE Put(i) \/ Record(i) \/ Reject(i) \/ RefuseComplete(i)
  BY <1>5, <1>6, <1>7, <1>8, <1>12 DEF Put, Record, Reject, RefuseComplete
<1> QED BY <1>9, <1>10, <1>11, <1>12 DEF Row

(* The tree, then the scans: what is left of one task. *)
LEMMA TaskStands ==
  ASSUME ImportTyped, StandInv, NEW i \in Importers, Import(i)
  PROVE  StandsOK(i)'
<1>1. Unedited /\ StandsOK(i) /\ TaskOK(i)
  BY ImportUnedited DEF StandInv, ImportTyped, TasksOK
<1>2. CASE Row(i)
  BY <1>2, RowStands
<1>3. CASE Begin(i)
  <2>1. /\ DOMAIN import'[i].tree = {} /\ import'[i].at \in {"tree", "match", "scan"}
        /\ import'[i].again <=> import'[i].doc \in landed
        /\ \A n \in DOMAIN import'[i].report : import'[i].report[n] = Null
        /\ landed' = landed
    <3>1. edits \in Nat /\ TasksOK
      BY ImportAssumption DEF ImportTyped, RowsTyped
    <3> QED BY <1>3, <3>1, BeginTasked DEF Begin
  <2>2. Null \notin {"created", "linked"}
    BY ImportAssumption DEF Outcomes
  <2> QED BY <2>1, <2>2 DEF StandsOK, ResolvedOK, FilingOK, SettledOK, AgainOK
<1>4. CASE EnsurePath(i)
  <2>1. Serving(i) /\ landed' = landed /\ import[i].doc \in Documents
    BY <1>1, <1>4 DEF EnsurePath, Serving, TaskOK
  <2>2. PICK p \in import[i].keys, c \in Ids :
          /\ c \in At(p)' /\ TreeGrows
          /\ DOMAIN import'[i].tree = DOMAIN import[i].tree \cup {p}
          /\ \A q \in DOMAIN import[i].tree \cup {p} :
               import'[i].tree[q] = IF q = p THEN c ELSE import[i].tree[q]
          /\ import'[i].at = AfterTree(import[i].doc, import'[i].keys)
          /\ import'[i].doc = import[i].doc /\ import'[i].report = import[i].report
          /\ import'[i].since = import[i].since /\ import'[i].again = import[i].again
    BY <1>4, Resolving
  <2>3. import'[i].at \in {"tree", "match", "scan"}
    BY <2>2 DEF AfterTree
  <2>4. Current(i)' => Current(i)
    BY <1>1, <2>1, <2>2 DEF Current, Unedited
  <2>5. ResolvedOK(i)'
    <3> SUFFICES ASSUME Current(i), NEW q \in DOMAIN import'[i].tree PROVE import'[i].tree[q] \in At(q)'
      BY <2>4 DEF ResolvedOK
    <3>1. CASE q = p
      BY <2>2, <3>1
    <3>2. CASE q # p
      <4>1. q \in Paths /\ import[i].tree[q] \in At(q)
        BY <1>1, <2>2, <3>2, TreeTyped DEF StandsOK, ResolvedOK
      <4> QED BY <2>2, <3>2, <4>1 DEF TreeGrows
    <3> QED BY <3>1, <3>2
  <2>6. SettledOK(i)'
    BY <1>1, <2>1, <2>2, SettledStays DEF StandsOK
  <2>7. FilingOK(i)' /\ AgainOK(i)'
    BY <1>1, <2>1, <2>2, <2>3, <2>4 DEF StandsOK, FilingOK, AgainOK
  <2> QED BY <2>5, <2>6, <2>7 DEF StandsOK
<1>5. CASE EnqueueScan(i) \/ Answer(i)
  <2> DEFINE t == import[i]
  <2>1. Serving(i) /\ t.doc \in Documents /\ t \in Task
    BY <1>1, <1>5 DEF EnqueueScan, Answer, Serving, TaskOK, ImportTyped, TasksOK
  <2>2. /\ import'[i].doc = t.doc /\ import'[i].tree = t.tree /\ import'[i].since = t.since
        /\ import'[i].again = t.again /\ import'[i].report = t.report
        /\ import'[i].at \in {"scan", "done"} /\ landed \subseteq landed'
    BY <1>5, Scanning DEF EnqueueScan, Answer, ImportTyped
  <2>3. ResolvedOK(i)'
    BY <1>1, <2>1, <2>2, ResolvedStays DEF StandsOK
  <2>4. SettledOK(i)'
    BY <1>1, <2>1, <2>2, SettledStays DEF StandsOK
  <2>5. FilingOK(i)' /\ AgainOK(i)'
    BY <1>1, <2>1, <2>2 DEF StandsOK, FilingOK, AgainOK, Current, Unedited
  <2> QED BY <2>3, <2>4, <2>5 DEF StandsOK
<1>6. CASE Leave(i)
  <2>1. ~Serving(i)'
    <3>1. edits \in Nat /\ TasksOK
      BY ImportAssumption DEF ImportTyped, RowsTyped
    <3> QED BY <1>6, <3>1, EndTasked DEF Leave
  <2> QED BY <2>1, NotServingStands
<1> QED BY <1>2, <1>3, <1>4, <1>5, <1>6 DEF Import

LEMMA OneOfEachStays ==
  ASSUME ImportTyped, OneOfEach, [ImportNext]_importVars
  PROVE  OneOfEach'
<1>1. CASE UNCHANGED <<row, path>>
  BY <1>1, TreeStands DEF OneOfEach
<1>2. ASSUME NEW i \in Importers, EnsurePath(i) PROVE OneOfEach'
  <2>1. PICK p \in Paths :
          /\ TreeGrows
          /\ \A b \in Live' \ Live : path'[b] \in Missing(p)
          /\ \A b, d \in Live' \ Live : path'[b] = path'[d] => b = d
    BY <1>2, Resolving
  <2> SUFFICES ASSUME NEW b \in Live', NEW d \in Live', path'[b] = path'[d], path'[b] \in Paths
               PROVE  b = d
    BY DEF OneOfEach
  <2>2. \A c \in Live : \A q \in Missing(p) : path'[c] # q
    BY <2>1 DEF TreeGrows, Missing, At
  <2>3. CASE b \in Live /\ d \in Live
    BY <2>1, <2>3 DEF TreeGrows, OneOfEach
  <2>4. CASE b \notin Live \/ d \notin Live
    BY <2>1, <2>2, <2>4
  <2> QED BY <2>3, <2>4
<1>3. ASSUME NEW c \in Ids, DeleteCategory(c) \/ MoveCategory(c) PROVE OneOfEach'
  <2>1. Live' \subseteq Live
    BY <1>3 DEF DeleteCategory, MoveCategory, Live, ImportTyped, RowsTyped
  <2>2. \A b \in Live' : path'[b] \in {path[b], <<>>}
    BY <1>3 DEF DeleteCategory, MoveCategory, Live, ImportTyped, RowsTyped
  <2>3. <<>> \notin Paths
    BY ImportAssumption
  <2> QED BY <2>1, <2>2, <2>3 DEF OneOfEach
<1>4. CASE UNCHANGED importVars
  BY <1>1, <1>4 DEF importVars
<1> QED BY <1>1, <1>2, <1>3, <1>4 DEF ImportNext, Import, Row, Owner, Begin, Match, FileInto, Put, Record,
           Promote, Reject, RefuseComplete, EnqueueScan, Answer, Leave, Refile, DeleteObject, PurgeStale,
           library

(* A document lands with its report: every row of it stands. *)
LEMMA LandingStands ==
  ASSUME ImportTyped, StandInv, NEW i \in Importers, Import(i)
  PROVE  LandedOK' /\ landed \subseteq landed'
<1>1. Unedited
  BY ImportUnedited
<1>2. CASE landed' = landed
  BY <1>1, <1>2, LandedStays DEF StandInv
<1>3. CASE Answer(i) /\ landed' # landed
  <2>1. /\ Current(i) /\ Whole(i) /\ import[i].at = "scan"
        /\ landed' = landed \cup {import[i].doc}
    BY <1>3 DEF Answer, Current, Serving
  <2>2. UNCHANGED <<row, path, object, filed>>
    BY <1>3 DEF Answer, library
  <2>3. PICK doc \in Documents : doc = import[i].doc /\ Named(doc) \subseteq DOMAIN import[i].tree
                                 /\ DOMAIN import[i].report = DOMAIN doc.rows
    BY <2>1 DEF Current, ImportTyped, TasksOK, TaskOK
  <2>4. ResolvedOK(i) /\ SettledOK(i)
    BY DEF StandInv, StandsOK
  <2>5. /\ \A p \in Named(doc) : At(p) # {}
        /\ \A n \in DOMAIN doc.rows : RowLanded(doc, n)
    BY <2>1, <2>3, <2>4 DEF ResolvedOK, SettledOK, Whole
  <2>6. \A d \in landed' : /\ \A p \in Named(d) : At(p) # {}
                           /\ \A n \in DOMAIN d.rows : RowLanded(d, n)
    BY <2>1, <2>3, <2>5 DEF StandInv, LandedOK
  <2>7. /\ \A p : At(p)' = At(p)
        /\ \A d, n : RowLanded(d, n)' <=> RowLanded(d, n)
    BY <2>2 DEF At, Live, RowLanded, FiledIn
  <2> QED BY <2>1, <2>6, <2>7 DEF LandedOK
<1>4. landed' = landed \/ Answer(i)
  BY DEF Import, Row, Begin, EnsurePath, Match, FileInto, Put, Record, Promote, Reject, RefuseComplete,
         EnqueueScan, Leave
<1> QED BY <1>2, <1>3, <1>4

LEMMA InitStandInv == ImportInit => StandInv
BY DEF ImportInit, StandInv, OneOfEach, LandedOK, StandsOK, ResolvedOK, FilingOK, SettledOK, AgainOK,
       Current, Serving, NoImport, Live

LEMMA NextStandInv == ImportTyped /\ StandInv /\ [ImportNext]_importVars => StandInv'
<1> SUFFICES ASSUME ImportTyped, StandInv, [ImportNext]_importVars PROVE StandInv'
  OBVIOUS
<1>1. OneOfEach'
  BY OneOfEachStays DEF StandInv
<1>2. ASSUME Unedited, UNCHANGED <<import, landed>> PROVE StandInv'
  BY <1>1, <1>2, OthersStand, LandedStays DEF StandInv
<1>3. ASSUME NEW i \in Importers, Import(i) PROVE StandInv'
  <2>1. Alone(i) /\ Unedited /\ StandsOK(i)' /\ LandedOK' /\ landed \subseteq landed'
    BY <1>3, ImportTasked, ImportUnedited, TaskStands, LandingStands
  <2>2. ASSUME NEW j \in Importers \ {i} PROVE StandsOK(j)'
    BY <2>1, OthersStand DEF StandInv, Alone
  <2> QED BY <1>1, <2>1, <2>2 DEF StandInv
<1>4. CASE Owner
  <2>1. UNCHANGED import /\ edits' = edits + 1 /\ landed' = {}
    BY <1>4, OwnerRowsTyped
  <2>2. ASSUME NEW j \in Importers PROVE ~Current(j)'
    <3>1. import[j].since <= edits /\ import[j].since \in Nat /\ edits \in Nat
      BY ImportAssumption DEF ImportTyped, RowsTyped, TasksOK, TaskOK, Task
    <3> QED BY <2>1, <3>1 DEF Current
  <2> QED BY <1>1, <2>1, <2>2 DEF StandInv, LandedOK, StandsOK, ResolvedOK, FilingOK, SettledOK, AgainOK
<1>5. ASSUME NEW e \in Entries, PurgeStale(e) PROVE StandInv'
  BY <1>2, <1>5, PurgeUnedited DEF PurgeStale
<1>6. CASE UNCHANGED importVars
  BY <1>2, <1>6, TreeStands DEF importVars, Unedited
<1> QED BY <1>3, <1>4, <1>5, <1>6 DEF ImportNext

(* Importing again is a no-op (transfer_import.py:38): a document that landed
   whole, imported again before the owner edits anything, inserts no category,
   stores nothing and files nothing, whatever else is imported meanwhile. *)
THEOREM RepeatIsNoOp == ImportSpec => RepeatChangesNothing
<1> DEFINE NoOp == \A i \in Importers :
                     import'[i] # import[i] /\ import[i].again /\ import[i].since = edits
                       => library' = library
<1>1. ImportTyped /\ StandInv /\ [ImportNext]_importVars => [NoOp]_importVars
  <2> SUFFICES ASSUME ImportTyped, StandInv, ImportNext PROVE NoOp
    BY Zenon
  <2>1. ASSUME NEW i \in Importers, Import(i), import[i].again, import[i].since = edits
        PROVE  library' = library
    <3>1. StandsOK(i) /\ TaskOK(i)
      BY DEF StandInv, ImportTyped, TasksOK
    <3>2. ASSUME Serving(i)
          PROVE  /\ import[i].doc \in landed /\ import[i].at \notin {"put", "record", "complete"}
                 /\ import[i].at = "file" => CategoriesFor(i) \subseteq import[i].had
      BY <2>1, <3>1, <3>2 DEF StandsOK, AgainOK, Current
    <3>3. CASE EnsurePath(i)
      <4>1. PICK p \in Named(import[i].doc) :
              Missing(p) = {} => UNCHANGED <<row, path>>
        BY <3>3, Resolving
      <4>2. import[i].doc \in landed /\ import[i].doc \in Documents
        BY <3>1, <3>2, <3>3 DEF EnsurePath, Serving, TaskOK
      <4>3. Missing(p) = {}
        BY <4>1, <4>2, NamedPaths DEF StandInv, LandedOK, Missing
      <4> QED BY <3>3, <4>1, <4>3 DEF EnsurePath, library
    <3>4. CASE FileInto(i)
      <4>1. CategoriesFor(i) \ import[i].had = {}
        BY <3>2, <3>4 DEF FileInto, Serving
      <4>2. filed' = filed
        <5>1. filed' \in {filed, [filed EXCEPT ![Entry(i)] = @ \cup (CategoriesFor(i) \ import[i].had)]}
          BY <3>4 DEF FileInto
        <5>2. [filed EXCEPT ![Entry(i)] = @ \cup {}] = filed
          BY DEF ImportTyped, RowsTyped
        <5> QED BY <4>1, <5>1, <5>2
      <4> QED BY <3>4, <4>2 DEF FileInto, library
    <3>5. CASE Put(i) \/ Record(i) \/ Promote(i) \/ Reject(i)
      BY <3>2, <3>5 DEF Put, Record, Promote, Reject, Serving
    <3>6. CASE Begin(i) \/ Match(i) \/ RefuseComplete(i) \/ EnqueueScan(i) \/ Answer(i) \/ Leave(i)
      BY <3>6 DEF Begin, Match, RefuseComplete, EnqueueScan, Answer, Leave
    <3> QED BY <2>1, <3>3, <3>4, <3>5, <3>6 DEF Import, Row
  <2>2. ASSUME NEW i \in Importers, Import(i) PROVE NoOp
    <3>1. \A j \in Importers \ {i} : import'[j] = import[j]
      BY <2>2, ImportTasked DEF Alone
    <3> QED BY <2>1, <2>2, <3>1
  <2>3. CASE Owner
    BY <2>3, OwnerRowsTyped
  <2>4. ASSUME NEW e \in Entries, PurgeStale(e) PROVE NoOp
    BY <2>4 DEF PurgeStale
  <2> QED BY <2>2, <2>3, <2>4 DEF ImportNext
<1> QED BY <1>1, InitImportTyped, NextImportTyped, InitStandInv, NextStandInv, PTL
        DEF ImportSpec, RepeatChangesNothing

-----------------------------------------------------------------------------
(* Imports: the bytes of what is live                                      *)

(* An object that is live has its session closed behind it, and its bytes. *)
LiveOK == \A e \in Entries : object[e] = "live" => session[e] = "closed" /\ (e \in stored \/ overlapped)

(* Imports were under way together, or they are one at a time. *)
AloneOK == overlapped \/ \A i, j \in Importers : import[i].at # "idle" /\ import[j].at # "idle" => i = j

(* The row that is being created is nobody else's, and its bytes are there by
   the time its session is. *)
CreatingOK(i) ==
  \/ overlapped
  \/ /\ import[i].at \in {"put", "record", "complete"} => object[Entry(i)] = "none"
     /\ import[i].at = "record" /\ session[Entry(i)] = "none" => Entry(i) \in stored
     /\ import[i].at = "complete" /\ session[Entry(i)] = "open" => Entry(i) \in stored

BytesInv == LiveOK /\ AloneOK /\ \A i \in Importers : CreatingOK(i)

-----------------------------------------------------------------------------
LEMMA InitBytesInv == ImportInit => BytesInv
<1> SUFFICES ASSUME ImportInit PROVE BytesInv
  OBVIOUS
<1>1. import = [i \in Importers |-> NoImport] /\ NoImport.at = "idle"
  BY IdleTask DEF ImportInit
<1>2. LiveOK
  BY DEF ImportInit, LiveOK
<1> QED BY <1>1, <1>2 DEF BytesInv, AloneOK, CreatingOK

(* A step of one import, where imports have never been under way together:
   the others are idle. *)
LEMMA OneAtATime ==
  ASSUME ImportTyped, BytesInv, NEW i \in Importers, Import(i), ~overlapped'
  PROVE  ~overlapped /\ \A j \in Importers \ {i} : import[j].at = "idle" /\ import'[j] = import[j]
<1>1. \A j \in Importers \ {i} : import'[j] = import[j]
  BY ImportTasked DEF Alone
<1>2. CASE Begin(i)
  BY <1>1, <1>2 DEF Begin
<1>3. CASE ~Begin(i)
  <2>1. overlapped' = overlapped /\ import[i].at # "idle"
    BY <1>3 DEF Import, Row, EnsurePath, Match, FileInto, Put, Record, Promote, Reject, RefuseComplete,
                EnqueueScan, Answer, Leave
  <2> QED BY <1>1, <2>1 DEF BytesInv, AloneOK
<1> QED BY <1>2, <1>3

LEMMA AloneStays ==
  ASSUME ImportTyped, BytesInv, NEW i \in Importers, Import(i)
  PROVE  AloneOK'
<1>1. CASE overlapped'
  BY <1>1 DEF AloneOK
<1>2. CASE ~overlapped'
  BY <1>2, OneAtATime DEF AloneOK
<1> QED BY <1>1, <1>2

(* The steps of the creation of one row, and what they do to its bytes. *)
LEMMA CreatingStays ==
  ASSUME ImportTyped, BytesInv, NEW i \in Importers, Import(i)
  PROVE  LiveOK' /\ CreatingOK(i)'
<1> DEFINE t == import[i]
           e == Entry(i)
<1> USE DEF ImportTyped, RowsTyped
<1>1. overlapped => overlapped'
  BY DEF Import, Row, Begin, EnsurePath, Match, FileInto, Put, Record, Promote, Reject, RefuseComplete,
         EnqueueScan, Answer, Leave
<1>2. CreatingOK(i) /\ LiveOK
  BY DEF BytesInv
<1>3. CASE UNCHANGED <<object, session, stored>> /\ import'[i].at \notin {"put", "record", "complete"}
  BY <1>1, <1>2, <1>3 DEF LiveOK, CreatingOK
<1>4. ASSUME AtRow(i), NEW o \in Outcomes, Settle(i, o)
      PROVE  import'[i].at \notin {"put", "record", "complete"}
  BY <1>4, Settling
<1>5. {"created", "linked", "skipped", "failed"} \subseteq Outcomes
  BY DEF Outcomes
<1>6. ASSUME Break(i) PROVE import'[i].at \notin {"put", "record", "complete"}
  BY <1>6, Breaking
<1>7. ASSUME NEW label \in {"put", "record", "complete"}, Proceed(i, label)
      PROVE  import'[i].at = label /\ Entry(i)' = Entry(i)
  BY <1>7, Proceeding DEF Continues, Steps, Entry
<1>8. CASE Begin(i) \/ EnsurePath(i) \/ EnqueueScan(i) \/ Answer(i) \/ Leave(i)
  <2>1. UNCHANGED <<object, session, stored>>
    BY <1>8 DEF Begin, EnsurePath, EnqueueScan, Answer, Leave, library
  <2>2. import'[i].at \notin {"put", "record", "complete"}
    <3>1. CASE Begin(i)
      <4>1. edits \in Nat /\ TasksOK
        BY ImportAssumption
      <4> HIDE DEF ImportTyped, RowsTyped
      <4> QED BY <3>1, <4>1, BeginTasked
    <3>2. CASE EnsurePath(i)
      BY <3>2, Resolving DEF AfterTree
    <3>3. CASE EnqueueScan(i) \/ Answer(i)
      BY <3>3, Scanning
    <3>4. CASE Leave(i)
      BY <3>4, IdleTask DEF Leave, TasksOK
    <3> QED BY <1>8, <3>1, <3>2, <3>3, <3>4
  <2> QED BY <1>3, <2>1, <2>2
<1>9. CASE Row(i)
  <2>1. AtRow(i) /\ e \in Entries
    <3>1. AtRow(i)
      BY <1>9 DEF Row, Match, FileInto, Put, Record, Promote, Reject, RefuseComplete, AtRow
    <3> QED BY <3>1, EntryTyped
  <2>2. CASE Match(i)
    <3>1. UNCHANGED <<object, session, stored>>
      BY <2>2 DEF Match, library
    <3>2. CASE Proceed(i, "put") /\ object[e] = "none"
      <4>1. CreatingOK(i)'
        BY <1>7, <3>1, <3>2 DEF CreatingOK
      <4> QED BY <1>1, <1>2, <3>1, <4>1 DEF LiveOK
    <3>3. CASE import' = [import EXCEPT ![i].at = "file", ![i].had = filed[e]]
      BY <1>3, <3>1, <3>3 DEF TasksOK, Task
    <3> QED BY <1>3, <1>4, <1>5, <1>6, <2>1, <2>2, <3>1, <3>2, <3>3 DEF Match
  <2>3. CASE FileInto(i) \/ RefuseComplete(i)
    BY <1>3, <1>4, <1>5, <1>6, <2>1, <2>3 DEF FileInto, RefuseComplete, library
  <2>4. CASE Put(i)
    <3>1. UNCHANGED <<object, session>> /\ (overlapped \/ object[e] = "none")
          /\ \A f \in Entries \ {e} : f \in stored => f \in stored'
      BY <1>2, <2>4 DEF Put, CreatingOK
    <3>2. LiveOK'
      BY <1>1, <1>2, <3>1 DEF LiveOK
    <3>3. CASE stored' = stored \cup {e} /\ Proceed(i, "record")
      BY <1>1, <1>7, <3>1, <3>2, <3>3 DEF CreatingOK
    <3>4. CASE Settle(i, "failed")
      BY <1>4, <1>5, <2>1, <3>2, <3>4 DEF CreatingOK
    <3> QED BY <2>4, <3>3, <3>4 DEF Put
  <2>5. CASE Record(i)
    <3>1. UNCHANGED <<object, stored>>
      BY <2>5 DEF Record
    <3>2. CASE session[e] = "none" /\ session' = [session EXCEPT ![e] = "open"] /\ Proceed(i, "complete")
      <4>1. LiveOK'
        BY <1>1, <1>2, <3>1, <3>2 DEF LiveOK
      <4>2. CreatingOK(i)'
        BY <1>1, <1>2, <1>7, <2>5, <3>1, <3>2 DEF CreatingOK, Record
      <4> QED BY <4>1, <4>2
    <3>3. CASE Break(i) /\ UNCHANGED session
      BY <1>3, <1>6, <3>1, <3>3
    <3> QED BY <2>5, <3>2, <3>3 DEF Record
  <2>6. CASE Promote(i)
    <3>1. CreatingOK(i)'
      BY <1>4, <1>5, <2>1, <2>6 DEF Promote, CreatingOK
    <3>2. LiveOK'
      BY <1>1, <1>2, <2>1, <2>6 DEF Promote, LiveOK, CreatingOK
    <3> QED BY <3>1, <3>2
  <2>7. CASE Reject(i)
    <3>1. CreatingOK(i)'
      BY <1>4, <1>5, <2>1, <2>7 DEF Reject, CreatingOK
    <3>2. LiveOK'
      BY <1>1, <1>2, <2>1, <2>7 DEF Reject, LiveOK
    <3> QED BY <3>1, <3>2
  <2> QED BY <1>9, <2>2, <2>3, <2>4, <2>5, <2>6, <2>7 DEF Row
<1> QED BY <1>8, <1>9 DEF Import

LEMMA NextBytesInv == ImportTyped /\ BytesInv /\ [ImportNext]_importVars => BytesInv'
<1> SUFFICES ASSUME ImportTyped, BytesInv, [ImportNext]_importVars PROVE BytesInv'
  OBVIOUS
<1> USE DEF BytesInv
<1>1. ASSUME NEW i \in Importers, Import(i) PROVE BytesInv'
  <2>1. AloneOK' /\ LiveOK' /\ CreatingOK(i)'
    BY <1>1, AloneStays, CreatingStays
  <2>2. ASSUME NEW j \in Importers \ {i} PROVE CreatingOK(j)'
    BY <1>1, OneAtATime DEF CreatingOK
  <2> QED BY <2>1, <2>2
<1>2. ASSUME UNCHANGED <<import, overlapped>>, NEW i \in Importers PROVE AloneOK' /\ Entry(i)' = Entry(i)
  BY <1>2 DEF AloneOK, Entry
<1>3. ASSUME NEW i \in Importers, import[i].at \in {"put", "record", "complete"} PROVE Entry(i) \in Entries
  BY <1>3, EntryTyped DEF ImportTyped, AtRow
<1>4. CASE Owner
  <2>1. /\ UNCHANGED import /\ UNCHANGED <<session, stored, queued, overlapped>>
        /\ \A e \in Entries : \/ object'[e] = object[e]
                              \/ object[e] = "live" /\ object'[e] = "taken"
    BY <1>4, OwnerRowsTyped, Zenon
  <2>2. LiveOK'
    BY <2>1 DEF LiveOK
  <2>3. ASSUME NEW i \in Importers PROVE CreatingOK(i)'
    BY <1>2, <1>3, <2>1 DEF CreatingOK
  <2> QED BY <2>1, <2>2, <2>3 DEF AloneOK
<1>5. ASSUME NEW e \in Entries, PurgeStale(e) PROVE BytesInv'
  <2>1. UNCHANGED <<import, object, overlapped>>
    BY <1>5 DEF PurgeStale
  <2>2. LiveOK'
    BY <1>5 DEF PurgeStale, LiveOK, ImportTyped, RowsTyped
  <2>3. ASSUME NEW i \in Importers PROVE CreatingOK(i)'
    <3>1. \A f \in Entries : f # e => session'[f] = session[f] /\ (f \in stored <=> f \in stored')
      BY <1>5 DEF PurgeStale, ImportTyped, RowsTyped
    <3>2. session'[e] = "closed" /\ (import[i].at = "complete" => Entry(i) # e)
      BY <1>5 DEF PurgeStale, ImportTyped, RowsTyped
    <3> QED BY <1>2, <1>3, <2>1, <3>1, <3>2 DEF CreatingOK
  <2> QED BY <2>1, <2>2, <2>3 DEF AloneOK
<1>6. CASE UNCHANGED importVars
  BY <1>6 DEF importVars, LiveOK, AloneOK, CreatingOK, Entry
<1> QED BY <1>1, <1>4, <1>5, <1>6 DEF ImportNext

-----------------------------------------------------------------------------
(* Imports: the report                                                     *)

(* Only what is there is queued. *)
QueuedOK == \A e \in queued : object[e] # "none"

(* A row reported created is there, and was told of iff it is queued. *)
ToldOK(i) == Serving(i) =>
  \A n \in DOMAIN import[i].report : import[i].report[n] = "created" =>
    /\ object[import[i].doc.rows[n]] # "none"
    /\ n \in import[i].told <=> import[i].doc.rows[n] \in queued

(* No two rows, of one document or of two, report the same object created. *)
CreatedOnce(i, j) == Serving(i) /\ Serving(j) =>
  \A n \in DOMAIN import[i].report, m \in DOMAIN import[j].report :
    /\ import[i].report[n] = "created" /\ import[j].report[m] = "created"
    /\ import[i].doc.rows[n] = import[j].doc.rows[m]
    => i = j /\ n = m

ReportInv == /\ QueuedOK
             /\ \A i \in Importers : ToldOK(i)
             /\ \A i, j \in Importers : CreatedOnce(i, j)

-----------------------------------------------------------------------------
(* The rows a task reports created: after its step it has no other ones, but
   for the row it promotes. *)
Made(i, n) == Serving(i) /\ n \in DOMAIN import[i].report /\ import[i].report[n] = "created"
Of(i, n) == import[i].doc.rows[n]

LEMMA MadeTyped ==
  ASSUME TasksOK, NEW i \in Importers, NEW n, Made(i, n)
  PROVE  Of(i, n) \in Entries
<1>1. import[i].doc \in Documents /\ DOMAIN import[i].report = DOMAIN import[i].doc.rows
  BY DEF Made, TasksOK, TaskOK
<1> QED BY <1>1, NamedPaths, ElementOfSeq DEF Made, Of

LEMMA MadeMeans ==
  /\ \A i \in Importers : ToldOK(i) <=>
       \A n : Made(i, n) => object[Of(i, n)] # "none" /\ (n \in import[i].told <=> Of(i, n) \in queued)
  /\ \A i, j \in Importers : CreatedOnce(i, j) <=>
       \A n, m : Made(i, n) /\ Made(j, m) /\ Of(i, n) = Of(j, m) => i = j /\ n = m
BY DEF ToldOK, CreatedOnce, Made, Of

(* What a step of an import makes. *)
LEMMA Making ==
  ASSUME ImportTyped, NEW i \in Importers, Import(i)
  PROVE  /\ \A n : Made(i, n)' /\ Made(i, n) => Of(i, n)' = Of(i, n)
         /\ \A n : Made(i, n)' /\ ~Made(i, n) =>
              /\ Promote(i) /\ n = import[i].n
              /\ Of(i, n)' = Entry(i) /\ n \notin import'[i].told
         /\ ~(EnqueueScan(i) \/ Answer(i)) =>
              /\ UNCHANGED queued
              /\ \A n : Made(i, n)' /\ Made(i, n) => import'[i].told = import[i].told
<1> DEFINE t == import[i]
           Carries == /\ Serving(i) /\ import'[i].doc = t.doc /\ import'[i].report = t.report
                      /\ EnqueueScan(i) \/ Answer(i) \/ import'[i].told = t.told
<1>1. TasksOK /\ TaskOK(i)
  BY DEF ImportTyped, TasksOK
<1>2. ~(EnqueueScan(i) \/ Answer(i)) => UNCHANGED queued
  BY DEF Import, Row, Begin, EnsurePath, Match, FileInto, Put, Record, Promote, Reject, RefuseComplete,
         Leave, library
<1>3. CASE \A n : ~Made(i, n)'
  BY <1>2, <1>3
<1>4. CASE Carries
  BY <1>2, <1>4 DEF Made, Of
<1>5. ASSUME NEW o \in Outcomes, AtRow(i), Settle(i, o), o = "created" => Promote(i)
      PROVE  /\ \A n : Made(i, n)' /\ Made(i, n) => Of(i, n)' = Of(i, n)
             /\ \A n : Made(i, n)' /\ ~Made(i, n) =>
                  /\ Promote(i) /\ n = t.n /\ Of(i, n)' = Entry(i) /\ n \notin import'[i].told
             /\ import'[i].told = t.told
  <2>1. /\ Continues(i) /\ Serving(i) /\ t.told = {}
        /\ DOMAIN import'[i].report = DOMAIN import[i].report
        /\ import'[i].report[import[i].n] = o
        /\ \A n \in DOMAIN import[i].report \ {import[i].n} : import'[i].report[n] = import[i].report[n]
    BY <1>1, <1>5, Settling DEF AtRow, Serving, TaskOK
  <2>2. import'[i].doc = t.doc /\ import'[i].told = {}
    BY <2>1 DEF Continues
  <2>3. \A n : Made(i, n)' /\ ~Made(i, n) => n = t.n /\ o = "created"
    BY <2>1 DEF Made
  <2> QED BY <1>5, <2>1, <2>2, <2>3 DEF Of, Entry
<1>6. {"created", "linked", "skipped", "failed"} \subseteq Outcomes
  BY DEF Outcomes
<1>7. ASSUME NEW label \in {"put", "record", "complete"}, Proceed(i, label), AtRow(i) PROVE Carries
  BY <1>1, <1>7, Proceeding DEF Continues, Steps, AtRow, Serving
<1>8. ASSUME Break(i) \/ Leave(i) PROVE ~Serving(i)'
  <2>1. edits \in Nat
    BY ImportAssumption DEF ImportTyped, RowsTyped
  <2> QED BY <1>1, <1>8, <2>1, Breaking, IdleTask DEF Leave, Serving, TasksOK
<1>9. CASE Begin(i)
  <2>1. \A n \in DOMAIN import'[i].report : import'[i].report[n] = Null
    <3>1. edits \in Nat
      BY ImportAssumption DEF ImportTyped, RowsTyped
    <3> QED BY <1>1, <1>9, <3>1, BeginTasked
  <2>2. Null # "created"
    BY ImportAssumption DEF Outcomes
  <2> QED BY <1>3, <2>1, <2>2 DEF Made
<1>10. CASE EnsurePath(i)
  <2>1. Serving(i)
    BY <1>10 DEF EnsurePath, Serving
  <2> QED BY <1>4, <1>10, <2>1, Resolving
<1>11. CASE EnqueueScan(i) \/ Answer(i)
  <2>1. Serving(i)
    BY <1>11 DEF EnqueueScan, Answer, Serving
  <2> QED BY <1>1, <1>4, <1>11, <2>1, Scanning
<1>12. CASE Leave(i)
  BY <1>3, <1>8, <1>12 DEF Made
<1>13. CASE Row(i)
  <2>1. AtRow(i)
    BY <1>13 DEF Row, Match, FileInto, Put, Record, Promote, Reject, RefuseComplete, AtRow
  <2>2. CASE \E o \in Outcomes : Settle(i, o) /\ (o = "created" => Promote(i))
    BY <1>2, <1>5, <2>1, <2>2
  <2>3. CASE \E label \in {"put", "record", "complete"} : Proceed(i, label)
    BY <1>4, <1>7, <2>1, <2>3
  <2>4. CASE Break(i)
    BY <1>3, <1>8, <2>4 DEF Made
  <2>5. CASE import' = [import EXCEPT ![i].at = "file", ![i].had = filed[Entry(i)]]
    BY <1>1, <1>4, <2>1, <2>5 DEF TasksOK, Task, AtRow, Serving
  <2>6. CASE Match(i)
    BY <1>6, <2>2, <2>3, <2>4, <2>5, <2>6 DEF Match
  <2>7. CASE FileInto(i) \/ Put(i) \/ Record(i) \/ Promote(i) \/ Reject(i) \/ RefuseComplete(i)
    BY <1>6, <2>2, <2>3, <2>4, <2>7 DEF FileInto, Put, Record, Promote, Reject, RefuseComplete
  <2> QED BY <1>13, <2>6, <2>7 DEF Row
<1> QED BY <1>9, <1>10, <1>11, <1>12, <1>13 DEF Import

LEMMA ReportStays ==
  ASSUME ImportTyped, ReportInv, NEW i \in Importers, Import(i)
  PROVE  ReportInv'
<1>1. /\ TasksOK /\ Unedited /\ \A j \in Importers \ {i} : import'[j] = import[j]
  BY ImportUnedited, ImportTasked DEF ImportTyped, Alone
<1>2. ASSUME NEW j \in Importers \ {i}, NEW n
      PROVE  /\ Made(j, n)' <=> Made(j, n)
             /\ Of(j, n)' = Of(j, n) /\ import'[j].told = import[j].told
  BY <1>1 DEF Made, Serving, Of
<1>3. /\ \A n : Made(i, n)' /\ Made(i, n) => Of(i, n)' = Of(i, n)
      /\ \A n : Made(i, n)' /\ ~Made(i, n) =>
           /\ Promote(i) /\ n = import[i].n
           /\ Of(i, n)' = Entry(i) /\ n \notin import'[i].told
      /\ ~(EnqueueScan(i) \/ Answer(i)) =>
           /\ UNCHANGED queued
           /\ \A n : Made(i, n)' /\ Made(i, n) => import'[i].told = import[i].told
  BY Making
<1>4. \A j \in Importers : \A n : Made(j, n) =>
        /\ Of(j, n) \in Entries /\ object[Of(j, n)] # "none"
        /\ n \in import[j].told <=> Of(j, n) \in queued
  BY <1>1, MadeTyped, MadeMeans DEF ReportInv
<1>5. Promote(i) => /\ Entry(i) \in Entries /\ object[Entry(i)] = "none" /\ object'[Entry(i)] = "live"
                    /\ Entry(i) \notin queued /\ UNCHANGED queued
  <2> HAVE Promote(i)
  <2>1. Entry(i) \in Entries
    BY <1>1, EntryTyped DEF Promote, AtRow
  <2> QED BY <2>1 DEF Promote, ImportTyped, RowsTyped, ReportInv, QueuedOK
<1>8. ASSUME EnqueueScan(i) \/ Answer(i)
      PROVE  \/ UNCHANGED queued /\ import'[i].told = import[i].told
             \/ /\ Made(i, import[i].n) /\ queued' = queued \cup {Entry(i)}
                /\ import'[i].told = import[i].told \cup {import[i].n}
  <2>1. ASSUME Created(i), ~Scanned(i), import[i].at = "scan" PROVE Made(i, import[i].n)
    <3>1. /\ Serving(i) /\ import[i].doc \in Documents
          /\ DOMAIN import[i].report = DOMAIN import[i].doc.rows /\ import[i].n \in Nat \ {0}
      BY <1>1, <2>1 DEF TasksOK, TaskOK, Task, Serving
    <3>2. import[i].n \in DOMAIN import[i].report
      BY <2>1, <3>1, NamedPaths DEF Scanned
    <3> QED BY <2>1, <3>1, <3>2 DEF Made, Created
  <2> QED BY <1>1, <1>8, <2>1, Scanning
<1>6. ASSUME NEW j \in Importers, NEW k \in Importers PROVE CreatedOnce(j, k)'
  <2>1. ASSUME NEW n, NEW m, Made(j, n)', Made(k, m)', Of(j, n)' = Of(k, m)' PROVE j = k /\ n = m
    <3>1. CASE Made(j, n) /\ Made(k, m)
      <4>1. Of(j, n) = Of(k, m)
        BY <1>2, <1>3, <2>1, <3>1
      <4> QED BY <3>1, <4>1, MadeMeans DEF ReportInv
    <3>2. CASE Made(j, n) /\ ~Made(k, m)
      <4>1. k = i /\ Promote(i) /\ Of(k, m)' = Entry(i)
        BY <1>2, <1>3, <2>1, <3>2
      <4>2. Of(j, n)' = Of(j, n)
        BY <1>2, <1>3, <2>1, <3>2
      <4> QED BY <1>4, <1>5, <2>1, <3>2, <4>1, <4>2
    <3>3. CASE ~Made(j, n) /\ Made(k, m)
      <4>1. j = i /\ Promote(i) /\ Of(j, n)' = Entry(i)
        BY <1>2, <1>3, <2>1, <3>3
      <4>2. Of(k, m)' = Of(k, m)
        BY <1>2, <1>3, <2>1, <3>3
      <4> QED BY <1>4, <1>5, <2>1, <3>3, <4>1, <4>2
    <3>4. CASE ~Made(j, n) /\ ~Made(k, m)
      <4>1. j = i /\ k = i
        BY <1>2, <2>1, <3>4
      <4> QED BY <1>3, <2>1, <3>4, <4>1
    <3> QED BY <3>1, <3>2, <3>3, <3>4
  <2> QED BY <2>1 DEF CreatedOnce, Made, Of
<1>7. ASSUME NEW j \in Importers PROVE ToldOK(j)'
  <2>1. ASSUME NEW n, Made(j, n)'
        PROVE  /\ object'[Of(j, n)'] # "none"
               /\ n \in import'[j].told <=> Of(j, n)' \in queued'
    <3>1. CASE ~Made(j, n)
      <4>1. j = i
        BY <1>2, <2>1, <3>1
      <4> QED BY <1>3, <1>5, <2>1, <3>1, <4>1
    <3>2. CASE Made(j, n)
      <4>1. Of(j, n)' = Of(j, n)
        BY <1>2, <1>3, <2>1, <3>2
      <4>2. object'[Of(j, n)'] # "none"
        BY <1>1, <1>4, <3>2, <4>1 DEF Unedited
      <4>3. CASE UNCHANGED queued /\ import'[j].told = import[j].told
        BY <1>4, <3>2, <4>1, <4>2, <4>3
      <4>4. CASE j # i /\ UNCHANGED queued
        BY <1>2, <4>3, <4>4
      <4>5. CASE Made(i, import[i].n) /\ queued' = queued \cup {Entry(i)}
                 /\ import'[i].told = import[i].told \cup {import[i].n}
        <5>1. Of(i, import[i].n) = Entry(i)
          BY DEF Of, Entry
        <5>2. Of(j, n) = Entry(i) <=> j = i /\ n = import[i].n
          BY <3>2, <4>5, <5>1, MadeMeans DEF ReportInv
        <5>3. n \in import'[j].told <=> n \in import[j].told \/ (j = i /\ n = import[i].n)
          BY <1>2, <4>5
        <5> QED BY <1>4, <3>2, <4>1, <4>2, <4>5, <5>2, <5>3
      <4>6. CASE EnqueueScan(i) \/ Answer(i)
        BY <1>8, <4>3, <4>4, <4>5, <4>6
      <4> QED BY <1>3, <2>1, <3>2, <4>3, <4>4, <4>6
    <3> QED BY <3>1, <3>2
  <2> QED BY <2>1 DEF ToldOK, Made, Of
<1>9. QueuedOK'
  <2>1. ASSUME NEW e \in queued PROVE object'[e] # "none"
    BY <1>1, <2>1 DEF ReportInv, QueuedOK, Unedited, ImportTyped, RowsTyped
  <2>2. ASSUME EnqueueScan(i) \/ Answer(i), NEW e \in queued' \ queued PROVE object'[e] # "none"
    <3>1. e = Of(i, import[i].n) /\ Made(i, import[i].n)
      BY <1>8, <2>2 DEF Of, Entry
    <3> QED BY <1>1, <1>4, <3>1 DEF Unedited
  <2> QED BY <1>3, <2>1, <2>2 DEF QueuedOK
<1> QED BY <1>6, <1>7, <1>9 DEF ReportInv

LEMMA NextReportInv == ImportTyped /\ ReportInv /\ [ImportNext]_importVars => ReportInv'
<1> SUFFICES ASSUME ImportTyped, ReportInv, [ImportNext]_importVars PROVE ReportInv'
  OBVIOUS
<1>1. ASSUME UNCHANGED <<import, queued>>, \A e \in Entries : object[e] # "none" => object'[e] # "none"
      PROVE  ReportInv'
  <2>1. QueuedOK'
    BY <1>1 DEF ReportInv, QueuedOK, ImportTyped, RowsTyped
  <2>2. ASSUME NEW i \in Importers PROVE ToldOK(i)'
    <3>1. \A n : Made(i, n) => Of(i, n) \in Entries
      BY MadeTyped DEF ImportTyped
    <3>2. \A n : Made(i, n) => object'[Of(i, n)] # "none" /\ (n \in import[i].told <=> Of(i, n) \in queued)
      BY <1>1, <3>1, MadeMeans DEF ReportInv
    <3> QED BY <1>1, <3>2 DEF ToldOK, Serving, Made, Of
  <2>3. ASSUME NEW i \in Importers, NEW j \in Importers PROVE CreatedOnce(i, j)'
    BY <1>1 DEF ReportInv, CreatedOnce, Serving
  <2> QED BY <2>1, <2>2, <2>3 DEF ReportInv
<1>2. ASSUME NEW i \in Importers, Import(i) PROVE ReportInv'
  BY <1>2, ReportStays
<1>3. CASE Owner
  <2>1. /\ UNCHANGED import /\ UNCHANGED <<session, stored, queued, overlapped>>
        /\ \A e \in Entries : \/ object'[e] = object[e]
                              \/ object[e] = "live" /\ object'[e] = "taken"
    BY <1>3, OwnerRowsTyped, Zenon
  <2> QED BY <1>1, <2>1
<1>4. ASSUME NEW e \in Entries, PurgeStale(e) PROVE ReportInv'
  BY <1>1, <1>4 DEF PurgeStale
<1>5. CASE UNCHANGED importVars
  BY <1>1, <1>5 DEF importVars
<1> QED BY <1>2, <1>3, <1>4, <1>5 DEF ImportNext

LEMMA InitReportInv == ImportInit => ReportInv
<1> SUFFICES ASSUME ImportInit PROVE ReportInv
  OBVIOUS
<1>1. \A i \in Importers : ~Serving(i)
  <2>1. import = [i \in Importers |-> NoImport]
    BY DEF ImportInit
  <2> QED BY <2>1, IdleTask DEF Serving
<1>2. QueuedOK
  <2>1. queued = Owned /\ \A e \in Owned : object[e] = "live"
    BY ImportAssumption DEF ImportInit
  <2> QED BY <2>1 DEF QueuedOK
<1> QED BY <1>1, <1>2 DEF ReportInv, ToldOK, CreatedOnce

(* The invariant of an import: types, what stands between edits, the bytes of
   what is live, and the report. *)
ImportInv == ImportTyped /\ StandInv /\ BytesInv /\ ReportInv

(* The invariant of import_collection and its route, for any documents, any
   number of imports at once, and wherever stores, brokers and processes fail. *)
THEOREM ImportInvariant == ImportSpec => []ImportInv
<1>1. ImportInit => ImportInv
  BY InitImportTyped, InitStandInv, InitBytesInv, InitReportInv DEF ImportInv
<1>2. ImportInv /\ [ImportNext]_importVars => ImportInv'
  BY NextImportTyped, NextStandInv, NextBytesInv, NextReportInv DEF ImportInv
<1> QED BY <1>1, <1>2, PTL DEF ImportSpec

(* The report of an import is true when it is answered: rows created or linked
   are there with their filing and their bytes unless the owner edited
   meanwhile, and scan_queued says whether the scan of a new object is. *)
THEOREM ReportBelievable == ImportSpec => []ReportIsTrue
<1>1. ImportInv => ReportIsTrue
  <2> SUFFICES ASSUME ImportInv, NEW i \in Importers, import[i].at = "done",
                      NEW n \in DOMAIN import[i].doc.rows
               PROVE  LET e == import[i].doc.rows[n]
                          outcome == import[i].report[n]
                      IN  /\ outcome = "created" => (n \in import[i].told <=> e \in queued)
                          /\ outcome \in {"created", "linked"} /\ import[i].since = edits
                               => /\ object[e] = "live"
                                  /\ e \in stored \/ overlapped
                                  /\ \A p \in import[i].doc.paths[e] : At(p) \cap filed[e] # {}
    BY DEF ReportIsTrue
  <2>1. /\ Serving(i) /\ import[i].doc \in Documents
        /\ DOMAIN import[i].report = DOMAIN import[i].doc.rows
    BY DEF Serving, ImportInv, ImportTyped, TasksOK, TaskOK
  <2>2. import[i].doc.rows[n] \in Entries
    BY <2>1, NamedPaths, ElementOfSeq
  <2>3. ToldOK(i) /\ SettledOK(i) /\ LiveOK
    BY DEF ImportInv, ReportInv, StandInv, StandsOK, BytesInv
  <2> QED BY <2>1, <2>2, <2>3 DEF ToldOK, SettledOK, LiveOK, Current, RowLanded, FiledIn
<1> QED BY <1>1, ImportInvariant, PTL
=============================================================================
