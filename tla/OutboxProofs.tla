----------------------------- MODULE OutboxProofs -----------------------------
(* What the outbox promises, for any events, subscriptions and delivery    *)
(* runs, however many runs overlap on one event and wherever they stop.    *)
EXTENDS Outbox, TLAPS

Claimed(r) == run[r].todo \cup run[r].good \cup run[r].bad

(* An event that may still be claimed has attempts left, and every attempt is
   a round that was refused. *)
AttemptsOK(e) == /\ status[e] \in {"none", "pending"} => attempts[e] < MaxAttempts
                 /\ attempts[e] <= refused[e]

(* Who is owed an event that is recorded is still there and wants it. *)
OwedOK(e) == owed[e] \subseteq Wanting(Active, e)

(* What a run has claimed is recorded and had an attempt left; what it has not
   posted yet it will post to everyone owed; what it posted either reached them
   or was one more round refused. *)
ClaimOK(r, e) ==
  /\ e \in Claimed(r) => status[e] # "none" /\ run[r].seen[e] < MaxAttempts
  /\ e \in run[r].todo => /\ owed[e] \subseteq Wanting(run[r].targets, e)
                          /\ run[r].seen[e] <= refused[e]
  /\ e \in run[r].good => owed[e] \subseteq accepted[e]
  /\ e \in run[r].bad => run[r].seen[e] + 1 <= refused[e]

IInv == /\ TypeOK
        /\ \A e \in Events : AttemptsOK(e) /\ OwedOK(e)
        /\ \A r \in Runs, e \in Events : ClaimOK(r, e)
        /\ DeliveredReachedAll
        /\ GivesUpLate

-----------------------------------------------------------------------------
LEMMA InitIInv == Init => IInv
BY OutboxAssumption
   DEF Init, IInv, TypeOK, Idle, AttemptsOK, OwedOK, ClaimOK, Claimed, DeliveredReachedAll,
       GivesUpLate

LEMMA RecordStep == ASSUME IInv, NEW e \in Events, Record(e) PROVE IInv'
<1> USE OutboxAssumption DEF IInv, Record
<1>1. TypeOK'
  BY DEF TypeOK, Wanting, Active
<1>2. ASSUME NEW d \in Events PROVE AttemptsOK(d)' /\ OwedOK(d)'
  BY <1>2 DEF TypeOK, AttemptsOK, OwedOK, Wanting, Active
<1>3. ASSUME NEW r \in Runs, NEW d \in Events PROVE ClaimOK(r, d)'
  <2>1. ClaimOK(r, d)
    OBVIOUS
  <2>2. d = e => d \notin Claimed(r)
    BY <2>1 DEF ClaimOK
  <2> QED BY <2>1, <2>2 DEF TypeOK, ClaimOK, Claimed, Wanting
<1>4. DeliveredReachedAll' /\ GivesUpLate'
  BY DEF TypeOK, DeliveredReachedAll, GivesUpLate
<1> QED BY <1>1, <1>2, <1>3, <1>4

LEMMA SubscriptionStep ==
  ASSUME IInv, NEW s \in Subs, Subscribe(s) \/ Unsubscribe(s) PROVE IInv'
<1> USE DEF IInv, Subscribe, Unsubscribe, row, history
<1>1. TypeOK'
  BY DEF TypeOK
<1>2. \A e \in Events : owed'[e] \subseteq owed[e] /\ (Unsubscribe(s) => s \notin owed'[e])
  BY DEF TypeOK
<1>3. ASSUME NEW e \in Events PROVE AttemptsOK(e)' /\ OwedOK(e)'
  <2>1. AttemptsOK(e)'
    BY DEF AttemptsOK
  <2>2. OwedOK(e)
    OBVIOUS
  <2>3. CASE Subscribe(s)
    <3>1. owed'[e] = owed[e] /\ \A t \in Subs : sub[t] = "active" => sub'[t] = "active"
      BY <2>3 DEF TypeOK
    <3>2. OwedOK(e)'
      BY <2>2, <3>1 DEF OwedOK, Wanting, Active
    <3> QED BY <2>1, <3>2
  <2>4. CASE Unsubscribe(s)
    <3>1. owed'[e] \subseteq owed[e] /\ s \notin owed'[e]
      BY <1>2, <2>4
    <3>2. \A t \in Subs \ {s} : sub'[t] = sub[t]
      BY <2>4 DEF TypeOK
    <3>3. OwedOK(e)'
      BY <2>2, <3>1, <3>2 DEF OwedOK, Wanting, Active
    <3> QED BY <2>1, <3>3
  <2> QED BY <2>1, <2>3, <2>4
<1>4. ASSUME NEW r \in Runs, NEW e \in Events PROVE ClaimOK(r, e)'
  BY <1>2 DEF ClaimOK, Claimed, Wanting
<1>5. DeliveredReachedAll' /\ GivesUpLate'
  BY <1>2 DEF DeliveredReachedAll, GivesUpLate
<1> QED BY <1>1, <1>3, <1>4, <1>5

LEMMA StartStep == ASSUME IInv, NEW r \in Runs, Start(r) PROVE IInv'
<1> USE DEF IInv, Start, row, history
<1>1. Batch \subseteq Events /\ \A e \in Batch : status[e] = "pending"
  BY DEF Batch, Due
<1>2. run'[r] = [Idle EXCEPT !.on = TRUE, !.todo = Batch, !.targets = Active, !.seen = attempts]
      /\ \A q \in Runs \ {r} : run'[q] = run[q]
  BY DEF TypeOK
<1>3. TypeOK'
  BY <1>1 DEF TypeOK, Idle, Active
<1>4. ASSUME NEW q \in Runs, NEW e \in Events PROVE ClaimOK(q, e)'
  <2>1. CASE q = r
    BY <1>1, <1>2, <2>1 DEF TypeOK, ClaimOK, Claimed, Idle, AttemptsOK, OwedOK, Wanting, Active
  <2>2. CASE q # r
    BY <1>2, <2>2 DEF ClaimOK, Claimed, Wanting
  <2> QED BY <2>1, <2>2
<1>5. \A e \in Events : AttemptsOK(e)' /\ OwedOK(e)'
  BY DEF AttemptsOK, OwedOK, Wanting, Active
<1>6. DeliveredReachedAll' /\ GivesUpLate'
  BY DEF DeliveredReachedAll, GivesUpLate
<1> QED BY <1>3, <1>4, <1>5, <1>6

(* A run that posts: an event it finds accepted reached everyone owed. *)
LEMMA DeliverStep == ASSUME IInv, NEW r \in Runs, Deliver(r) PROVE IInv'
<1> USE DEF IInv
<1>0. PICK e \in run[r].todo : \E ok \in SUBSET Wanting(run[r].targets, e) :
        /\ accepted' = [accepted EXCEPT ![e] = @ \cup ok]
        /\ IF Accepted(ok, Wanting(run[r].targets, e))
             THEN /\ run' = [run EXCEPT ![r].todo = @ \ {e}, ![r].good = @ \cup {e}]
                  /\ UNCHANGED refused
             ELSE /\ run' = [run EXCEPT ![r].todo = @ \ {e}, ![r].bad = @ \cup {e}]
                  /\ refused' = [refused EXCEPT ![e] = @ + 1]
  BY DEF Deliver
<1>1. PICK ok \in SUBSET Wanting(run[r].targets, e) :
        /\ accepted' = [accepted EXCEPT ![e] = @ \cup ok]
        /\ IF Accepted(ok, Wanting(run[r].targets, e))
             THEN /\ run' = [run EXCEPT ![r].todo = @ \ {e}, ![r].good = @ \cup {e}]
                  /\ UNCHANGED refused
             ELSE /\ run' = [run EXCEPT ![r].todo = @ \ {e}, ![r].bad = @ \cup {e}]
                  /\ refused' = [refused EXCEPT ![e] = @ + 1]
  BY <1>0
<1>2. e \in Events /\ ok \subseteq Subs /\ UNCHANGED <<status, attempts, due, sub, owed, crashes>>
  BY <1>1 DEF Deliver, row, TypeOK, Wanting
<1>3. \A d \in Events : accepted[d] \subseteq accepted'[d] /\ refused'[d] >= refused[d]
  BY <1>1, <1>2 DEF TypeOK
<1>4. TypeOK'
  <2>1. accepted' \in [Events -> SUBSET Subs] /\ refused' \in [Events -> Nat]
    BY <1>1, <1>2 DEF TypeOK
  <2>2. run' \in [Runs -> [on : BOOLEAN, todo : SUBSET Events, targets : SUBSET Subs,
                           seen : [Events -> 0..MaxAttempts],
                           good : SUBSET Events, bad : SUBSET Events]]
    BY <1>1, <1>2 DEF TypeOK
  <2> QED BY <1>2, <2>1, <2>2 DEF TypeOK
<1>5. \A d \in Events : AttemptsOK(d)' /\ OwedOK(d)'
  BY <1>2, <1>3, <1>4 DEF TypeOK, AttemptsOK, OwedOK, Wanting, Active
<1>6. ASSUME NEW q \in Runs, NEW d \in Events PROVE ClaimOK(q, d)'
  <2>1. ClaimOK(q, d) /\ ClaimOK(r, e)
    BY <1>2
  <2>2. refused[d] \in Nat /\ refused'[d] \in Nat /\ run[q].seen[d] \in Nat
    BY <1>4, OutboxAssumption DEF TypeOK
  <2>3. CASE q # r
    <3>1. run'[q] = run[q]
      BY <1>1, <2>3 DEF TypeOK
    <3> QED BY <1>2, <1>3, <2>1, <2>2, <3>1 DEF ClaimOK, Claimed, Wanting
  <2>4. CASE q = r /\ Accepted(ok, Wanting(run[r].targets, e))
    <3>1. /\ run'[r].todo = run[r].todo \ {e} /\ run'[r].good = run[r].good \cup {e}
          /\ run'[r].bad = run[r].bad /\ run'[r].seen = run[r].seen
          /\ run'[r].targets = run[r].targets
      BY <1>1, <2>4 DEF TypeOK
    <3>2. owed[e] \subseteq accepted'[e]
      BY <1>1, <1>2, <2>1, <2>4 DEF ClaimOK, Accepted, TypeOK
    <3> QED BY <1>1, <1>2, <1>3, <2>1, <2>2, <2>4, <3>1, <3>2 DEF ClaimOK, Claimed, Wanting
  <2>5. CASE q = r /\ ~Accepted(ok, Wanting(run[r].targets, e))
    <3>1. /\ run'[r].todo = run[r].todo \ {e} /\ run'[r].bad = run[r].bad \cup {e}
          /\ run'[r].good = run[r].good /\ run'[r].seen = run[r].seen
          /\ run'[r].targets = run[r].targets
      BY <1>1, <2>5 DEF TypeOK
    <3>2. refused'[e] = refused[e] + 1
      BY <1>1, <1>2, <2>5 DEF TypeOK
    <3> QED BY <1>1, <1>2, <1>3, <2>1, <2>2, <2>5, <3>1, <3>2 DEF ClaimOK, Claimed, Wanting
  <2> QED BY <2>3, <2>4, <2>5
<1>7. DeliveredReachedAll' /\ GivesUpLate'
  BY <1>2, <1>3, <1>4, OutboxAssumption DEF TypeOK, DeliveredReachedAll, GivesUpLate
<1> QED BY <1>4, <1>5, <1>6, <1>7

(* A run that commits: over whatever other runs have committed meanwhile. *)
LEMMA SettleStep == ASSUME IInv, NEW r \in Runs, Settle(r) PROVE IInv'
<1> USE OutboxAssumption DEF IInv
<1> DEFINE made(e) == run[r].seen[e] + 1
           gone == {e \in run[r].bad : GiveUp(made(e))}
<1>1. /\ status' = [e \in Events |-> IF e \in run[r].good THEN "delivered"
                                     ELSE IF e \in gone THEN "failed" ELSE status[e]]
      /\ attempts' = [e \in Events |-> IF e \in run[r].bad THEN made(e) ELSE attempts[e]]
      /\ due' = [e \in Events |-> due[e] /\ e \notin run[r].bad \ gone]
      /\ run' = [run EXCEPT ![r] = Idle]
      /\ UNCHANGED <<sub, accepted, owed, refused, crashes>>
  BY DEF Settle, history
<1>2. \A e \in Events : /\ attempts[e] \in 0..MaxAttempts /\ refused[e] \in Nat
                        /\ run[r].seen[e] \in 0..MaxAttempts /\ ClaimOK(r, e)
  BY DEF TypeOK
<1>3. \A e \in run[r].bad : e \in Events /\ made(e) \in 1..MaxAttempts /\ made(e) <= refused[e]
  BY <1>2 DEF TypeOK, ClaimOK, Claimed
<1>4. TypeOK'
  <2>1. status' \in [Events -> {"none", "pending", "delivered", "failed"}]
    BY <1>1 DEF TypeOK
  <2>2. attempts' \in [Events -> 0..MaxAttempts]
    BY <1>1, <1>2, <1>3
  <2>3. due' \in [Events -> BOOLEAN]
    BY <1>1 DEF TypeOK
  <2>4. run' \in [Runs -> [on : BOOLEAN, todo : SUBSET Events, targets : SUBSET Subs,
                           seen : [Events -> 0..MaxAttempts],
                           good : SUBSET Events, bad : SUBSET Events]]
    BY <1>1 DEF TypeOK, Idle
  <2> QED BY <1>1, <2>1, <2>2, <2>3, <2>4 DEF TypeOK
<1>5. ASSUME NEW e \in Events PROVE AttemptsOK(e)' /\ OwedOK(e)'
  <2>1. attempts'[e] = IF e \in run[r].bad THEN made(e) ELSE attempts[e]
    BY <1>1
  <2>2. e \in gone <=> e \in run[r].bad /\ made(e) >= MaxAttempts
    BY DEF GiveUp
  <2>3. status'[e] \in {"none", "pending"} => e \notin gone /\ status[e] = status'[e]
    BY <1>1
  <2>4. AttemptsOK(e)'
    <3>1. AttemptsOK(e) /\ refused'[e] = refused[e]
      BY <1>1
    <3>2. CASE e \in run[r].bad
      <4>1. made(e) \in 1..MaxAttempts /\ made(e) <= refused[e]
        BY <1>3, <3>2
      <4>2. status'[e] \in {"none", "pending"} => made(e) < MaxAttempts
        BY <2>2, <2>3, <3>2, <4>1
      <4> HIDE DEF made
      <4> QED BY <2>1, <3>1, <3>2, <4>1, <4>2 DEF AttemptsOK
    <3>3. CASE e \notin run[r].bad
      BY <2>1, <2>3, <3>1, <3>3 DEF AttemptsOK
    <3> QED BY <3>2, <3>3
  <2>5. OwedOK(e) /\ UNCHANGED <<sub, owed>>
    BY <1>1
  <2>6. OwedOK(e)'
    BY ONLY <2>5 DEF OwedOK, Wanting, Active
  <2> QED BY <2>4, <2>6
<1>6. ASSUME NEW q \in Runs, NEW e \in Events PROVE ClaimOK(q, e)'
  <2>1. run'[q] = IF q = r THEN Idle ELSE run[q]
    BY <1>1 DEF TypeOK
  <2>2. status[e] # "none" => status'[e] # "none"
    BY <1>1
  <2>3. ClaimOK(q, e) /\ UNCHANGED <<accepted, owed, refused>>
    BY <1>1
  <2>4. CASE q = r
    BY <2>1, <2>4 DEF ClaimOK, Claimed, Idle
  <2>5. CASE q # r
    BY <2>1, <2>2, <2>3, <2>5 DEF ClaimOK, Claimed, Wanting
  <2> QED BY <2>4, <2>5
<1>7. ASSUME NEW e \in Events, status'[e] = "delivered" PROVE owed'[e] \subseteq accepted'[e]
  BY <1>1, <1>2, <1>7 DEF ClaimOK, DeliveredReachedAll
<1>8. ASSUME NEW e \in Events, status'[e] = "failed" PROVE refused'[e] >= MaxAttempts
  BY <1>1, <1>2, <1>3, <1>8 DEF GiveUp, GivesUpLate
<1> QED BY <1>4, <1>5, <1>6, <1>7, <1>8 DEF DeliveredReachedAll, GivesUpLate

LEMMA CrashStep == ASSUME IInv, NEW r \in Runs, Crash(r) PROVE IInv'
<1> USE DEF IInv, Crash, row, history
<1>1. TypeOK'
  BY OutboxAssumption DEF TypeOK, Idle
<1>2. ASSUME NEW q \in Runs, NEW e \in Events PROVE ClaimOK(q, e)'
  BY DEF TypeOK, ClaimOK, Claimed, Idle, Wanting
<1>3. \A e \in Events : AttemptsOK(e)' /\ OwedOK(e)'
  BY DEF AttemptsOK, OwedOK, Wanting, Active
<1> QED BY <1>1, <1>2, <1>3 DEF DeliveredReachedAll, GivesUpLate

LEMMA NextIInv == IInv /\ [Next]_vars => IInv'
<1> SUFFICES ASSUME IInv, [Next]_vars PROVE IInv'
  OBVIOUS
<1>1. ASSUME NEW e \in Events, Elapse(e) PROVE IInv'
  BY <1>1 DEF Elapse, history, IInv, TypeOK, AttemptsOK, OwedOK, ClaimOK, Claimed, Wanting,
         Active, DeliveredReachedAll, GivesUpLate
<1>2. CASE UNCHANGED vars
  BY <1>2 DEF vars, IInv, TypeOK, AttemptsOK, OwedOK, ClaimOK, Claimed, Wanting, Active,
         DeliveredReachedAll, GivesUpLate
<1> QED BY <1>1, <1>2, RecordStep, SubscriptionStep, StartStep, DeliverStep, SettleStep,
           CrashStep DEF Next, Run

-----------------------------------------------------------------------------
(* The strengthened invariant holds in every behaviour. *)
THEOREM InductiveInvariant == Spec => []IInv
BY InitIInv, NextIInv, PTL DEF Spec

(* Every variable keeps its type: no event is attempted more than
   OUTBOX_MAX_ATTEMPTS times, nor do overlapping runs lose the count. *)
THEOREM TypeCorrect == Spec => []TypeOK
<1>1. IInv => TypeOK
  BY DEF IInv
<1> QED BY <1>1, InductiveInvariant, PTL

(* An event counts as delivered only when everyone owed it has accepted it. *)
THEOREM DeliveredToAll == Spec => []DeliveredReachedAll
<1>1. IInv => DeliveredReachedAll
  BY DEF IInv
<1> QED BY <1>1, InductiveInvariant, PTL

(* An event is given up only after OUTBOX_MAX_ATTEMPTS rounds were refused. *)
THEOREM GivenUpLate == Spec => []GivesUpLate
<1>1. IInv => GivesUpLate
  BY DEF IInv
<1> QED BY <1>1, InductiveInvariant, PTL

(* An event that is settled and that no run holds is left alone for good. *)
LEMMA SettledStep ==
  ASSUME IInv, [Next]_vars, NEW e \in Events, status[e] \in {"delivered", "failed"}, ~Held(e)
  PROVE  /\ status'[e] = status[e] /\ attempts'[e] = attempts[e]
         /\ accepted'[e] = accepted[e] /\ ~Held(e)'
<1> USE DEF IInv, TypeOK, Held
<1>1. ASSUME NEW r \in Runs, Start(r) PROVE ~Held(e)' /\ UNCHANGED <<status, attempts, accepted>>
  <2>1. e \notin Batch
    BY DEF Batch, Due
  <2>2. \A q \in Runs : e \notin run'[q].todo \cup run'[q].good \cup run'[q].bad
    BY <1>1, <2>1 DEF Start, Idle
  <2>3. UNCHANGED <<status, attempts, accepted>>
    BY <1>1 DEF Start, row, history
  <2>4. ~Held(e)'
    BY <2>2 DEF Held
  <2> QED BY <2>3, <2>4
<1>2. ASSUME NEW r \in Runs, Deliver(r)
      PROVE  /\ ~Held(e)' /\ UNCHANGED <<status, attempts>>
             /\ accepted'[e] = accepted[e]
  <2>1. PICK d \in run[r].todo : \E ok \in SUBSET Wanting(run[r].targets, d) :
          /\ accepted' = [accepted EXCEPT ![d] = @ \cup ok]
          /\ \/ run' = [run EXCEPT ![r].todo = @ \ {d}, ![r].good = @ \cup {d}]
             \/ run' = [run EXCEPT ![r].todo = @ \ {d}, ![r].bad = @ \cup {d}]
    BY <1>2 DEF Deliver
  <2>2. d # e /\ accepted'[e] = accepted[e]
    BY <2>1
  <2>3. \A q \in Runs : /\ run'[q].todo \subseteq run[q].todo
                         /\ run'[q].good \subseteq run[q].good \cup {d}
                         /\ run'[q].bad \subseteq run[q].bad \cup {d}
    <3> SUFFICES ASSUME NEW q \in Runs
                 PROVE  /\ run'[q].todo \subseteq run[q].todo
                        /\ run'[q].good \subseteq run[q].good \cup {d}
                        /\ run'[q].bad \subseteq run[q].bad \cup {d}
      OBVIOUS
    <3>1. CASE run' = [run EXCEPT ![r].todo = @ \ {d}, ![r].good = @ \cup {d}]
      BY <3>1
    <3>2. CASE run' = [run EXCEPT ![r].todo = @ \ {d}, ![r].bad = @ \cup {d}]
      BY <3>2
    <3> QED BY <2>1, <3>1, <3>2
  <2>4. \A q \in Runs : e \notin run[q].todo /\ e \notin run[q].good /\ e \notin run[q].bad
    BY DEF Held
  <2>5. \A q \in Runs : e \notin run'[q].todo /\ e \notin run'[q].good /\ e \notin run'[q].bad
    BY ONLY <2>2, <2>3, <2>4
  <2>6. ~Held(e)'
    BY ONLY <2>5 DEF Held
  <2> QED BY <1>2, <2>2, <2>6 DEF Deliver, row
<1>3. ASSUME NEW r \in Runs, Settle(r)
      PROVE  /\ ~Held(e)' /\ status'[e] = status[e] /\ attempts'[e] = attempts[e]
             /\ UNCHANGED accepted
  BY <1>3 DEF Settle, Idle, history
<1>4. ASSUME NEW r \in Runs, Crash(r) PROVE ~Held(e)' /\ UNCHANGED <<status, attempts, accepted>>
  BY <1>4 DEF Crash, Idle, row, history
<1>5. ASSUME NEW d \in Events, Record(d) \/ Elapse(d)
      PROVE  /\ ~Held(e)' /\ status'[e] = status[e] /\ UNCHANGED <<attempts, accepted>>
  BY <1>5 DEF Record, Elapse, history
<1>6. ASSUME NEW s \in Subs, Subscribe(s) \/ Unsubscribe(s)
      PROVE  ~Held(e)' /\ UNCHANGED <<status, attempts, accepted>>
  BY <1>6 DEF Subscribe, Unsubscribe, row, history
<1>7. CASE UNCHANGED vars
  BY <1>7 DEF vars
<1> QED BY <1>1, <1>2, <1>3, <1>4, <1>5, <1>6, <1>7 DEF Next, Run

(* A settled event is final once the runs that claimed it have ended. *)
THEOREM SettledStaysSettled == Spec => SettledIsFinal
<1>1. IInv /\ [Next]_vars =>
        [\A e \in Events : status[e] \in {"delivered", "failed"} /\ ~Held(e) =>
           /\ status'[e] = status[e]
           /\ attempts'[e] = attempts[e]
           /\ accepted'[e] = accepted[e]
           /\ ~Held(e)']_vars
  BY SettledStep
<1> QED BY <1>1, InductiveInvariant, PTL DEF Spec, SettledIsFinal
==============================================================================
