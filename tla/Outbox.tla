-------------------------------- MODULE Outbox --------------------------------
(***************************************************************************)
(* The transactional outbox: events staged by state changes, the webhook   *)
(* subscriptions, and the delivery runs that POST due events to the        *)
(* subscribers (core/outbox.py, controllers/outbox.py, AdminController).   *)
(*                                                                         *)
(* A run claims a batch without locking it, POSTs event by event, and      *)
(* settles the whole batch in one commit at the end: when the worker stops *)
(* before it, everything the run POSTed is POSTed again by a later run.    *)
(*                                                                         *)
(* Events are numbered in the order of created_at.  The backoff delay is   *)
(* abstracted to "not due for a while": Elapse ends it at any time.        *)
(***************************************************************************)
EXTENDS Naturals, FiniteSets

CONSTANTS Events,       \* event ids, 1..n
          Subs,         \* webhook subscriptions
          Wants,        \* the events each subscription's filter matches
          Runs,         \* delivery runs that may overlap
          BatchLimit,   \* OUTBOX_BATCH_LIMIT
          MaxAttempts,  \* OUTBOX_MAX_ATTEMPTS
          MaxCrashes    \* bound on worker stops and failed commits

ASSUME OutboxAssumption ==
  /\ Events \subseteq Nat /\ IsFiniteSet(Events)
  /\ Wants \in [Subs -> SUBSET Events]
  /\ BatchLimit \in Nat \ {0} /\ MaxAttempts \in Nat \ {0}
  /\ MaxCrashes \in Nat

VARIABLES status,    \* outbox_event.status, "none" before the row is in
          attempts,  \* outbox_event.attempts
          due,       \* next_attempt_at has passed
          sub,       \* subscription row: "new", "active" or "deleted"
          run,       \* per run: what it holds between claim and commit
          accepted,  \* history: who answered 2xx, per event
          owed,      \* history: who was there when the event was staged, and stayed
          refused,   \* history: rounds in which some target did not accept
          crashes    \* crashes so far

vars == <<status, attempts, due, sub, run, accepted, owed, refused, crashes>>
row == <<status, attempts, due>>
history == <<accepted, owed, refused>>

Idle == [on |-> FALSE, todo |-> {}, targets |-> {},
         seen |-> [e \in Events |-> 0], good |-> {}, bad |-> {}]

TypeOK ==
  /\ status \in [Events -> {"none", "pending", "delivered", "failed"}]
  /\ attempts \in [Events -> 0..MaxAttempts]
  /\ due \in [Events -> BOOLEAN]
  /\ sub \in [Subs -> {"new", "active", "deleted"}]
  /\ run \in [Runs -> [on : BOOLEAN, todo : SUBSET Events, targets : SUBSET Subs,
                       seen : [Events -> 0..MaxAttempts],
                       good : SUBSET Events, bad : SUBSET Events]]
  /\ accepted \in [Events -> SUBSET Subs] /\ owed \in [Events -> SUBSET Subs]
  /\ refused \in [Events -> Nat]
  /\ crashes \in 0..MaxCrashes

Init ==
  /\ status = [e \in Events |-> "none"]
  /\ attempts = [e \in Events |-> 0]
  /\ due = [e \in Events |-> TRUE]
  /\ sub = [s \in Subs |-> "new"]
  /\ run = [r \in Runs |-> Idle]
  /\ accepted = [e \in Events |-> {}] /\ owed = [e \in Events |-> {}]
  /\ refused = [e \in Events |-> 0]
  /\ crashes = 0

Active == {s \in Subs : sub[s] = "active"}
Wanting(targets, e) == {s \in targets : e \in Wants[s]}

-----------------------------------------------------------------------------
(* record_event: the row is committed PENDING and due, with the change it
   tells of. *)
Record(e) ==
  /\ status[e] = "none"
  /\ \A d \in Events : d < e => status[d] # "none"
  /\ status' = [status EXCEPT ![e] = "pending"]
  /\ owed' = [owed EXCEPT ![e] = Wanting(Active, e)]
  /\ UNCHANGED <<attempts, due, sub, run, accepted, refused, crashes>>

(* create_subscription *)
Subscribe(s) ==
  /\ sub[s] = "new"
  /\ sub' = [sub EXCEPT ![s] = "active"]
  /\ UNCHANGED <<row, run, history, crashes>>

(* delete_subscription *)
Unsubscribe(s) ==
  /\ sub[s] = "active"
  /\ sub' = [sub EXCEPT ![s] = "deleted"]
  /\ owed' = [e \in Events |-> owed[e] \ {s}]
  /\ UNCHANGED <<row, run, accepted, refused, crashes>>

Elapse(e) ==
  /\ status[e] = "pending" /\ ~due[e]
  /\ due' = [due EXCEPT ![e] = TRUE]
  /\ UNCHANGED <<status, attempts, sub, run, history, crashes>>

-----------------------------------------------------------------------------
(* deliver_pending                                                         *)

(* Settled events are not left out. *)
DueWhatever == {e \in Events : status[e] # "none" /\ due[e]}

Due == {e \in Events : status[e] = "pending" /\ due[e]}

(* The BatchLimit oldest of the due events. *)
Batch == {e \in Due : Cardinality({d \in Due : d < e}) < BatchLimit}

(* A run returns at once when nobody listens. *)
StartIfHeard(r) ==
  /\ ~run[r].on /\ Due # {} /\ Active # {}
  /\ run' = [run EXCEPT ![r] = [Idle EXCEPT !.on = TRUE, !.todo = Batch,
                                            !.targets = Active, !.seen = attempts]]
  /\ UNCHANGED <<row, sub, history, crashes>>

(* _claim_due, _active_subscriptions *)
Start(r) ==
  /\ ~run[r].on /\ Due # {}
  /\ run' = [run EXCEPT ![r] = [Idle EXCEPT !.on = TRUE, !.todo = Batch,
                                            !.targets = Active, !.seen = attempts]]
  /\ UNCHANGED <<row, sub, history, crashes>>

(* One acceptance is enough. *)
AnyAccepted(ok, wanting) == wanting = {} \/ ok # {}

(* _deliver_event: every target must accept, and none is no obstacle. *)
Accepted(ok, wanting) == ok = wanting

(* The oldest claimed event is POSTed to every target, whatever the others
   answer; ok is who answers 2xx. *)
Deliver(r) ==
  /\ \E e \in run[r].todo :
       /\ \A d \in run[r].todo : e <= d
       /\ LET wanting == Wanting(run[r].targets, e)
          IN  \E ok \in SUBSET wanting :
                /\ accepted' = [accepted EXCEPT ![e] = @ \cup ok]
                /\ IF Accepted(ok, wanting)
                     THEN /\ run' = [run EXCEPT ![r].todo = @ \ {e}, ![r].good = @ \cup {e}]
                          /\ UNCHANGED refused
                     ELSE /\ run' = [run EXCEPT ![r].todo = @ \ {e}, ![r].bad = @ \cup {e}]
                          /\ refused' = [refused EXCEPT ![e] = @ + 1]
  /\ UNCHANGED <<row, sub, owed, crashes>>

(* The last attempt is not made. *)
GiveUpEarly(n) == n + 1 >= MaxAttempts

(* The guard against poison messages, after n refused attempts. *)
GiveUp(n) == n >= MaxAttempts

(* The batch is settled in one commit: of each row the columns set are written,
   over whatever another run has committed since the claim. *)
Settle(r) ==
  LET made(e) == run[r].seen[e] + 1
      gone == {e \in run[r].bad : GiveUp(made(e))}
  IN /\ run[r].on /\ run[r].todo = {}
     /\ status' = [e \in Events |-> IF e \in run[r].good THEN "delivered"
                                    ELSE IF e \in gone THEN "failed" ELSE status[e]]
     /\ attempts' = [e \in Events |-> IF e \in run[r].bad THEN made(e) ELSE attempts[e]]
     /\ due' = [e \in Events |-> due[e] /\ e \notin run[r].bad \ gone]
     /\ run' = [run EXCEPT ![r] = Idle]
     /\ UNCHANGED <<sub, history, crashes>>

(* The worker stops, or the commit fails: nothing of the run is kept. *)
Crash(r) ==
  /\ run[r].on /\ crashes < MaxCrashes
  /\ crashes' = crashes + 1
  /\ run' = [run EXCEPT ![r] = Idle]
  /\ UNCHANGED <<row, sub, history>>

-----------------------------------------------------------------------------
Run(r) == Start(r) \/ Deliver(r) \/ Settle(r)

Next == \/ \E e \in Events : Record(e) \/ Elapse(e)
        \/ \E s \in Subs : Subscribe(s) \/ Unsubscribe(s)
        \/ \E r \in Runs : Run(r) \/ Crash(r)

Spec == Init /\ [][Next]_vars

(* Time passes, the cron comes round every minute, and a run goes on to its
   commit unless it is stopped. *)
FairSpec == /\ Spec
            /\ \A e \in Events : WF_vars(Elapse(e))
            /\ \A r \in Runs : WF_vars(Run(r))

-----------------------------------------------------------------------------
(* Properties                                                              *)

(* README, at-least-once: an event counts as delivered only when everyone who
   subscribed to it before it was recorded, and still does, accepted it. *)
DeliveredReachedAll ==
  \A e \in Events : status[e] = "delivered" => owed[e] \subseteq accepted[e]

(* deliver_pending, the poison-message guard: an event is given up only after
   OUTBOX_MAX_ATTEMPTS rounds were refused, however often runs were cut. *)
GivesUpLate ==
  \A e \in Events : status[e] = "failed" => refused[e] >= MaxAttempts

Held(e) == \E r \in Runs : e \in run[r].todo \cup run[r].good \cup run[r].bad

(* A settled event is final: once the runs that claimed it have ended, no later
   run POSTs it again or changes it. *)
SettledIsFinal ==
  [][\A e \in Events : status[e] \in {"delivered", "failed"} /\ ~Held(e) =>
       /\ status'[e] = status[e]
       /\ attempts'[e] = attempts[e]
       /\ accepted'[e] = accepted[e]
       /\ ~Held(e)']_vars

(* _claim_due takes the oldest due events first and a bounded batch; events
   that are refused again and again do not keep the others from being settled. *)
EventsSettle == \A e \in Events :
  status[e] = "pending" ~> status[e] \in {"delivered", "failed"}
==============================================================================
