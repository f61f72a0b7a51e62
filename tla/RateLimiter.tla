------------------------------ MODULE RateLimiter ------------------------------
(***************************************************************************)
(* The rate limiters of one endpoint (core/rate_limit.py): fixed windows   *)
(* counted in Redis, one per user and one per source address.              *)
(*                                                                         *)
(* A window is a key: INCR creates it, EXPIRE, sent when INCR answered 1,  *)
(* ends it.  They are two calls, other requests run between them, and      *)
(* either may fail or time out with its effect done.                       *)
(***************************************************************************)
EXTENDS Naturals, FiniteSets

CONSTANTS Users, Addresses,
          Callers,   \* who calls: users, and Nobody where the endpoint is public
          Slots,     \* slots serving requests
          Limit,     \* limit of the endpoint, per user
          Factor,    \* _IP_LIMIT_FACTOR; 1 for AnonRateLimiter, which has no users
          Modes,     \* values of MEDIA_RATE_LIMIT_FAILURE_MODE
          Failures,  \* TRUE: Redis and the processes may fail
          CountCap,  \* bound: no request arrives at a window this high
          Nobody

Windows == Users \cup Addresses

LimitOf(k) == IF k \in Users THEN Limit ELSE Limit * Factor

ASSUME LimiterAssumption ==
  /\ Users \cap Addresses = {} /\ Nobody \notin Windows
  /\ Callers \subseteq Users \cup {Nobody}
  /\ IsFiniteSet(Slots)
  /\ Limit \in Nat \ {0} /\ Factor \in Nat \ {0}
  /\ Modes \subseteq {"fail_open", "fail_closed"}
  /\ Failures \in BOOLEAN /\ CountCap \in Nat

VARIABLES mode,     \* the failure mode the service runs with
          count,    \* per window: its counter, 0 when Redis has no such key
          ttl,      \* windows whose key expires
          pc,       \* per slot: next call
          key,      \* per slot: the window it is at
          address,  \* per slot: where the request came from
          since,    \* history: per slot, windows of its own that have not
                    \* ended since it arrived
          within,   \* history: per window, requests let in from arrival on
          failed    \* history: a call or a process failed

redis == <<count, ttl>>
limiterVars == <<mode, count, ttl, pc, key, address, since, within, failed>>

LimiterTypeOK == /\ mode \in Modes
                 /\ count \in [Windows -> Nat]
                 /\ ttl \in SUBSET Windows
                 /\ pc \in [Slots -> {"idle", "incr", "expire"}]
                 /\ key \in [Slots -> Windows \cup {Nobody}]
                 /\ address \in [Slots -> Addresses \cup {Nobody}]
                 /\ since \in [Slots -> SUBSET Windows]
                 /\ within \in [Windows -> Nat]
                 /\ failed \in BOOLEAN

LimiterInit == /\ mode \in Modes
               /\ count = [k \in Windows |-> 0] /\ ttl = {}
               /\ pc = [s \in Slots |-> "idle"] /\ key = [s \in Slots |-> Nobody]
               /\ address = [s \in Slots |-> Nobody] /\ since = [s \in Slots |-> {}]
               /\ within = [k \in Windows |-> 0] /\ failed = FALSE

-----------------------------------------------------------------------------
(* One request                                                             *)

At(s, call, k) == pc' = [pc EXCEPT ![s] = call] /\ key' = [key EXCEPT ![s] = k]

(* The request is over for the limiter. *)
Done(s) == /\ At(s, "idle", Nobody)
           /\ address' = [address EXCEPT ![s] = Nobody]
           /\ since' = [since EXCEPT ![s] = {}]

(* 429 or 503 *)
Refuse(s) == Done(s) /\ UNCHANGED within

LetIn(s) == /\ Done(s)
            /\ within' = [k \in Windows |-> IF k \in since[s] THEN within[k] + 1 ELSE within[k]]

(* The window let it pass: on to the one of its address, if that is not it. *)
Pass(s) ==
  IF key[s] = address[s] THEN LetIn(s)
  ELSE At(s, "incr", address[s]) /\ UNCHANGED <<address, since, within>>

Arrive(s) ==
  /\ pc[s] = "idle"
  /\ \E u \in Callers, a \in Addresses :
       LET k == IF u = Nobody THEN a ELSE u
       IN  /\ \A w \in {k, a} : count[w] < CountCap /\ within[w] < CountCap
           /\ At(s, "incr", k)
           /\ address' = [address EXCEPT ![s] = a]
           /\ since' = [since EXCEPT ![s] = {k, a}]
  /\ UNCHANGED <<mode, redis, within, failed>>

Incremented(k) == count' = [count EXCEPT ![k] = @ + 1]

(* The request that makes it one too many is let in. *)
CountLate(s) ==
  LET k == key[s]
  IN  /\ pc[s] = "incr"
      /\ Incremented(k)
      /\ \/ count[k] = 0 /\ At(s, "expire", k) /\ UNCHANGED <<address, since, within>>
         \/ count[k] # 0 /\ count[k] <= LimitOf(k) /\ Pass(s)
         \/ count[k] # 0 /\ count[k] > LimitOf(k) /\ Refuse(s)
      /\ UNCHANGED <<mode, ttl, failed>>

(* _check_window up to EXPIRE, which follows when this call made the key. *)
Count(s) ==
  LET k == key[s]
  IN  /\ pc[s] = "incr"
      /\ Incremented(k)
      /\ \/ count[k] = 0 /\ At(s, "expire", k) /\ UNCHANGED <<address, since, within>>
         \/ count[k] # 0 /\ count[k] + 1 <= LimitOf(k) /\ Pass(s)
         \/ count[k] # 0 /\ count[k] + 1 > LimitOf(k) /\ Refuse(s)
      /\ UNCHANGED <<mode, ttl, failed>>

(* EXPIRE does nothing to a key that is gone. *)
Expires(k) == ttl' = IF count[k] > 0 THEN ttl \cup {k} ELSE ttl

(* The window of the address is left without an end. *)
EndUsersOnly(s) ==
  /\ pc[s] = "expire"
  /\ ttl' = IF count[key[s]] > 0 /\ key[s] \in Users THEN ttl \cup {key[s]} ELSE ttl
  /\ Pass(s)
  /\ UNCHANGED <<mode, count, failed>>

(* The count was 1, and no limit is below it. *)
SetEnd(s) ==
  /\ pc[s] = "expire"
  /\ Expires(key[s])
  /\ Pass(s)
  /\ UNCHANGED <<mode, count, failed>>

(* _handle_redis_error: 503, or the rest of the checks is skipped.  What timed
   out may have been done. *)
CallFails(s) ==
  /\ Failures /\ pc[s] # "idle" /\ failed' = TRUE
  /\ \/ UNCHANGED redis
     \/ pc[s] = "incr" /\ Incremented(key[s]) /\ UNCHANGED ttl
     \/ pc[s] = "expire" /\ Expires(key[s]) /\ UNCHANGED count
  /\ \/ mode = "fail_open" /\ LetIn(s)
     \/ mode = "fail_closed" /\ Refuse(s)
  /\ UNCHANGED mode

(* The process dies. *)
Crash(s) ==
  /\ Failures /\ pc[s] # "idle" /\ failed' = TRUE
  /\ Refuse(s)
  /\ UNCHANGED <<mode, redis>>

-----------------------------------------------------------------------------
(* Redis                                                                   *)

End(K) == /\ count' = [k \in Windows |-> IF k \in K THEN 0 ELSE count[k]]
          /\ ttl' = ttl \ K
          /\ since' = [s \in Slots |-> since[s] \ K]
          /\ within' = [k \in Windows |-> IF k \in K THEN 0 ELSE within[k]]
          /\ UNCHANGED <<mode, pc, key, address>>

WindowElapses(k) == k \in ttl /\ End({k}) /\ UNCHANGED failed

(* It comes back without its keys. *)
RedisRestarts == Failures /\ (\E k \in Windows : count[k] > 0) /\ End(Windows) /\ failed' = TRUE

-----------------------------------------------------------------------------
Request(s) == Arrive(s) \/ Count(s) \/ SetEnd(s) \/ CallFails(s) \/ Crash(s)

LimiterNext == (\E s \in Slots : Request(s)) \/ (\E k \in Windows : WindowElapses(k)) \/ RedisRestarts

LimiterSpec == LimiterInit /\ [][LimiterNext]_limiterVars

(* Calls answer and keys expire. *)
LimiterFairSpec == /\ LimiterSpec
                   /\ \A s \in Slots : WF_limiterVars(Count(s) \/ SetEnd(s))
                   /\ \A k \in Windows : WF_limiterVars(WindowElapses(k))

-----------------------------------------------------------------------------
(* Properties                                                              *)

(* Fixed windows hold (rate_limit.py:78-85): while a window lasts no more
   requests get in than its limit, however they overlap, from one user or one
   address; with fail_closed whatever fails (:91-93), with fail_open as long as
   nothing does. *)
WindowHolds ==
  mode = "fail_closed" \/ ~failed => \A k \in Windows : within[k] <= LimitOf(k)

(* A window ends (rate_limit.py:49-50): whoever is over a limit is let in again
   later, as long as no call and no process fails. *)
WindowsEnd == \A k \in Windows : count[k] > 0 ~> (count[k] = 0 \/ failed)

(* "a Redis outage never blocks media traffic" (rate_limit.py:89): with
   fail_open a window ends whatever failed. *)
OutageNeverBlocks == mode = "fail_open" => \A k \in Windows : count[k] > 0 ~> count[k] = 0
=============================================================================
