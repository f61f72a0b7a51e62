---------------------------- MODULE GenerateProofs ----------------------------
(***************************************************************************)
(* The route variants:generate: the limiter in front of it and the jobs it *)
(* starts.  The two share no state, and each is proved by itself.  A       *)
(* window lets no more requests in than its limit, for any users, any      *)
(* addresses and any finite number of requests at once.  The variants and  *)
(* their bytes stay together for any names, jobs, deletes and purges, all  *)
(* overlapping, wherever no delete or purge met a job at one name.         *)
(***************************************************************************)
EXTENDS RateLimiter, VariantJobs, FiniteSetTheorems, TLAPS

-----------------------------------------------------------------------------
(* The limiter: what a window has let in or is about to                    *)

(* What a request carries at the step it has reached. *)
CarriesOK(s) ==
  pc[s] # "idle" => /\ key[s] \in Windows /\ address[s] \in Addresses
                    /\ key[s] # address[s] => since[s] \subseteq {key[s], address[s]}

(* The requests on their way that this life of the window has counted. *)
Held(k) == {s \in Slots : /\ pc[s] # "idle" /\ k \in since[s]
                          /\ \/ pc[s] = "expire" /\ key[s] = k
                             \/ key[s] = address[s] /\ key[s] # k}

(* They and those let in are within the counter and within the limit. *)
WithinCount(k) == /\ within[k] + Cardinality(Held(k)) <= count[k]
                  /\ within[k] + Cardinality(Held(k)) <= LimitOf(k)

LimiterInv == /\ LimiterTypeOK
              /\ \A s \in Slots : CarriesOK(s)
              /\ mode = "fail_closed" \/ ~failed => \A k \in Windows : WithinCount(k)

-----------------------------------------------------------------------------
LEMMA LimitsPositive == \A k \in Windows : LimitOf(k) \in Nat /\ LimitOf(k) >= 1
<1>1. Limit * Factor \in Nat /\ Limit * Factor >= 1
  BY LimiterAssumption
<1> QED BY <1>1, LimiterAssumption DEF LimitOf

(* Those held are finitely many, now and after a step. *)
LEMMA HeldFinite ==
  ASSUME NEW k
  PROVE  /\ IsFiniteSet(Held(k)) /\ Cardinality(Held(k)) \in Nat
         /\ IsFiniteSet(Held(k)') /\ Cardinality(Held(k)') \in Nat
BY LimiterAssumption, FS_Subset, FS_CardinalityType DEF Held

(* A step of one request holds or frees that request only. *)
LEMMA OneMoves ==
  ASSUME NEW s \in Slots, NEW k,
         \A q \in Slots \ {s} : /\ pc'[q] = pc[q] /\ key'[q] = key[q]
                                /\ address'[q] = address[q] /\ since'[q] = since[q]
  PROVE  Cardinality(Held(k)') = Cardinality(Held(k))
           + (IF s \in Held(k)' THEN 1 ELSE 0) - (IF s \in Held(k) THEN 1 ELSE 0)
<1> DEFINE others == Held(k) \ {s}
<1>1. Held(k)' \ {s} = others
  BY DEF Held
<1>2. IsFiniteSet(others) /\ Cardinality(others) \in Nat
  BY HeldFinite, FS_RemoveElement, FS_CardinalityType
<1>3. Cardinality(Held(k)) = Cardinality(others) + (IF s \in Held(k) THEN 1 ELSE 0)
  <2>1. CASE s \in Held(k)
    <3>1. Cardinality(others) = Cardinality(Held(k)) - 1
      BY <2>1, HeldFinite, FS_RemoveElement
    <3> QED BY <2>1, <3>1, HeldFinite
  <2>2. CASE s \notin Held(k)
    <3>1. others = Held(k)
      BY <2>2
    <3> QED BY <2>2, <3>1, HeldFinite
  <2> QED BY <2>1, <2>2
<1>4. Cardinality(Held(k)') = Cardinality(others) + (IF s \in Held(k)' THEN 1 ELSE 0)
  <2>1. CASE s \in Held(k)'
    <3>1. Cardinality(others) = Cardinality(Held(k)') - 1
      BY <1>1, <2>1, HeldFinite, FS_RemoveElement
    <3> QED BY <2>1, <3>1, HeldFinite
  <2>2. CASE s \notin Held(k)'
    <3>1. Held(k)' = others
      BY <1>1, <2>2
    <3>2. Cardinality(Held(k)') = Cardinality(others)
      BY <3>1
    <3> QED BY <1>2, <2>2, <3>2
  <2> QED BY <2>1, <2>2
<1> HIDE DEF others
<1> QED BY <1>2, <1>3, <1>4

(* What a step of one request leaves of the other ones. *)
LEMMA OthersStay ==
  ASSUME LimiterTypeOK, NEW s \in Slots,
         Arrive(s) \/ Count(s) \/ SetEnd(s) \/ Refuse(s)
  PROVE  \A q \in Slots \ {s} : /\ pc'[q] = pc[q] /\ key'[q] = key[q]
                                /\ address'[q] = address[q] /\ since'[q] = since[q]
<1> USE DEF LimiterTypeOK, At, Done
<1>1. CASE Arrive(s)
  BY <1>1 DEF Arrive
<1>2. CASE Count(s)
  BY <1>2 DEF Count, Pass, LetIn, Refuse
<1>3. CASE SetEnd(s)
  BY <1>3 DEF SetEnd, Pass, LetIn
<1>4. CASE Refuse(s)
  BY <1>4 DEF Refuse
<1> QED BY <1>1, <1>2, <1>3, <1>4

(* An answer that lets nobody in. *)
LEMMA RefuseKeeps ==
  ASSUME LimiterInv, NEW s \in Slots, Refuse(s), NEW k \in Windows, WithinCount(k),
         count'[k] \in Nat, count'[k] >= count[k]
  PROVE  WithinCount(k)'
<1>1. s \notin Held(k)'
  BY DEF LimiterInv, LimiterTypeOK, Refuse, Done, At, Held
<1>2. Cardinality(Held(k)') <= Cardinality(Held(k))
  BY <1>1, OthersStay, OneMoves, HeldFinite DEF LimiterInv
<1>3. within'[k] = within[k] /\ within[k] \in Nat /\ count[k] \in Nat
  BY DEF LimiterInv, LimiterTypeOK, Refuse
<1> QED BY <1>2, <1>3, HeldFinite, LimitsPositive DEF WithinCount, LimitOf

(* A window that has counted the request holds it, or lets it in. *)
LEMMA PassMoves ==
  ASSUME LimiterInv, NEW s \in Slots, pc[s] # "idle", Pass(s), NEW k \in Windows
  PROVE  within'[k] + Cardinality(Held(k)') = within[k] + Cardinality(Held(k))
           + (IF k = key[s] /\ k \in since[s] /\ pc[s] # "expire" THEN 1 ELSE 0)
<1> USE DEF LimiterInv, LimiterTypeOK, CarriesOK, Pass, At, Done, LetIn
<1>1. \A q \in Slots \ {s} : /\ pc'[q] = pc[q] /\ key'[q] = key[q]
                             /\ address'[q] = address[q] /\ since'[q] = since[q]
  OBVIOUS
<1>2. Cardinality(Held(k)') = Cardinality(Held(k))
        + (IF s \in Held(k)' THEN 1 ELSE 0) - (IF s \in Held(k) THEN 1 ELSE 0)
  BY <1>1, OneMoves
<1>3. within[k] \in Nat
  OBVIOUS
<1>4. CASE key[s] = address[s]
  <2>1. s \notin Held(k)'
    BY <1>4 DEF Held
  <2>2. within'[k] = within[k] + (IF k \in since[s] THEN 1 ELSE 0)
    BY <1>3, <1>4
  <2>3. s \in Held(k) <=> k \in since[s] /\ (k = key[s] => pc[s] = "expire")
    BY <1>4 DEF Held
  <2> QED BY <1>2, <1>3, <2>1, <2>2, <2>3, HeldFinite
<1>5. CASE key[s] # address[s]
  <2>1. within'[k] = within[k]
    BY <1>5
  <2>2. s \in Held(k) <=> pc[s] = "expire" /\ key[s] = k /\ k \in since[s]
    BY <1>5 DEF Held
  <2>3. s \in Held(k)' <=> key[s] = k /\ k \in since[s]
    BY <1>5 DEF Held
  <2> QED BY <1>2, <1>3, <2>1, <2>2, <2>3, HeldFinite
<1> QED BY <1>4, <1>5

-----------------------------------------------------------------------------
LEMMA LimiterStarts == LimiterInit => LimiterInv
<1> SUFFICES ASSUME LimiterInit PROVE LimiterInv
  OBVIOUS
<1>1. LimiterTypeOK /\ \A s \in Slots : CarriesOK(s)
  BY DEF LimiterInit, LimiterTypeOK, CarriesOK
<1>2. ASSUME NEW k \in Windows PROVE WithinCount(k)
  <2>1. Held(k) = {}
    BY DEF LimiterInit, Held
  <2>2. Cardinality(Held(k)) = 0
    BY <2>1, FS_EmptySet
  <2> QED BY <2>2, LimitsPositive DEF LimiterInit, WithinCount
<1> QED BY <1>1, <1>2 DEF LimiterInv

LEMMA LimiterTypeStep == LimiterInv /\ [LimiterNext]_limiterVars => LimiterTypeOK'
<1> SUFFICES ASSUME LimiterInv, [LimiterNext]_limiterVars PROVE LimiterTypeOK'
  OBVIOUS
<1> USE LimiterAssumption DEF LimiterInv, LimiterTypeOK, CarriesOK, At, Done, LetIn, Refuse, Pass,
        Incremented, Expires, redis
<1>1. ASSUME NEW s \in Slots, Arrive(s) PROVE LimiterTypeOK'
  BY <1>1 DEF Arrive, Windows
<1>2. ASSUME NEW s \in Slots, Count(s) PROVE LimiterTypeOK'
  <2>1. key[s] \in Windows /\ address[s] \in Windows
    BY <1>2 DEF Count, Windows
  <2>2. count' \in [Windows -> Nat]
    BY <1>2, <2>1 DEF Count
  <2>3. pc' \in [Slots -> {"idle", "incr", "expire"}] /\ within' \in [Windows -> Nat]
    BY <1>2 DEF Count
  <2>4. key' \in [Slots -> Windows \cup {Nobody}]
    BY <1>2, <2>1 DEF Count
  <2>5. since' \in [Slots -> SUBSET Windows] /\ address' \in [Slots -> Addresses \cup {Nobody}]
    BY <1>2 DEF Count
  <2> QED BY <1>2, <2>2, <2>3, <2>4, <2>5 DEF Count
<1>3. ASSUME NEW s \in Slots, SetEnd(s) PROVE LimiterTypeOK'
  <2>1. key[s] \in Windows /\ address[s] \in Windows
    BY <1>3 DEF SetEnd, Windows
  <2> QED BY <1>3, <2>1 DEF SetEnd
<1>4. ASSUME NEW s \in Slots, CallFails(s) PROVE LimiterTypeOK'
  <2>1. key[s] \in Windows
    BY <1>4 DEF CallFails
  <2>2. count' \in [Windows -> Nat] /\ ttl' \in SUBSET Windows
    BY <1>4, <2>1 DEF CallFails
  <2> QED BY <1>4, <2>2 DEF CallFails
<1>5. ASSUME NEW s \in Slots, Crash(s) PROVE LimiterTypeOK'
  BY <1>5 DEF Crash
<1>6. ASSUME NEW k \in Windows, WindowElapses(k) PROVE LimiterTypeOK'
  BY <1>6 DEF WindowElapses, End
<1>7. CASE RedisRestarts
  BY <1>7 DEF RedisRestarts, End
<1>8. CASE UNCHANGED limiterVars
  BY <1>8 DEF limiterVars
<1> QED BY <1>1, <1>2, <1>3, <1>4, <1>5, <1>6, <1>7, <1>8 DEF LimiterNext, Request

LEMMA CarryStep == LimiterInv /\ [LimiterNext]_limiterVars => \A s \in Slots : CarriesOK(s)'
<1> SUFFICES ASSUME LimiterInv, [LimiterNext]_limiterVars, NEW q \in Slots PROVE CarriesOK(q)'
  OBVIOUS
<1> USE LimiterAssumption DEF LimiterInv, LimiterTypeOK, CarriesOK, At, Done, LetIn, Refuse, Pass
<1>1. ASSUME NEW s \in Slots, Arrive(s) PROVE CarriesOK(q)'
  BY <1>1 DEF Arrive, Windows
<1>2. ASSUME NEW s \in Slots, Count(s) PROVE CarriesOK(q)'
  BY <1>2 DEF Count, Windows
<1>3. ASSUME NEW s \in Slots, SetEnd(s) PROVE CarriesOK(q)'
  BY <1>3 DEF SetEnd, Windows
<1>4. ASSUME NEW s \in Slots, CallFails(s) PROVE CarriesOK(q)'
  BY <1>4 DEF CallFails
<1>5. ASSUME NEW s \in Slots, Crash(s) PROVE CarriesOK(q)'
  BY <1>5 DEF Crash
<1>6. ASSUME NEW K \in SUBSET Windows, End(K) PROVE CarriesOK(q)'
  BY <1>6 DEF End
<1>7. CASE UNCHANGED limiterVars
  BY <1>7 DEF limiterVars
<1> QED BY <1>1, <1>2, <1>3, <1>4, <1>5, <1>6, <1>7 DEF LimiterNext, Request, WindowElapses, RedisRestarts

(* A window that ends holds nobody, and the other ones hold whom they held. *)
LEMMA EndStep ==
  ASSUME LimiterInv, NEW K \in SUBSET Windows, End(K), NEW k \in Windows, WithinCount(k)
  PROVE  WithinCount(k)'
<1> USE DEF LimiterInv, LimiterTypeOK, End
<1>1. CASE k \in K
  <2>1. Held(k)' = {}
    BY <1>1 DEF Held
  <2>2. Cardinality(Held(k)') = 0
    BY <2>1, FS_EmptySet
  <2> QED BY <1>1, <2>2, LimitsPositive DEF WithinCount, LimitOf
<1>2. CASE k \notin K
  <2>1. Held(k)' = Held(k)
    BY <1>2 DEF Held
  <2>2. Cardinality(Held(k)') = Cardinality(Held(k)) /\ within'[k] = within[k] /\ count'[k] = count[k]
    BY <1>2, <2>1
  <2> QED BY <2>2 DEF WithinCount, LimitOf
<1> QED BY <1>1, <1>2

LEMMA CountStep ==
  ASSUME LimiterInv, NEW s \in Slots, Count(s), NEW k \in Windows, WithinCount(k)
  PROVE  WithinCount(k)'
<1> USE DEF LimiterInv, LimiterTypeOK
<1>1. /\ key[s] \in Windows /\ pc[s] = "incr" /\ within[k] \in Nat /\ count[k] \in Nat
      /\ count'[k] = count[k] + (IF k = key[s] THEN 1 ELSE 0)
      /\ LimitOf(k)' = LimitOf(k)
  BY DEF CarriesOK, Count, Incremented, LimitOf
<1>2. CASE count[key[s]] = 0 /\ At(s, "expire", key[s]) /\ UNCHANGED <<address, since, within>>
  <2>1. Cardinality(Held(k)') = Cardinality(Held(k))
          + (IF s \in Held(k)' THEN 1 ELSE 0) - (IF s \in Held(k) THEN 1 ELSE 0)
    BY OthersStay, OneMoves
  <2>2. s \in Held(k)' => s \in Held(k) \/ k = key[s]
    BY <1>1, <1>2 DEF Held, At
  <2>3. within'[k] = within[k]
    BY <1>2
  <2> QED BY <1>1, <1>2, <2>1, <2>2, <2>3, HeldFinite, LimitsPositive DEF WithinCount
<1>3. CASE count[key[s]] + 1 <= LimitOf(key[s]) /\ Pass(s)
  <2>1. within'[k] + Cardinality(Held(k)') <= within[k] + Cardinality(Held(k))
          + (IF k = key[s] THEN 1 ELSE 0)
    BY <1>1, <1>3, PassMoves, HeldFinite
  <2>2. within'[k] \in Nat
    BY <1>3 DEF Pass, LetIn
  <2> QED BY <1>1, <1>3, <2>1, <2>2, HeldFinite, LimitsPositive DEF WithinCount
<1>4. CASE Refuse(s)
  BY <1>1, <1>4, RefuseKeeps
<1> QED BY <1>2, <1>3, <1>4 DEF Count

LEMMA LimiterStep == LimiterInv /\ [LimiterNext]_limiterVars => LimiterInv'
<1> SUFFICES ASSUME LimiterInv, [LimiterNext]_limiterVars PROVE LimiterInv'
  OBVIOUS
<1>1. LimiterTypeOK' /\ \A s \in Slots : CarriesOK(s)'
  BY LimiterTypeStep, CarryStep
<1>2. ASSUME mode' = "fail_closed" \/ ~failed', NEW k \in Windows PROVE WithinCount(k)'
  <2>1. mode' = mode /\ (failed => failed')
    BY DEF LimiterNext, limiterVars, Request, Arrive, Count, SetEnd, CallFails, Crash, WindowElapses,
           RedisRestarts, End, LimiterInv, LimiterTypeOK
  <2>2. WithinCount(k) /\ within[k] \in Nat /\ count[k] \in Nat
    BY <1>2, <2>1 DEF LimiterInv, LimiterTypeOK
  <2>3. ASSUME NEW s \in Slots, Arrive(s) PROVE WithinCount(k)'
    <3>1. s \notin Held(k) /\ s \notin Held(k)'
      BY <2>3, LimiterAssumption DEF Arrive, At, Held, LimiterInv, LimiterTypeOK, Windows
    <3>2. Cardinality(Held(k)') = Cardinality(Held(k))
      BY <2>3, <3>1, OthersStay, OneMoves, HeldFinite DEF LimiterInv
    <3> QED BY <2>2, <2>3, <3>2 DEF Arrive, redis, WithinCount, LimitOf
  <2>4. ASSUME NEW s \in Slots, Count(s) PROVE WithinCount(k)'
    BY <2>2, <2>4, CountStep
  <2>5. ASSUME NEW s \in Slots, SetEnd(s) PROVE WithinCount(k)'
    <3>1. within'[k] + Cardinality(Held(k)') = within[k] + Cardinality(Held(k))
      BY <2>2, <2>5, PassMoves, HeldFinite DEF SetEnd
    <3> QED BY <2>2, <2>5, <3>1 DEF SetEnd, WithinCount, LimitOf
  <2>6. ASSUME NEW s \in Slots, CallFails(s) \/ Crash(s) PROVE WithinCount(k)'
    <3>1. failed' /\ mode = "fail_closed"
      BY <1>2, <2>1, <2>6 DEF CallFails, Crash
    <3>2. Refuse(s)
      BY <2>6, <3>1 DEF CallFails, Crash
    <3>3. count'[k] \in Nat /\ count'[k] >= count[k]
      BY <2>2, <2>6 DEF CallFails, Crash, redis, Incremented, LimiterInv, LimiterTypeOK
    <3> QED BY <2>2, <3>2, <3>3, RefuseKeeps
  <2>7. ASSUME NEW K \in SUBSET Windows, End(K) PROVE WithinCount(k)'
    BY <2>2, <2>7, EndStep
  <2>8. CASE UNCHANGED limiterVars
    <3>1. Held(k)' = Held(k)
      BY <2>8 DEF limiterVars, Held
    <3>2. Cardinality(Held(k)') = Cardinality(Held(k))
      BY <3>1
    <3> QED BY <2>2, <2>8, <3>2 DEF limiterVars, WithinCount, LimitOf
  <2> QED BY <2>3, <2>4, <2>5, <2>6, <2>7, <2>8 DEF LimiterNext, Request, WindowElapses, RedisRestarts
<1> QED BY <1>1, <1>2 DEF LimiterInv

-----------------------------------------------------------------------------
(* The strengthened invariant holds in every behaviour. *)
THEOREM LimiterInvariant == LimiterSpec => []LimiterInv
BY LimiterStarts, LimiterStep, PTL DEF LimiterSpec

(* Every variable keeps its type. *)
THEOREM LimiterTypes == LimiterSpec => []LimiterTypeOK
<1>1. LimiterInv => LimiterTypeOK
  BY DEF LimiterInv
<1> QED BY <1>1, LimiterInvariant, PTL

(* rate_limit.py:78-93: while a window lasts, no more requests get in than its
   limit. *)
THEOREM WindowsHold == LimiterSpec => []WindowHolds
<1>1. LimiterInv => WindowHolds
  BY HeldFinite, LimitsPositive DEF LimiterInv, LimiterTypeOK, WithinCount, WindowHolds
<1> QED BY <1>1, LimiterInvariant, PTL

-----------------------------------------------------------------------------
(* The jobs: what they know of the bytes they wrote                        *)

(* A delivery of the job may have written bytes it still answers for. *)
Working(j) == step[j] \in {"sent", "run", "post", "upsert", "giveUp"}

JobOK(j) ==
  /\ step[j] # "idle" => target[j] \in Buckets
  /\ step[j] \in {"post", "upsert"} => at[j] \in want[j]

(* A delete holds the name, or a purge all of them. *)
Touched(n) == \/ \E d \in Deleters : held[d] # None /\ held[d].name = n
              \/ \E p \in Purgers : purge[p] # "idle"

CrossedOK == \A j \in Jobs, n \in Names \ crossed : at[j] = n => ~Touched(n)

(* What is about to be registered is there. *)
WrittenOK(j) ==
  step[j] \in {"post", "upsert"} /\ at[j] \notin crossed => <<target[j], at[j]>> \in bytes

(* A row a delete has loaded is as it was, until a delete drops it. *)
HeldOK(d) ==
  held[d] # None /\ held[d].name \notin crossed =>
    \/ rows[held[d].name] = None
    \/ ~dropped[d] /\ rows[held[d].name] = held[d].row

(* A purge has selected every row there is, and then has removed its bytes or
   given them up. *)
PurgeOK(p) ==
  purge[p] # "idle" =>
    /\ object # "ready"
    /\ \A n \in Names \ crossed : rows[n] # None =>
         /\ <<n, rows[n]>> \in listed[p]
         /\ purge[p] = "commit" => LocationOf(n, rows[n]) \notin bytes \ loose

(* BytesAccountedFor, by those only who cannot walk away from the bytes. *)
Accounted ==
  \A location \in bytes \ loose :
    \/ location \in Listed
    \/ location[2] \in crossed
    \/ \E j \in Jobs : Working(j) /\ location \in Targets(j)
    \/ \E d \in Deleters : /\ held[d] # None /\ dropped[d]
                           /\ location = LocationOf(held[d].name, held[d].row)

TypesOK == /\ TypeOK
           /\ \A j \in Jobs : JobOK(j)
           /\ \A d \in Deleters : held[d] = None => ~dropped[d]

Uncrossed == /\ CrossedOK
             /\ \A j \in Jobs : WrittenOK(j)
             /\ \A d \in Deleters : HeldOK(d)
             /\ \A p \in Purgers : PurgeOK(p)
             /\ ListedHasBytes

JobsInv == TypesOK /\ Uncrossed /\ Accounted

LEMMA JobsStart == Init => JobsInv
BY VariantAssumption DEF Init, JobsInv, TypesOK, TypeOK, JobOK, Uncrossed, CrossedOK, Touched,
   WrittenOK, HeldOK, PurgeOK, ListedHasBytes, Accounted, Row

(* Every step keeps the types. *)
LEMMA JobsTypeStep == TypesOK /\ [Next]_vars => TypesOK'
<1> SUFFICES ASSUME TypesOK, [Next]_vars PROVE TypesOK'
  OBVIOUS
<1> USE DEF TypesOK, TypeOK, JobOK, objectVars, rowVars, jobVars, callVars, slotVars, purgeVars,
        GotoJob
<1>1. CASE MoveObject \/ DeleteObject
  BY <1>1 DEF MoveObject, DeleteObject
<1>2. CASE RepairOrphan
  <2>1. PICK location \in bytes : /\ bytes' = bytes \ {location}
                                  /\ loose' = loose \ {location}
                                  /\ crossed' = crossed \cup {location[2]}
    BY <1>2 DEF RepairOrphan
  <2>2. location[2] \in Names
    BY <2>1
  <2> QED BY <1>2, <2>1, <2>2 DEF RepairOrphan
<1>3. ASSUME NEW j \in Jobs, NEW ns \in Requests, LoadForGenerate(j, ns) PROVE TypesOK'
  BY <1>3 DEF LoadForGenerate, Requests
<1>4. ASSUME NEW j \in Jobs, CommitJob(j) \/ EnqueueVariants(j) PROVE TypesOK'
  BY <1>4 DEF CommitJob, EnqueueVariants
<1>5. ASSUME NEW j \in Jobs, Take(j) PROVE TypesOK'
  <2>1. tries' \in [Jobs -> Nat] /\ \A i \in Jobs : tries'[i] <= MaxTries[i]
    <3>1. tries[j] \in Nat /\ MaxTries[j] \in Nat /\ tries[j] < MaxTries[j]
      BY <1>5, VariantAssumption DEF Take
    <3>2. tries[j] + 1 \in Nat /\ tries[j] + 1 <= MaxTries[j]
      BY <3>1
    <3>3. tries' = [tries EXCEPT ![j] = tries[j] + 1]
      BY <1>5 DEF Take
    <3> HIDE DEF JobOK
    <3> QED BY <3>2, <3>3
  <2>2. /\ status' \in [Jobs -> {"none", "queued", "processing", "completed", "failed"}]
        /\ object = "gone" => \A i \in Jobs : status'[i] = "none"
    BY <1>5 DEF Take, UpdateJobStatus
  <2>3. done' \in [Jobs -> SUBSET Names]
    BY <1>5 DEF Take
  <2> QED BY <1>5, <2>1, <2>2, <2>3 DEF Take
<1>6. ASSUME NEW j \in Jobs, NEW n \in Names, Render(j, n) PROVE TypesOK'
  BY <1>6 DEF Render, Overlap
<1>7. ASSUME NEW j \in Jobs, LoadVariant(j) PROVE TypesOK'
  <2>1. at[j] \in Names
    BY <1>7 DEF LoadVariant
  <2> QED BY <1>7, <2>1 DEF LoadVariant
<1>8. ASSUME NEW j \in Jobs, Upsert(j) PROVE TypesOK'
  <2>1. at[j] \in Names /\ target[j] \in Buckets
    BY <1>8 DEF Upsert
  <2>2. loose' \subseteq Buckets \X Names /\ bytes' = bytes
    BY <1>8 DEF Upsert, Lose
  <2>3. born' \in [Names -> Nat]
    BY <1>8, <2>1 DEF Upsert, Upserted
  <2>4. /\ rows' \in [Names -> Row \cup {None}]
        /\ object = "gone" => rows' = rows
    BY <1>8, <2>1, <2>3 DEF Upsert, Upserted, Writable, Row
  <2>5. /\ done' \in [Jobs -> SUBSET Names] /\ at' \in [Jobs -> Names \cup {None}]
        /\ read' \in [Jobs -> Row \cup {None}]
    BY <1>8, <2>1 DEF Upsert
  <2>6. /\ step' = [step EXCEPT ![j] = "run"] \/ step' = [step EXCEPT ![j] = "giveUp"]
        /\ at' = at \/ at' = [at EXCEPT ![j] = None]
    BY <1>8 DEF Upsert
  <2> QED BY <1>8, <2>2, <2>3, <2>4, <2>5, <2>6 DEF Upsert
<1>9. ASSUME NEW j \in Jobs, NEW s \in {"completed", "failed"}, Conclude(j, s),
             step[j] \in {"run", "giveUp"}
      PROVE  TypesOK'
  <2>1. loose' \subseteq Buckets \X Names
    BY <1>9 DEF Conclude, Lose
  <2> QED BY <1>9, <2>1 DEF Conclude, UpdateJobStatus
<1>10. ASSUME NEW j \in Jobs, Redeliver(j) PROVE TypesOK'
  BY <1>10 DEF Redeliver
<1>11. ASSUME NEW d \in Deleters, NEW n \in Names, LoadForDelete(d, n) PROVE TypesOK'
  BY <1>11 DEF LoadForDelete, Overlap
<1>12. ASSUME NEW d \in Deleters, CommitDelete(d) PROVE TypesOK'
  <2>1. held[d].name \in Names
    BY <1>12 DEF CommitDelete
  <2>2. /\ rows' \in [Names -> Row \cup {None}]
        /\ object = "gone" => \A n \in Names : rows'[n] = None
    BY <1>12, <2>1 DEF CommitDelete, DropRow
  <2>3. /\ held' \in [Deleters -> [name : Names, row : Row] \cup {None}]
        /\ dropped' \in [Deleters -> BOOLEAN]
        /\ \A e \in Deleters : held'[e] = None => ~dropped'[e]
    <3>1. CASE dropped' = [dropped EXCEPT ![d] = TRUE] /\ UNCHANGED held
      BY <1>12, <3>1 DEF CommitDelete
    <3>2. CASE Release(d)
      BY <3>2 DEF Release
    <3> QED BY <1>12, <3>1, <3>2 DEF CommitDelete
  <2> QED BY <1>12, <2>2, <2>3 DEF CommitDelete
<1>13. ASSUME NEW d \in Deleters, RemoveVariant(d) PROVE TypesOK'
  <2>1. held[d].name \in Names /\ held[d].row \in Row
    BY <1>13 DEF RemoveVariant
  <2>2. bytes' \subseteq Buckets \X Names /\ loose' \subseteq Buckets \X Names
    BY <1>13, <2>1 DEF RemoveVariant, Lose
  <2>3. /\ held' \in [Deleters -> [name : Names, row : Row] \cup {None}]
        /\ dropped' \in [Deleters -> BOOLEAN]
        /\ \A e \in Deleters : held'[e] = None => ~dropped'[e]
    BY <1>13 DEF RemoveVariant, Release
  <2> QED BY <1>13, <2>2, <2>3 DEF RemoveVariant
<1>14. ASSUME NEW p \in Purgers, SelectVariants(p) PROVE TypesOK'
  BY <1>14 DEF SelectVariants, GotoPurge, Overlap
<1>15. ASSUME NEW p \in Purgers, WipeVariants(p) PROVE TypesOK'
  BY <1>15 DEF WipeVariants, GotoPurge
<1>16. ASSUME NEW p \in Purgers, CommitPurge(p) PROVE TypesOK'
  BY <1>16 DEF CommitPurge, GotoPurge, FinishPurge
<1>17. CASE UNCHANGED vars
  BY <1>17 DEF vars
<1> QED
  BY <1>1, <1>2, <1>3, <1>4, <1>5, <1>6, <1>7, <1>8, <1>9, <1>10, <1>11, <1>12, <1>13,
     <1>14, <1>15, <1>16, <1>17 DEF Next, Serve, Complete, Abandon

-----------------------------------------------------------------------------
(* What is not crossed                                                     *)

(* A step that touches neither rows nor bytes nor slots, and puts no job before
   a registration. *)
LEMMA QuietKeeps ==
  ASSUME Uncrossed, UNCHANGED <<rows, bytes, slotVars, purgeVars, crossed>>,
         loose \subseteq loose', object' = "ready" => object = "ready",
         \A j \in Jobs : at'[j] \in {at[j], None},
         \A j \in Jobs : step'[j] \in {"post", "upsert"} =>
           step[j] \in {"post", "upsert"} /\ at'[j] = at[j] /\ target'[j] = target[j]
  PROVE  Uncrossed'
<1> USE DEF Uncrossed, slotVars, purgeVars
<1>1. CrossedOK'
  BY VariantAssumption DEF CrossedOK, Touched
<1>2. ASSUME NEW j \in Jobs PROVE WrittenOK(j)'
  BY DEF WrittenOK
<1>3. ASSUME NEW d \in Deleters PROVE HeldOK(d)'
  BY DEF HeldOK
<1>4. ASSUME NEW p \in Purgers PROVE PurgeOK(p)'
  BY DEF PurgeOK, LocationOf
<1>5. ListedHasBytes'
  BY DEF ListedHasBytes, LocationOf
<1> QED BY <1>1, <1>2, <1>3, <1>4, <1>5

(* What Overlap records is what CrossedOK excludes. *)
LEMMA OverlapCrosses == Overlap => CrossedOK' /\ crossed \subseteq crossed'
BY DEF Overlap, CrossedOK, Touched

(* A name nobody has crossed is not touched while a job is at it. *)
LEMMA AtAlone ==
  ASSUME Uncrossed, NEW j \in Jobs, at[j] \in Names \ crossed
  PROVE  /\ \A d \in Deleters : held[d] # None => held[d].name # at[j]
         /\ \A p \in Purgers : purge[p] = "idle"
BY DEF Uncrossed, CrossedOK, Touched

LEMMA RenderKeeps ==
  ASSUME TypesOK, Uncrossed, NEW j \in Jobs, NEW n \in Names, Render(j, n)
  PROVE  Uncrossed'
<1> USE DEF Uncrossed, TypesOK, TypeOK, Render, GotoJob, objectVars, rowVars, jobVars, slotVars,
        purgeVars
<1>1. CrossedOK' /\ crossed \subseteq crossed'
  BY OverlapCrosses
<1>2. ASSUME NEW i \in Jobs PROVE WrittenOK(i)'
  BY <1>1 DEF WrittenOK
<1>3. ASSUME NEW d \in Deleters PROVE HeldOK(d)'
  BY <1>1 DEF HeldOK
<1>4. ASSUME NEW p \in Purgers PROVE PurgeOK(p)'
  <2> SUFFICES ASSUME purge[p] # "idle", NEW m \in Names \ crossed', rows[m] # None
               PROVE  /\ <<m, rows[m]>> \in listed[p]
                      /\ purge[p] = "commit" => LocationOf(m, rows[m]) \notin bytes' \ loose'
    BY DEF PurgeOK, LocationOf
  <2>1. m # n
    BY <1>1 DEF CrossedOK, Touched
  <2>2. LocationOf(m, rows[m]) # <<target[j], n>>
    BY <2>1 DEF LocationOf
  <2> QED BY <1>1, <2>2 DEF PurgeOK
<1>5. ListedHasBytes'
  BY <1>1 DEF ListedHasBytes, LocationOf
<1> QED BY <1>1, <1>2, <1>3, <1>4, <1>5

LEMMA UpsertKeeps ==
  ASSUME TypesOK, Uncrossed, NEW j \in Jobs, Upsert(j)
  PROVE  Uncrossed'
<1> DEFINE n == at[j]
<1> USE DEF Uncrossed, TypesOK, TypeOK, objectVars, slotVars, purgeVars, jobVars, GotoJob
<1>0. /\ step[j] = "upsert" /\ n \in Names /\ bytes' = bytes /\ loose \subseteq loose'
      /\ UNCHANGED <<object, held, dropped, purge, listed, crossed, target>>
      /\ step' = [step EXCEPT ![j] = "run"] \/ step' = [step EXCEPT ![j] = "giveUp"]
      /\ at' = at \/ at' = [at EXCEPT ![j] = None]
  BY DEF Upsert, JobOK, Lose
<1>a. /\ \A m \in Names \ {n} : rows'[m] = rows[m]
      /\ rows'[n] = rows[n] \/ (rows'[n]).bucket = target[j]
  BY <1>0 DEF Upsert, Upserted, rowVars
<1>1. CrossedOK'
  BY <1>0, VariantAssumption DEF CrossedOK, Touched
<1>2. ASSUME NEW i \in Jobs PROVE WrittenOK(i)'
  BY <1>0 DEF WrittenOK
<1>3. ASSUME NEW d \in Deleters PROVE HeldOK(d)'
  <2> SUFFICES ASSUME held[d] # None, held[d].name \notin crossed
               PROVE  rows'[held[d].name] = rows[held[d].name]
    BY <1>0 DEF HeldOK
  <2>1. held[d].name \in Names \ {n}
    BY <1>0, AtAlone
  <2> QED BY <1>a, <2>1
<1>4. ASSUME NEW p \in Purgers PROVE PurgeOK(p)'
  <2> SUFFICES ASSUME purge[p] # "idle", NEW m \in Names \ crossed, rows'[m] # None
               PROVE  rows'[m] = rows[m]
    BY <1>0 DEF PurgeOK, LocationOf
  <2>1. m # n
    BY <1>0, AtAlone
  <2> QED BY <1>a, <2>1
<1>5. ListedHasBytes'
  <2> SUFFICES ASSUME object = "ready", NEW m \in Names \ crossed, rows'[m] # None
               PROVE  LocationOf(m, rows'[m]) \in bytes
    BY <1>0 DEF ListedHasBytes, LocationOf
  <2>1. CASE rows'[m] = rows[m]
    BY <2>1 DEF ListedHasBytes
  <2>2. CASE rows'[m] # rows[m]
    BY <1>0, <1>a, <2>2 DEF WrittenOK, LocationOf
  <2> QED BY <2>1, <2>2
<1> QED BY <1>1, <1>2, <1>3, <1>4, <1>5

LEMMA LoadKeeps ==
  ASSUME TypesOK, Uncrossed, NEW d \in Deleters, NEW n \in Names, LoadForDelete(d, n)
  PROVE  Uncrossed'
<1> USE DEF Uncrossed, TypesOK, TypeOK, LoadForDelete, objectVars, rowVars, jobVars, callVars,
        purgeVars
<1>1. CrossedOK' /\ crossed \subseteq crossed'
  BY OverlapCrosses
<1>2. ASSUME NEW i \in Jobs PROVE WrittenOK(i)'
  BY <1>1 DEF WrittenOK
<1>3. ASSUME NEW e \in Deleters PROVE HeldOK(e)'
  BY <1>1 DEF HeldOK
<1>4. ASSUME NEW p \in Purgers PROVE PurgeOK(p)'
  BY <1>1 DEF PurgeOK
<1>5. ListedHasBytes'
  BY <1>1 DEF ListedHasBytes, LocationOf
<1> QED BY <1>1, <1>2, <1>3, <1>4, <1>5

LEMMA CommitDeleteKeeps ==
  ASSUME TypesOK, Uncrossed, NEW d \in Deleters, CommitDelete(d)
  PROVE  Uncrossed'
<1> USE DEF Uncrossed, TypesOK, TypeOK, CommitDelete, DropRow, Release, objectVars, jobVars,
        callVars, purgeVars
<1>1. CrossedOK'
  BY DEF CrossedOK, Touched
<1>2. ASSUME NEW i \in Jobs PROVE WrittenOK(i)'
  BY DEF WrittenOK
<1>3. ASSUME NEW n \in Names PROVE rows'[n] = rows[n] \/ rows'[n] = None
  OBVIOUS
<1>4. ASSUME NEW e \in Deleters PROVE HeldOK(e)'
  <2>1. CASE e = d
    BY <2>1 DEF HeldOK
  <2>2. CASE e # d
    <3>1. held'[e] = held[e] /\ dropped'[e] = dropped[e]
      BY <2>2
    <3>2. held[e] # None => held[e].name \in Names
      OBVIOUS
    <3>3. crossed' = crossed /\ HeldOK(e)
      OBVIOUS
    <3> QED BY ONLY <1>3, <3>1, <3>2, <3>3 DEF HeldOK
  <2> QED BY <2>1, <2>2
<1>5. ASSUME NEW p \in Purgers PROVE PurgeOK(p)'
  BY <1>3 DEF PurgeOK, LocationOf
<1>6. ListedHasBytes'
  BY <1>3 DEF ListedHasBytes, LocationOf
<1> QED BY <1>1, <1>2, <1>4, <1>5, <1>6

LEMMA RemoveKeeps ==
  ASSUME TypesOK, Uncrossed, NEW d \in Deleters, RemoveVariant(d)
  PROVE  Uncrossed'
<1> DEFINE n == held[d].name
           location == LocationOf(n, held[d].row)
<1> USE DEF Uncrossed, TypesOK, TypeOK
<1>0. /\ held[d] # None /\ dropped[d] /\ n \in Names
      /\ UNCHANGED <<object, rows, step, target, at, purge, listed, crossed>>
      /\ \/ bytes' = bytes \ {location} /\ loose' = loose \ {location}
         \/ bytes' = bytes /\ loose \subseteq loose'
      /\ Release(d)
  BY DEF RemoveVariant, Lose, objectVars, rowVars, jobVars, callVars, purgeVars
<1>1. CrossedOK'
  BY <1>0 DEF CrossedOK, Touched, Release
<1>2. ASSUME NEW i \in Jobs PROVE WrittenOK(i)'
  <2> SUFFICES ASSUME step[i] \in {"post", "upsert"}, at[i] \notin crossed
               PROVE  <<target[i], at[i]>> # location
    BY <1>0 DEF WrittenOK
  <2>1. at[i] \in Names
    BY DEF JobOK
  <2>2. at[i] # n
    BY <1>0, <2>1, AtAlone
  <2> QED BY <2>2 DEF LocationOf
<1>3. ASSUME NEW e \in Deleters PROVE HeldOK(e)'
  BY <1>0 DEF HeldOK, Release
<1>4. ASSUME NEW m \in Names \ crossed, rows[m] # None PROVE LocationOf(m, rows[m]) # location
  <2>1. m # n
    BY <1>0, <1>4 DEF HeldOK
  <2> QED BY <2>1 DEF LocationOf
<1>5. ASSUME NEW p \in Purgers PROVE PurgeOK(p)'
  <2> HIDE DEF location
  <2> QED BY <1>0 DEF PurgeOK, LocationOf
<1>6. ListedHasBytes'
  <2> HIDE DEF location
  <2> QED BY <1>0, <1>4 DEF ListedHasBytes, LocationOf
<1> QED BY <1>1, <1>2, <1>3, <1>5, <1>6

LEMMA SelectKeeps ==
  ASSUME TypesOK, Uncrossed, NEW p \in Purgers, SelectVariants(p)
  PROVE  Uncrossed'
<1> USE DEF Uncrossed, TypesOK, TypeOK, SelectVariants, GotoPurge, objectVars, rowVars, jobVars,
        callVars, slotVars
<1>1. CrossedOK' /\ crossed \subseteq crossed'
  BY OverlapCrosses
<1>2. ASSUME NEW i \in Jobs PROVE WrittenOK(i)'
  BY <1>1 DEF WrittenOK
<1>3. ASSUME NEW e \in Deleters PROVE HeldOK(e)'
  BY <1>1 DEF HeldOK
<1>4. ASSUME NEW q \in Purgers PROVE PurgeOK(q)'
  BY <1>1 DEF PurgeOK, LocationOf
<1>5. ListedHasBytes'
  BY DEF ListedHasBytes
<1> QED BY <1>1, <1>2, <1>3, <1>4, <1>5

LEMMA WipeKeeps ==
  ASSUME TypesOK, Uncrossed, NEW p \in Purgers, WipeVariants(p)
  PROVE  Uncrossed'
<1> DEFINE locations == {LocationOf(v[1], v[2]) : v \in listed[p]}
<1> USE DEF Uncrossed, TypesOK, TypeOK
<1>0. /\ purge[p] = "wipe"
      /\ UNCHANGED <<object, rows, step, at, target, held, dropped, listed, crossed>>
      /\ purge' = [purge EXCEPT ![p] = "commit"]
      /\ bytes' \ loose' \subseteq (bytes \ loose) \ locations
  BY DEF WipeVariants, GotoPurge, objectVars, rowVars, jobVars, callVars, slotVars
<1>1. CrossedOK'
  BY <1>0 DEF CrossedOK, Touched
<1>2. ASSUME NEW i \in Jobs PROVE WrittenOK(i)'
  <2>1. step[i] \in {"post", "upsert"} => at[i] \in crossed
    BY <1>0, AtAlone DEF JobOK
  <2> QED BY <1>0, <2>1 DEF WrittenOK
<1>3. ASSUME NEW e \in Deleters PROVE HeldOK(e)'
  BY <1>0 DEF HeldOK
<1>4. ASSUME NEW q \in Purgers PROVE PurgeOK(q)'
  <2> SUFFICES ASSUME purge'[q] # "idle"
               PROVE  /\ object # "ready"
                      /\ \A n \in Names \ crossed : rows[n] # None =>
                           /\ <<n, rows[n]>> \in listed[q]
                           /\ purge'[q] = "commit" => LocationOf(n, rows[n]) \notin bytes' \ loose'
    BY <1>0 DEF PurgeOK, LocationOf
  <2>1. CASE q = p
    <3>1. \A n \in Names \ crossed : rows[n] # None => <<n, rows[n]>> \in listed[p]
      BY <1>0 DEF PurgeOK
    <3>2. \A n \in Names \ crossed : rows[n] # None => LocationOf(n, rows[n]) \in locations
      <4> SUFFICES ASSUME NEW n \in Names \ crossed, rows[n] # None
                   PROVE  \E v \in listed[p] : LocationOf(n, rows[n]) = LocationOf(v[1], v[2])
        OBVIOUS
      <4>1. <<n, rows[n]>> \in listed[p]
        BY <3>1
      <4>2. LocationOf(n, rows[n]) = LocationOf(<<n, rows[n]>>[1], <<n, rows[n]>>[2])
        OBVIOUS
      <4> QED BY <4>1, <4>2
    <3> QED BY <1>0, <2>1, <3>1, <3>2 DEF PurgeOK
  <2>2. CASE q # p
    BY <1>0, <2>2 DEF PurgeOK
  <2> QED BY <2>1, <2>2
<1>5. ListedHasBytes'
  BY <1>0 DEF ListedHasBytes, PurgeOK
<1> QED BY <1>1, <1>2, <1>3, <1>4, <1>5

LEMMA CommitPurgeKeeps ==
  ASSUME TypesOK, Uncrossed, NEW p \in Purgers, CommitPurge(p)
  PROVE  Uncrossed'
<1> USE DEF Uncrossed, TypesOK, TypeOK
<1>0. /\ UNCHANGED <<bytes, loose, step, at, target, held, dropped, crossed>>
      /\ object' = "ready" => object = "ready"
      /\ purge' = [purge EXCEPT ![p] = "idle"] /\ listed' = [listed EXCEPT ![p] = {}]
      /\ \A n \in Names : rows'[n] = rows[n] \/ rows'[n] = None
  BY DEF CommitPurge, FinishPurge, GotoPurge, jobVars, callVars, slotVars
<1>1. CrossedOK'
  BY <1>0 DEF CrossedOK, Touched
<1>2. ASSUME NEW i \in Jobs PROVE WrittenOK(i)'
  BY <1>0 DEF WrittenOK
<1>3. ASSUME NEW e \in Deleters PROVE HeldOK(e)'
  <2>1. held[e] # None => held[e].name \in Names
    OBVIOUS
  <2> QED BY <1>0, <2>1 DEF HeldOK
<1>4. ASSUME NEW q \in Purgers PROVE PurgeOK(q)'
  BY <1>0 DEF PurgeOK, LocationOf
<1>5. ListedHasBytes'
  BY <1>0 DEF ListedHasBytes, LocationOf
<1> QED BY <1>1, <1>2, <1>3, <1>4, <1>5

LEMMA RepairKeeps == ASSUME TypesOK, Uncrossed, RepairOrphan PROVE Uncrossed'
<1> USE DEF Uncrossed, TypesOK, TypeOK
<1>0. PICK location \in bytes : /\ bytes' = bytes \ {location}
                                /\ loose' = loose \ {location}
                                /\ crossed' = crossed \cup {location[2]}
  BY DEF RepairOrphan
<1>a. UNCHANGED <<object, rows, step, at, target, held, dropped, purge, listed>>
  BY DEF RepairOrphan, objectVars, rowVars, jobVars, callVars, slotVars, purgeVars
<1>b. \A b \in Buckets, n \in Names \ crossed' : <<b, n>> # location
  BY <1>0
<1>1. CrossedOK'
  BY <1>0, <1>a DEF CrossedOK, Touched
<1>2. ASSUME NEW i \in Jobs PROVE WrittenOK(i)'
  BY <1>0, <1>a DEF WrittenOK, JobOK
<1>3. ASSUME NEW e \in Deleters PROVE HeldOK(e)'
  BY <1>0, <1>a DEF HeldOK
<1>4. ASSUME NEW q \in Purgers PROVE PurgeOK(q)'
  BY <1>0, <1>a DEF PurgeOK, LocationOf
<1>5. ListedHasBytes'
  BY <1>0, <1>a, <1>b DEF ListedHasBytes, LocationOf, Row
<1> QED BY <1>1, <1>2, <1>3, <1>4, <1>5

(* No step takes away what an uncrossed name has. *)
LEMMA UncrossedStep == TypesOK /\ Uncrossed /\ [Next]_vars => Uncrossed'
<1> SUFFICES ASSUME TypesOK, Uncrossed, [Next]_vars PROVE Uncrossed'
  OBVIOUS
<1> USE DEF TypesOK, TypeOK, objectVars, rowVars, jobVars, callVars, slotVars, purgeVars, GotoJob
<1>1. CASE MoveObject \/ DeleteObject \/ UNCHANGED vars
  BY <1>1, QuietKeeps DEF MoveObject, DeleteObject, vars
<1>2. CASE RepairOrphan
  BY <1>2, RepairKeeps
<1>3. ASSUME NEW j \in Jobs, NEW ns \in Requests, LoadForGenerate(j, ns) PROVE Uncrossed'
  BY <1>3, QuietKeeps DEF LoadForGenerate
<1>4. ASSUME NEW j \in Jobs, CommitJob(j) \/ EnqueueVariants(j) \/ Take(j) PROVE Uncrossed'
  BY <1>4, QuietKeeps DEF CommitJob, EnqueueVariants, Take
<1>5. ASSUME NEW j \in Jobs, NEW n \in Names, Render(j, n) PROVE Uncrossed'
  BY <1>5, RenderKeeps
<1>6. ASSUME NEW j \in Jobs, LoadVariant(j) PROVE Uncrossed'
  BY <1>6, QuietKeeps DEF LoadVariant
<1>7. ASSUME NEW j \in Jobs, Upsert(j) PROVE Uncrossed'
  BY <1>7, UpsertKeeps
<1>8. ASSUME NEW j \in Jobs, NEW s, Conclude(j, s) PROVE Uncrossed'
  <2>1. /\ UNCHANGED <<rows, bytes, slotVars, purgeVars, crossed, object, target>>
        /\ loose \subseteq loose' /\ at' = [at EXCEPT ![j] = None]
    BY <1>8 DEF Conclude, Lose
  <2>2. step' = [step EXCEPT ![j] = "over"] \/ step' = [step EXCEPT ![j] = "sent"]
    BY <1>8 DEF Conclude
  <2> QED BY <2>1, <2>2, QuietKeeps
<1>9. ASSUME NEW j \in Jobs, Redeliver(j) PROVE Uncrossed'
  BY <1>9, QuietKeeps DEF Redeliver
<1>10. ASSUME NEW d \in Deleters, NEW n \in Names, LoadForDelete(d, n) PROVE Uncrossed'
  BY <1>10, LoadKeeps
<1>11. ASSUME NEW d \in Deleters, CommitDelete(d) \/ RemoveVariant(d) PROVE Uncrossed'
  BY <1>11, CommitDeleteKeeps, RemoveKeeps
<1>12. ASSUME NEW p \in Purgers, SelectVariants(p) \/ WipeVariants(p) \/ CommitPurge(p)
       PROVE  Uncrossed'
  BY <1>12, SelectKeeps, WipeKeeps, CommitPurgeKeeps
<1> QED
  BY <1>1, <1>2, <1>3, <1>4, <1>5, <1>6, <1>7, <1>8, <1>9, <1>10, <1>11, <1>12
     DEF Next, Serve, Complete, Abandon

-----------------------------------------------------------------------------
(* Who answers for the bytes                                               *)

(* A step that drops no row, adds no bytes and lets nobody walk away. *)
LEMMA NobodyLeaves ==
  ASSUME Accounted, rows' = rows, crossed \subseteq crossed',
         bytes' \ loose' \subseteq bytes \ loose,
         \A j \in Jobs : Working(j) => Working(j)' /\ Targets(j)' = Targets(j),
         \A d \in Deleters : held[d] # None /\ dropped[d] => held'[d] = held[d] /\ dropped'[d]
  PROVE  Accounted'
<1> SUFFICES ASSUME NEW location \in bytes' \ loose',
                    location \notin Listed', location[2] \notin crossed',
                    \A d \in Deleters :
                      ~(/\ held'[d] # None /\ dropped'[d]
                        /\ location = LocationOf(held'[d].name, held'[d].row))
             PROVE  \E j \in Jobs : Working(j)' /\ location \in Targets(j)'
  BY DEF Accounted, LocationOf
<1>1. Listed' = Listed
  BY DEF Listed, LocationOf
<1>2. \E j \in Jobs : Working(j) /\ location \in Targets(j)
  BY <1>1 DEF Accounted
<1> QED BY <1>2

LEMMA RenderAccounts ==
  ASSUME TypesOK, Accounted, NEW j \in Jobs, NEW n \in Names, Render(j, n)
  PROVE  Accounted'
<1> USE DEF TypesOK, TypeOK
<1>0. /\ bytes' = bytes \cup {<<target[j], n>>} /\ n \in want[j]
      /\ step[j] = "run" /\ step' = [step EXCEPT ![j] = "post"]
      /\ loose' = loose \ {<<target[j], n>>} /\ crossed \subseteq crossed'
      /\ UNCHANGED <<rows, want, target, held, dropped>>
  BY DEF Render, GotoJob, Overlap, rowVars, jobVars, slotVars
<1>1. Listed' = Listed
  BY <1>0 DEF Listed, LocationOf
<1>2. \A i \in Jobs : Working(i) => Working(i)' /\ Targets(i)' = Targets(i)
  BY <1>0 DEF Working, Targets
<1>3. Working(j)' /\ <<target[j], n>> \in Targets(j)'
  BY <1>0 DEF Working, Targets
<1> HIDE DEF TypesOK, TypeOK
<1> SUFFICES ASSUME NEW location \in bytes' \ loose', location # <<target[j], n>>
             PROVE  \/ location \in Listed'
                    \/ location[2] \in crossed'
                    \/ \E i \in Jobs : Working(i)' /\ location \in Targets(i)'
                    \/ \E d \in Deleters : /\ held'[d] # None /\ dropped'[d]
                                           /\ location = LocationOf(held'[d].name, held'[d].row)
  BY <1>3 DEF Accounted, LocationOf
<1>4. location \in bytes \ loose
  BY <1>0
<1>5. CASE \E i \in Jobs : Working(i) /\ location \in Targets(i)
  BY <1>2, <1>5
<1>6. CASE location \in Listed \/ location[2] \in crossed
  BY <1>0, <1>1, <1>6
<1>7. CASE \E d \in Deleters : /\ held[d] # None /\ dropped[d]
                               /\ location = LocationOf(held[d].name, held[d].row)
  BY <1>0, <1>7
<1> QED BY <1>4, <1>5, <1>6, <1>7 DEF Accounted

LEMMA UpsertAccounts ==
  ASSUME TypesOK, Accounted, NEW j \in Jobs, Upsert(j)
  PROVE  Accounted'
<1> DEFINE n == at[j]
<1> USE DEF TypesOK, TypeOK
<1>0. /\ step[j] = "upsert" /\ n \in Names /\ n \in want[j]
      /\ bytes' = bytes /\ loose \subseteq loose'
      /\ UNCHANGED <<held, dropped, crossed, target, want>>
      /\ step' = [step EXCEPT ![j] = "run"] \/ step' = [step EXCEPT ![j] = "giveUp"]
  BY DEF Upsert, JobOK, Lose, slotVars, GotoJob
<1>1. \A i \in Jobs : Working(i) => Working(i)' /\ Targets(i)' = Targets(i)
  BY <1>0 DEF Working, Targets
<1>2. CASE rows' = rows
  BY <1>0, <1>1, <1>2, NobodyLeaves
<1>3. CASE rows' # rows
  <2>1. /\ \A m \in Names \ {n} : rows'[m] = rows[m]
        /\ loose' = loose \cup
             (({location \in Listed : location[2] = n} \ {<<target[j], n>>}) \cap bytes')
    BY <1>0, <1>3 DEF Upsert, Upserted, Lose, rowVars
  <2>2. Working(j)' /\ <<target[j], n>> \in Targets(j)'
    BY <1>0 DEF Working, Targets
  <2> SUFFICES ASSUME NEW location \in bytes' \ loose', location # <<target[j], n>>
               PROVE  \/ location \in Listed'
                      \/ location[2] \in crossed'
                      \/ \E i \in Jobs : Working(i)' /\ location \in Targets(i)'
                      \/ \E d \in Deleters : /\ held'[d] # None /\ dropped'[d]
                                             /\ location = LocationOf(held'[d].name, held'[d].row)
    BY <2>2 DEF Accounted, LocationOf
  <2>3. location \in bytes \ loose
    BY <1>0
  <2>4. CASE location \in Listed
    <3>1. location[2] # n
      BY <1>0, <2>1, <2>4
    <3>2. PICK m \in Names : rows[m] # None /\ location = LocationOf(m, rows[m])
      BY <2>4 DEF Listed
    <3>3. m # n
      BY <3>1, <3>2 DEF LocationOf
    <3> QED BY <2>1, <3>2, <3>3 DEF Listed, LocationOf
  <2> HIDE DEF TypesOK, TypeOK
  <2>5. CASE \E i \in Jobs : Working(i) /\ location \in Targets(i)
    BY <1>1, <2>5
  <2>6. CASE location[2] \in crossed
    BY <1>0, <2>6
  <2>7. CASE \E d \in Deleters : /\ held[d] # None /\ dropped[d]
                                 /\ location = LocationOf(held[d].name, held[d].row)
    BY <1>0, <2>7
  <2> QED BY <2>3, <2>4, <2>5, <2>6, <2>7 DEF Accounted
<1> QED BY <1>2, <1>3

(* The job's last word gives up what no row lists. *)
LEMMA ConcludeAccounts ==
  ASSUME TypesOK, Accounted, NEW j \in Jobs, NEW s, Conclude(j, s), Working(j)
  PROVE  Accounted'
<1> USE DEF TypesOK, TypeOK
<1>0. /\ UNCHANGED <<rows, bytes, held, dropped, crossed, target, want>>
      /\ loose \subseteq loose'
  BY DEF Conclude, Lose, rowVars, slotVars, jobVars
<1>1. CASE step' = [step EXCEPT ![j] = "sent"]
  <2>1. \A i \in Jobs : Working(i) => Working(i)' /\ Targets(i)' = Targets(i)
    BY <1>0, <1>1 DEF Working, Targets
  <2> QED BY <1>0, <2>1, NobodyLeaves
<1>2. CASE step' = [step EXCEPT ![j] = "over"] /\ Lose(Targets(j) \ Listed)
  <2>1. Listed' = Listed
    BY <1>0 DEF Listed, LocationOf
  <2>2. \A i \in Jobs \ {j} : Working(i) => Working(i)' /\ Targets(i)' = Targets(i)
    BY <1>0, <1>2 DEF Working, Targets
  <2> HIDE DEF TypesOK, TypeOK
  <2> SUFFICES ASSUME NEW location \in bytes' \ loose'
               PROVE  \/ location \in Listed'
                      \/ location[2] \in crossed'
                      \/ \E i \in Jobs : Working(i)' /\ location \in Targets(i)'
                      \/ \E d \in Deleters : /\ held'[d] # None /\ dropped'[d]
                                             /\ location = LocationOf(held'[d].name, held'[d].row)
    BY DEF Accounted, LocationOf
  <2>3. location \in bytes \ loose
    BY <1>0
  <2>4. CASE location \in Targets(j) \/ location \in Listed
    BY <1>2, <2>1, <2>4 DEF Lose
  <2>5. CASE \E i \in Jobs \ {j} : Working(i) /\ location \in Targets(i)
    BY <2>2, <2>5
  <2>6. CASE location[2] \in crossed
    BY <1>0, <2>6
  <2>7. CASE \E d \in Deleters : /\ held[d] # None /\ dropped[d]
                                 /\ location = LocationOf(held[d].name, held[d].row)
    BY <1>0, <2>7
  <2> QED BY <2>3, <2>4, <2>5, <2>6, <2>7 DEF Accounted
<1> QED BY <1>1, <1>2 DEF Conclude, GotoJob

(* The delete that drops a row answers for its bytes. *)
LEMMA CommitDeleteAccounts ==
  ASSUME TypesOK, Uncrossed, Accounted, NEW d \in Deleters, CommitDelete(d)
  PROVE  Accounted'
<1> USE DEF TypesOK, TypeOK
<1>0. /\ UNCHANGED <<bytes, loose, crossed, step, target, want>>
      /\ held[d] # None /\ ~dropped[d] /\ held[d].name \in Names
      /\ \A e \in Deleters \ {d} : held'[e] = held[e] /\ dropped'[e] = dropped[e]
  BY DEF CommitDelete, Release, jobVars
<1>1. \A i \in Jobs : Working(i)' = Working(i) /\ Targets(i)' = Targets(i)
  BY <1>0 DEF Working, Targets
<1>2. CASE rows' = rows
  BY <1>0, <1>1, <1>2, NobodyLeaves
<1>3. CASE rows' # rows
  <2>1. /\ held'[d] = held[d] /\ dropped'[d]
        /\ \A m \in Names \ {held[d].name} : rows'[m] = rows[m]
    BY <1>0, <1>3 DEF CommitDelete, DropRow
  <2> SUFFICES ASSUME NEW location \in bytes \ loose, location \in Listed,
                      location \notin Listed', location[2] \notin crossed
               PROVE  location = LocationOf(held[d].name, held[d].row)
    <3>1. \A e \in Deleters : held[e] # None /\ dropped[e] => held'[e] = held[e] /\ dropped'[e]
      BY <1>0
    <3> HIDE DEF TypesOK, TypeOK
    <3> QED BY <1>0, <1>1, <2>1, <3>1 DEF Accounted, LocationOf
  <2>2. PICK m \in Names : rows[m] # None /\ location = LocationOf(m, rows[m])
    BY DEF Listed
  <2>3. m = held[d].name
    BY <2>1, <2>2 DEF Listed, LocationOf
  <2>4. m \notin crossed
    BY <2>2 DEF LocationOf
  <2>5. rows[m] = held[d].row
    BY <1>0, <2>2, <2>3, <2>4 DEF Uncrossed, HeldOK
  <2> QED BY <2>2, <2>3, <2>5
<1> QED BY <1>2, <1>3

LEMMA RemoveAccounts ==
  ASSUME TypesOK, Accounted, NEW d \in Deleters, RemoveVariant(d)
  PROVE  Accounted'
<1> DEFINE its == LocationOf(held[d].name, held[d].row)
<1> USE DEF TypesOK, TypeOK
<1>0. /\ UNCHANGED <<rows, crossed, step, target, want>>
      /\ \A e \in Deleters \ {d} : held'[e] = held[e] /\ dropped'[e] = dropped[e]
      /\ bytes' \ loose' \subseteq (bytes \ loose) \ {its}
  BY DEF RemoveVariant, Release, Lose, rowVars, jobVars
<1>1. \A i \in Jobs : Working(i)' = Working(i) /\ Targets(i)' = Targets(i)
  BY <1>0 DEF Working, Targets
<1>2. Listed' = Listed
  BY <1>0 DEF Listed, LocationOf
<1> HIDE DEF TypesOK, TypeOK
<1> SUFFICES ASSUME NEW location \in bytes' \ loose'
             PROVE  \/ location \in Listed
                    \/ location[2] \in crossed
                    \/ \E i \in Jobs : Working(i) /\ location \in Targets(i)
                    \/ \E e \in Deleters : /\ held'[e] # None /\ dropped'[e]
                                           /\ location = LocationOf(held'[e].name, held'[e].row)
  BY <1>0, <1>1, <1>2 DEF Accounted, LocationOf
<1>3. location \in bytes \ loose /\ location # its
  BY <1>0
<1>4. ASSUME NEW e \in Deleters, held[e] # None, dropped[e],
             location = LocationOf(held[e].name, held[e].row)
      PROVE  held'[e] = held[e] /\ dropped'[e]
  BY <1>0, <1>3, <1>4
<1> HIDE DEF its
<1> QED BY <1>3, <1>4 DEF Accounted

(* The purge leaves no row, and no bytes of an uncrossed one that it has not
   given up. *)
LEMMA CommitPurgeAccounts ==
  ASSUME TypesOK, Uncrossed, Accounted, NEW p \in Purgers, CommitPurge(p)
  PROVE  Accounted'
<1>0. /\ UNCHANGED <<bytes, loose, crossed, held, dropped, step, target, want>>
      /\ purge[p] = "commit"
  BY DEF CommitPurge, slotVars, jobVars
<1>1. \A i \in Jobs : Working(i)' = Working(i) /\ Targets(i)' = Targets(i)
  BY <1>0 DEF Working, Targets
<1>2. CASE rows' = rows
  BY <1>0, <1>1, <1>2, NobodyLeaves
<1>3. CASE rows' # rows
  <2>1. ASSUME NEW location \in bytes \ loose, location \in Listed
        PROVE  location[2] \in crossed
    <3>1. PICK m \in Names : rows[m] # None /\ location = LocationOf(m, rows[m])
      BY <2>1 DEF Listed
    <3>2. m \in crossed
      BY <1>0, <2>1, <3>1 DEF Uncrossed, PurgeOK
    <3> QED BY <3>1, <3>2 DEF LocationOf
  <2> QED BY <1>0, <1>1, <2>1 DEF Accounted, LocationOf
<1> QED BY <1>2, <1>3

(* No step leaves bytes without anyone who answers for them. *)
LEMMA AccountedStep == JobsInv /\ [Next]_vars => Accounted'
<1> SUFFICES ASSUME TypesOK, Uncrossed, Accounted, [Next]_vars PROVE Accounted'
  BY DEF JobsInv
<1> USE DEF TypesOK, TypeOK, objectVars, rowVars, jobVars, callVars, slotVars, purgeVars, GotoJob
<1>1. CASE MoveObject \/ DeleteObject \/ UNCHANGED vars
  <2>1. UNCHANGED <<rows, crossed, bytes, loose, step, target, want, held, dropped>>
    BY <1>1 DEF MoveObject, DeleteObject, vars
  <2> QED BY <2>1, NobodyLeaves DEF Working, Targets
<1>2. CASE RepairOrphan
  <2>1. /\ UNCHANGED <<rows, step, target, want, held, dropped>>
        /\ bytes' \ loose' \subseteq bytes \ loose /\ crossed \subseteq crossed'
    BY <1>2 DEF RepairOrphan
  <2> QED BY <2>1, NobodyLeaves DEF Working, Targets
<1>3. ASSUME NEW j \in Jobs,
             \/ \E ns \in Requests : LoadForGenerate(j, ns)
             \/ CommitJob(j) \/ EnqueueVariants(j) \/ Take(j) \/ LoadVariant(j) \/ Redeliver(j)
      PROVE  Accounted'
  <2>1. UNCHANGED <<rows, crossed, bytes, loose, held, dropped>>
    BY <1>3 DEF LoadForGenerate, CommitJob, EnqueueVariants, Take, LoadVariant, Redeliver
  <2>2. \A i \in Jobs \ {j} : UNCHANGED <<step[i], target[i], want[i]>>
    BY <1>3 DEF LoadForGenerate, CommitJob, EnqueueVariants, Take, LoadVariant, Redeliver
  <2>3. Working(j) => Working(j)' /\ Targets(j)' = Targets(j)
    BY <1>3 DEF LoadForGenerate, CommitJob, EnqueueVariants, Take, LoadVariant, Redeliver,
                Working, Targets
  <2>4. \A i \in Jobs : Working(i) => Working(i)' /\ Targets(i)' = Targets(i)
    BY <2>2, <2>3 DEF Working, Targets
  <2> QED BY <2>1, <2>4, NobodyLeaves
<1>4. ASSUME NEW j \in Jobs, NEW n \in Names, Render(j, n) PROVE Accounted'
  BY <1>4, RenderAccounts
<1>5. ASSUME NEW j \in Jobs, Upsert(j) PROVE Accounted'
  BY <1>5, UpsertAccounts
<1>6. ASSUME NEW j \in Jobs, Complete(j) \/ Abandon(j) PROVE Accounted'
  BY <1>6, ConcludeAccounts DEF Complete, Abandon, Working
<1>7. ASSUME NEW d \in Deleters, NEW n \in Names, LoadForDelete(d, n) PROVE Accounted'
  <2>1. /\ UNCHANGED <<rows, step, target, want, bytes, loose, dropped>>
        /\ crossed \subseteq crossed' /\ held[d] = None
        /\ \A e \in Deleters \ {d} : held'[e] = held[e]
    BY <1>7 DEF LoadForDelete, Overlap
  <2> QED BY <2>1, NobodyLeaves DEF Working, Targets
<1>8. ASSUME NEW d \in Deleters, CommitDelete(d) PROVE Accounted'
  BY <1>8, CommitDeleteAccounts
<1>9. ASSUME NEW d \in Deleters, RemoveVariant(d) PROVE Accounted'
  BY <1>9, RemoveAccounts
<1>10. ASSUME NEW p \in Purgers, SelectVariants(p) \/ WipeVariants(p) PROVE Accounted'
  <2>1. /\ UNCHANGED <<rows, step, target, want, held, dropped>>
        /\ bytes' \ loose' \subseteq bytes \ loose /\ crossed \subseteq crossed'
    BY <1>10 DEF SelectVariants, WipeVariants, Overlap
  <2> QED BY <2>1, NobodyLeaves DEF Working, Targets
<1>11. ASSUME NEW p \in Purgers, CommitPurge(p) PROVE Accounted'
  BY <1>11, CommitPurgeAccounts
<1> QED
  BY <1>1, <1>2, <1>3, <1>4, <1>5, <1>6, <1>7, <1>8, <1>9, <1>10, <1>11 DEF Next, Serve

LEMMA JobsStep == JobsInv /\ [Next]_vars => JobsInv'
BY JobsTypeStep, UncrossedStep, AccountedStep DEF JobsInv

-----------------------------------------------------------------------------
(* The strengthened invariant holds in every behaviour. *)
THEOREM JobsInvariant == Spec => []JobsInv
BY JobsStart, JobsStep, PTL DEF Spec

(* Every variable keeps its type, and a purged object has neither variants nor
   jobs. *)
THEOREM JobsTypes == Spec => []TypeOK
<1>1. JobsInv => TypeOK
  BY DEF JobsInv, TypesOK
<1> QED BY <1>1, JobsInvariant, PTL

(* variants.py:194-216, list_variants: a listed variant of a live object can be
   fetched, unless a delete and a job met at its name or a repair swept it. *)
THEOREM ListedCanBeFetched == Spec => []ListedHasBytes
<1>1. JobsInv => ListedHasBytes
  BY DEF JobsInv, Uncrossed
<1> QED BY <1>1, JobsInvariant, PTL

(* variants.py:164-171, maintenance.py:83-142: bytes outlive what lists them only
   where a failure, a change of bucket or a refusal gave them up. *)
THEOREM NoBytesForgotten == Spec => []BytesAccountedFor
<1>1. JobsInv => BytesAccountedFor
  BY DEF JobsInv, Accounted, BytesAccountedFor, Working
<1> QED BY <1>1, JobsInvariant, PTL
===============================================================================
