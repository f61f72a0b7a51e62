-------------------------- MODULE QuotaLedgerProofs --------------------------
(***************************************************************************)
(* What the row lock of _lock_or_create_usage buys, for every set of       *)
(* objects, sizes, requests and ceilings, tenanted or not.  A request      *)
(* about to credit holds the lock of the row it read, so nobody has        *)
(* written that row's totals, and no override has changed, since it judged *)
(* the upload: SlotOK says so and is inductive with TypeOK.                *)
(***************************************************************************)
EXTENDS QuotaLedger, FiniteSetTheorems, TLAPS

SlotOK(k) ==
  /\ pc[k] \in {"idle", "reserve", "insert"} => seenBytes[k] = 0 /\ seenCount[k] = 0
  /\ pc[k] \in {"idle", "read"} => mine[k] = None
  /\ pc[k] # "idle" => job[k] \in Objects
  /\ pc[k] = "debit" /\ mine[k] # None => mine[k] \in present
  /\ pc[k] \in {"credit", "overrun"} =>
       /\ mine[k] \in Rows /\ lock[mine[k]] = k
       /\ seenBytes[k] = bytes[mine[k]] /\ seenCount[k] = count[mine[k]]
  /\ pc[k] = "credit" =>
       Fits(mine[k], bytes[mine[k]], count[mine[k]], Size[job[k]])

(* A row nobody has committed is a zeroed row without overrides. *)
RowsFresh ==
  \A w \in Rows : w \notin present =>
    /\ bytes[w] = 0 /\ count[w] = 0
    /\ quota_bytes[w] = None /\ quota_objects[w] = None

IInv == TypeOK /\ (\A k \in Slots : SlotOK(k)) /\ RowsFresh

-----------------------------------------------------------------------------
(* Type correctness                                                        *)

LEMMA ClampedIsNat == \A n \in Int : Clamped(n) \in Nat
BY DEF Clamped

(* Finish keeps the slots and the locks well typed. *)
LEMMA FinishType ==
  ASSUME TypeOK, NEW s \in Slots, Finish(s)
  PROVE  /\ pc' \in [Slots -> {"idle", "reserve", "insert", "credit", "overrun",
                               "read", "debit"}]
         /\ job' \in [Slots -> Objects \cup {None}]
         /\ mine' \in [Slots -> Rows \cup {None}]
         /\ seenBytes' \in [Slots -> Nat] /\ seenCount' \in [Slots -> Nat]
         /\ lock' \in [Rows -> Slots \cup {None}]
         /\ objLock' \in [Objects -> Slots \cup {None}]
BY DEF TypeOK, Finish

LEMMA TypeInit == Init => TypeOK
<1> SUFFICES ASSUME Init PROVE TypeOK
  OBVIOUS
<1>1. /\ present \in SUBSET Rows
      /\ bytes \in [Rows -> Nat] /\ count \in [Rows -> Nat]
      /\ seenBytes \in [Slots -> Nat] /\ seenCount \in [Slots -> Nat]
  BY DEF Init
<1>2. /\ quota_bytes \in [Rows -> Overrides \cup {None}]
      /\ quota_objects \in [Rows -> Overrides \cup {None}]
      /\ job \in [Slots -> Objects \cup {None}]
      /\ mine \in [Slots -> Rows \cup {None}]
      /\ lock \in [Rows -> Slots \cup {None}]
      /\ objLock \in [Objects -> Slots \cup {None}]
  BY DEF Init
<1>3. QED
  BY <1>1, <1>2 DEF Init, TypeOK

LEMMA TypeStep == IInv /\ [Next]_vars => TypeOK'
<1> SUFFICES ASSUME IInv, [Next]_vars PROVE TypeOK'
  OBVIOUS
<1>0. TypeOK /\ \A k \in Slots : SlotOK(k)
  BY DEF IInv
<1> USE DEF usageVars, quotaVars, slotVars, lockVars
<1>1. ASSUME NEW o \in Objects, Initiate(o) PROVE TypeOK'
  BY <1>0, <1>1 DEF Initiate, TypeOK
<1>2. ASSUME SetQuota PROVE TypeOK'
  BY <1>0, <1>2 DEF SetQuota, TypeOK
<1>3. ASSUME NEW s \in Completers, NEW o \in Objects, StartComplete(s, o) PROVE TypeOK'
  BY <1>0, <1>3 DEF StartComplete, TypeOK, Slots
<1>4. ASSUME NEW s \in Deleters, NEW o \in Objects, StartDelete(s, o) PROVE TypeOK'
  BY <1>0, <1>4 DEF StartDelete, TypeOK, Slots
<1>5. ASSUME NEW s \in Slots, RejectContent(s) PROVE TypeOK'
  <2>1. status' \in [Objects -> {"none", "initiated", "uploaded", "rejected", "deleted"}]
    BY <1>0, <1>5 DEF RejectContent, TypeOK
  <2>2. QED
    BY <1>0, <1>5, <2>1, FinishType DEF RejectContent, TypeOK
<1>6. ASSUME NEW s \in Slots, LockUsage(s) PROVE TypeOK'
  <2>1. CASE present = {}
    BY <1>0, <1>6, <2>1 DEF LockUsage, TypeOK
  <2>2. CASE present # {}
    <3>1. PICK w \in present :
            /\ pc' = [pc EXCEPT ![s] = Verdict(s, w, bytes[w], count[w])]
            /\ mine' = [mine EXCEPT ![s] = w]
            /\ seenBytes' = [seenBytes EXCEPT ![s] = bytes[w]]
            /\ seenCount' = [seenCount EXCEPT ![s] = count[w]]
            /\ lock' = [v \in Rows |-> IF v \in present THEN s ELSE lock[v]]
      BY <1>6, <2>2 DEF LockUsage
    <3>2. Verdict(s, w, bytes[w], count[w]) \in {"credit", "overrun"}
      BY DEF Verdict
    <3>3. w \in Rows /\ bytes[w] \in Nat /\ count[w] \in Nat
      BY <1>0 DEF TypeOK
    <3>4. QED
      BY <1>0, <1>6, <3>1, <3>2, <3>3 DEF LockUsage, TypeOK
  <2>3. QED
    BY <2>1, <2>2
<1>7. ASSUME NEW s \in Slots, InsertUsage(s) PROVE TypeOK'
  <2>1. CASE Finish(s)
    BY <1>0, <1>7, <2>1, FinishType DEF InsertUsage, TypeOK
  <2>2. CASE ~Finish(s)
    <3>1. PICK w \in Rows \ present :
            /\ lock' = [lock EXCEPT ![w] = s]
            /\ mine' = [mine EXCEPT ![s] = w]
            /\ pc' = [pc EXCEPT ![s] = Verdict(s, w, 0, 0)]
      BY <1>7, <2>2 DEF InsertUsage
    <3>2. Verdict(s, w, 0, 0) \in {"credit", "overrun"}
      BY DEF Verdict
    <3>3. UNCHANGED <<job, seenBytes, seenCount, objLock>>
      BY <1>7, <2>2 DEF InsertUsage
    <3>4. QED
      BY <1>0, <1>7, <3>1, <3>2, <3>3 DEF InsertUsage, TypeOK
  <2>3. QED
    BY <2>1, <2>2
<1>8. ASSUME NEW s \in Slots, CommitCredit(s) PROVE TypeOK'
  <2>1. job[s] \in Objects /\ mine[s] \in Rows
    BY <1>0, <1>8 DEF CommitCredit, SlotOK
  <2>2. Size[job[s]] \in Nat /\ seenBytes[s] \in Nat /\ seenCount[s] \in Nat
    BY <1>0, <2>1, QuotaAssumption DEF TypeOK
  <2>3. bytes' \in [Rows -> Nat] /\ count' \in [Rows -> Nat] /\ present' \in SUBSET Rows
    BY <1>0, <1>8, <2>1, <2>2 DEF CommitCredit, TypeOK
  <2>4. status' \in [Objects -> {"none", "initiated", "uploaded", "rejected", "deleted"}]
    BY <1>0, <1>8, <2>1 DEF CommitCredit, TypeOK
  <2>5. QED
    BY <1>0, <1>8, <2>3, <2>4, FinishType DEF CommitCredit, TypeOK
<1>9. ASSUME NEW s \in Slots, RejectOverQuota(s) PROVE TypeOK'
  <2>1. job[s] \in Objects /\ mine[s] \in Rows
    BY <1>0, <1>9 DEF RejectOverQuota, SlotOK
  <2>2. status' \in [Objects -> {"none", "initiated", "uploaded", "rejected", "deleted"}]
    BY <1>0, <1>9 DEF RejectOverQuota, TypeOK
  <2>3. present' \in SUBSET Rows
    BY <1>0, <1>9, <2>1 DEF RejectOverQuota, TypeOK
  <2>4. QED
    BY <1>0, <1>9, <2>2, <2>3, FinishType DEF RejectOverQuota, TypeOK
<1>10. ASSUME NEW s \in Slots, ReadUsage(s) PROVE TypeOK'
  <2>1. job[s] \in Objects
    BY <1>0, <1>10 DEF ReadUsage, SlotOK
  <2>2. CASE present = {}
    BY <1>0, <1>10, <2>1, <2>2 DEF ReadUsage, TypeOK
  <2>3. CASE present # {}
    BY <1>0, <1>10, <2>1, <2>3 DEF ReadUsage, TypeOK
  <2>4. QED
    BY <2>2, <2>3
<1>11. ASSUME NEW s \in Slots, CommitDebit(s) PROVE TypeOK'
  <2>1. job[s] \in Objects
    BY <1>0, <1>11 DEF CommitDebit, SlotOK
  <2>2. Size[job[s]] \in Nat /\ seenBytes[s] \in Nat /\ seenCount[s] \in Nat
    BY <1>0, <2>1, QuotaAssumption DEF TypeOK
  <2>3. Clamped(seenBytes[s] - Size[job[s]]) \in Nat /\ Clamped(seenCount[s] - 1) \in Nat
    BY <2>2, ClampedIsNat
  <2>4. bytes' \in [Rows -> Nat] /\ count' \in [Rows -> Nat]
    BY <1>0, <1>11, <2>3 DEF CommitDebit, TypeOK
  <2>5. status' \in [Objects -> {"none", "initiated", "uploaded", "rejected", "deleted"}]
    BY <1>0, <1>11 DEF CommitDebit, TypeOK
  <2>6. drifted' \in BOOLEAN /\ present' \in SUBSET Rows
    <3>1. Matches(s) \in BOOLEAN
      BY DEF Matches
    <3>2. QED
      BY <1>0, <1>11, <3>1 DEF CommitDebit, TypeOK
  <2>7. QED
    BY <1>0, <1>11, <2>4, <2>5, <2>6, FinishType DEF CommitDebit, TypeOK
<1>12. ASSUME NEW s \in Slots, Rollback(s) PROVE TypeOK'
  BY <1>0, <1>12, FinishType DEF Rollback, TypeOK
<1>13. CASE UNCHANGED vars
  BY <1>0, <1>13 DEF vars, TypeOK
<1>14. QED
  BY <1>1, <1>2, <1>3, <1>4, <1>5, <1>6, <1>7, <1>8, <1>9, <1>10, <1>11, <1>12,
     <1>13 DEF Next, Complete, Delete

-----------------------------------------------------------------------------
(* The lock protects the judgement                                         *)

(* The row of slot k is as it was: totals, overrides, lock and presence. *)
RowKept(k) ==
  /\ lock'[mine[k]] = lock[mine[k]]
  /\ bytes'[mine[k]] = bytes[mine[k]] /\ count'[mine[k]] = count[mine[k]]
  /\ quota_bytes'[mine[k]] = quota_bytes[mine[k]]
  /\ quota_objects'[mine[k]] = quota_objects[mine[k]]
  /\ mine[k] \in present' <=> mine[k] \in present

(* A step of somebody else that keeps the row of k keeps SlotOK(k). *)
LEMMA Frame ==
  ASSUME NEW k \in Slots, SlotOK(k), present \subseteq present',
         pc'[k] = pc[k], job'[k] = job[k], mine'[k] = mine[k],
         seenBytes'[k] = seenBytes[k], seenCount'[k] = seenCount[k],
         pc[k] \in {"credit", "overrun"} => RowKept(k)
  PROVE  SlotOK(k)'
<1>1. CASE pc[k] \in {"credit", "overrun"}
  <2>2. /\ CeilingBytes(mine[k])' = CeilingBytes(mine[k])
        /\ CeilingObjects(mine[k])' = CeilingObjects(mine[k])
    BY <1>1 DEF RowKept, CeilingBytes, CeilingObjects
  <2>3. Fits(mine[k], bytes[mine[k]], count[mine[k]], Size[job[k]])'
          <=> Fits(mine[k], bytes[mine[k]], count[mine[k]], Size[job[k]])
    BY <1>1, <2>2 DEF RowKept, Fits, Within
  <2>4. QED
    BY <1>1, <2>3 DEF SlotOK, RowKept
<1>2. CASE pc[k] \notin {"credit", "overrun"}
  BY <1>2 DEF SlotOK
<1>3. QED
  BY <1>1, <1>2

(* A request that ends leaves its own slot clean and every other as it was,
   the locks the others hold included. *)
LEMMA FinishFrame ==
  ASSUME TypeOK, NEW s \in Slots, Finish(s)
  PROVE  /\ SlotOK(s)'
         /\ \A k \in Slots \ {s} :
              /\ pc'[k] = pc[k] /\ job'[k] = job[k] /\ mine'[k] = mine[k]
              /\ seenBytes'[k] = seenBytes[k] /\ seenCount'[k] = seenCount[k]
         /\ \A w \in Rows : lock[w] # s => lock'[w] = lock[w]
<1>1. pc'[s] = "idle" /\ mine'[s] = None /\ seenBytes'[s] = 0 /\ seenCount'[s] = 0
  BY DEF TypeOK, Finish
<1>2. SlotOK(s)'
  BY <1>1 DEF SlotOK
<1>3. \A k \in Slots \ {s} :
        /\ pc'[k] = pc[k] /\ job'[k] = job[k] /\ mine'[k] = mine[k]
        /\ seenBytes'[k] = seenBytes[k] /\ seenCount'[k] = seenCount[k]
  BY DEF TypeOK, Finish
<1>4. \A w \in Rows : lock[w] # s => lock'[w] = lock[w]
  BY DEF TypeOK, Finish
<1>5. QED
  BY <1>2, <1>3, <1>4

LEMMA SlotInit == Init => (\A k \in Slots : SlotOK(k)) /\ RowsFresh
<1> SUFFICES ASSUME Init PROVE (\A k \in Slots : SlotOK(k)) /\ RowsFresh
  OBVIOUS
<1>1. ASSUME NEW k \in Slots PROVE SlotOK(k)
  BY <1>1 DEF Init, SlotOK
<1>2. RowsFresh
  BY DEF Init, RowsFresh
<1>3. QED
  BY <1>1, <1>2

(* Every step keeps every slot: the step's own slot by what the action sets,
   the others because the row they locked is not the one it writes. *)
LEMMA SlotStep == IInv /\ [Next]_vars => \A k \in Slots : SlotOK(k)'
<1> SUFFICES ASSUME IInv, [Next]_vars, NEW k \in Slots PROVE SlotOK(k)'
  OBVIOUS
<1>0. TypeOK /\ SlotOK(k) /\ RowsFresh /\ \A j \in Slots : SlotOK(j)
  BY DEF IInv
<1>a. pc[k] \in {"credit", "overrun"} => mine[k] \in Rows /\ lock[mine[k]] = k
  BY <1>0 DEF SlotOK
<1>b. k # None
  BY QuotaAssumption
<1> USE DEF usageVars, quotaVars, slotVars, lockVars
<1>1. ASSUME NEW o \in Objects, Initiate(o) PROVE SlotOK(k)'
  BY <1>0, <1>1, Frame DEF Initiate, RowKept
<1>2. ASSUME SetQuota PROVE SlotOK(k)'
  <2>1. PICK w \in Rows, q \in Overrides \cup {None} :
          /\ lock[w] = None
          /\ present' = present \cup {w}
          /\ \/ quota_bytes' = [quota_bytes EXCEPT ![w] = q] /\ UNCHANGED quota_objects
             \/ quota_objects' = [quota_objects EXCEPT ![w] = q] /\ UNCHANGED quota_bytes
          /\ UNCHANGED <<bytes, count, status, slotVars, lockVars, drifted>>
    BY <1>2 DEF SetQuota
  <2>2. pc[k] \in {"credit", "overrun"} => RowKept(k)
    BY <1>0, <1>a, <1>b, <2>1 DEF RowKept, TypeOK
  <2>3. QED
    BY <1>0, <2>1, <2>2, Frame
<1>3. ASSUME NEW s \in Completers, NEW o \in Objects, StartComplete(s, o) PROVE SlotOK(k)'
  <2>1. CASE k = s
    BY <1>0, <1>3, <2>1 DEF StartComplete, SlotOK, TypeOK
  <2>2. CASE k # s
    BY <1>0, <1>3, <2>2, Frame DEF StartComplete, RowKept, TypeOK
  <2>3. QED
    BY <2>1, <2>2
<1>4. ASSUME NEW s \in Deleters, NEW o \in Objects, StartDelete(s, o) PROVE SlotOK(k)'
  <2>1. CASE k = s
    BY <1>0, <1>4, <2>1 DEF StartDelete, SlotOK, TypeOK
  <2>2. CASE k # s
    BY <1>0, <1>4, <2>2, Frame DEF StartDelete, RowKept, TypeOK
  <2>3. QED
    BY <2>1, <2>2
<1>5. ASSUME NEW s \in Slots, RejectContent(s) \/ Rollback(s) PROVE SlotOK(k)'
  <2>1. Finish(s) /\ UNCHANGED <<usageVars, quotaVars>>
    BY <1>5 DEF RejectContent, Rollback
  <2>2. CASE k = s
    BY <1>0, <2>1, <2>2, FinishFrame
  <2>3. CASE k # s
    <3>1. pc[k] \in {"credit", "overrun"} => RowKept(k)
      BY <1>0, <1>a, <2>1, <2>3, FinishFrame DEF RowKept
    <3>2. QED
      BY <1>0, <2>1, <2>3, <3>1, FinishFrame, Frame
  <2>4. QED
    BY <2>2, <2>3
<1>6. ASSUME NEW s \in Slots, LockUsage(s) PROVE SlotOK(k)'
  <2>1. CASE present = {}
    <3>1. CASE k = s
      BY <1>0, <1>6, <2>1, <3>1 DEF LockUsage, SlotOK, TypeOK
    <3>2. CASE k # s
      BY <1>0, <1>6, <2>1, <3>2, Frame DEF LockUsage, RowKept, TypeOK
    <3>3. QED
      BY <3>1, <3>2
  <2>2. CASE present # {}
    <3>1. PICK w \in present :
            /\ pc' = [pc EXCEPT ![s] = Verdict(s, w, bytes[w], count[w])]
            /\ mine' = [mine EXCEPT ![s] = w]
            /\ seenBytes' = [seenBytes EXCEPT ![s] = bytes[w]]
            /\ seenCount' = [seenCount EXCEPT ![s] = count[w]]
            /\ lock' = [v \in Rows |-> IF v \in present THEN s ELSE lock[v]]
      BY <1>6, <2>2 DEF LockUsage
    <3>2. UNCHANGED <<usageVars, quotaVars, job>> /\ \A v \in present : lock[v] = None
      BY <1>6 DEF LockUsage
    <3>3. CASE k = s
      <4>1. /\ pc'[k] = Verdict(k, w, bytes[w], count[w]) /\ mine'[k] = w
            /\ seenBytes'[k] = bytes[w] /\ seenCount'[k] = count[w]
            /\ lock'[w] = k /\ w \in Rows
        BY <1>0, <3>1, <3>3 DEF TypeOK
      <4>2. job[k] \in Objects
        BY <1>0, <1>6, <3>3 DEF LockUsage, SlotOK
      <4>3. Fits(w, bytes[w], count[w], Size[job[k]])'
              <=> Fits(w, bytes[w], count[w], Size[job[k]])
        BY <3>2 DEF Fits, CeilingBytes, CeilingObjects
      <4>4. pc'[k] = "credit" => Fits(w, bytes[w], count[w], Size[job[k]])
        BY <4>1 DEF Verdict
      <4>5. pc'[k] \in {"credit", "overrun"}
        BY <4>1 DEF Verdict
      <4>6. QED
        BY <3>2, <4>1, <4>2, <4>3, <4>4, <4>5 DEF SlotOK
    <3>4. CASE k # s
      <4>1. pc[k] \in {"credit", "overrun"} => RowKept(k)
        BY <1>0, <1>a, <1>b, <3>1, <3>2 DEF RowKept
      <4>2. QED
        BY <1>0, <3>1, <3>2, <3>4, <4>1, Frame DEF TypeOK
    <3>5. QED
      BY <3>3, <3>4
  <2>3. QED
    BY <2>1, <2>2
<1>7. ASSUME NEW s \in Slots, InsertUsage(s) PROVE SlotOK(k)'
  <2>1. CASE Finish(s)
    <3>1. CASE k = s
      BY <1>0, <2>1, <3>1, FinishFrame
    <3>2. CASE k # s
      <4>1. UNCHANGED <<usageVars, quotaVars>>
        BY <1>7 DEF InsertUsage
      <4>2. pc[k] \in {"credit", "overrun"} => RowKept(k)
        BY <1>0, <1>a, <2>1, <3>2, <4>1, FinishFrame DEF RowKept
      <4>3. QED
        BY <1>0, <2>1, <3>2, <4>1, <4>2, FinishFrame, Frame
    <3>3. QED
      BY <3>1, <3>2
  <2>2. CASE ~Finish(s)
    <3>1. PICK w \in Rows \ present :
            /\ lock[w] = None
            /\ lock' = [lock EXCEPT ![w] = s]
            /\ mine' = [mine EXCEPT ![s] = w]
            /\ pc' = [pc EXCEPT ![s] = Verdict(s, w, 0, 0)]
      BY <1>7, <2>2 DEF InsertUsage
    <3>2. UNCHANGED <<usageVars, quotaVars, job, seenBytes, seenCount>>
      BY <1>7, <2>2 DEF InsertUsage
    <3>3. CASE k = s
      <4>1. /\ pc'[k] = Verdict(k, w, 0, 0) /\ mine'[k] = w /\ lock'[w] = k
        BY <1>0, <3>1, <3>3 DEF TypeOK
      <4>2. job[k] \in Objects /\ seenBytes[k] = 0 /\ seenCount[k] = 0
        BY <1>0, <1>7, <3>3 DEF InsertUsage, SlotOK
      <4>3. bytes[w] = 0 /\ count[w] = 0
        BY <1>0 DEF RowsFresh
      <4>4. Fits(w, bytes[w], count[w], Size[job[k]])'
              <=> Fits(w, 0, 0, Size[job[k]])
        BY <3>2, <4>3 DEF Fits, CeilingBytes, CeilingObjects
      <4>5. pc'[k] = "credit" => Fits(w, 0, 0, Size[job[k]])
        BY <4>1 DEF Verdict
      <4>6. pc'[k] \in {"credit", "overrun"}
        BY <4>1 DEF Verdict
      <4>7. QED
        BY <3>2, <4>1, <4>2, <4>3, <4>4, <4>5, <4>6 DEF SlotOK
    <3>4. CASE k # s
      <4>1. pc[k] \in {"credit", "overrun"} => RowKept(k)
        BY <1>0, <1>a, <1>b, <3>1, <3>2 DEF RowKept, TypeOK
      <4>2. QED
        BY <1>0, <3>1, <3>2, <3>4, <4>1, Frame DEF TypeOK
    <3>5. QED
      BY <3>3, <3>4
  <2>3. QED
    BY <2>1, <2>2
<1>8. ASSUME NEW s \in Slots, CommitCredit(s) \/ RejectOverQuota(s) PROVE SlotOK(k)'
  <2>1. /\ Finish(s) /\ UNCHANGED quotaVars
        /\ pc[s] \in {"credit", "overrun"}
        /\ present' \in {present, present \cup {mine[s]}}
    BY <1>8 DEF CommitCredit, RejectOverQuota
  <2>2. mine[s] \in Rows /\ lock[mine[s]] = s
    BY <1>0, <2>1 DEF SlotOK
  <2>3. \A w \in Rows : w # mine[s] => bytes'[w] = bytes[w] /\ count'[w] = count[w]
    BY <1>0, <1>8 DEF CommitCredit, RejectOverQuota, TypeOK
  <2>4. CASE k = s
    BY <1>0, <2>1, <2>4, FinishFrame
  <2>5. CASE k # s
    <3>1. pc[k] \in {"credit", "overrun"} => RowKept(k)
      BY <1>0, <1>a, <2>1, <2>2, <2>3, <2>5, FinishFrame DEF RowKept
    <3>2. QED
      BY <1>0, <2>1, <2>5, <3>1, FinishFrame, Frame
  <2>6. QED
    BY <2>4, <2>5
<1>9. ASSUME NEW s \in Slots, ReadUsage(s) PROVE SlotOK(k)'
  <2>1. UNCHANGED <<usageVars, quotaVars, job, lock>>
    BY <1>9 DEF ReadUsage
  <2>2. CASE k = s
    <3>1. pc'[k] = "debit" /\ job[k] \in Objects /\ mine[k] = None
      BY <1>0, <1>9, <2>2 DEF ReadUsage, SlotOK, TypeOK
    <3>2. mine'[k] # None => mine'[k] \in present
      BY <1>0, <1>9, <2>2, <3>1 DEF ReadUsage, TypeOK
    <3>3. QED
      BY <2>1, <3>1, <3>2 DEF SlotOK
  <2>3. CASE k # s
    <3>1. pc[k] \in {"credit", "overrun"} => RowKept(k)
      BY <2>1 DEF RowKept
    <3>2. /\ pc'[k] = pc[k] /\ mine'[k] = mine[k]
          /\ seenBytes'[k] = seenBytes[k] /\ seenCount'[k] = seenCount[k]
      BY <1>0, <1>9, <2>3 DEF ReadUsage, TypeOK
    <3>3. QED
      BY <1>0, <2>1, <3>1, <3>2, Frame
  <2>4. QED
    BY <2>2, <2>3
<1>10. ASSUME NEW s \in Slots, CommitDebit(s) PROVE SlotOK(k)'
  <2>1. Finish(s) /\ UNCHANGED quotaVars /\ pc[s] = "debit"
    BY <1>10 DEF CommitDebit
  <2>2. PICK w \in Rows \cup {None} :
          /\ w \in Rows => lock[w] = None \/ (bytes' = bytes /\ count' = count
                                              /\ present' = present)
          /\ present' \in {present, present \cup {w}}
          /\ \A v \in Rows : v # w => bytes'[v] = bytes[v] /\ count'[v] = count[v]
    <3>1. CASE mine[s] # None
      <4>1. mine[s] \in Rows /\ lock[mine[s]] = None /\ present' = present
        BY <1>0, <1>10, <3>1 DEF CommitDebit, TypeOK
      <4>2. \A v \in Rows : v # mine[s] => bytes'[v] = bytes[v] /\ count'[v] = count[v]
        BY <1>0, <1>10, <3>1 DEF CommitDebit, TypeOK
      <4>3. QED
        BY <4>1, <4>2
    <3>2. CASE mine[s] = None /\ ~(Tenanted /\ present # {})
      <4>1. UNCHANGED <<bytes, count>>
        BY <1>10, <3>2 DEF CommitDebit
      <4>2. PICK v \in Rows \ present :
              /\ lock[v] = None
              /\ present' = present \cup {v}
        BY <1>10, <3>2 DEF CommitDebit
      <4>3. QED
        BY <4>1, <4>2
    <3>3. CASE mine[s] = None /\ Tenanted /\ present # {}
      BY <1>10, <3>3 DEF CommitDebit
    <3>4. QED
      BY <3>1, <3>2, <3>3
  <2>3. CASE k = s
    BY <1>0, <2>1, <2>3, FinishFrame
  <2>4. CASE k # s
    <3>1. pc[k] \in {"credit", "overrun"} => RowKept(k)
      BY <1>0, <1>a, <1>b, <2>1, <2>2, <2>4, FinishFrame DEF RowKept
    <3>2. QED
      BY <1>0, <2>1, <2>2, <2>4, <3>1, FinishFrame, Frame
  <2>5. QED
    BY <2>3, <2>4
<1>11. CASE UNCHANGED vars
  BY <1>0, <1>11, Frame DEF vars, RowKept
<1>12. QED
  BY <1>1, <1>2, <1>3, <1>4, <1>5, <1>6, <1>7, <1>8, <1>9, <1>10, <1>11
  DEF Next, Complete, Delete

(* Only rows that are committed by the same step, or were before, are written. *)
LEMMA FreshStep == IInv /\ [Next]_vars => RowsFresh'
<1> SUFFICES ASSUME IInv, [Next]_vars, NEW w \in Rows, w \notin present'
             PROVE  /\ bytes'[w] = 0 /\ count'[w] = 0
                    /\ quota_bytes'[w] = None /\ quota_objects'[w] = None
  BY DEF RowsFresh
<1>0. TypeOK /\ RowsFresh /\ \A j \in Slots : SlotOK(j)
  BY DEF IInv
<1>. DEFINE Fresh == /\ bytes'[w] = 0 /\ count'[w] = 0
                     /\ quota_bytes'[w] = None /\ quota_objects'[w] = None
<1> USE DEF usageVars, quotaVars, slotVars, lockVars
<1>1. ASSUME UNCHANGED <<bytes, count, quota_bytes, quota_objects>>,
             present \subseteq present'
      PROVE Fresh
  BY <1>0, <1>1 DEF RowsFresh
<1>2. ASSUME SetQuota PROVE Fresh
  BY <1>0, <1>2 DEF SetQuota, RowsFresh, TypeOK
<1>3. ASSUME NEW s \in Slots, CommitCredit(s) PROVE Fresh
  BY <1>0, <1>3 DEF CommitCredit, RowsFresh, TypeOK
<1>4. ASSUME NEW s \in Slots, CommitDebit(s) PROVE Fresh
  BY <1>0, <1>4 DEF CommitDebit, SlotOK, RowsFresh, TypeOK
<1>5. ASSUME NEW s \in Slots, RejectOverQuota(s) PROVE Fresh
  BY <1>1, <1>5 DEF RejectOverQuota
<1>6. ASSUME NEW s \in Slots,
             RejectContent(s) \/ LockUsage(s) \/ InsertUsage(s)
               \/ ReadUsage(s) \/ Rollback(s)
      PROVE Fresh
  BY <1>1, <1>6 DEF RejectContent, LockUsage, InsertUsage, ReadUsage, Rollback
<1>7. ASSUME NEW o \in Objects,
             \/ Initiate(o)
             \/ \E s \in Completers : StartComplete(s, o)
             \/ \E s \in Deleters : StartDelete(s, o)
      PROVE Fresh
  BY <1>1, <1>7 DEF Initiate, StartComplete, StartDelete
<1>8. CASE UNCHANGED vars
  BY <1>1, <1>8 DEF vars
<1>9. QED
  BY <1>2, <1>3, <1>4, <1>5, <1>6, <1>7, <1>8 DEF Next, Complete, Delete

(* The totals, overrides and locks stay consistent with every request in
   flight, for every set of requests: the lock of _lock_or_create_usage. *)
THEOREM InductiveInvariant == Spec => []IInv
<1>1. Init => IInv
  BY TypeInit, SlotInit DEF IInv
<1>2. IInv /\ [Next]_vars => IInv'
  BY TypeStep, SlotStep, FreshStep DEF IInv
<1>3. QED
  BY <1>1, <1>2, PTL DEF Spec

(* The storage accounting's state is always well typed; in particular the
   debit's clamp keeps the totals from going below zero. *)
THEOREM TypeCorrect == Spec => []TypeOK
<1>1. IInv => TypeOK
  BY DEF IInv
<1>2. QED
  BY <1>1, InductiveInvariant, PTL

-----------------------------------------------------------------------------
(* What a completion promises                                              *)

(* The only step that promotes an object is the commit of a credit whose
   upload fitted the row it holds. *)
LEMMA Promotion ==
  ASSUME IInv, [Next]_vars, NEW o \in Objects,
         status[o] # "uploaded", status'[o] = "uploaded"
  PROVE  \E s \in Slots :
           /\ pc[s] = "credit" /\ job[s] = o /\ mine[s] \in Rows
           /\ seenBytes[s] = bytes[mine[s]] /\ seenCount[s] = count[mine[s]]
           /\ Fits(mine[s], bytes[mine[s]], count[mine[s]], Size[o])
           /\ bytes' = [bytes EXCEPT ![mine[s]] = seenBytes[s] + Size[o]]
           /\ count' = [count EXCEPT ![mine[s]] = seenCount[s] + 1]
<1>0. TypeOK /\ \A j \in Slots : SlotOK(j)
  BY DEF IInv
<1> USE DEF usageVars, quotaVars, slotVars, lockVars
<1>1. ASSUME NEW p \in Objects, Initiate(p) PROVE FALSE
  BY <1>0, <1>1 DEF Initiate, TypeOK
<1>2. ASSUME NEW s \in Slots,
             RejectContent(s) \/ RejectOverQuota(s) \/ CommitDebit(s)
      PROVE FALSE
  BY <1>0, <1>2 DEF RejectContent, RejectOverQuota, CommitDebit, TypeOK
<1>3. ASSUME UNCHANGED status PROVE FALSE
  BY <1>3
<1>4. SUFFICES ASSUME NEW s \in Slots, CommitCredit(s)
               PROVE  /\ pc[s] = "credit" /\ job[s] = o /\ mine[s] \in Rows
                      /\ seenBytes[s] = bytes[mine[s]]
                      /\ seenCount[s] = count[mine[s]]
                      /\ Fits(mine[s], bytes[mine[s]], count[mine[s]], Size[o])
                      /\ bytes' = [bytes EXCEPT ![mine[s]] = seenBytes[s] + Size[o]]
                      /\ count' = [count EXCEPT ![mine[s]] = seenCount[s] + 1]
  <2>1. \/ \E p \in Objects : Initiate(p)
        \/ \E s \in Slots : RejectContent(s) \/ RejectOverQuota(s) \/ CommitDebit(s)
        \/ \E s \in Slots : CommitCredit(s)
        \/ UNCHANGED status
    BY DEF Next, Complete, Delete, SetQuota, StartComplete, StartDelete, LockUsage,
           InsertUsage, ReadUsage, Rollback, vars
  <2>2. QED
    BY <1>1, <1>2, <1>3, <2>1
<1>5. pc[s] = "credit" /\ SlotOK(s)
  BY <1>0, <1>4 DEF CommitCredit
<1>6. job[s] = o /\ status[job[s]] = "initiated"
  BY <1>0, <1>3, <1>4 DEF CommitCredit, TypeOK
<1>7. QED
  BY <1>4, <1>5, <1>6 DEF CommitCredit, SlotOK

(* reserve_storage_for_object: under any interleaving with other completions,
   deletions and overrides, a credit commits within the ceilings in force. *)
THEOREM CeilingHolds == Spec => CreditsRespectCeiling
<1>1. ASSUME IInv, [Next]_vars, NEW o \in Objects, NEW w \in Rows,
             status[o] # "uploaded", status'[o] = "uploaded",
             bytes'[w] # bytes[w] \/ count'[w] # count[w]
      PROVE  /\ Within(bytes'[w], CeilingBytes(w))
             /\ Within(count'[w], CeilingObjects(w))
  <2>1. PICK s \in Slots :
          /\ mine[s] \in Rows
          /\ seenBytes[s] = bytes[mine[s]] /\ seenCount[s] = count[mine[s]]
          /\ Fits(mine[s], bytes[mine[s]], count[mine[s]], Size[o])
          /\ bytes' = [bytes EXCEPT ![mine[s]] = seenBytes[s] + Size[o]]
          /\ count' = [count EXCEPT ![mine[s]] = seenCount[s] + 1]
    BY <1>1, Promotion
  <2>2. TypeOK
    BY <1>1 DEF IInv
  <2>3. w = mine[s]
    BY <1>1, <2>1, <2>2 DEF TypeOK
  <2>4. bytes'[w] = bytes[w] + Size[o] /\ count'[w] = count[w] + 1
    BY <2>1, <2>2, <2>3 DEF TypeOK
  <2>5. QED
    BY <2>1, <2>3, <2>4 DEF Fits
<1>2. IInv /\ [Next]_vars =>
        [\A o \in Objects, w \in Rows :
           /\ status[o] # "uploaded" /\ status'[o] = "uploaded"
           /\ bytes'[w] # bytes[w] \/ count'[w] # count[w]
           => /\ Within(bytes'[w], CeilingBytes(w))
              /\ Within(count'[w], CeilingObjects(w))]_vars
  BY <1>1
<1>3. QED
  BY <1>2, InductiveInvariant, PTL DEF Spec, CreditsRespectCeiling

(* complete_upload: promotion and credit are one step, and the credit starts
   from the totals as they are, so concurrent completions lose none. *)
THEOREM CreditsExact == Spec => CompletionCreditsExactly
<1>1. ASSUME IInv, [Next]_vars, NEW o \in Objects,
             status[o] # "uploaded", status'[o] = "uploaded"
      PROVE  \E w \in Rows : /\ bytes' = [bytes EXCEPT ![w] = @ + Size[o]]
                             /\ count' = [count EXCEPT ![w] = @ + 1]
  <2>1. PICK s \in Slots :
          /\ mine[s] \in Rows
          /\ seenBytes[s] = bytes[mine[s]] /\ seenCount[s] = count[mine[s]]
          /\ bytes' = [bytes EXCEPT ![mine[s]] = seenBytes[s] + Size[o]]
          /\ count' = [count EXCEPT ![mine[s]] = seenCount[s] + 1]
    BY <1>1, Promotion
  <2>2. QED
    BY <2>1
<1>2. IInv /\ [Next]_vars =>
        [\A o \in Objects :
           status[o] # "uploaded" /\ status'[o] = "uploaded" =>
             \E w \in Rows : /\ bytes' = [bytes EXCEPT ![w] = @ + Size[o]]
                             /\ count' = [count EXCEPT ![w] = @ + 1]]_vars
  BY <1>1
<1>3. QED
  BY <1>2, InductiveInvariant, PTL DEF Spec, CompletionCreditsExactly

-----------------------------------------------------------------------------
(* What a set of objects takes up                                          *)

Total(S) == MapThenSumSet(LAMBDA o : Size[o], S)

(* Of any sets of subsets, one has no member with an element too many: what
   stands in for induction on the size of a set. *)
LEMMA SmallestSubset ==
  ASSUME NEW S, IsFiniteSet(S), NEW Bad \in SUBSET (SUBSET S), Bad # {}
  PROVE  \E B \in Bad : \A o \in B : B \ {o} \notin Bad
<1>1. FiniteSubsetsOf(S) = SUBSET S
  BY FS_Subset DEF FiniteSubsetsOf
<1>2. IsWellFoundedOn(StrictSubsetOrdering(S), SUBSET S)
  BY <1>1, FS_StrictSubsetOrderingWellFounded
<1>3. PICK B \in Bad : \A C \in Bad : <<C, B>> \notin StrictSubsetOrdering(S)
  BY <1>2, WFMin
<1>4. ASSUME NEW o \in B, B \ {o} \in Bad PROVE FALSE
  BY <1>3, <1>4 DEF StrictSubsetOrdering
<1> QED BY <1>4

(* f gives every set of these objects the size of it. *)
Adds(f, S) ==
  /\ f \in [SUBSET S -> Nat]
  /\ f[{}] = 0
  /\ \A X \in SUBSET S : \A o \in X : f[X] = f[X \ {o}] + Size[o]

(* There is such a function: a smallest set without one would have one. *)
LEMMA SumExists == \E f : Adds(f, Objects)
<1> DEFINE Bad == {S \in SUBSET Objects : ~ \E f : Adds(f, S)}
<1> SUFFICES ASSUME Bad # {} PROVE FALSE
  OBVIOUS
<1>1. PICK B \in Bad : \A o \in B : B \ {o} \notin Bad
  BY SmallestSubset, QuotaAssumption
<1>2. ASSUME NEW x \in B PROVE FALSE
  <2>1. PICK f : Adds(f, B \ {x})
    BY <1>1, <1>2
  <2> DEFINE g == [Z \in SUBSET B |-> IF x \in Z THEN f[Z \ {x}] + Size[x] ELSE f[Z]]
  <2>2. Size[x] \in Nat /\ \A o \in B : Size[o] \in Nat
    BY QuotaAssumption
  <2>3. \A Z \in SUBSET B : x \notin Z => g[Z] = f[Z] /\ Z \in SUBSET (B \ {x})
    OBVIOUS
  <2>4. \A Z \in SUBSET B : x \in Z => g[Z] = f[Z \ {x}] + Size[x] /\ Z \ {x} \in SUBSET (B \ {x})
    OBVIOUS
  <2>5. g \in [SUBSET B -> Nat]
    BY <2>1, <2>2, <2>3, <2>4 DEF Adds
  <2>6. g[{}] = 0
    BY <2>1, <2>3 DEF Adds
  <2>7. ASSUME NEW Z \in SUBSET B, NEW o \in Z PROVE g[Z] = g[Z \ {o}] + Size[o]
    <3> HIDE DEF g
    <3>1. CASE o = x
      BY <2>3, <2>4, <3>1
    <3>2. CASE o # x /\ x \in Z
      <4>1. (Z \ {x}) \ {o} = (Z \ {o}) \ {x}
        OBVIOUS
      <4>2. f[Z \ {x}] = f[(Z \ {x}) \ {o}] + Size[o]
        BY <2>1, <3>2 DEF Adds
      <4>3. g[Z \ {o}] = f[(Z \ {o}) \ {x}] + Size[x] /\ g[Z] = f[Z \ {x}] + Size[x]
        BY <2>4, <3>2
      <4> DEFINE n == f[(Z \ {o}) \ {x}]
                 a == Size[o]
                 b == Size[x]
      <4>4. n \in Nat /\ a \in Nat /\ b \in Nat
        BY <2>1, <2>2 DEF Adds
      <4>5. g[Z] = (n + a) + b /\ g[Z \ {o}] = n + b
        BY <4>1, <4>2, <4>3
      <4> HIDE DEF n, a, b
      <4>6. g[Z] = g[Z \ {o}] + a
        BY <4>4, <4>5
      <4> QED BY <4>6 DEF a
    <3>3. CASE x \notin Z
      BY <2>1, <2>3, <3>3 DEF Adds
    <3> QED BY <3>1, <3>2, <3>3
  <2>8. Adds(g, B)
    BY <2>5, <2>6, <2>7 DEF Adds
  <2> QED BY <1>1, <2>8
<1>3. CASE B = {}
  <2>1. Adds([Z \in SUBSET B |-> 0], B)
    BY <1>3 DEF Adds
  <2> QED BY <1>1, <2>1
<1> QED BY <1>2, <1>3

(* What is stored is what such a function says: the fold that computes it is one. *)
LEMMA TotalIs ==
  ASSUME NEW f, NEW S \in SUBSET Objects, Adds(f, S)
  PROVE  Total(S) = f[S]
<1> DEFINE rec(g) == g = [s \in SUBSET S |-> IF s = {} THEN 0
              ELSE Size[CHOOSE x \in s : TRUE] + g[s \ {CHOOSE x \in s : TRUE}]]
           iter == CHOOSE g : rec(g)
<1>1. Total(S) = iter[S]
  BY DEF Total, MapThenSumSet, MapThenFoldSet
<1>2. rec(f)
  <2>1. ASSUME NEW s \in SUBSET S, s # {}
        PROVE  f[s] = Size[CHOOSE x \in s : TRUE] + f[s \ {CHOOSE x \in s : TRUE}]
    <3> DEFINE x == CHOOSE x \in s : TRUE
    <3>1. x \in s
      BY <2>1
    <3>2. f[s] = f[s \ {x}] + Size[x] /\ f[s \ {x}] \in Nat /\ Size[x] \in Nat
      BY <3>1, QuotaAssumption DEF Adds
    <3> QED BY <3>2
  <2> QED BY <2>1 DEF Adds
<1>3. rec(iter)
  BY <1>2
<1> HIDE DEF iter
<1>4. iter = f
  <2> DEFINE Bad == {s \in SUBSET S : iter[s] # f[s]}
  <2>a. DOMAIN iter = SUBSET S /\ iter = [s \in DOMAIN iter |-> iter[s]]
    BY <1>3
  <2>b. DOMAIN f = SUBSET S /\ f = [s \in DOMAIN f |-> f[s]]
    BY <1>2
  <2> SUFFICES ASSUME Bad # {} PROVE FALSE
    <3>1. \A s \in SUBSET S : iter[s] = f[s]
      OBVIOUS
    <3> HIDE DEF rec, Bad
    <3> QED BY <2>a, <2>b, <3>1, Zenon
  <2>1. IsFiniteSet(S)
    BY FS_Subset, QuotaAssumption
  <2>2. PICK s \in Bad : \A o \in s : s \ {o} \notin Bad
    BY <2>1, SmallestSubset
  <2> DEFINE x == CHOOSE x \in s : TRUE
  <2>3. CASE s = {}
    BY <1>3, <2>2, <2>3 DEF Adds
  <2>4. CASE s # {}
    <3>1. x \in s
      BY <2>4
    <3>2. iter[s] = Size[x] + iter[s \ {x}]
      BY <1>3, <2>4
    <3>3. f[s] = Size[x] + f[s \ {x}]
      BY <1>2, <2>4
    <3>4. iter[s \ {x}] = f[s \ {x}]
      BY <2>2, <3>1
    <3> QED BY <2>2, <3>2, <3>3, <3>4
  <2> QED BY <2>3, <2>4
<1> QED BY <1>1, <1>4

(* The size of a set of objects is what it is without one of them, and that one. *)
LEMMA TotalAdds ==
  /\ Total({}) = 0
  /\ \A S \in SUBSET Objects : Total(S) \in Nat
  /\ \A S \in SUBSET Objects : \A o \in S : Total(S) = Total(S \ {o}) + Size[o]
<1>1. PICK f : Adds(f, Objects)
  BY SumExists
<1>2. ASSUME NEW S \in SUBSET Objects PROVE Total(S) = f[S]
  <2> DEFINE g == [X \in SUBSET S |-> f[X]]
  <2>1. Adds(g, S)
    BY <1>1 DEF Adds
  <2> HIDE DEF g
  <2>2. Total(S) = g[S]
    BY <2>1, TotalIs
  <2> QED BY <2>2 DEF g
<1>3. \A S \in SUBSET Objects : \A o \in S : S \ {o} \in SUBSET Objects
  OBVIOUS
<1> QED BY <1>1, <1>2, <1>3 DEF Adds

LEMMA StoredIsTotal == Stored = Total(Uploaded) /\ Stored' = Total(Uploaded')
<1>1. Stored = Total(Uploaded)
  BY DEF Stored, Total
<1>2. Stored' = Total(Uploaded')
  BY DEF Stored, Total, MapThenSumSet, MapThenFoldSet
<1> QED BY <1>1, <1>2

(* An object is promoted, an uploaded one is deleted, or neither. *)
LEMMA StoredRises ==
  ASSUME TypeOK, NEW o \in Objects, status[o] # "uploaded",
         status' = [status EXCEPT ![o] = "uploaded"]
  PROVE  Stored' = Stored + Size[o] /\ Cardinality(Uploaded)' = Cardinality(Uploaded) + 1
<1>1. Uploaded' = Uploaded \cup {o} /\ o \notin Uploaded /\ Uploaded \in SUBSET Objects
  BY DEF TypeOK, Uploaded
<1>2. Uploaded' \in SUBSET Objects /\ o \in Uploaded' /\ Uploaded' \ {o} = Uploaded
  BY <1>1
<1>3. Total(Uploaded') = Total(Uploaded) + Size[o]
  BY <1>2, TotalAdds
<1>4. Stored = Total(Uploaded) /\ Stored' = Total(Uploaded')
  BY StoredIsTotal
<1>5. IsFiniteSet(Uploaded)
  BY <1>1, FS_Subset, QuotaAssumption
<1> QED BY <1>1, <1>3, <1>4, <1>5, FS_AddElement

LEMMA StoredFalls ==
  ASSUME TypeOK, NEW o \in Objects, status[o] = "uploaded",
         status' = [status EXCEPT ![o] = "deleted"]
  PROVE  /\ Stored = Stored' + Size[o] /\ Stored' \in Nat
         /\ Cardinality(Uploaded) = Cardinality(Uploaded)' + 1 /\ Cardinality(Uploaded)' \in Nat
<1>1. Uploaded' = Uploaded \ {o} /\ o \in Uploaded /\ Uploaded \in SUBSET Objects
  BY DEF TypeOK, Uploaded
<1>2. Total(Uploaded) = Total(Uploaded') + Size[o] /\ Total(Uploaded') \in Nat
  BY <1>1, TotalAdds
<1>3. Stored = Total(Uploaded) /\ Stored' = Total(Uploaded')
  BY StoredIsTotal
<1>4. IsFiniteSet(Uploaded) /\ IsFiniteSet(Uploaded')
  BY <1>1, FS_Subset, QuotaAssumption
<1>5. Cardinality(Uploaded') \in Nat /\ Cardinality(Uploaded) = Cardinality(Uploaded') + 1
  <2>1. Cardinality(Uploaded') = Cardinality(Uploaded) - 1
    BY <1>1, <1>4, FS_RemoveElement
  <2>2. Cardinality(Uploaded) \in Nat /\ Cardinality(Uploaded') \in Nat
    BY <1>4, FS_CardinalityType
  <2> QED BY <2>1, <2>2
<1> QED BY <1>2, <1>3, <1>5

LEMMA StoredStays ==
  ASSUME Uploaded' = Uploaded
  PROVE  Stored' = Stored /\ Cardinality(Uploaded)' = Cardinality(Uploaded)
<1>1. Stored = Total(Uploaded) /\ Stored' = Total(Uploaded')
  BY StoredIsTotal
<1> QED BY <1>1

LEMMA StoredOfNothing ==
  ASSUME Uploaded = {} PROVE Stored = 0 /\ Cardinality(Uploaded) = 0
<1>1. Stored = Total(Uploaded)
  BY StoredIsTotal
<1> QED BY <1>1, TotalAdds, FS_EmptySet

-----------------------------------------------------------------------------
(* The running totals                                                      *)

(* On a tenanted scope there is one row at most; whoever has flushed the first
   is the only one to hold a lock until it commits. *)
OneRow == \A v, w \in present : v = w

FirstRowAlone ==
  \A k \in Slots :
    pc[k] \in {"credit", "overrun"} /\ mine[k] \notin present
      => present = {} /\ \A v \in Rows : lock[v] \in {None, k}

Balanced == /\ present = {} => Uploaded = {}
            /\ \A w \in present : bytes[w] = Stored /\ count[w] = Cardinality(Uploaded)

LedgerOK == Tenanted => OneRow /\ FirstRowAlone /\ (~drifted => Balanced)

(* What the totals of a row about to be written are, committed yet or not. *)
LEMMA RowBalanced ==
  ASSUME IInv, LedgerOK, Tenanted, ~drifted, NEW s \in Slots, pc[s] \in {"credit", "overrun"}
  PROVE  /\ mine[s] \in Rows
         /\ bytes[mine[s]] = Stored /\ count[mine[s]] = Cardinality(Uploaded)
         /\ \A w \in present : w = mine[s]
<1> DEFINE w == mine[s]
<1>1. w \in Rows /\ Balanced
  BY DEF IInv, SlotOK, LedgerOK
<1>2. CASE w \in present
  BY <1>1, <1>2 DEF Balanced, LedgerOK, OneRow
<1>3. CASE w \notin present
  <2>1. present = {} /\ Uploaded = {}
    BY <1>1, <1>3 DEF LedgerOK, FirstRowAlone, Balanced
  <2>2. bytes[w] = 0 /\ count[w] = 0
    BY <1>1, <1>3 DEF IInv, RowsFresh
  <2> QED BY <1>1, <2>1, <2>2, StoredOfNothing
<1> QED BY <1>2, <1>3

(* The commit of a credit keeps the balance, *)
LEMMA CreditBalanced ==
  ASSUME IInv, LedgerOK, Tenanted, ~drifted, NEW s \in Slots, CommitCredit(s)
  PROVE  Balanced'
<1> DEFINE w == mine[s]
           o == job[s]
<1>1. /\ w \in Rows /\ o \in Objects /\ pc[s] = "credit"
      /\ bytes[w] = seenBytes[s] /\ count[w] = seenCount[s]
      /\ bytes[w] \in Nat /\ count[w] \in Nat /\ Size[o] \in Nat
  BY QuotaAssumption DEF CommitCredit, IInv, SlotOK, TypeOK
<1>2. bytes[w] = Stored /\ count[w] = Cardinality(Uploaded) /\ \A v \in present : v = w
  BY <1>1, RowBalanced
<1>3. CASE UNCHANGED <<usageVars, status>>
  <2>1. Uploaded' = Uploaded
    BY <1>3 DEF Uploaded
  <2>2. Balanced
    BY DEF LedgerOK
  <2> QED BY <1>3, <2>1, <2>2, StoredStays DEF Balanced, usageVars
<1>4. CASE /\ status[o] = "initiated"
           /\ status' = [status EXCEPT ![o] = "uploaded"]
           /\ present' = present \cup {w}
           /\ bytes' = [bytes EXCEPT ![w] = seenBytes[s] + Size[o]]
           /\ count' = [count EXCEPT ![w] = seenCount[s] + 1]
  <2>1. Stored' = Stored + Size[o] /\ Cardinality(Uploaded)' = Cardinality(Uploaded) + 1
    BY <1>1, <1>4, StoredRises DEF IInv
  <2>2. bytes'[w] = bytes[w] + Size[o] /\ count'[w] = count[w] + 1
    BY <1>1, <1>4 DEF IInv, TypeOK
  <2>3. present' = {w}
    BY <1>2, <1>4
  <2> QED BY <1>2, <2>1, <2>2, <2>3 DEF Balanced
<1> QED BY <1>3, <1>4 DEF CommitCredit

(* a rejection credits nothing, *)
LEMMA RejectBalanced ==
  ASSUME IInv, LedgerOK, Tenanted, ~drifted, NEW s \in Slots, RejectOverQuota(s)
  PROVE  Balanced'
<1>1. /\ mine[s] \in Rows /\ bytes[mine[s]] = Stored /\ count[mine[s]] = Cardinality(Uploaded)
      /\ \A v \in present : v = mine[s]
  BY RowBalanced DEF RejectOverQuota
<1>2. Uploaded' = Uploaded /\ UNCHANGED <<bytes, count>>
  BY DEF RejectOverQuota, IInv, TypeOK, Uploaded
<1>3. present' \in {present, present \cup {mine[s]}}
  BY DEF RejectOverQuota
<1>4. Balanced
  BY DEF LedgerOK
<1> QED BY <1>1, <1>2, <1>3, <1>4, StoredStays DEF Balanced

(* and so does the debit of an object whose credit the row it read holds. *)
LEMMA DebitBalanced ==
  ASSUME IInv, LedgerOK, Tenanted, ~drifted', NEW s \in Slots, CommitDebit(s)
  PROVE  Balanced'
<1> DEFINE w == mine[s]
           o == job[s]
<1>1. /\ o \in Objects /\ w \in Rows \cup {None} /\ Size[o] \in Nat \ {0}
      /\ seenBytes[s] \in Nat /\ seenCount[s] \in Nat
      /\ w # None => w \in present
  BY QuotaAssumption DEF CommitDebit, IInv, SlotOK, TypeOK
<1>2. ~drifted /\ Balanced
  <2>1. drifted' = drifted \/ \E b \in BOOLEAN : drifted' = (drifted \/ b)
    BY DEF CommitDebit, Matches
  <2>2. ~drifted
    BY <2>1
  <2> QED BY <2>2 DEF LedgerOK
<1>3. CASE w # None
  <2>1. /\ status[o] = "uploaded" /\ status' = [status EXCEPT ![o] = "deleted"]
        /\ bytes[w] = seenBytes[s] /\ count[w] = seenCount[s]
        /\ present' = present
        /\ bytes' = IF Clamped(seenBytes[s] - Size[o]) = seenBytes[s] THEN bytes
                    ELSE [bytes EXCEPT ![w] = Clamped(seenBytes[s] - Size[o])]
        /\ count' = IF Clamped(seenCount[s] - 1) = seenCount[s] THEN count
                    ELSE [count EXCEPT ![w] = Clamped(seenCount[s] - 1)]
    BY <1>3 DEF CommitDebit, Matches
  <2>2. /\ Stored = Stored' + Size[o] /\ Stored' \in Nat
        /\ Cardinality(Uploaded) = Cardinality(Uploaded)' + 1 /\ Cardinality(Uploaded)' \in Nat
    BY <1>1, <2>1, StoredFalls DEF IInv
  <2>3. w \in present /\ bytes[w] = Stored /\ count[w] = Cardinality(Uploaded)
    BY <1>1, <1>2, <1>3 DEF Balanced
  <2>4. /\ Clamped(seenBytes[s] - Size[o]) = Stored' /\ Stored' # seenBytes[s]
        /\ Clamped(seenCount[s] - 1) = Cardinality(Uploaded)'
        /\ Cardinality(Uploaded)' # seenCount[s]
    <3> DEFINE st == Stored'
               cd == Cardinality(Uploaded)'
               sz == Size[o]
               sb == seenBytes[s]
               sc == seenCount[s]
    <3>1. sb = st + sz /\ sc = cd + 1 /\ st \in Nat /\ cd \in Nat /\ sz \in Nat \ {0}
      BY <1>1, <2>1, <2>2, <2>3
    <3> HIDE DEF st, cd, sz, sb, sc
    <3>2. Clamped(sb - sz) = st /\ st # sb /\ Clamped(sc - 1) = cd /\ cd # sc
      BY <3>1 DEF Clamped
    <3> QED BY <3>2 DEF st, cd, sz, sb, sc
  <2>5. bytes'[w] = Stored' /\ count'[w] = Cardinality(Uploaded)'
    BY <1>1, <1>3, <2>1, <2>4 DEF IInv, TypeOK
  <2>6. \A v \in present : v = w
    BY <2>3 DEF LedgerOK, OneRow
  <2> QED BY <2>1, <2>3, <2>5, <2>6 DEF Balanced
<1>4. CASE w = None /\ ~(Tenanted /\ present # {})
  <2>1. PICK v \in Rows \ present : present' = present \cup {v}
    BY <1>4 DEF CommitDebit
  <2>2. /\ present = {} /\ UNCHANGED <<bytes, count>> /\ status[o] = "rejected"
        /\ status' = [status EXCEPT ![o] = "deleted"]
    BY <1>4 DEF CommitDebit
  <2>3. Uploaded = {} /\ Uploaded' = Uploaded
    BY <1>2, <2>2 DEF Balanced, Uploaded, IInv, TypeOK
  <2>4. bytes'[v] = 0 /\ count'[v] = 0
    BY <2>1, <2>2 DEF IInv, RowsFresh
  <2>5. Stored' = 0 /\ Cardinality(Uploaded)' = 0
    BY <2>3, StoredStays, StoredOfNothing
  <2> QED BY <2>1, <2>2, <2>4, <2>5 DEF Balanced
<1>5. CASE w = None /\ Tenanted /\ present # {}
  <2>1. UNCHANGED <<usageVars, status>>
    BY <1>5 DEF CommitDebit
  <2>2. Uploaded' = Uploaded
    BY <2>1 DEF Uploaded
  <2> QED BY <1>2, <2>1, <2>2, StoredStays DEF Balanced, usageVars
<1> QED BY <1>3, <1>4, <1>5

(* A step that commits nothing and takes no lock. *)
LEMMA NothingCommitted ==
  ASSUME LedgerOK, present' = present, UNCHANGED <<bytes, count, drifted>>, Uploaded' = Uploaded,
         \A v \in Rows : lock'[v] \in {lock[v], None},
         \A k \in Slots : pc'[k] \in {"credit", "overrun"} => pc'[k] = pc[k] /\ mine'[k] = mine[k]
  PROVE  LedgerOK'
<1> SUFFICES ASSUME Tenanted PROVE OneRow' /\ FirstRowAlone' /\ (~drifted' => Balanced')
  BY DEF LedgerOK
<1>1. OneRow'
  BY DEF LedgerOK, OneRow
<1>2. FirstRowAlone'
  BY DEF LedgerOK, FirstRowAlone
<1>3. ASSUME ~drifted' PROVE Balanced'
  BY <1>3, StoredStays DEF LedgerOK, Balanced
<1> QED BY <1>1, <1>2, <1>3

(* A slot about to credit or to reject holds a lock, so nobody inserts beside it. *)
LEMMA HoldsLock ==
  ASSUME IInv, NEW k \in Slots, pc[k] \in {"credit", "overrun"}
  PROVE  mine[k] \in Rows /\ lock[mine[k]] = k /\ k # None
BY QuotaAssumption DEF IInv, SlotOK

LEMMA LedgerStep == IInv /\ LedgerOK /\ [Next]_vars => LedgerOK'
<1> SUFFICES ASSUME IInv, LedgerOK, [Next]_vars PROVE LedgerOK'
  OBVIOUS
<1>0. TypeOK
  BY DEF IInv
<1> USE DEF usageVars, quotaVars, slotVars, lockVars
<1>1. ASSUME NEW o \in Objects, Initiate(o) PROVE LedgerOK'
  <2>1. Uploaded' = Uploaded
    BY <1>0, <1>1 DEF Initiate, TypeOK, Uploaded
  <2> QED BY <1>1, <2>1, NothingCommitted DEF Initiate
<1>2. ASSUME SetQuota PROVE LedgerOK'
  <2> SUFFICES ASSUME Tenanted PROVE OneRow' /\ FirstRowAlone' /\ (~drifted' => Balanced')
    BY DEF LedgerOK
  <2>1. PICK w \in Rows : /\ w \in present \/ present = {}
                          /\ \A v \in Rows \ present : lock[v] = None
                          /\ present' = present \cup {w}
    BY <1>2 DEF SetQuota
  <2>2. UNCHANGED <<bytes, count, status, pc, mine, lock, drifted>>
    BY <1>2 DEF SetQuota
  <2>3. OneRow /\ FirstRowAlone /\ (~drifted => Balanced)
    BY DEF LedgerOK
  <2>4. OneRow'
    BY <2>1, <2>3 DEF OneRow
  <2>5. FirstRowAlone'
    <3> SUFFICES ASSUME NEW k \in Slots, pc[k] \in {"credit", "overrun"}, mine[k] \notin present'
                 PROVE  FALSE
      BY <2>2 DEF FirstRowAlone
    <3> QED BY <2>1, HoldsLock
  <2>6. ASSUME ~drifted' PROVE Balanced'
    <3>1. Uploaded' = Uploaded /\ Balanced
      BY <2>2, <2>3, <2>6 DEF Uploaded
    <3>2. CASE w \in present
      BY <2>1, <2>2, <3>1, <3>2, StoredStays DEF Balanced
    <3>3. CASE w \notin present
      <4>1. Uploaded = {} /\ present' = {w} /\ bytes[w] = 0 /\ count[w] = 0
        BY <2>1, <3>1, <3>3 DEF Balanced, IInv, RowsFresh
      <4>2. Stored' = 0 /\ Cardinality(Uploaded)' = 0
        BY <3>1, <4>1, StoredStays, StoredOfNothing
      <4> QED BY <2>2, <4>1, <4>2 DEF Balanced
    <3> QED BY <3>2, <3>3
  <2> QED BY <2>4, <2>5, <2>6
<1>3. ASSUME NEW o \in Objects, \/ \E s \in Completers : StartComplete(s, o)
                                \/ \E s \in Deleters : StartDelete(s, o)
      PROVE LedgerOK'
  <2>1. PICK s \in Slots : pc' = [pc EXCEPT ![s] = "reserve"] \/ pc' = [pc EXCEPT ![s] = "read"]
    BY <1>3 DEF StartComplete, StartDelete, Slots
  <2>2. \A k \in Slots : pc'[k] \in {"credit", "overrun"} => pc'[k] = pc[k]
    BY <1>0, <2>1 DEF TypeOK
  <2>3. UNCHANGED <<present, bytes, count, drifted, status, mine, lock>>
    BY <1>3 DEF StartComplete, StartDelete
  <2>4. Uploaded' = Uploaded
    BY <2>3 DEF Uploaded
  <2> QED BY <2>2, <2>3, <2>4, NothingCommitted
<1>4. ASSUME NEW s \in Slots, Finish(s), UNCHANGED <<usageVars, drifted>>, Uploaded' = Uploaded
      PROVE LedgerOK'
  <2>1. \A v \in Rows : lock'[v] \in {lock[v], None}
    BY <1>4 DEF Finish
  <2>2. \A k \in Slots : pc'[k] \in {"credit", "overrun"} => pc'[k] = pc[k] /\ mine'[k] = mine[k]
    BY <1>0, <1>4 DEF Finish, TypeOK
  <2> QED BY <1>4, <2>1, <2>2, NothingCommitted
<1>5. ASSUME NEW s \in Slots, RejectContent(s) \/ Rollback(s) PROVE LedgerOK'
  <2>1. Uploaded' = Uploaded
    BY <1>0, <1>5 DEF RejectContent, Rollback, TypeOK, Uploaded
  <2> QED BY <1>4, <1>5, <2>1 DEF RejectContent, Rollback
<1>6. ASSUME NEW s \in Slots, LockUsage(s) PROVE LedgerOK'
  <2>1. UNCHANGED <<usageVars, status, drifted>>
    BY <1>6 DEF LockUsage
  <2>2. Uploaded' = Uploaded
    BY <2>1 DEF Uploaded
  <2>3. CASE present = {}
    <3>1. UNCHANGED <<mine, lock>> /\ pc' = [pc EXCEPT ![s] = "insert"]
      BY <1>6, <2>3 DEF LockUsage
    <3>2. \A k \in Slots : pc'[k] \in {"credit", "overrun"} => pc'[k] = pc[k]
      BY <1>0, <3>1 DEF TypeOK
    <3> QED BY <2>1, <2>2, <3>1, <3>2, NothingCommitted
  <2>4. CASE present # {}
    <3> SUFFICES ASSUME Tenanted PROVE OneRow' /\ FirstRowAlone' /\ (~drifted' => Balanced')
      BY DEF LedgerOK
    <3>1. PICK w \in present : mine' = [mine EXCEPT ![s] = w] /\ \E v : pc' = [pc EXCEPT ![s] = v]
      BY <1>6, <2>4 DEF LockUsage
    <3>2. FirstRowAlone'
      BY <1>0, <2>1, <2>4, <3>1 DEF LedgerOK, FirstRowAlone, TypeOK
    <3>3. OneRow' /\ (~drifted' => Balanced')
      BY <2>1, <2>2, StoredStays DEF LedgerOK, OneRow, Balanced
    <3> QED BY <3>2, <3>3
  <2> QED BY <2>3, <2>4
<1>7. ASSUME NEW s \in Slots, InsertUsage(s) PROVE LedgerOK'
  <2>1. UNCHANGED <<usageVars, status, drifted>>
    BY <1>7 DEF InsertUsage
  <2>2. Uploaded' = Uploaded
    BY <2>1 DEF Uploaded
  <2>3. CASE Finish(s)
    BY <1>4, <2>1, <2>2, <2>3
  <2>4. CASE ~Finish(s)
    <3> SUFFICES ASSUME Tenanted PROVE OneRow' /\ FirstRowAlone' /\ (~drifted' => Balanced')
      BY DEF LedgerOK
    <3>1. /\ present = {} /\ \A w \in Rows : lock[w] = None
          /\ \E w \in Rows : lock' = [lock EXCEPT ![w] = s]
          /\ \E v : pc' = [pc EXCEPT ![s] = v]
      BY <1>7, <2>4 DEF InsertUsage
    <3>2. \A k \in Slots : pc[k] \notin {"credit", "overrun"}
      BY <3>1, HoldsLock
    <3>3. FirstRowAlone'
      BY <1>0, <2>1, <3>1, <3>2 DEF FirstRowAlone, TypeOK
    <3>4. OneRow' /\ (~drifted' => Balanced')
      BY <2>1, <2>2, StoredStays DEF LedgerOK, OneRow, Balanced
    <3> QED BY <3>3, <3>4
  <2> QED BY <2>3, <2>4
<1>8. ASSUME NEW s \in Slots, CommitCredit(s) \/ RejectOverQuota(s) PROVE LedgerOK'
  <2> SUFFICES ASSUME Tenanted PROVE OneRow' /\ FirstRowAlone' /\ (~drifted' => Balanced')
    BY DEF LedgerOK
  <2>1. /\ Finish(s) /\ UNCHANGED drifted /\ pc[s] \in {"credit", "overrun"}
        /\ present' \in {present, present \cup {mine[s]}}
    BY <1>8 DEF CommitCredit, RejectOverQuota
  <2>2. mine[s] \in Rows /\ lock[mine[s]] = s /\ s # None
    BY <2>1, HoldsLock
  <2>3. OneRow /\ FirstRowAlone
    BY DEF LedgerOK
  <2>4. OneRow'
    BY <2>1, <2>3 DEF OneRow, FirstRowAlone
  <2>5. FirstRowAlone'
    <3> SUFFICES ASSUME NEW k \in Slots, pc'[k] \in {"credit", "overrun"}, mine'[k] \notin present'
                 PROVE  present' = {} /\ \A v \in Rows : lock'[v] \in {None, k}
      BY DEF FirstRowAlone
    <3>1. k # s /\ pc'[k] = pc[k] /\ mine'[k] = mine[k]
      BY <1>0, <2>1 DEF Finish, TypeOK
    <3>2. mine[k] \notin present
      BY <2>1, <3>1
    <3>3. \A v \in Rows : lock[v] \in {None, k}
      BY <2>3, <3>1, <3>2 DEF FirstRowAlone
    <3> QED BY <2>2, <3>1, <3>3
  <2>6. ~drifted' => Balanced'
    BY <1>8, <2>1, CreditBalanced, RejectBalanced
  <2> QED BY <2>4, <2>5, <2>6
<1>9. ASSUME NEW s \in Slots, ReadUsage(s) PROVE LedgerOK'
  <2>1. UNCHANGED <<usageVars, status, drifted, lock>> /\ pc' = [pc EXCEPT ![s] = "debit"]
    BY <1>9 DEF ReadUsage
  <2>2. \A k \in Slots : pc'[k] \in {"credit", "overrun"} => pc'[k] = pc[k] /\ mine'[k] = mine[k]
    BY <1>0, <1>9 DEF ReadUsage, TypeOK
  <2>3. Uploaded' = Uploaded
    BY <2>1 DEF Uploaded
  <2> QED BY <2>1, <2>2, <2>3, NothingCommitted
<1>10. ASSUME NEW s \in Slots, CommitDebit(s) PROVE LedgerOK'
  <2> SUFFICES ASSUME Tenanted PROVE OneRow' /\ FirstRowAlone' /\ (~drifted' => Balanced')
    BY DEF LedgerOK
  <2>1. Finish(s)
    BY <1>10 DEF CommitDebit
  <2>2. \/ present' = present
        \/ /\ present = {} /\ \A u \in Rows : lock[u] = None
           /\ \E v \in Rows : present' = {v}
    BY <1>10 DEF CommitDebit
  <2>3. OneRow'
    BY <2>2 DEF LedgerOK, OneRow
  <2>4. \A k \in Slots : pc'[k] \in {"credit", "overrun"} => pc'[k] = pc[k] /\ mine'[k] = mine[k]
    BY <1>0, <2>1 DEF Finish, TypeOK
  <2>5. \A v \in Rows : lock'[v] \in {lock[v], None}
    BY <2>1 DEF Finish
  <2>6. FirstRowAlone'
    <3>1. CASE present' = present
      BY <2>4, <2>5, <3>1 DEF LedgerOK, FirstRowAlone
    <3>2. CASE \A u \in Rows : lock[u] = None
      BY <2>4, <3>2, HoldsLock DEF FirstRowAlone
    <3> QED BY <2>2, <3>1, <3>2
  <2>7. ~drifted' => Balanced'
    BY <1>10, DebitBalanced
  <2> QED BY <2>3, <2>6, <2>7
<1>11. CASE UNCHANGED vars
  <2>1. Uploaded' = Uploaded
    BY <1>11 DEF vars, Uploaded
  <2> QED BY <1>11, <2>1, NothingCommitted DEF vars
<1> QED BY <1>1, <1>2, <1>3, <1>5, <1>6, <1>7, <1>8, <1>9, <1>10, <1>11
        DEF Next, Complete, Delete

LEMMA LedgerInit == Init => LedgerOK
<1> SUFFICES ASSUME Init PROVE LedgerOK
  OBVIOUS
<1>1. present = {} /\ Uploaded = {} /\ \A k \in Slots : pc[k] = "idle"
  BY DEF Init, Uploaded
<1> QED BY <1>1 DEF LedgerOK, OneRow, FirstRowAlone, Balanced

(* Up to the first delete that debits totals it does not match, the totals of a
   tenanted scope equal what its objects take up, for any objects, sizes and
   requests: core/quotas.py:3-5. *)
THEOREM TotalsExact == Spec => []LedgerExact
<1>1. Init => LedgerOK
  BY LedgerInit
<1>2. LedgerOK => LedgerExact
  BY DEF LedgerOK, Balanced, LedgerExact
<1>3. IInv /\ LedgerOK /\ [Next]_vars => LedgerOK'
  BY LedgerStep
<1> QED BY <1>1, <1>2, <1>3, InductiveInvariant, PTL DEF Spec

-----------------------------------------------------------------------------
(* The quota                                                               *)

(* No override lets a scope have more than the default. *)
OverridesOnlyLower == \A q \in Overrides : Within(q, DefaultBytes) /\ Within(q, DefaultObjects)

(* A total within the ceiling in force is within the default. *)
LEMMA CeilingsOnlyLower ==
  ASSUME TypeOK, OverridesOnlyLower, NEW w \in Rows, NEW n \in Nat
  PROVE  /\ Within(n, CeilingBytes(w)) => Within(n, DefaultBytes)
         /\ Within(n, CeilingObjects(w)) => Within(n, DefaultObjects)
<1>1. CeilingBytes(w) \in Overrides \cup {DefaultBytes} /\ CeilingObjects(w) \in Overrides \cup {DefaultObjects}
  BY DEF CeilingBytes, CeilingObjects, TypeOK
<1>2. ASSUME NEW q \in Overrides, NEW d \in {DefaultBytes, DefaultObjects}, Within(n, q)
      PROVE  Within(n, d)
  <2>1. q \in Nat /\ q # Unlimited /\ Within(q, d) /\ d \in Nat \cup {Unlimited}
    BY <1>2, QuotaAssumption DEF OverridesOnlyLower
  <2> QED BY <1>2, <2>1 DEF Within
<1> QED BY <1>1, <1>2

(* What is stored is within the quota for good: only a credit raises it. *)
LEMMA QuotaStep ==
  ASSUME Tenanted, OverridesOnlyLower, IInv, LedgerOK, LedgerOK', StoredWithinQuota, [Next]_vars
  PROVE  StoredWithinQuota'
<1> SUFFICES ASSUME ~drifted'
             PROVE  Within(Stored', DefaultBytes) /\ Within(Cardinality(Uploaded)', DefaultObjects)
  BY DEF StoredWithinQuota
<1>0. TypeOK /\ \A k \in Slots : SlotOK(k)
  BY DEF IInv
<1>1. CASE \E o \in Objects : status[o] # "uploaded" /\ status'[o] = "uploaded"
  <2>1. PICK o \in Objects : status[o] # "uploaded" /\ status'[o] = "uploaded"
    BY <1>1
  <2>2. PICK s \in Slots : CommitCredit(s) /\ status[job[s]] = "initiated"
    BY <1>0, <2>1 DEF Next, Complete, Delete, Initiate, SetQuota, StartComplete, StartDelete, RejectContent,
       LockUsage, InsertUsage, CommitCredit, RejectOverQuota, ReadUsage, CommitDebit, Rollback, vars, TypeOK
  <2> DEFINE w == mine[s]
             p == job[s]
  <2>3. /\ w \in Rows /\ p \in Objects /\ pc[s] = "credit"
        /\ bytes[w] = seenBytes[s] /\ count[w] = seenCount[s]
        /\ bytes[w] \in Nat /\ count[w] \in Nat /\ Size[p] \in Nat
        /\ Fits(w, bytes[w], count[w], Size[p])
    BY <1>0, <2>2, QuotaAssumption DEF CommitCredit, SlotOK, TypeOK
  <2>4. /\ present' = present \cup {w}
        /\ bytes'[w] = bytes[w] + Size[p] /\ count'[w] = count[w] + 1
    BY <1>0, <2>2, <2>3 DEF CommitCredit, TypeOK
  <2>5. bytes'[w] = Stored' /\ count'[w] = Cardinality(Uploaded)'
    BY <2>4 DEF LedgerOK, Balanced
  <2>6. Within(bytes'[w], CeilingBytes(w)) /\ Within(count'[w], CeilingObjects(w))
    BY <2>3, <2>4 DEF Fits
  <2>7. bytes'[w] \in Nat /\ count'[w] \in Nat
    BY <2>3, <2>4
  <2> QED BY <1>0, <2>3, <2>5, <2>6, <2>7, CeilingsOnlyLower
<1>2. CASE \A o \in Objects : status'[o] = "uploaded" => status[o] = "uploaded"
  <2>1. ~drifted
    BY DEF Next, Complete, Delete, Initiate, SetQuota, StartComplete, StartDelete, RejectContent,
       LockUsage, InsertUsage, CommitCredit, RejectOverQuota, ReadUsage, CommitDebit, Rollback, vars
  <2>2. Uploaded' \subseteq Uploaded /\ Uploaded \in SUBSET Objects
    BY <1>2 DEF Uploaded
  <2>3. Stored' <= Stored /\ Stored \in Nat /\ Stored' \in Nat
    <3>1. Uploaded' \in SUBSET Objects
      BY <2>2
    <3>2. Stored = Total(Uploaded) /\ Stored' = Total(Uploaded') /\ Stored \in Nat /\ Stored' \in Nat
      BY <2>2, <3>1, StoredIsTotal, TotalAdds
    <3>3. CASE Uploaded' = Uploaded
      BY <3>2, <3>3
    <3>4. CASE Uploaded' # Uploaded
      <4>1. PICK s \in Slots : CommitDebit(s)
        BY <1>0, <1>2, <3>4 DEF Next, Complete, Delete, Initiate, SetQuota, StartComplete, StartDelete,
           RejectContent, LockUsage, InsertUsage, CommitCredit, RejectOverQuota, ReadUsage, Rollback,
           vars, TypeOK, Uploaded
      <4>2. /\ job[s] \in Objects /\ status[job[s]] = "uploaded"
            /\ status' = [status EXCEPT ![job[s]] = "deleted"]
        BY <1>0, <3>4, <4>1 DEF CommitDebit, SlotOK, TypeOK, Uploaded
      <4>3. Stored = Stored' + Size[job[s]] /\ Size[job[s]] \in Nat
        BY <1>0, <4>2, StoredFalls, QuotaAssumption
      <4> QED BY <3>2, <4>3
    <3> QED BY <3>3, <3>4
  <2>4. /\ Cardinality(Uploaded)' <= Cardinality(Uploaded)
        /\ Cardinality(Uploaded)' \in Nat /\ Cardinality(Uploaded) \in Nat
    BY <2>2, FS_Subset, FS_CardinalityType, QuotaAssumption
  <2>5. Within(Stored, DefaultBytes) /\ Within(Cardinality(Uploaded), DefaultObjects)
    BY <2>1 DEF StoredWithinQuota
  <2> QED BY <2>3, <2>4, <2>5, QuotaAssumption DEF Within
<1> QED BY <1>1, <1>2

(* complete_upload (uploads.py:406): on a tenanted scope concurrent completions
   cannot overrun the quota, as long as no delete debited what it did not match. *)
THEOREM QuotaNotOverrun ==
  ASSUME Tenanted, OverridesOnlyLower PROVE Spec => []StoredWithinQuota
<1>1. Init => StoredWithinQuota
  <2> SUFFICES ASSUME Init PROVE StoredWithinQuota
    OBVIOUS
  <2>1. Uploaded = {}
    BY DEF Init, Uploaded
  <2>2. Stored = 0 /\ Cardinality(Uploaded) = 0
    BY <2>1, StoredOfNothing
  <2> QED BY <2>2, QuotaAssumption DEF StoredWithinQuota, Within
<1>2. IInv /\ LedgerOK /\ [Next]_vars => LedgerOK'
  BY LedgerStep
<1>3. Tenanted /\ OverridesOnlyLower
  OBVIOUS
<1>4. IInv /\ LedgerOK /\ LedgerOK' /\ StoredWithinQuota /\ [Next]_vars => StoredWithinQuota'
  BY <1>3, QuotaStep
<1> QED BY <1>1, <1>2, <1>4, LedgerInit, InductiveInvariant, PTL DEF Spec
==============================================================================
