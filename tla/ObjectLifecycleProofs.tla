------------------------ MODULE ObjectLifecycleProofs ------------------------
(***************************************************************************)
(* Row and bytes stay together for any visibilities, any number of purges  *)
(* and any failures, as long as the updates, deletes and repairs of one    *)
(* object do not overlap.  Since no row is locked, what a request loaded   *)
(* is then still so when it commits: MoverOK says it, step by step.        *)
(***************************************************************************)
EXTENDS ObjectLifecycle, TLAPS

Movers == Updaters \cup Deleters \cup Repairers

OneMover == (\A s, t \in Movers : s = t) /\ Movers \cap Purgers = {}

(* A request under way sees the row as it loaded it, has copied the bytes
   before it commits, and afterwards drops another bucket than the row's. *)
MoverOK(s) ==
  /\ pc[s] \notin {"wipe", "purgeRow"}
  /\ pc[s] \in {"relocate", "save", "undo", "archive", "softDelete"} =>
       /\ exists /\ ~deleted
       /\ fromVis[s] = visibility /\ fromBucket[s] = bucket
       /\ toVis[s] \in Visibilities /\ toBucket[s] \in Buckets
  /\ pc[s] \in {"relocate", "archive"} => toBucket[s] = bucket
  /\ pc[s] = "save" => toBucket[s] = BucketOf(toVis[s])
  /\ pc[s] = "softDelete" => toBucket[s] \in {bucket, Archive}
  /\ pc[s] \in {"save", "softDelete"} /\ ~infected => toBucket[s] \in stored
  /\ pc[s] = "softDelete" /\ ~infected /\ ~Moved(s) => unarchived
  /\ pc[s] = "undo" => Moved(s)
  /\ pc[s] = "drop" => fromBucket[s] # bucket
  /\ pc[s] = "dropPublic" => deleted /\ (infected \/ unarchived)
  /\ pc[s] = "repair" => ~(exists /\ bucket = fromBucket[s])

(* A purge acts on a soft-deleted row. *)
PurgerOK(p) == /\ pc[p] \in {"idle", "wipe", "purgeRow"}
               /\ pc[p] # "idle" => deleted

RowOK == /\ ~exists => deleted
         /\ BytesFollowVisibility /\ LiveBytesPresent /\ Recoverable

IInv == /\ TypeOK /\ RowOK
        /\ \A s \in Movers : MoverOK(s)
        /\ \A p \in Purgers : PurgerOK(p)

-----------------------------------------------------------------------------
(* Types                                                                   *)

SlotsTyped ==
  /\ pc \in [Slots -> {"idle", "relocate", "save", "undo", "drop", "archive",
                       "softDelete", "dropPublic", "wipe", "purgeRow", "repair"}]
  /\ fromVis \in [Slots -> Visibilities \cup {None}]
  /\ toVis \in [Slots -> Visibilities \cup {None}]
  /\ fromBucket \in [Slots -> Buckets \cup {None}]
  /\ toBucket \in [Slots -> Buckets \cup {None}]

RowTyped ==
  /\ exists \in BOOLEAN /\ deleted \in BOOLEAN /\ aged \in BOOLEAN
  /\ status \in {"uploaded", "ready", "deleted"}
  /\ scan \in {"pending", "clean", "quarantined"}
  /\ visibility \in Visibilities
  /\ bucket \in Buckets /\ stored \in SUBSET Buckets
  /\ scanBucket \in Buckets /\ infected \in BOOLEAN
  /\ verdicts \in 0 .. VerdictCap /\ deletions \in Nat
  /\ failed \in BOOLEAN /\ unarchived \in BOOLEAN /\ wiped \in BOOLEAN

LEMMA TypesSplit == TypeOK <=> SlotsTyped /\ RowTyped
BY DEF TypeOK, SlotsTyped, RowTyped

LEMMA TypesSplitNext == TypeOK' <=> SlotsTyped' /\ RowTyped'
BY DEF TypeOK, SlotsTyped, RowTyped

(* Every visibility has a bucket of its own kind, never the archive. *)
LEMMA BucketOfVisibility ==
  ASSUME NEW v \in Visibilities PROVE BucketOf(v) \in Buckets \ {Archive}
BY LifecycleAssumption DEF BucketOf, Buckets, Archive

(* The ways a step of slot s changes what the slots hold. *)
Moves(s) == \E label \in {"idle", "relocate", "save", "undo", "drop", "archive",
                          "softDelete", "dropPublic", "wipe", "purgeRow", "repair"} :
              Goto(s, label)

LEMMA SlotStepTyped ==
  ASSUME TypeOK, NEW s \in Slots, Moves(s),
         \/ UNCHANGED reqVars
         \/ Finish(s)
         \/ \E v \in Visibilities : Load(s, v)
         \/ \E b \in Buckets : /\ toBucket' = [toBucket EXCEPT ![s] = b]
                               /\ UNCHANGED <<fromVis, fromBucket, toVis>>
         \/ \E b \in Buckets : /\ fromBucket' = [fromBucket EXCEPT ![s] = b]
                               /\ UNCHANGED <<fromVis, toVis, toBucket>>
  PROVE  SlotsTyped'
<1>1. SlotsTyped /\ visibility \in Visibilities /\ bucket \in Buckets
  BY DEF TypeOK, SlotsTyped
<1>2. pc' \in [Slots -> {"idle", "relocate", "save", "undo", "drop", "archive",
                         "softDelete", "dropPublic", "wipe", "purgeRow", "repair"}]
  BY <1>1 DEF SlotsTyped, Moves, Goto
<1>3. /\ fromVis' \in [Slots -> Visibilities \cup {None}]
      /\ toVis' \in [Slots -> Visibilities \cup {None}]
  BY <1>1 DEF SlotsTyped, reqVars, Finish, Load
<1>4. /\ fromBucket' \in [Slots -> Buckets \cup {None}]
      /\ toBucket' \in [Slots -> Buckets \cup {None}]
  BY <1>1 DEF SlotsTyped, reqVars, Finish, Load
<1> QED BY <1>2, <1>3, <1>4 DEF SlotsTyped

LEMMA FinishMoves == ASSUME NEW s, Finish(s) PROVE Moves(s)
BY DEF Finish, Moves

LEMMA GotoMoves ==
  ASSUME NEW s, NEW label \in {"idle", "relocate", "save", "undo", "drop", "archive",
                               "softDelete", "dropPublic", "wipe", "purgeRow", "repair"},
         Goto(s, label)
  PROVE  Moves(s)
BY DEF Moves

-----------------------------------------------------------------------------
(* What the slots that do not move are left with                           *)

(* A request's step leaves the others as they were: there is no other mover. *)
LEMMA MoverStep ==
  ASSUME OneMover, IInv, NEW s \in Movers, NEW label, Goto(s, label),
         deleted => deleted', SlotsTyped', RowTyped', RowOK', MoverOK(s)'
  PROVE  IInv'
<1>1. \A t \in Movers : MoverOK(t)'
  BY DEF OneMover
<1>2. ASSUME NEW p \in Purgers PROVE PurgerOK(p)'
  <2>1. p # s /\ PurgerOK(p) /\ pc \in [Slots -> {"idle", "relocate", "save", "undo",
          "drop", "archive", "softDelete", "dropPublic", "wipe", "purgeRow", "repair"}]
    BY DEF OneMover, IInv, TypeOK
  <2>2. p \in Slots /\ s \in Slots
    BY DEF Slots, Movers
  <2>3. pc'[p] = pc[p]
    BY <2>1, <2>2 DEF Goto
  <2> QED BY <2>1, <2>3 DEF PurgerOK
<1> QED BY <1>1, <1>2, TypesSplitNext DEF IInv

(* A purge's step concerns a soft-deleted row, which no request moves. *)
LEMMA PurgerStep ==
  ASSUME OneMover, IInv, NEW p \in Purgers, NEW label \in {"idle", "wipe", "purgeRow"},
         Goto(p, label), deleted, UNCHANGED <<visibility, bucket, deleted, infected, unarchived>>,
         exists' => exists,
         \A s \in Slots \ {p} : /\ fromBucket'[s] = fromBucket[s]
                                /\ toBucket'[s] = toBucket[s],
         SlotsTyped', RowTyped', RowOK'
  PROVE  IInv'
<1>1. ASSUME NEW s \in Movers PROVE MoverOK(s)'
  <2>1. s # p /\ MoverOK(s) /\ pc \in [Slots -> {"idle", "relocate", "save", "undo",
          "drop", "archive", "softDelete", "dropPublic", "wipe", "purgeRow", "repair"}]
    BY DEF OneMover, IInv, TypeOK
  <2>2. s \in Slots /\ p \in Slots
    BY DEF Slots, Movers
  <2>3. pc'[s] = pc[s] /\ fromBucket'[s] = fromBucket[s] /\ toBucket'[s] = toBucket[s]
    BY <2>1, <2>2 DEF Goto
  <2>4. pc[s] \in {"idle", "drop", "dropPublic", "repair"}
    BY <2>1, <2>2 DEF MoverOK
  <2> QED BY <2>1, <2>3, <2>4 DEF MoverOK, Moved
<1>2. ASSUME NEW q \in Purgers PROVE PurgerOK(q)'
  <2>1. PurgerOK(q) /\ pc \in [Slots -> {"idle", "relocate", "save", "undo",
          "drop", "archive", "softDelete", "dropPublic", "wipe", "purgeRow", "repair"}]
    BY DEF IInv, TypeOK
  <2>2. q \in Slots /\ p \in Slots
    BY DEF Slots
  <2> QED BY <2>1, <2>2 DEF PurgerOK, Goto
<1> QED BY <1>1, <1>2, TypesSplitNext DEF IInv

(* An idle slot holds nothing. *)
LEMMA FinishOK == ASSUME TypeOK, NEW s \in Slots, Finish(s) PROVE MoverOK(s)'
<1>1. pc'[s] = "idle"
  BY DEF TypeOK, Finish, Goto
<1> QED BY <1>1 DEF MoverOK

(* Dropping a copy the row does not point at, or none, leaves the row's bytes. *)
LEMMA OthersDropped ==
  ASSUME RowOK, TypeOK, NEW b, ~(exists /\ b = bucket), Remove(b) \/ UNCHANGED <<stored, failed>>,
         UNCHANGED <<rowVars, jobVars, verdicts, deletions, unarchived, wiped>>
  PROVE  RowOK' /\ RowTyped' /\ (stored \ {b}) \subseteq stored'
<1>1. (stored \ {b}) \subseteq stored' /\ stored' \subseteq stored /\ failed' \in BOOLEAN
  BY DEF Remove, TypeOK
<1>2. RowTyped'
  BY <1>1 DEF RowTyped, TypeOK, rowVars, jobVars
<1>3. RowOK'
  BY <1>1 DEF RowOK, BytesFollowVisibility, LiveBytesPresent, Recoverable, rowVars, jobVars
<1> QED BY <1>1, <1>2, <1>3

-----------------------------------------------------------------------------
(* The steps of a request                                                  *)

LEMMA InitIInv == Init => IInv
<1> SUFFICES ASSUME Init PROVE IInv
  OBVIOUS
<1> USE DEF Init
<1>1. visibility \in Visibilities /\ bucket = BucketOf(visibility) /\ bucket \in Buckets
  BY LifecycleAssumption, BucketOfVisibility
<1>2. TypeOK
  <2>1. SlotsTyped
    BY DEF SlotsTyped
  <2>2. 0 \in 0 .. VerdictCap
    BY LifecycleAssumption
  <2>3. RowTyped
    BY <1>1, <2>2 DEF RowTyped
  <2> QED BY <2>1, <2>3, TypesSplit
<1>3. RowOK
  BY <1>1 DEF RowOK, BytesFollowVisibility, LiveBytesPresent, Recoverable
<1>4. \A s \in Movers : MoverOK(s)
  BY DEF MoverOK, Movers, Slots
<1>5. \A p \in Purgers : PurgerOK(p)
  BY DEF PurgerOK, Slots
<1> QED BY <1>2, <1>3, <1>4, <1>5 DEF IInv

(* Loading the row, to update or to delete it. *)
LEMMA LoadsKeep ==
  ASSUME OneMover, IInv, NEW s \in Movers,
         LoadForDelete(s) \/ \E v \in Visibilities : LoadForUpdate(s, v)
  PROVE  IInv'
<1>1. PICK v \in Visibilities, label \in {"save", "relocate", "archive"} :
        /\ Load(s, v) /\ Goto(s, label) /\ exists /\ ~deleted
        /\ label = "save" => BucketOf(v) = bucket
  <2>1. CASE LoadForDelete(s)
    BY <2>1 DEF LoadForDelete, IInv, TypeOK
  <2>2. ASSUME NEW v \in Visibilities, LoadForUpdate(s, v)
        PROVE  \E label \in {"save", "relocate", "archive"} :
                 /\ Load(s, v) /\ Goto(s, label) /\ exists /\ ~deleted
                 /\ label = "save" => BucketOf(v) = bucket
    BY <2>2 DEF LoadForUpdate, IInv, RowOK, BytesFollowVisibility
  <2> QED BY <2>1, <2>2
<1>2. UNCHANGED <<rowVars, stored, jobVars, histVars>>
  BY DEF LoadForDelete, LoadForUpdate
<1>3. s \in Slots /\ TypeOK /\ RowOK /\ bucket \in Buckets
  BY DEF IInv, TypeOK, Movers, Slots
<1>4. SlotsTyped'
  BY <1>1, <1>3, SlotStepTyped, GotoMoves
<1>5. RowTyped' /\ RowOK'
  BY <1>2, <1>3 DEF TypeOK, RowTyped, RowOK, BytesFollowVisibility, LiveBytesPresent,
                    Recoverable, rowVars, jobVars, histVars
<1>6. /\ pc'[s] = label /\ fromVis'[s] = visibility /\ toVis'[s] = v
      /\ fromBucket'[s] = bucket /\ toBucket'[s] = bucket
  BY <1>1, <1>3 DEF Load, Goto, TypeOK
<1>7. MoverOK(s)'
  BY <1>1, <1>2, <1>3, <1>6 DEF MoverOK, RowOK, LiveBytesPresent, rowVars, jobVars
<1> QED BY <1>1, <1>2, <1>4, <1>5, <1>7, MoverStep DEF rowVars

LEMMA RelocateKeeps ==
  ASSUME OneMover, IInv, NEW s \in Movers, Relocate(s) PROVE IInv'
<1>1. s \in Slots /\ TypeOK /\ RowOK /\ MoverOK(s)
  BY DEF IInv, Movers, Slots
<1>2. UNCHANGED <<rowVars, jobVars, histVars>> /\ pc[s] = "relocate"
  BY DEF Relocate
<1>3. /\ toVis[s] \in Visibilities /\ BucketOf(toVis[s]) \in Buckets
      /\ fromVis[s] = visibility /\ fromBucket[s] = bucket /\ exists /\ ~deleted
  BY <1>1, <1>2, BucketOfVisibility DEF MoverOK
<1>4. CASE Copy(s, BucketOf(toVis[s])) /\ Goto(s, "save") /\ UNCHANGED <<fromVis, fromBucket, toVis>>
  <2>1. SlotsTyped'
    BY <1>1, <1>3, <1>4, SlotStepTyped, GotoMoves DEF Copy
  <2>2. stored' = stored \cup {BucketOf(toVis[s])}
    BY <1>4 DEF Copy
  <2>3. RowTyped' /\ RowOK'
    BY <1>1, <1>2, <1>3, <2>2 DEF TypeOK, RowTyped, RowOK, BytesFollowVisibility,
         LiveBytesPresent, Recoverable, rowVars, jobVars, histVars
  <2>4. pc'[s] = "save" /\ toBucket'[s] = BucketOf(toVis[s])
    BY <1>1, <1>4 DEF Copy, Goto, TypeOK
  <2>5. MoverOK(s)'
    BY <1>2, <1>3, <1>4, <2>2, <2>4 DEF MoverOK, rowVars, jobVars
  <2> QED BY <1>2, <1>4, <2>1, <2>3, <2>5, MoverStep DEF rowVars
<1>5. CASE CopyFails(s) /\ Finish(s)
  <2>1. SlotsTyped'
    BY <1>1, <1>5, SlotStepTyped, FinishMoves
  <2>2. RowTyped' /\ RowOK'
    BY <1>1, <1>2, <1>5 DEF CopyFails, TypeOK, RowTyped, RowOK, BytesFollowVisibility,
         LiveBytesPresent, Recoverable, rowVars, jobVars, histVars
  <2>3. Goto(s, "idle") /\ MoverOK(s)'
    BY <1>1, <1>5, FinishOK DEF Finish
  <2> QED BY <1>2, <2>1, <2>2, <2>3, MoverStep DEF rowVars
<1> QED BY <1>4, <1>5 DEF Relocate

LEMMA SaveKeeps ==
  ASSUME OneMover, IInv, NEW s \in Movers, SaveUpdate(s) PROVE IInv'
<1>1. s \in Slots /\ TypeOK /\ RowOK /\ MoverOK(s)
  BY DEF IInv, Movers, Slots
<1>2. UNCHANGED <<exists, status, scan, deleted, aged, stored, jobVars, verdicts,
                  deletions, unarchived, wiped>> /\ pc[s] = "save"
  BY DEF SaveUpdate
<1>3. /\ exists /\ ~deleted
      /\ toVis[s] \in Visibilities /\ toBucket[s] \in Buckets
      /\ toBucket[s] = BucketOf(toVis[s])
      /\ fromVis[s] = visibility /\ fromBucket[s] = bucket
      /\ infected \/ toBucket[s] \in stored
  BY <1>1, <1>2 DEF MoverOK
<1>4. PICK label \in {"idle", "drop", "undo"} :
        /\ Goto(s, label) /\ (label = "idle" => Finish(s))
        /\ label # "idle" => Moved(s) /\ UNCHANGED reqVars
        /\ label = "drop" => bucket' = toBucket[s]
        /\ label = "undo" => UNCHANGED <<visibility, bucket>>
  BY DEF SaveUpdate, Finish
<1>5. \/ UNCHANGED <<visibility, bucket>>
      \/ visibility' = toVis[s] /\ bucket' = toBucket[s]
  BY <1>3 DEF SaveUpdate, Moved
<1>6. SlotsTyped'
  BY <1>1, <1>4, SlotStepTyped, GotoMoves
<1>7. RowTyped'
  <2>1. failed' \in BOOLEAN
    BY <1>1 DEF SaveUpdate, TypeOK
  <2> QED BY <1>1, <1>2, <1>3, <1>5, <2>1 DEF RowTyped, TypeOK, jobVars
<1>8. RowOK'
  BY <1>1, <1>2, <1>3, <1>5 DEF RowOK, BytesFollowVisibility, LiveBytesPresent,
       Recoverable, jobVars
<1>9. MoverOK(s)'
  <2>1. pc'[s] = label
    BY <1>1, <1>4 DEF Goto, TypeOK
  <2>2. CASE label = "idle"
    BY <1>1, <1>4, <2>2, FinishOK
  <2>3. CASE label = "drop"
    BY <1>3, <1>4, <2>1, <2>3 DEF MoverOK, Moved, reqVars
  <2>4. CASE label = "undo"
    BY <1>2, <1>3, <1>4, <2>1, <2>4 DEF MoverOK, Moved, reqVars
  <2> QED BY <2>2, <2>3, <2>4
<1> QED BY <1>2, <1>4, <1>6, <1>7, <1>8, <1>9, MoverStep

(* Undoing a move, dropping the old copy and removing an orphan each take a
   bucket away that the row does not point at. *)
LEMMA DropsKeep ==
  ASSUME OneMover, IInv, NEW s \in Movers, UndoMove(s) \/ DropOld(s) \/ RemoveOrphan(s)
  PROVE  IInv'
<1>1. s \in Slots /\ TypeOK /\ RowOK /\ MoverOK(s)
  BY DEF IInv, Movers, Slots
<1>2. Finish(s) /\ UNCHANGED <<rowVars, jobVars, verdicts, deletions, unarchived, wiped>>
  BY DEF UndoMove, DropOld, RemoveOrphan
<1>3. PICK b : Remove(b) /\ ~(exists /\ b = bucket)
  <2>1. CASE UndoMove(s)
    BY <1>1, <2>1 DEF UndoMove, MoverOK, Moved
  <2>2. CASE DropOld(s) \/ RemoveOrphan(s)
    BY <1>1, <2>2 DEF DropOld, RemoveOrphan, MoverOK
  <2> QED BY <2>1, <2>2
<1>4. RowOK' /\ RowTyped'
  BY <1>1, <1>2, <1>3, OthersDropped
<1>5. SlotsTyped' /\ MoverOK(s)' /\ Goto(s, "idle")
  BY <1>1, <1>2, SlotStepTyped, FinishMoves, FinishOK DEF Finish
<1> QED BY <1>2, <1>4, <1>5, MoverStep DEF rowVars

LEMMA ArchiveKeeps ==
  ASSUME OneMover, IInv, NEW s \in Movers, ArchiveBytes(s) PROVE IInv'
<1>1. s \in Slots /\ TypeOK /\ RowOK /\ MoverOK(s)
  BY DEF IInv, Movers, Slots
<1>2. /\ UNCHANGED <<rowVars, jobVars, fromVis, toVis, fromBucket, verdicts, deletions,
                     failed, wiped>>
      /\ pc[s] = "archive" /\ Goto(s, "softDelete")
  BY DEF ArchiveBytes
<1>3. /\ exists /\ ~deleted /\ bucket \in Buckets /\ toVis[s] \in Visibilities
      /\ fromVis[s] = visibility /\ fromBucket[s] = bucket /\ toBucket[s] = bucket
      /\ infected \/ bucket \in stored
      /\ bucket # Archive
  BY <1>1, <1>2, BucketOfVisibility DEF MoverOK, TypeOK, RowOK, LiveBytesPresent,
                                       BytesFollowVisibility
<1>4. PICK b \in Buckets :
        /\ toBucket' = [toBucket EXCEPT ![s] = b]
        /\ \/ b = Archive /\ stored' = stored \cup {Archive} /\ unarchived' = unarchived
           \/ /\ b = bucket /\ stored' = stored
              /\ unarchived' = (unarchived \/ bucket \in stored)
  <2>1. CASE Copy(s, Archive) /\ UNCHANGED unarchived
    BY <2>1 DEF Copy, Buckets
  <2>2. CASE CopyFails(s) /\ UNCHANGED toBucket
             /\ unarchived' = (unarchived \/ fromBucket[s] \in stored)
    <3>1. toBucket' = [toBucket EXCEPT ![s] = bucket]
      BY <1>1, <1>3, <2>2 DEF TypeOK
    <3> QED BY <1>3, <2>2, <3>1 DEF CopyFails
  <2> QED BY <2>1, <2>2 DEF ArchiveBytes
<1>5. SlotsTyped'
  BY <1>1, <1>2, <1>4, SlotStepTyped, GotoMoves
<1>6. RowTyped'
  <2>1. stored' \in SUBSET Buckets
    BY <1>1, <1>4 DEF TypeOK
  <2>2. unarchived' \in BOOLEAN
    BY <1>1, <1>4 DEF TypeOK
  <2> QED BY <1>1, <1>2, <2>1, <2>2 DEF RowTyped, TypeOK, rowVars, jobVars
<1>7. RowOK'
  BY <1>1, <1>2, <1>3, <1>4 DEF RowOK, BytesFollowVisibility, LiveBytesPresent,
       Recoverable, rowVars, jobVars
<1>8. pc'[s] = "softDelete" /\ toBucket'[s] = b
  BY <1>1, <1>2, <1>4 DEF Goto, TypeOK
<1>9. MoverOK(s)'
  BY <1>2, <1>3, <1>4, <1>8 DEF MoverOK, Moved, rowVars, jobVars
<1> QED BY <1>2, <1>5, <1>6, <1>7, <1>9, MoverStep DEF rowVars

LEMMA SoftDeleteKeeps ==
  ASSUME OneMover, IInv, NEW s \in Movers, CommitSoftDelete(s) PROVE IInv'
<1>1. s \in Slots /\ TypeOK /\ RowOK /\ MoverOK(s)
  BY DEF IInv, Movers, Slots
<1>2. UNCHANGED <<exists, scan, visibility, aged, stored, jobVars, verdicts, unarchived, wiped>>
      /\ pc[s] = "softDelete"
  BY DEF CommitSoftDelete
<1>3. /\ exists /\ ~deleted /\ toBucket[s] \in Buckets /\ fromBucket[s] = bucket
      /\ infected \/ toBucket[s] \in stored
      /\ infected \/ Moved(s) \/ unarchived
  BY <1>1, <1>2 DEF MoverOK
<1>4. CASE /\ deleted' = TRUE /\ status' = "deleted"
           /\ bucket' = IF Moved(s) THEN toBucket[s] ELSE bucket
           /\ deletions' = deletions + 1
           /\ Goto(s, IF Moved(s) THEN "drop" ELSE "dropPublic")
           /\ UNCHANGED <<failed, reqVars>>
  <2>1. PICK label \in {"drop", "dropPublic"} :
          Goto(s, label) /\ label = (IF Moved(s) THEN "drop" ELSE "dropPublic")
    BY <1>4
  <2>2. pc'[s] = label
    BY <1>1, <2>1 DEF Goto, TypeOK
  <2>3. SlotsTyped'
    BY <1>1, <1>4, <2>1, SlotStepTyped, GotoMoves
  <2>4. RowTyped'
    BY <1>1, <1>2, <1>3, <1>4 DEF RowTyped, TypeOK, jobVars
  <2>5. RowOK'
    BY <1>1, <1>2, <1>3, <1>4 DEF RowOK, BytesFollowVisibility, LiveBytesPresent,
         Recoverable, Moved, jobVars
  <2>6. MoverOK(s)'
    BY <1>2, <1>3, <1>4, <2>1, <2>2 DEF MoverOK, Moved, reqVars, jobVars
  <2> QED BY <1>4, <2>1, <2>3, <2>4, <2>5, <2>6, MoverStep
<1>5. CASE /\ failed' = TRUE /\ Finish(s) /\ UNCHANGED <<deleted, status, bucket, deletions>>
  <2>1. SlotsTyped' /\ MoverOK(s)' /\ Goto(s, "idle")
    BY <1>1, <1>5, SlotStepTyped, FinishMoves, FinishOK DEF Finish
  <2>2. RowTyped' /\ RowOK'
    BY <1>1, <1>2, <1>5 DEF RowTyped, TypeOK, RowOK, BytesFollowVisibility,
         LiveBytesPresent, Recoverable, jobVars
  <2> QED BY <1>5, <2>1, <2>2, MoverStep
<1> QED BY <1>4, <1>5 DEF CommitSoftDelete

LEMMA DropPublicKeeps ==
  ASSUME OneMover, IInv, NEW s \in Movers, DropPublic(s) PROVE IInv'
<1>1. s \in Slots /\ TypeOK /\ RowOK /\ MoverOK(s)
  BY DEF IInv, Movers, Slots
<1>2. /\ UNCHANGED <<rowVars, jobVars, verdicts, deletions, unarchived, wiped>>
      /\ Finish(s) /\ pc[s] = "dropPublic"
  BY DEF DropPublic
<1>3. deleted /\ (infected \/ unarchived)
  BY <1>1, <1>2 DEF MoverOK
<1>4. /\ stored' \subseteq stored /\ failed' \in BOOLEAN
      /\ visibility = "public" \/ stored' = stored
  BY <1>1 DEF DropPublic, Remove, TypeOK
<1>5. RowTyped'
  BY <1>1, <1>2, <1>4 DEF RowTyped, TypeOK, rowVars, jobVars
<1>6. RowOK'
  BY <1>1, <1>2, <1>3, <1>4 DEF RowOK, BytesFollowVisibility, LiveBytesPresent,
       Recoverable, rowVars, jobVars
<1>7. SlotsTyped' /\ MoverOK(s)' /\ Goto(s, "idle")
  BY <1>1, <1>2, SlotStepTyped, FinishMoves, FinishOK DEF Finish
<1> QED BY <1>2, <1>5, <1>6, <1>7, MoverStep DEF rowVars

LEMMA FindOrphanKeeps ==
  ASSUME OneMover, IInv, NEW s \in Movers, NEW b \in Buckets, FindOrphan(s, b) PROVE IInv'
<1>1. s \in Slots /\ TypeOK /\ RowOK
  BY DEF IInv, Movers, Slots
<1>2. /\ UNCHANGED <<rowVars, stored, jobVars, fromVis, toVis, toBucket, histVars>>
      /\ fromBucket' = [fromBucket EXCEPT ![s] = b] /\ Goto(s, "repair")
      /\ ~(exists /\ bucket = b)
  BY DEF FindOrphan
<1>3. SlotsTyped'
  BY <1>1, <1>2, SlotStepTyped, GotoMoves
<1>4. RowTyped' /\ RowOK'
  BY <1>1, <1>2 DEF RowTyped, TypeOK, RowOK, BytesFollowVisibility, LiveBytesPresent,
       Recoverable, rowVars, jobVars, histVars
<1>5. pc'[s] = "repair" /\ fromBucket'[s] = b
  BY <1>1, <1>2 DEF Goto, TypeOK
<1>6. MoverOK(s)'
  BY <1>2, <1>5 DEF MoverOK, rowVars
<1> QED BY <1>2, <1>3, <1>4, <1>6, MoverStep DEF rowVars

LEMMA CrashKeeps == ASSUME OneMover, IInv, NEW s \in Slots, Crash(s) PROVE IInv'
<1>1. TypeOK /\ RowOK
  BY DEF IInv
<1>2. /\ UNCHANGED <<rowVars, stored, jobVars, verdicts, deletions, unarchived, wiped>>
      /\ Finish(s) /\ Goto(s, "idle") /\ failed' = TRUE /\ pc[s] # "idle"
  BY DEF Crash, Finish
<1>3. RowTyped' /\ RowOK'
  BY <1>1, <1>2 DEF RowTyped, TypeOK, RowOK, BytesFollowVisibility, LiveBytesPresent,
       Recoverable, rowVars, jobVars
<1>4. SlotsTyped' /\ MoverOK(s)'
  BY <1>1, <1>2, SlotStepTyped, FinishMoves, FinishOK
<1>5. CASE s \in Movers
  BY <1>2, <1>3, <1>4, <1>5, MoverStep DEF rowVars
<1>6. CASE s \in Purgers
  <2>1. deleted
    BY <1>2, <1>6 DEF IInv, PurgerOK
  <2>2. \A t \in Slots \ {s} : fromBucket'[t] = fromBucket[t] /\ toBucket'[t] = toBucket[t]
    BY <1>1, <1>2 DEF Finish, TypeOK
  <2> QED BY <1>2, <1>3, <1>4, <1>6, <2>1, <2>2, PurgerStep DEF rowVars, jobVars
<1> QED BY <1>5, <1>6 DEF Slots, Movers

-----------------------------------------------------------------------------
(* Purges, verdicts and time                                               *)

LEMMA PurgesKeep ==
  ASSUME OneMover, IInv, NEW p \in Purgers, Purge(p) \/ PurgeFails(p) PROVE IInv'
<1>1. p \in Slots /\ TypeOK /\ RowOK /\ PurgerOK(p)
  BY DEF IInv, Slots
<1>2. PICK label \in {"idle", "wipe", "purgeRow"} :
        /\ Goto(p, label)
        /\ Finish(p) \/ UNCHANGED reqVars \/ \E v \in Visibilities : Load(p, v)
  BY <1>1 DEF Purge, PurgeFails, SelectExpired, WipeBytes, PurgeRow, Finish, TypeOK
<1>3. deleted
  BY <1>1 DEF Purge, PurgeFails, SelectExpired, WipeBytes, PurgeRow, PurgerOK
<1>4. /\ UNCHANGED <<status, scan, visibility, bucket, deleted, aged, jobVars, verdicts,
                     deletions, unarchived>>
      /\ (exists' => exists) /\ stored' \subseteq stored
      /\ wiped' = TRUE \/ UNCHANGED <<stored, wiped>>
  BY DEF Purge, PurgeFails, SelectExpired, WipeBytes, PurgeRow, Remove, rowVars, histVars
<1>5. SlotsTyped'
  BY <1>1, <1>2, SlotStepTyped, GotoMoves
<1>6. RowTyped'
  <2>1. exists' \in BOOLEAN /\ failed' \in BOOLEAN /\ wiped' \in BOOLEAN
    BY <1>1 DEF TypeOK, Purge, PurgeFails, SelectExpired, WipeBytes, PurgeRow, Remove,
                rowVars, histVars
  <2> QED BY <1>1, <1>4, <2>1 DEF RowTyped, TypeOK, jobVars
<1>7. RowOK'
  BY <1>1, <1>3, <1>4 DEF RowOK, BytesFollowVisibility, LiveBytesPresent, Recoverable, jobVars
<1>8. \A s \in Slots \ {p} : fromBucket'[s] = fromBucket[s] /\ toBucket'[s] = toBucket[s]
  BY <1>1, <1>2 DEF Finish, Load, reqVars, TypeOK
<1> QED BY <1>2, <1>3, <1>4, <1>5, <1>6, <1>7, <1>8, PurgerStep DEF jobVars

(* The slots stay where they are. *)
LEMMA OutsideKeeps ==
  ASSUME IInv, WorkerRemovesInfected \/ ApplyScanResult \/ RetentionElapses \/ UNCHANGED vars
  PROVE  IInv'
<1>1. TypeOK /\ RowOK
  BY DEF IInv
<1>2. /\ UNCHANGED <<exists, visibility, bucket, deleted, jobVars, pc, reqVars,
                     unarchived, wiped>>
      /\ infected \/ UNCHANGED stored
  BY DEF WorkerRemovesInfected, ApplyScanResult, RetentionElapses, vars, rowVars, histVars
<1>3. SlotsTyped'
  BY <1>1, <1>2 DEF SlotsTyped, TypeOK, reqVars
<1>4. RowTyped'
  <2>1. CASE ApplyScanResult
    <3>1. verdicts' \in 0 .. VerdictCap
      BY <1>1, <2>1, LifecycleAssumption DEF ApplyScanResult, TypeOK
    <3> QED BY <1>1, <2>1, <3>1 DEF ApplyScanResult, RowTyped, TypeOK, jobVars
  <2>2. CASE RetentionElapses
    BY <1>1, <2>2 DEF RetentionElapses, RowTyped, TypeOK, rowVars, jobVars, histVars
  <2>3. CASE WorkerRemovesInfected
    BY <1>1, <2>3 DEF WorkerRemovesInfected, RowTyped, TypeOK, rowVars, jobVars, histVars
  <2>4. CASE UNCHANGED vars
    BY <1>1, <2>4 DEF vars, RowTyped, TypeOK, rowVars, jobVars, histVars
  <2> QED BY <2>1, <2>2, <2>3, <2>4
<1>5. RowOK'
  BY <1>1, <1>2 DEF RowOK, BytesFollowVisibility, LiveBytesPresent, Recoverable, jobVars
<1>6. ASSUME NEW s \in Movers PROVE MoverOK(s)'
  <2>1. MoverOK(s)
    BY DEF IInv
  <2> QED BY <1>2, <2>1 DEF MoverOK, Moved, reqVars, jobVars
<1>7. ASSUME NEW p \in Purgers PROVE PurgerOK(p)'
  BY <1>2 DEF IInv, PurgerOK
<1> QED BY <1>3, <1>4, <1>5, <1>6, <1>7, TypesSplitNext DEF IInv

LEMMA NextIInv == ASSUME OneMover, IInv, [Next]_vars PROVE IInv'
<1>1. ASSUME NEW s \in Slots, Update(s) \/ Delete(s) PROVE IInv'
  <2>1. s \notin Purgers
    BY <1>1 DEF IInv, PurgerOK, Update, Delete, Relocate, SaveUpdate, UndoMove, DropOld,
         ArchiveBytes, CommitSoftDelete, DropPublic
  <2>2. s \in Movers
    BY <2>1 DEF Slots, Movers
  <2> QED BY <1>1, <2>2, RelocateKeeps, SaveKeeps, DropsKeep, ArchiveKeeps, SoftDeleteKeeps,
             DropPublicKeeps DEF Update, Delete
<1>2. ASSUME NEW s \in Slots, LoadForDelete(s) PROVE IInv'
  BY <1>2, LoadsKeep DEF LoadForDelete, Movers
<1>3. ASSUME NEW s \in Updaters, NEW v \in Visibilities, LoadForUpdate(s, v) PROVE IInv'
  BY <1>3, LoadsKeep DEF Movers
<1>4. ASSUME NEW r \in Repairers,
             RemoveOrphan(r) \/ \E b \in Buckets : FindOrphan(r, b) PROVE IInv'
  BY <1>4, DropsKeep, FindOrphanKeeps DEF Movers
<1> QED BY <1>1, <1>2, <1>3, <1>4, CrashKeeps, PurgesKeep, OutsideKeeps DEF Next

THEOREM InductiveInvariant == ASSUME OneMover PROVE Spec => []IInv
BY InitIInv, NextIInv, PTL DEF Spec

(* Every variable keeps its type: a row never names a bucket that is not one. *)
THEOREM TypeCorrect == ASSUME OneMover PROVE Spec => []TypeOK
<1>1. IInv => TypeOK
  BY DEF IInv
<1> QED BY <1>1, InductiveInvariant, PTL

(* update_object: wherever a store call, a commit or the process fails, a live
   row points at bytes that are there. *)
THEOREM LiveRowsHaveBytes == ASSUME OneMover PROVE Spec => []LiveBytesPresent
<1>1. IInv => LiveBytesPresent
  BY DEF IInv, RowOK
<1> QED BY <1>1, InductiveInvariant, PTL

(* _relocate_for_visibility: a live row is in the bucket of its visibility. *)
THEOREM BytesInTheirBucket == ASSUME OneMover PROVE Spec => []BytesFollowVisibility
<1>1. IInv => BytesFollowVisibility
  BY DEF IInv, RowOK
<1> QED BY <1>1, InductiveInvariant, PTL

(* delete_object: a soft-deleted object can be had back until a purge wipes it,
   but for public bytes that could not be archived. *)
THEOREM DeletedCanBeHadBack == ASSUME OneMover PROVE Spec => []Recoverable
<1>1. IInv => Recoverable
  BY DEF IInv, RowOK
<1> QED BY <1>1, InductiveInvariant, PTL
-----------------------------------------------------------------------------
(* What is left in the buckets                                             *)

(* The copies beside the row's that a request is still going to use or drop. *)
AnswersFor(s, b) ==
  \/ pc[s] \in {"save", "softDelete"} /\ b = toBucket[s]
  \/ pc[s] = "drop" /\ b = fromBucket[s]

Dark == deleted /\ exists /\ bucket = "public-media" => "public-media" \notin stored

(* As long as no call failed, every copy is the row's or a request's, a purge
   has wiped the bytes of the row it takes, and public bytes that a delete left
   where they were are about to be dropped. *)
Tidy ==
  /\ deleted /\ bucket = "public-media" => visibility = "public"
  /\ \A p \in Purgers : pc[p] \in {"wipe", "purgeRow"} => fromBucket[p] = bucket
  /\ ~failed =>
       /\ \A b \in stored : (exists /\ b = bucket) \/ \E s \in Movers : AnswersFor(s, b)
       /\ \A p \in Purgers : pc[p] = "purgeRow" => bucket \notin stored
       /\ Dark \/ \E s \in Movers : pc[s] = "dropPublic"

LEMMA InitTidy == Init => Tidy
BY DEF Init, Tidy, Dark, Slots

(* A request is the only one, so it answers for every copy that is not the row's,
   and a row that a purge has selected is one that no request changes. *)
LEMMA MoverTidy ==
  ASSUME OneMover, IInv, Tidy, NEW s \in Movers, NEW label, Goto(s, label),
         failed => failed',
         \A t \in Slots \ {s} : fromBucket'[t] = fromBucket[t],
         deleted => UNCHANGED <<bucket, visibility>> /\ stored' \subseteq stored,
         deleted' /\ bucket' = "public-media" => visibility' = "public",
         ~failed' => /\ \A b \in stored' : (exists' /\ b = bucket') \/ AnswersFor(s, b)'
                     /\ Dark' \/ label = "dropPublic"
  PROVE  Tidy'
<1>1. s \in Slots /\ pc'[s] = label /\ \A t \in Slots \ {s} : pc'[t] = pc[t]
  BY DEF Movers, Slots, Goto, IInv, TypeOK
<1>2. ASSUME NEW p \in Purgers
      PROVE  /\ p \in Slots /\ pc'[p] = pc[p] /\ fromBucket'[p] = fromBucket[p]
             /\ pc[p] # "idle" => deleted
  BY <1>1 DEF OneMover, Slots, IInv, PurgerOK
<1>3. \A p \in Purgers : pc'[p] \in {"wipe", "purgeRow"} => fromBucket'[p] = bucket'
  BY <1>2 DEF Tidy
<1>4. ASSUME ~failed' PROVE \A p \in Purgers : pc'[p] = "purgeRow" => bucket' \notin stored'
  BY <1>2, <1>4 DEF Tidy
<1> QED BY <1>1, <1>3, <1>4 DEF Tidy

(* What the only request sees of Tidy. *)
LEMMA OnlyMover ==
  ASSUME OneMover, Tidy, NEW s \in Movers, ~failed
  PROVE  /\ \A b \in stored : (exists /\ b = bucket) \/ AnswersFor(s, b)
         /\ Dark \/ pc[s] = "dropPublic"
BY DEF OneMover, Tidy

LEMMA LoadsTidy ==
  ASSUME OneMover, IInv, Tidy, NEW s \in Movers,
         \/ LoadForDelete(s)
         \/ \E v \in Visibilities : LoadForUpdate(s, v)
         \/ \E b \in Buckets : FindOrphan(s, b)
  PROVE  Tidy'
<1>1. PICK label \in {"save", "relocate", "archive", "repair"} :
        Goto(s, label) /\ (label = "save" => toBucket'[s] = bucket)
  <2>1. CASE LoadForDelete(s) \/ \E b \in Buckets : FindOrphan(s, b)
    BY <2>1 DEF LoadForDelete, FindOrphan
  <2>2. CASE \E v \in Visibilities : LoadForUpdate(s, v)
    BY <2>2 DEF LoadForUpdate, Load, IInv, TypeOK, Movers, Slots
  <2> QED BY <2>1, <2>2
<1>2. UNCHANGED <<rowVars, stored, jobVars, histVars>> /\ pc[s] = "idle"
  BY DEF LoadForDelete, LoadForUpdate, FindOrphan
<1>3. \A t \in Slots \ {s} : fromBucket'[t] = fromBucket[t]
  BY DEF LoadForDelete, LoadForUpdate, FindOrphan, Load, IInv, TypeOK
<1>4. ~failed => /\ \A b \in stored : exists /\ b = bucket
                 /\ Dark
  BY <1>2, OnlyMover DEF AnswersFor
<1>5. deleted /\ bucket = "public-media" => visibility = "public"
  BY DEF Tidy
<1> QED BY <1>1, <1>2, <1>3, <1>4, <1>5, MoverTidy DEF rowVars, histVars, Dark

(* A copy made for a row not deleted yet. *)
LEMMA CopiesTidy ==
  ASSUME OneMover, IInv, Tidy, NEW s \in Movers, Relocate(s) \/ ArchiveBytes(s)
  PROVE  Tidy'
<1>1. s \in Slots /\ TypeOK /\ MoverOK(s)
  BY DEF IInv, Movers, Slots
<1>2. pc[s] \in {"relocate", "archive"} /\ UNCHANGED <<rowVars, failed>>
  BY DEF Relocate, ArchiveBytes, histVars
<1>3. ~deleted /\ exists /\ toBucket[s] = bucket
  BY <1>1, <1>2 DEF MoverOK
<1>4. PICK label \in {"idle", "save", "softDelete"} :
        /\ Goto(s, label)
        /\ \/ stored' = stored
           \/ stored' = stored \cup {toBucket'[s]} /\ label # "idle"
  BY <1>1 DEF Relocate, ArchiveBytes, Copy, CopyFails, Finish, TypeOK
<1>5. pc'[s] = label /\ \A t \in Slots \ {s} : fromBucket'[t] = fromBucket[t]
  BY <1>1, <1>4 DEF Relocate, ArchiveBytes, Finish, Goto, TypeOK
<1>6. ~failed => \A b \in stored : b = bucket
  BY <1>2, OnlyMover DEF AnswersFor
<1>7. ~failed' => \A b \in stored' : (exists' /\ b = bucket') \/ AnswersFor(s, b)'
  BY <1>2, <1>3, <1>4, <1>5, <1>6 DEF AnswersFor, rowVars
<1> QED BY <1>2, <1>3, <1>4, <1>5, <1>7, MoverTidy DEF rowVars, Dark

(* The commit of an update leaves the old copy to be dropped... *)
LEMMA SaveTidy ==
  ASSUME OneMover, IInv, Tidy, NEW s \in Movers, SaveUpdate(s) PROVE Tidy'
<1>1. s \in Slots /\ TypeOK /\ MoverOK(s) /\ UNCHANGED <<exists, deleted, stored>>
  BY DEF IInv, Movers, Slots, SaveUpdate
<1>2. pc[s] = "save" /\ ~deleted /\ exists /\ fromBucket[s] = bucket
  BY <1>1 DEF SaveUpdate, MoverOK
<1>3. PICK label \in {"idle", "drop", "undo"} :
        /\ Goto(s, label) /\ (label = "idle" => Finish(s)) /\ (label # "idle" => UNCHANGED reqVars)
        /\ \/ failed' = TRUE
           \/ label = "drop" /\ bucket' = toBucket[s] /\ UNCHANGED failed
           \/ label = "idle" /\ bucket' = bucket /\ toBucket[s] = bucket /\ UNCHANGED failed
  BY <1>2 DEF SaveUpdate, Finish, Moved
<1>4. /\ pc'[s] = label
      /\ \A t \in Slots \ {s} : fromBucket'[t] = fromBucket[t]
      /\ label # "idle" => fromBucket'[s] = fromBucket[s]
  BY <1>1, <1>3 DEF Finish, Goto, TypeOK, reqVars
<1>5. ~failed => \A b \in stored : b = bucket \/ b = toBucket[s]
  BY <1>2, OnlyMover DEF AnswersFor
<1>6. ~failed' => \A b \in stored' : (exists' /\ b = bucket') \/ AnswersFor(s, b)'
  BY <1>1, <1>2, <1>3, <1>4, <1>5 DEF AnswersFor
<1>7. failed => failed'
  BY <1>3
<1> QED BY <1>1, <1>2, <1>3, <1>4, <1>6, <1>7, MoverTidy DEF Dark

(* ...and that of a delete, or, when the bytes stay in the bucket of a public
   object, goes on to drop them. *)
LEMMA SoftDeleteTidy ==
  ASSUME OneMover, IInv, IInv', Tidy, NEW s \in Movers, CommitSoftDelete(s) PROVE Tidy'
<1>1. s \in Slots /\ TypeOK /\ RowOK /\ MoverOK(s)
  BY DEF IInv, Movers, Slots
<1>2. pc[s] = "softDelete" /\ UNCHANGED <<exists, visibility, stored>>
  BY DEF CommitSoftDelete
<1>3. ~deleted /\ exists /\ fromBucket[s] = bucket /\ toBucket[s] \in Buckets
  BY <1>1, <1>2 DEF MoverOK
<1>4. ~failed => \A b \in stored : b = bucket \/ b = toBucket[s]
  BY <1>2, OnlyMover DEF AnswersFor
<1>5. bucket = "public-media" => visibility = "public"
  BY <1>1, <1>3, LifecycleAssumption DEF RowOK, BytesFollowVisibility, BucketOf, TypeOK
<1>6. CASE failed' = TRUE /\ Finish(s) /\ UNCHANGED <<deleted, bucket>>
  <2>1. Goto(s, "idle") /\ \A t \in Slots \ {s} : fromBucket'[t] = fromBucket[t]
    BY <1>1, <1>6 DEF Finish, TypeOK
  <2> QED BY <1>2, <1>3, <1>6, <2>1, MoverTidy
<1>7. CASE /\ bucket' = IF Moved(s) THEN toBucket[s] ELSE bucket
           /\ Goto(s, IF Moved(s) THEN "drop" ELSE "dropPublic")
           /\ UNCHANGED <<failed, reqVars>>
  <2>1. CASE Moved(s)
    <3>1. pc'[s] = "drop" /\ fromBucket'[s] = bucket /\ bucket' = toBucket[s] /\ Goto(s, "drop")
      BY <1>1, <1>3, <1>7, <2>1 DEF Goto, TypeOK, reqVars
    <3>2. ~failed => \A b \in stored' : (exists' /\ b = bucket') \/ AnswersFor(s, b)'
      BY <1>2, <1>3, <1>4, <3>1 DEF AnswersFor
    <3>3. bucket' # "public-media"
      BY <1>1, <1>2, <1>3, <2>1, <3>1 DEF MoverOK, Moved, Archive
    <3> QED BY <1>2, <1>3, <1>7, <3>1, <3>2, <3>3, MoverTidy DEF reqVars, Dark
  <2>2. CASE ~Moved(s)
    <3>1. bucket' = bucket /\ toBucket[s] = bucket /\ Goto(s, "dropPublic")
      BY <1>3, <1>7, <2>2 DEF Moved
    <3> QED BY <1>2, <1>3, <1>4, <1>5, <1>7, <3>1, MoverTidy DEF reqVars
  <2> QED BY <2>1, <2>2
<1> QED BY <1>6, <1>7 DEF CommitSoftDelete

(* A copy the row does not point at is dropped, or the bytes that a delete left
   in the public bucket. *)
LEMMA DropsTidy ==
  ASSUME OneMover, IInv, Tidy, NEW s \in Movers,
         UndoMove(s) \/ DropOld(s) \/ RemoveOrphan(s) \/ DropPublic(s)
  PROVE  Tidy'
<1>1. s \in Slots /\ TypeOK
  BY DEF IInv, Movers, Slots
<1>2. /\ Finish(s) /\ UNCHANGED rowVars
      /\ stored' \subseteq stored /\ (failed => failed')
  BY <1>1 DEF UndoMove, DropOld, RemoveOrphan, DropPublic, Remove, TypeOK
<1>3. Goto(s, "idle") /\ \A t \in Slots \ {s} : fromBucket'[t] = fromBucket[t]
  BY <1>1, <1>2 DEF Finish, TypeOK
<1>4. ASSUME ~failed'
      PROVE  (\A b \in stored' : exists' /\ b = bucket') /\ Dark'
  <2>1. ~failed
    BY <1>2, <1>4
  <2>2. \A b \in stored : (exists /\ b = bucket) \/ AnswersFor(s, b)
    BY <2>1, OnlyMover
  <2>3. \A b \in stored' : exists' /\ b = bucket'
    <3>1. CASE UndoMove(s) \/ RemoveOrphan(s) \/ DropPublic(s)
      BY <1>2, <2>2, <3>1 DEF UndoMove, RemoveOrphan, DropPublic, AnswersFor, rowVars
    <3>2. CASE DropOld(s)
      BY <1>2, <1>4, <2>2, <3>2 DEF DropOld, Remove, AnswersFor, rowVars
    <3> QED BY <3>1, <3>2
  <2>4. Dark'
    <3>1. CASE pc[s] = "dropPublic"
      <4>1. DropPublic(s)
        BY <3>1 DEF UndoMove, DropOld, RemoveOrphan
      <4>2. deleted /\ exists /\ bucket = "public-media" => bucket \notin stored'
        BY <1>4, <4>1 DEF DropPublic, Remove, Tidy
      <4> QED BY <1>2, <4>2 DEF Dark, rowVars
    <3>2. CASE pc[s] # "dropPublic"
      BY <1>2, <2>1, <3>2, OnlyMover DEF Dark, rowVars
    <3> QED BY <3>1, <3>2
  <2> QED BY <2>3, <2>4
<1>5. deleted' /\ bucket' = "public-media" => visibility' = "public"
  BY <1>2 DEF Tidy, rowVars
<1> QED BY <1>2, <1>3, <1>4, <1>5, MoverTidy DEF rowVars

LEMMA CrashTidy == ASSUME OneMover, IInv, Tidy, NEW s \in Slots, Crash(s) PROVE Tidy'
<1>1. TypeOK /\ Finish(s) /\ UNCHANGED <<rowVars, stored>> /\ failed' = TRUE
  BY DEF IInv, Crash
<1>2. /\ pc'[s] = "idle"
      /\ \A t \in Slots \ {s} : pc'[t] = pc[t] /\ fromBucket'[t] = fromBucket[t]
  BY <1>1 DEF Finish, Goto, TypeOK
<1> QED BY <1>1, <1>2 DEF Tidy, rowVars, Slots

(* A purge wipes the bucket of the row before it takes the row. *)
LEMMA PurgesTidy ==
  ASSUME OneMover, IInv, Tidy, NEW p \in Purgers, Purge(p) \/ PurgeFails(p) PROVE Tidy'
<1>1. p \in Slots /\ TypeOK /\ p \notin Movers
  BY DEF IInv, Slots, OneMover
<1>2. /\ UNCHANGED <<visibility, bucket, deleted>> /\ (exists' => exists)
      /\ stored' \subseteq stored /\ (failed => failed')
  BY <1>1 DEF Purge, PurgeFails, SelectExpired, WipeBytes, PurgeRow, Remove, rowVars, histVars,
              TypeOK
<1>3. \A t \in Slots \ {p} : /\ pc'[t] = pc[t] /\ fromBucket'[t] = fromBucket[t]
                             /\ toBucket'[t] = toBucket[t]
  BY <1>1 DEF Purge, PurgeFails, SelectExpired, WipeBytes, PurgeRow, Finish, Load, Goto,
              reqVars, TypeOK
<1>4. /\ pc'[p] \in {"idle", "wipe", "purgeRow"}
      /\ pc'[p] # "idle" => fromBucket'[p] = bucket
      /\ pc'[p] = "purgeRow" /\ ~failed' => bucket \notin stored'
  <2>1. CASE SelectExpired(p)
    BY <1>1, <2>1 DEF SelectExpired, Load, Goto, TypeOK
  <2>2. CASE WipeBytes(p)
    BY <1>1, <1>2, <2>2 DEF WipeBytes, Remove, Goto, reqVars, TypeOK, Tidy
  <2>3. CASE PurgeRow(p) \/ PurgeFails(p)
    BY <1>1, <2>3 DEF PurgeRow, PurgeFails, Finish, Goto, TypeOK
  <2> QED BY <2>1, <2>2, <2>3 DEF Purge
<1>5. \A q \in Purgers : pc'[q] \in {"wipe", "purgeRow"} => fromBucket'[q] = bucket'
  BY <1>2, <1>3, <1>4 DEF Tidy, Slots
<1>6. ASSUME ~failed'
      PROVE  /\ \A b \in stored' : (exists' /\ b = bucket') \/ \E s \in Movers : AnswersFor(s, b)'
             /\ \A q \in Purgers : pc'[q] = "purgeRow" => bucket' \notin stored'
             /\ Dark' \/ \E s \in Movers : pc'[s] = "dropPublic"
  <2>1. ~failed
    BY <1>2, <1>6
  <2>2. \A s \in Movers : /\ pc'[s] = pc[s]
                         /\ \A b : AnswersFor(s, b) => AnswersFor(s, b)'
    BY <1>1, <1>3 DEF AnswersFor, Movers, Slots
  <2>3. exists /\ ~exists' => bucket \notin stored'
    BY <1>2, <2>1 DEF Purge, PurgeFails, SelectExpired, WipeBytes, PurgeRow, Tidy, rowVars
  <2>4. \A b \in stored' : (exists' /\ b = bucket') \/ \E s \in Movers : AnswersFor(s, b)'
    BY <1>2, <2>1, <2>2, <2>3 DEF Tidy
  <2>5. \A q \in Purgers : pc'[q] = "purgeRow" => bucket' \notin stored'
    BY <1>2, <1>3, <1>4, <1>6, <2>1 DEF Tidy, Slots
  <2>6. Dark' \/ \E s \in Movers : pc'[s] = "dropPublic"
    BY <1>2, <2>1, <2>2 DEF Tidy, Dark
  <2> QED BY <2>4, <2>5, <2>6
<1> QED BY <1>2, <1>5, <1>6 DEF Tidy

LEMMA OutsideTidy ==
  ASSUME Tidy, WorkerRemovesInfected \/ ApplyScanResult \/ RetentionElapses \/ UNCHANGED vars
  PROVE  Tidy'
<1>1. /\ UNCHANGED <<exists, visibility, bucket, deleted, pc, reqVars, failed>>
      /\ stored' \subseteq stored
  BY DEF WorkerRemovesInfected, ApplyScanResult, RetentionElapses, vars, rowVars, histVars
<1> QED BY <1>1 DEF Tidy, Dark, AnswersFor, reqVars

LEMMA NextTidy == ASSUME OneMover, IInv, IInv', Tidy, [Next]_vars PROVE Tidy'
<1>1. ASSUME NEW s \in Slots, Update(s) \/ Delete(s) PROVE Tidy'
  <2>1. s \in Movers
    BY <1>1 DEF IInv, PurgerOK, Update, Delete, Relocate, SaveUpdate, UndoMove, DropOld,
         ArchiveBytes, CommitSoftDelete, DropPublic, Slots, Movers
  <2> QED BY <1>1, <2>1, CopiesTidy, SaveTidy, DropsTidy, SoftDeleteTidy DEF Update, Delete
<1>2. ASSUME NEW s \in Slots, LoadForDelete(s) PROVE Tidy'
  BY <1>2, LoadsTidy DEF LoadForDelete, Movers
<1>3. ASSUME NEW s \in Updaters, NEW v \in Visibilities, LoadForUpdate(s, v) PROVE Tidy'
  BY <1>3, LoadsTidy DEF Movers
<1>4. ASSUME NEW r \in Repairers,
             RemoveOrphan(r) \/ \E b \in Buckets : FindOrphan(r, b) PROVE Tidy'
  BY <1>4, LoadsTidy, DropsTidy DEF Movers
<1> QED BY <1>1, <1>2, <1>3, <1>4, CrashTidy, PurgesTidy, OutsideTidy DEF Next

THEOREM AlwaysTidy == ASSUME OneMover PROVE Spec => []Tidy
BY InitTidy, NextTidy, InductiveInvariant, PTL DEF Spec

(* update_object, delete_object, hard_purge_expired: between requests, if no call
   failed, no copy is left that the row does not point at. *)
THEOREM BucketsHoldNoMore == ASSUME OneMover PROVE Spec => []NothingLeftBehind
<1>1. Tidy => NothingLeftBehind
  BY DEF Tidy, NothingLeftBehind, AnswersFor, Quiet, Movers, Slots
<1> QED BY <1>1, AlwaysTidy, PTL

(* delete_object: the bytes of a deleted object are not public any more, whether
   they were archived, dropped or wiped. *)
THEOREM DeletedIsDark == ASSUME OneMover PROVE Spec => []PublicGoesDark
<1>1. Tidy => PublicGoesDark
  BY DEF Tidy, Dark, PublicGoesDark, AnswersFor, Quiet, Movers, Slots
<1> QED BY <1>1, AlwaysTidy, PTL
==============================================================================
