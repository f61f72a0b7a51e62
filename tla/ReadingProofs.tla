---------------------------- MODULE ReadingProofs ----------------------------
(***************************************************************************)
(* Proofs about what is read of the service: ShareLinks, for any set of    *)
(* links, any finite set of slots and any budgets; and Library, for any    *)
(* finite sets of objects and categories, any tree over them, any callers, *)
(* queries and page size, and any number of walks.                         *)
(***************************************************************************)
EXTENDS ShareLinks, Library, FiniteSetTheorems, TLAPS

-----------------------------------------------------------------------------
(* Share links                                                             *)

(* The strengthening: a slot past the read check names a minted link, a link
   never minted has no uses and no marks, and the conditional update never passes the
   limit.  Together with the account of the uses it is inductive. *)
SlotsNameLinks == \A r \in Requests : pc[r] # "idle" =>
                    token[r] \in Tokens /\ row[token[r]] # "none"

UnmintedUnused == \A t \in Tokens : row[t] = "none" => uses[t] = 0

WithinLimit == \A t \in Tokens : max_uses[t] # Unlimited => uses[t] <= max_uses[t]

MarksOfMinted == \A t \in Tokens : row[t] = "none" => t \notin revoked \cup expired

IInv == /\ TypeOK
        /\ MarksOfMinted
        /\ SlotsNameLinks
        /\ UnmintedUnused
        /\ WithinLimit
        /\ UsesAccountedFor

-----------------------------------------------------------------------------
(* The winners of a link                                                   *)

(* The slots that won a use form a finite set: its size is a number. *)
LEMMA WinnersFinite ==
  \A t \in Tokens : IsFiniteSet(Winners(t)) /\ Cardinality(Winners(t)) \in Nat
  BY ShareAssumption, FS_Subset, FS_CardinalityType DEF Winners

(* A step that leaves every slot where it was keeps the winners. *)
LEMMA SameWinners ==
  ASSUME UNCHANGED reqVars
  PROVE  \A t \in Tokens : Cardinality(Winners(t)') = Cardinality(Winners(t))
<1>1. \A t \in Tokens : Winners(t)' = Winners(t)
  BY DEF Winners, reqVars
<1>2. QED
  BY <1>1

(* A slot that moves without being or becoming a winner keeps them too. *)
LEMMA OtherMove ==
  ASSUME TypeOK, NEW r \in Requests, NEW l, NEW k,
         pc' = [pc EXCEPT ![r] = l], token' = [token EXCEPT ![r] = k],
         pc[r] # "won", l # "won"
  PROVE  \A t \in Tokens : Cardinality(Winners(t)') = Cardinality(Winners(t))
<1>1. \A t \in Tokens : Winners(t)' = Winners(t)
  BY DEF Winners, TypeOK
<1>2. QED
  BY <1>1

(* Winning adds the slot to the winners of its link, and only there. *)
LEMMA WinAdds ==
  ASSUME TypeOK, NEW r \in Requests, pc[r] = "cleared", Step(r, "won"),
         NEW t \in Tokens
  PROVE  Cardinality(Winners(t)') =
           IF t = token[r] THEN Cardinality(Winners(t)) + 1
                           ELSE Cardinality(Winners(t))
<1>1. r \notin Winners(t)
  BY DEF Winners
<1>2. CASE t = token[r]
  <2>1. Winners(t)' = Winners(t) \cup {r}
    BY <1>2 DEF Winners, TypeOK, Step
  <2>2. QED
    BY <1>1, <1>2, <2>1, WinnersFinite, FS_AddElement
<1>3. CASE t # token[r]
  <2>1. Winners(t)' = Winners(t)
    BY <1>3 DEF Winners, TypeOK, Step
  <2>2. QED
    BY <1>3, <2>1
<1>4. QED
  BY <1>2, <1>3

(* Answering takes the slot out of the winners of its link, and only there. *)
LEMMA AnswerRemoves ==
  ASSUME TypeOK, NEW r \in Requests, pc[r] = "won", Answer(r), NEW t \in Tokens
  PROVE  Cardinality(Winners(t)') =
           IF t = token[r] THEN Cardinality(Winners(t)) - 1
                           ELSE Cardinality(Winners(t))
<1>1. CASE t = token[r]
  <2>1. r \in Winners(t) /\ Winners(t)' = Winners(t) \ {r}
    BY <1>1 DEF Winners, TypeOK, Answer
  <2>2. QED
    BY <1>1, <2>1, WinnersFinite, FS_RemoveElement
<1>2. CASE t # token[r]
  <2>1. Winners(t)' = Winners(t)
    BY <1>2 DEF Winners, TypeOK, Answer
  <2>2. QED
    BY <1>2, <2>1
<1>3. QED
  BY <1>1, <1>2

-----------------------------------------------------------------------------
(* The inductive invariant                                                 *)

LEMMA InitIInv == Init => IInv
<1> SUFFICES ASSUME Init PROVE IInv
  OBVIOUS
<1>1. TypeOK
  BY ShareAssumption DEF Init, TypeOK
<1>2. ASSUME NEW t \in Tokens PROVE Cardinality(Winners(t)) = 0
  <2>1. Winners(t) = {}
    BY DEF Init, Winners
  <2>2. QED
    BY <2>1, FS_EmptySet
<1>3. UsesAccountedFor
  <2> SUFFICES ASSUME NEW t \in Tokens
               PROVE uses[t] = granted[t] + burned[t] + Cardinality(Winners(t))
    BY DEF UsesAccountedFor
  <2>1. uses[t] = 0 /\ granted[t] = 0 /\ burned[t] = 0
    BY DEF Init
  <2>2. QED
    BY <1>2, <2>1
<1>4. QED
  BY <1>1, <1>3 DEF Init, IInv, MarksOfMinted, SlotsNameLinks, UnmintedUnused, WithinLimit

LEMMA TypeStep == TypeOK /\ [Next]_vars => TypeOK'
<1> SUFFICES ASSUME TypeOK, [Next]_vars PROVE TypeOK'
  OBVIOUS
<1> USE DEF TypeOK, shareVars, objVars, reqVars, histVars
<1>1. ASSUME NEW t \in Tokens, Create(t) PROVE TypeOK'
  BY <1>1 DEF Create
<1>2. ASSUME NEW t \in Tokens, Revoke(t) \/ Expire(t) PROVE TypeOK'
  BY <1>2 DEF Revoke, Expire
<1>3. ASSUME NEW o \in Objects, ScanVerdict(o) \/ SoftDelete(o) PROVE TypeOK'
  BY <1>3 DEF ScanVerdict, SoftDelete
<1>4. ASSUME NEW o \in Objects, HardPurge(o) PROVE TypeOK'
  BY <1>4 DEF HardPurge
<1>5. ASSUME NEW r \in Requests, NEW t \in Tokens, LoadActiveShare(r, t) PROVE TypeOK'
  BY <1>5 DEF LoadActiveShare
<1>6. ASSUME NEW r \in Requests, LoadObject(r) PROVE TypeOK'
  BY <1>6 DEF LoadObject, Step, Answer
<1>7. ASSUME NEW r \in Requests, ConsumeUse(r) PROVE TypeOK'
  BY <1>7 DEF ConsumeUse, Step, Answer
<1>8. ASSUME NEW r \in Requests, Presign(r) PROVE TypeOK'
  BY <1>8 DEF Presign, Answer
<1>9. CASE UNCHANGED vars
  BY <1>9 DEF vars
<1>10. QED
  BY <1>1, <1>2, <1>3, <1>4, <1>5, <1>6, <1>7, <1>8, <1>9 DEF Next, Resolve

(* A step that moves no use keeps the account. *)
LEMMA QuietAccount ==
  ASSUME UsesAccountedFor, UNCHANGED <<uses, granted, burned>>,
         \A t \in Tokens : Cardinality(Winners(t)') = Cardinality(Winners(t))
  PROVE  UsesAccountedFor'
  BY DEF UsesAccountedFor

LEMMA NextIInv == IInv /\ [Next]_vars => IInv'
<1> SUFFICES ASSUME IInv, [Next]_vars PROVE IInv'
  OBVIOUS
<1>0. TypeOK /\ TypeOK'
  BY TypeStep DEF IInv
<1> USE <1>0 DEF IInv, MarksOfMinted, SlotsNameLinks, UnmintedUnused, WithinLimit
<1>1. ASSUME NEW t \in Tokens, Create(t) PROVE IInv'
  <2>1. UsesAccountedFor'
    BY <1>1, QuietAccount, SameWinners DEF Create, histVars
  <2>2. QED
    BY <1>1, <2>1, ShareAssumption DEF Create, reqVars, TypeOK
<1>2. ASSUME NEW t \in Tokens, Revoke(t) \/ Expire(t) PROVE IInv'
  <2>1. UsesAccountedFor'
    BY <1>2, QuietAccount, SameWinners DEF Revoke, Expire, histVars
  <2>2. QED
    BY <1>2, <2>1 DEF Revoke, Expire, reqVars
<1>3. ASSUME NEW o \in Objects, ScanVerdict(o) \/ SoftDelete(o) PROVE IInv'
  <2>1. UsesAccountedFor'
    BY <1>3, QuietAccount, SameWinners DEF ScanVerdict, SoftDelete, histVars, shareVars
  <2>2. QED
    BY <1>3, <2>1 DEF ScanVerdict, SoftDelete, reqVars, shareVars
<1>4. ASSUME NEW o \in Objects, HardPurge(o) PROVE IInv'
  <2>1. UsesAccountedFor'
    BY <1>4, QuietAccount, SameWinners DEF HardPurge, histVars
  <2>2. QED
    BY <1>4, <2>1 DEF HardPurge, reqVars, TypeOK
<1>5. ASSUME NEW r \in Requests, NEW t \in Tokens, LoadActiveShare(r, t) PROVE IInv'
  <2>1. UsesAccountedFor'
    BY <1>5, QuietAccount, OtherMove DEF LoadActiveShare, histVars, shareVars
  <2>2. QED
    BY <1>5, <2>1 DEF LoadActiveShare, Alive, shareVars, TypeOK
<1>6. ASSUME NEW r \in Requests, LoadObject(r) PROVE IInv'
  <2>1. token' = [token EXCEPT ![r] = token'[r]]
    BY <1>6 DEF LoadObject, Step, Answer, TypeOK
  <2>2. UsesAccountedFor'
    BY <1>6, <2>1, QuietAccount, OtherMove DEF LoadObject, Step, Answer, histVars, shareVars
  <2>3. QED
    BY <1>6, <2>2 DEF LoadObject, Step, Answer, shareVars, TypeOK
<1>7. ASSUME NEW r \in Requests, ConsumeUse(r) PROVE IInv'
  <2>1. CASE Alive(token[r]) /\ ~Exhausted(token[r])
    <3>1. Step(r, "won") /\ uses' = [uses EXCEPT ![token[r]] = @ + 1]
      BY <1>7, <2>1 DEF ConsumeUse
    <3>2. UsesAccountedFor'
      <4> SUFFICES ASSUME NEW t \in Tokens
                   PROVE (uses[t] = granted[t] + burned[t] + Cardinality(Winners(t)))'
        BY DEF UsesAccountedFor
      <4>1. uses[t] = granted[t] + burned[t] + Cardinality(Winners(t))
        BY DEF UsesAccountedFor
      <4>2. Cardinality(Winners(t)') =
              IF t = token[r] THEN Cardinality(Winners(t)) + 1
                              ELSE Cardinality(Winners(t))
        BY <1>7, <3>1, WinAdds DEF ConsumeUse
      <4>3. uses'[t] = IF t = token[r] THEN uses[t] + 1 ELSE uses[t]
        BY <3>1 DEF TypeOK
      <4>4. UNCHANGED <<granted, burned>>
        BY <1>7 DEF ConsumeUse, histVars
      <4>5. QED
        BY <4>1, <4>2, <4>3, <4>4, WinnersFinite DEF TypeOK
    <3>3. ASSUME NEW t \in Tokens, max_uses'[t] # Unlimited
          PROVE uses'[t] <= max_uses'[t]
      <4>1. max_uses' = max_uses /\ max_uses[t] \in Nat /\ uses[t] \in Nat
        BY <1>7, <3>3, ShareAssumption DEF ConsumeUse, TypeOK
      <4>2. CASE t = token[r]
        BY <2>1, <3>1, <3>3, <4>1, <4>2 DEF Exhausted, TypeOK
      <4>3. CASE t # token[r]
        BY <3>1, <3>3, <4>1, <4>3 DEF TypeOK
      <4>4. QED
        BY <4>2, <4>3
    <3>4. QED
      BY <1>7, <2>1, <3>1, <3>2, <3>3 DEF ConsumeUse, Step, Alive, TypeOK
  <2>2. CASE ~(Alive(token[r]) /\ ~Exhausted(token[r]))
    <3>1. UNCHANGED uses /\ Answer(r)
      BY <1>7, <2>2 DEF ConsumeUse
    <3>2. UsesAccountedFor'
      BY <1>7, <3>1, QuietAccount, OtherMove DEF ConsumeUse, Answer, histVars
    <3>3. QED
      BY <1>7, <3>1, <3>2 DEF ConsumeUse, Answer, TypeOK
  <2>3. QED
    BY <2>1, <2>2
<1>8. ASSUME NEW r \in Requests, Presign(r) PROVE IInv'
  <2>1. token[r] \in Tokens /\ pc[r] = "won" /\ Answer(r)
    BY <1>8 DEF Presign
  <2>2. UsesAccountedFor'
    <3> SUFFICES ASSUME NEW t \in Tokens
                 PROVE (uses[t] = granted[t] + burned[t] + Cardinality(Winners(t)))'
      BY DEF UsesAccountedFor
    <3>1. uses[t] = granted[t] + burned[t] + Cardinality(Winners(t))
      BY DEF UsesAccountedFor
    <3>2. Cardinality(Winners(t)') =
            IF t = token[r] THEN Cardinality(Winners(t)) - 1
                            ELSE Cardinality(Winners(t))
      BY <2>1, AnswerRemoves
    <3>3. granted'[t] + burned'[t] =
            IF t = token[r] THEN granted[t] + burned[t] + 1 ELSE granted[t] + burned[t]
      BY <1>8 DEF Presign, TypeOK
    <3>4. granted'[t] \in Nat /\ burned'[t] \in Nat /\ uses'[t] = uses[t]
      BY <1>8 DEF Presign, shareVars, TypeOK
    <3>5. QED
      BY <3>1, <3>2, <3>3, <3>4, WinnersFinite DEF TypeOK
  <2>3. QED
    BY <1>8, <2>1, <2>2 DEF Presign, Answer, shareVars, TypeOK
<1>9. CASE UNCHANGED vars
  <2>1. UsesAccountedFor'
    BY <1>9, QuietAccount, SameWinners DEF vars, reqVars
  <2>2. QED
    BY <1>9, <2>1 DEF vars
<1>10. QED
  BY <1>1, <1>2, <1>3, <1>4, <1>5, <1>6, <1>7, <1>8, <1>9 DEF Next, Resolve

(* The account and the limit bound what was handed out. *)
LEMMA IInvBudget == IInv => GrantsWithinBudget
<1> SUFFICES ASSUME IInv, NEW t \in Tokens, max_uses[t] # Unlimited
             PROVE granted[t] <= max_uses[t]
  BY DEF GrantsWithinBudget
<1>1. granted[t] <= uses[t]
  BY WinnersFinite DEF IInv, UsesAccountedFor, TypeOK
<1>2. uses[t] <= max_uses[t]
  BY DEF IInv, WithinLimit
<1>3. max_uses[t] \in Nat
  BY ShareAssumption DEF IInv, TypeOK
<1>4. QED
  BY <1>1, <1>2, <1>3 DEF IInv, TypeOK

(* Every state of ShareLinks is well typed and accounts for every use. *)
THEOREM InductiveInvariant == Spec => []IInv
<1>1. IInv /\ UNCHANGED vars => IInv'
  BY NextIInv
<1>2. QED
  BY InitIInv, NextIInv, PTL DEF Spec

(* Every variable keeps its type: no count is negative, and a slot past the
   check of the link names one. *)
THEOREM TypeCorrect == Spec => []TypeOK
<1>1. IInv => TypeOK
  BY DEF IInv
<1>2. QED
  BY <1>1, InductiveInvariant, PTL

(* However many resolves race on a link's last use, the URLs handed out for
   it never exceed max_uses: the promise of _consume_use. *)
THEOREM WithinBudget == Spec => []GrantsWithinBudget
  BY InductiveInvariant, IInvBudget, PTL

(* Every use recorded in the row is one URL, one failed presign or one winner
   about to presign. *)
THEOREM UsesConserved == Spec => []UsesAccountedFor
<1>1. IInv => UsesAccountedFor
  BY DEF IInv
<1>2. QED
  BY <1>1, InductiveInvariant, PTL

-----------------------------------------------------------------------------
(* Refinement of UseBudget                                                 *)

LEMMA BudgetInit == Init => Budget!Init
  BY DEF Init, Budget!Init, LifeOf, LeftOf

(* A step that changes neither the life nor the rest of any link stutters. *)
LEMMA BudgetStutter ==
  ASSUME UNCHANGED shareVars
  PROVE  UNCHANGED Budget!vars
  BY DEF shareVars, Budget!vars, LifeOf, LeftOf, Alive

(* The links ending in this step were alive and keep what was left of them. *)
LEMMA BudgetDeath ==
  ASSUME NEW D \in SUBSET Tokens,
         \A t \in D : LifeOf(t) = "alive",
         \A t \in Tokens : LifeOf(t)' = IF t \in D THEN "dead" ELSE LifeOf(t),
         \A t \in Tokens : LeftOf(t)' = LeftOf(t)
  PROVE  Budget!Next
<1>1. Budget!Die(D)
  BY DEF Budget!Die
<1>2. QED
  BY <1>1 DEF Budget!Next

(* A link minted with m uses, and nothing else. *)
LEMMA BudgetMint ==
  ASSUME NEW t \in Tokens, NEW m \in MaxUses, LifeOf(t) = "unminted",
         \A u \in Tokens : LifeOf(u)' = IF u = t THEN "alive" ELSE LifeOf(u),
         \A u \in Tokens : LeftOf(u)' = IF u = t THEN m ELSE LeftOf(u)
  PROVE  Budget!Next
<1>1. Budget!Mint(t)
  BY DEF Budget!Mint
<1>2. QED
  BY <1>1 DEF Budget!Next

(* One use taken from a limited link that is alive, and nothing else. *)
LEMMA BudgetTake ==
  ASSUME NEW k \in Tokens, LifeOf(k) = "alive", LeftOf(k) # Unlimited, LeftOf(k) > 0,
         \A u \in Tokens : LifeOf(u)' = LifeOf(u),
         \A u \in Tokens : LeftOf(u)' = IF u = k THEN LeftOf(k) - 1 ELSE LeftOf(u)
  PROVE  Budget!Next
<1>1. Budget!Take(k)
  BY DEF Budget!Take
<1>2. QED
  BY <1>1 DEF Budget!Next

LEMMA BudgetStep == IInv /\ [Next]_vars => [Budget!Next]_(Budget!vars)
<1> SUFFICES ASSUME IInv, [Next]_vars PROVE [Budget!Next]_(Budget!vars)
  OBVIOUS
<1> USE DEF IInv, TypeOK
<1>1. ASSUME NEW t \in Tokens, Create(t) PROVE Budget!Next
  <2>1. PICK m \in MaxUses : max_uses' = [max_uses EXCEPT ![t] = m]
    BY <1>1 DEF Create
  <2>2. /\ row[t] = "none" /\ row' = [row EXCEPT ![t] = "live"]
        /\ UNCHANGED <<uses, revoked, expired>>
        /\ uses[t] = 0
    BY <1>1 DEF Create, UnmintedUnused
  <2>3. t \notin revoked /\ t \notin expired
    BY <2>2 DEF MarksOfMinted
  <2>4. \A u \in Tokens : LifeOf(u)' = IF u = t THEN "alive" ELSE LifeOf(u)
    BY <2>2, <2>3 DEF LifeOf, Alive
  <2>5. LeftOf(t)' = m
    BY <2>1, <2>2, ShareAssumption DEF LeftOf
  <2>6. \A u \in Tokens \ {t} : LeftOf(u)' = LeftOf(u)
    BY <2>1, <2>2 DEF LeftOf
  <2>7. LifeOf(t) = "unminted"
    BY <2>2 DEF LifeOf
  <2>8. QED
    BY <2>4, <2>5, <2>6, <2>7, BudgetMint
<1>2. ASSUME NEW t \in Tokens, Revoke(t) \/ Expire(t) PROVE [Budget!Next]_(Budget!vars)
  <2>1. /\ row[t] = "live" /\ UNCHANGED <<row, max_uses, uses>>
        /\ \/ revoked' = revoked \cup {t} /\ UNCHANGED expired
           \/ expired' = expired \cup {t} /\ UNCHANGED revoked
    BY <1>2 DEF Revoke, Expire
  <2>2. \A u \in Tokens : LeftOf(u)' = LeftOf(u)
    BY <2>1 DEF LeftOf
  <2>3. \A u \in Tokens : LifeOf(u)' = IF u \in {t} THEN "dead" ELSE LifeOf(u)
    BY <2>1 DEF LifeOf, Alive
  <2>4. CASE Alive(t)
    <3>1. LifeOf(t) = "alive"
      BY <2>1, <2>4 DEF LifeOf
    <3> DEFINE D == {t}
    <3>2. D \in SUBSET Tokens /\ \A u \in D : LifeOf(u) = "alive"
      BY <3>1
    <3>3. \A u \in Tokens : LifeOf(u)' = IF u \in D THEN "dead" ELSE LifeOf(u)
      BY <2>3
    <3> HIDE DEF D
    <3>4. Budget!Next
      BY <2>2, <3>2, <3>3, BudgetDeath
    <3>5. QED
      BY <3>4
  <2>5. CASE ~Alive(t)
    <3>1. LifeOf(t) = "dead"
      BY <2>1, <2>5 DEF LifeOf
    <3>2. QED
      BY <2>2, <2>3, <3>1 DEF Budget!vars
  <2>6. QED
    BY <2>4, <2>5
<1>3. ASSUME NEW o \in Objects, HardPurge(o) PROVE Budget!Next
  <2> DEFINE D == {t \in Tokens : Alive(t) /\ of[t] = o}
  <2>1. UNCHANGED <<max_uses, uses, revoked, expired>>
    BY <1>3 DEF HardPurge
  <2>2. \A t \in Tokens : row'[t] = IF row[t] = "live" /\ of[t] = o
                                      THEN "dropped" ELSE row[t]
    BY <1>3 DEF HardPurge
  <2>3. \A t \in D : LifeOf(t) = "alive"
    BY DEF LifeOf, Alive
  <2>4. \A t \in Tokens : LifeOf(t)' = IF t \in D THEN "dead" ELSE LifeOf(t)
    BY <2>1, <2>2 DEF LifeOf, Alive
  <2>5. \A t \in Tokens : LeftOf(t)' = LeftOf(t)
    BY <2>1, <2>2 DEF LeftOf
  <2>6. QED
    BY <2>3, <2>4, <2>5, BudgetDeath
<1>4. ASSUME NEW r \in Requests, ConsumeUse(r) PROVE [Budget!Next]_(Budget!vars)
  <2>1. CASE Alive(token[r]) /\ ~Exhausted(token[r])
    <3>1. PICK k \in Tokens : k = token[r]
      BY <1>4 DEF ConsumeUse, SlotsNameLinks
    <3>2. /\ row[k] = "live" /\ Alive(k) /\ ~Exhausted(k)
          /\ uses' = [uses EXCEPT ![k] = @ + 1]
          /\ UNCHANGED <<row, max_uses, revoked, expired>>
      BY <1>4, <2>1, <3>1 DEF ConsumeUse, Alive
    <3>3. \A t \in Tokens : LifeOf(t)' = LifeOf(t)
      BY <3>2 DEF LifeOf, Alive
    <3>4. \A t \in Tokens \ {k} : LeftOf(t)' = LeftOf(t)
      BY <3>2 DEF LeftOf
    <3>5. CASE max_uses[k] = Unlimited
      <4>1. LeftOf(k)' = LeftOf(k)
        BY <3>2, <3>5 DEF LeftOf
      <4>2. \A t \in Tokens : LeftOf(t)' = LeftOf(t)
        BY <3>4, <4>1
      <4>3. QED
        BY <3>3, <4>2 DEF Budget!vars
    <3>6. CASE max_uses[k] # Unlimited
      <4>1. max_uses[k] \in Nat /\ uses[k] \in Nat /\ uses'[k] = uses[k] + 1
        BY <3>2, <3>6, ShareAssumption
      <4>2. uses[k] < max_uses[k]
        BY <3>2, <3>6, <4>1 DEF Exhausted
      <4>3. LeftOf(k) = max_uses[k] - uses[k] /\ LeftOf(k)' = max_uses'[k] - uses'[k]
        BY <3>2, <3>6 DEF LeftOf
      <4>4. /\ LeftOf(k) \in Int /\ LeftOf(k) > 0
            /\ LeftOf(k)' = LeftOf(k) - 1
        BY <3>2, <4>1, <4>2, <4>3
      <4>5. LifeOf(k) = "alive" /\ LeftOf(k) # Unlimited
        BY <3>2, <4>4, ShareAssumption DEF LifeOf
      <4>6. QED
        BY <3>3, <3>4, <4>4, <4>5, BudgetTake
    <3>7. QED
      BY <3>5, <3>6
  <2>2. CASE ~(Alive(token[r]) /\ ~Exhausted(token[r]))
    BY <1>4, <2>2, BudgetStutter DEF ConsumeUse, shareVars
  <2>3. QED
    BY <2>1, <2>2
<1>5. ASSUME NEW r \in Requests,
             (\E t \in Tokens : LoadActiveShare(r, t)) \/ LoadObject(r) \/ Presign(r)
      PROVE UNCHANGED Budget!vars
  BY <1>5, BudgetStutter DEF LoadActiveShare, LoadObject, Presign
<1>6. ASSUME NEW o \in Objects, ScanVerdict(o) \/ SoftDelete(o)
      PROVE UNCHANGED Budget!vars
  BY <1>6, BudgetStutter DEF ScanVerdict, SoftDelete
<1>7. CASE UNCHANGED vars
  BY <1>7, BudgetStutter DEF vars, shareVars
<1>8. QED
  BY <1>1, <1>2, <1>3, <1>4, <1>5, <1>6, <1>7 DEF Next, Resolve

(* resolve implements the budget: concurrent resolves take the uses of a link
   one at a time, only while it is alive, and a dead link stays dead. *)
THEOREM Implements == Spec => ImplementsBudget
<1>1. Spec => []IInv
  BY InductiveInvariant
<1>2. QED
  BY <1>1, BudgetInit, BudgetStep, PTL DEF Spec, ImplementsBudget, Budget!Spec

-----------------------------------------------------------------------------
(* The library: sets of categories and what a walk sees of them            *)

(* Of any sets of subsets, one has no member with an element too many: what
   stands in for induction on the size of a set. *)
LEMMA SmallestSubset ==
  ASSUME NEW S, IsFiniteSet(S), NEW Bad \in SUBSET (SUBSET S), Bad # {}
  PROVE  \E B \in Bad : \A o \in B : B \ {o} \notin Bad
<1>1. FiniteSubsetsOf(S) = SUBSET S
  BY FS_Subset DEF FiniteSubsetsOf
<1>2. IsWellFoundedOn(StrictSubsetOrdering(S), SUBSET S)
  BY <1>1, FS_StrictSubsetOrderingWellFounded
<1>3. PICK B \in Bad : \A C \in Bad : <<C, B>> \notin StrictSubsetOrdering(S)
  BY <1>2, WFMin
<1>4. ASSUME NEW o \in B, B \ {o} \in Bad PROVE FALSE
  BY <1>3, <1>4 DEF StrictSubsetOrdering
<1> QED BY <1>4

(* No element of X leads out of it. *)
ClosedUnder(next, X) == \A d \in X : next[d] \subseteq X

(* What a walk from the ids in X must see: every closed set that has them. *)
Reach(next, X) == {d \in Categories : \A T \in SUBSET Categories :
                     X \subseteq T /\ ClosedUnder(next, T) => d \in T}

LEMMA ReachCloses ==
  ASSUME NEW next \in [Categories -> SUBSET Categories], NEW X \in SUBSET Categories
  PROVE  /\ Reach(next, X) \in SUBSET Categories
         /\ X \subseteq Reach(next, X) /\ ClosedUnder(next, Reach(next, X))
         /\ \A T \in SUBSET Categories :
              X \subseteq T /\ ClosedUnder(next, T) => Reach(next, X) \subseteq T
BY DEF Reach, ClosedUnder

(* What is pending when a walk from c has seen so much. *)
Pending(next, c, seen) == ({c} \cup UNION {next[d] : d \in seen}) \ seen
Picked(next, c, seen) == CHOOSE d \in Pending(next, c, seen) : TRUE

(* A walk sees all it can reach and nothing else, over cycles as well. *)
LEMMA WalkReaches ==
  ASSUME NEW next \in [Categories -> SUBSET Categories], NEW c \in Categories
  PROVE  Walk(next, c) = Reach(next, {c})
<1> DEFINE rec(g) == g = [seen \in SUBSET Categories |->
              IF Pending(next, c, seen) = {} THEN seen
              ELSE g[seen \cup {Picked(next, c, seen)}]]
           walked == CHOOSE g : rec(g)
           f == [seen \in SUBSET Categories |-> Reach(next, seen \cup {c})]
<1>1. Walk(next, c) = walked[{}]
  BY DEF Walk, Pending, Picked
<1>2. ASSUME NEW seen \in SUBSET Categories
      PROVE  /\ Pending(next, c, seen) = {} => Reach(next, seen \cup {c}) = seen
             /\ Pending(next, c, seen) # {} =>
                  /\ Picked(next, c, seen) \in Categories \ seen
                  /\ Reach(next, seen \cup {c})
                       = Reach(next, (seen \cup {Picked(next, c, seen)}) \cup {c})
  <2> DEFINE p == Picked(next, c, seen)
             R == Reach(next, seen \cup {c})
             Q == Reach(next, (seen \cup {p}) \cup {c})
  <2>1. CASE Pending(next, c, seen) = {}
    <3>1. c \in seen /\ ClosedUnder(next, seen)
      BY <2>1 DEF Pending, ClosedUnder
    <3>2. seen \cup {c} = seen
      BY <3>1
    <3> QED BY <2>1, <3>1, <3>2, ReachCloses
  <2>2. CASE Pending(next, c, seen) # {}
    <3>1. p \in Pending(next, c, seen)
      BY <2>2 DEF Picked
    <3> HIDE DEF p
    <3>2. p \in Categories \ seen
      BY <3>1 DEF Pending
    <3>3. seen \cup {c} \subseteq R /\ ClosedUnder(next, R) /\ R \in SUBSET Categories
      <4>1. seen \cup {c} \in SUBSET Categories
        OBVIOUS
      <4> QED BY <4>1, ReachCloses
    <3>4. p \in R
      BY <3>1, <3>3 DEF Pending, ClosedUnder
    <3>5. Q \subseteq R
      <4>1. (seen \cup {p}) \cup {c} \subseteq R /\ (seen \cup {p}) \cup {c} \in SUBSET Categories
        BY <3>2, <3>3, <3>4
      <4> HIDE DEF R
      <4> QED BY <3>3, <4>1, ReachCloses
    <3>6. R \subseteq Q
      <4>1. (seen \cup {p}) \cup {c} \in SUBSET Categories
        BY <3>2
      <4>2. (seen \cup {p}) \cup {c} \subseteq Q /\ ClosedUnder(next, Q) /\ Q \in SUBSET Categories
        BY <4>1, ReachCloses
      <4> HIDE DEF Q
      <4> QED BY <4>2, ReachCloses
    <3> QED BY <2>2, <3>2, <3>5, <3>6 DEF p
  <2> QED BY <2>1, <2>2
<1>3. rec(f)
  BY <1>2
<1>4. rec(walked)
  BY <1>3
<1> HIDE DEF walked
<1>5. walked[{}] = f[{}]
  <2> DEFINE Bad == {S \in SUBSET Categories : walked[Categories \ S] # f[Categories \ S]}
  <2>1. SUFFICES ASSUME Bad # {} PROVE FALSE
    <3>1. Categories \ Categories = {} /\ Categories \in SUBSET Categories
      OBVIOUS
    <3> QED BY <3>1
  <2>2. PICK S \in Bad : \A o \in S : S \ {o} \notin Bad
    BY <2>1, SmallestSubset, LibraryAssumption
  <2> DEFINE seen == Categories \ S
             p == Picked(next, c, seen)
  <2>3. S \in SUBSET Categories /\ seen \in SUBSET Categories
    BY <2>2
  <2>4. Pending(next, c, seen) # {}
    BY <1>3, <1>4, <2>2, <2>3
  <2>5. p \in S /\ seen \cup {p} = Categories \ (S \ {p})
    <3>1. p \in Categories \ seen
      BY <1>2, <2>3, <2>4
    <3> HIDE DEF p, Bad
    <3> QED BY <2>3, <3>1
  <2>6. walked[seen] = walked[seen \cup {p}] /\ f[seen] = f[seen \cup {p}]
    BY <1>3, <1>4, <2>3, <2>4
  <2> QED BY <2>2, <2>5, <2>6
<1>6. f[{}] = Reach(next, {c})
  <2>1. {} \cup {c} = {c}
    OBVIOUS
  <2> QED BY <2>1
<1> QED BY <1>1, <1>5, <1>6

-----------------------------------------------------------------------------
(* The library: the branch of a category and its path                      *)

LEMMA BranchIs ==
  ASSUME NEW S \in SUBSET Categories, NEW c \in Categories
  PROVE  /\ c \in Branch(S, c) /\ Branch(S, c) \subseteq S \cup {c}
         /\ \A d \in Branch(S, c) : Children(S, d) \subseteq Branch(S, c)
         /\ \A T \in SUBSET Categories :
              c \in T /\ (\A d \in T : Children(S, d) \subseteq T) => Branch(S, c) \subseteq T
<1>1. Down(S) \in [Categories -> SUBSET Categories] /\ \A d \in Categories : Down(S)[d] = Children(S, d)
  BY DEF Down, Children
<1> DEFINE B == Reach(Down(S), {c})
<1>2. Branch(S, c) = B
  BY <1>1, WalkReaches DEF Branch
<1>3. /\ B \in SUBSET Categories /\ {c} \subseteq B /\ ClosedUnder(Down(S), B)
      /\ \A T \in SUBSET Categories : {c} \subseteq T /\ ClosedUnder(Down(S), T) => B \subseteq T
  BY <1>1, ReachCloses
<1> HIDE DEF B
<1>4. \A T \in SUBSET Categories : ClosedUnder(Down(S), T) <=> \A d \in T : Children(S, d) \subseteq T
  BY <1>1 DEF ClosedUnder
<1>5. B \subseteq S \cup {c}
  <2>1. S \cup {c} \in SUBSET Categories /\ \A d \in S \cup {c} : Children(S, d) \subseteq S \cup {c}
    BY DEF Children
  <2>2. ClosedUnder(Down(S), S \cup {c})
    BY <2>1, <1>4
  <2> QED BY <1>3, <2>1, <2>2
<1>6. \A d \in B : Children(S, d) \subseteq B
  BY <1>3, <1>4
<1>7. ASSUME NEW T \in SUBSET Categories, c \in T, \A d \in T : Children(S, d) \subseteq T
      PROVE  B \subseteq T
  <2>1. ClosedUnder(Down(S), T)
    BY <1>4, <1>7
  <2> QED BY <1>3, <1>7, <2>1
<1> QED BY <1>2, <1>3, <1>5, <1>6, <1>7

LEMMA PathIs ==
  ASSUME NEW S \in SUBSET Categories, NEW c \in Categories
  PROVE  /\ c \in Path(S, c) /\ Path(S, c) \subseteq S \cup {c}
         /\ \A d \in Path(S, c) : parent[d] \in S => parent[d] \in Path(S, c)
         /\ \A T \in SUBSET Categories :
              c \in T /\ (\A d \in T : parent[d] \in S => parent[d] \in T) => Path(S, c) \subseteq T
<1>1. Up(S) \in [Categories -> SUBSET Categories] /\ \A d \in Categories : Up(S)[d] = {parent[d]} \cap S
  BY DEF Up
<1> DEFINE B == Reach(Up(S), {c})
<1>2. Path(S, c) = B
  BY <1>1, WalkReaches DEF Path
<1>3. /\ B \in SUBSET Categories /\ {c} \subseteq B /\ ClosedUnder(Up(S), B)
      /\ \A T \in SUBSET Categories : {c} \subseteq T /\ ClosedUnder(Up(S), T) => B \subseteq T
  BY <1>1, ReachCloses
<1> HIDE DEF B
<1>4. \A T \in SUBSET Categories : ClosedUnder(Up(S), T) <=> \A d \in T : parent[d] \in S => parent[d] \in T
  BY <1>1 DEF ClosedUnder
<1>5. B \subseteq S \cup {c}
  <2>1. S \cup {c} \in SUBSET Categories
    OBVIOUS
  <2>2. ClosedUnder(Up(S), S \cup {c})
    BY <2>1, <1>4
  <2> QED BY <1>3, <2>1, <2>2
<1>6. \A d \in B : parent[d] \in S => parent[d] \in B
  BY <1>3, <1>4
<1>7. ASSUME NEW T \in SUBSET Categories, c \in T, \A d \in T : parent[d] \in S => parent[d] \in T
      PROVE  B \subseteq T
  <2>1. ClosedUnder(Up(S), T)
    BY <1>4, <1>7
  <2> QED BY <1>3, <1>7, <2>1
<1> QED BY <1>2, <1>3, <1>5, <1>6, <1>7

(* What is out of a branch is closed upwards, what is out of a path downwards:
   the two walks agree, whatever cycles there are. *)
LEMMA WalksMeet ==
  ASSUME NEW S \in SUBSET Categories, NEW c \in S, NEW d \in S
  PROVE  d \in Branch(S, c) <=> c \in Path(S, d)
<1>1. c \in Branch(S, c) /\ \A e \in Branch(S, c) : Children(S, e) \subseteq Branch(S, c)
  BY BranchIs
<1>2. d \in Path(S, d) /\ \A e \in Path(S, d) : parent[e] \in S => parent[e] \in Path(S, d)
  BY PathIs
<1>3. ASSUME d \notin Branch(S, c) PROVE c \notin Path(S, d)
  <2> DEFINE T == S \ Branch(S, c)
  <2>1. T \in SUBSET Categories /\ d \in T /\ c \notin T
    BY <1>1, <1>3
  <2>2. \A e \in T : parent[e] \in S => parent[e] \in T
    BY <1>1 DEF Children
  <2> HIDE DEF T
  <2> QED BY <2>1, <2>2, PathIs
<1>4. ASSUME c \notin Path(S, d) PROVE d \notin Branch(S, c)
  <2> DEFINE T == S \ Path(S, d)
  <2>1. T \in SUBSET Categories /\ c \in T /\ d \notin T
    BY <1>2, <1>4
  <2>2. \A e \in T : Children(S, e) \subseteq T
    BY <1>2 DEF Children
  <2> HIDE DEF T
  <2> QED BY <2>1, <2>2, BranchIs
<1> QED BY <1>3, <1>4

(* What is on a branch is its root, or has its parent there. *)
LEMMA BranchStep ==
  ASSUME NEW S \in SUBSET Categories, NEW c \in Categories, NEW d \in Branch(S, c), d # c
  PROVE  d \in S /\ parent[d] \in Branch(S, c)
<1> DEFINE T == {e \in Branch(S, c) : e = c \/ (e \in S /\ parent[e] \in Branch(S, c))}
<1>1. T \in SUBSET Categories /\ c \in T
  BY BranchIs
<1>2. \A e \in T : Children(S, e) \subseteq T
  BY BranchIs DEF Children
<1>3. Branch(S, c) \subseteq T
  <2> HIDE DEF T
  <2> QED BY <1>1, <1>2, BranchIs
<1> QED BY <1>3

(* A branch is its root with the branches of the children. *)
LEMMA BranchUnfolds ==
  ASSUME NEW S \in SUBSET Categories, NEW c \in Categories
  PROVE  Branch(S, c) = {c} \cup UNION {Branch(S, d) : d \in Children(S, c)}
<1> DEFINE T == {c} \cup UNION {Branch(S, d) : d \in Children(S, c)}
<1>1. Children(S, c) \subseteq S /\ \A d \in Children(S, c) : d \in Branch(S, d) /\ Branch(S, d) \subseteq S
  BY BranchIs DEF Children
<1>2. T \in SUBSET Categories /\ c \in T
  BY <1>1
<1>3. \A e \in T : Children(S, e) \subseteq T
  <2>1. Children(S, c) \subseteq T
    BY <1>1
  <2>2. \A d \in Children(S, c) : \A e \in Branch(S, d) : Children(S, e) \subseteq Branch(S, d)
    BY <1>1, BranchIs
  <2> QED BY <2>1, <2>2
<1>4. Branch(S, c) \subseteq T
  <2> HIDE DEF T
  <2> QED BY <1>2, <1>3, BranchIs
<1>5. ASSUME NEW d \in Children(S, c) PROVE Branch(S, d) \subseteq Branch(S, c)
  <2>1. d \in Branch(S, c)
    BY BranchIs
  <2>2. Branch(S, c) \in SUBSET Categories /\ \A e \in Branch(S, c) : Children(S, e) \subseteq Branch(S, c)
    BY BranchIs
  <2> QED BY <1>1, <2>1, <2>2, BranchIs
<1> QED BY <1>4, <1>5, BranchIs

(* A path is its lower end with the path of the parent. *)
LEMMA PathUnfolds ==
  ASSUME NEW S \in SUBSET Categories, NEW c \in S, parent[c] \in S
  PROVE  Path(S, parent[c]) \subseteq Path(S, c)
<1>1. parent[c] \in Path(S, c) /\ Path(S, c) \in SUBSET Categories
  BY PathIs
<1>2. \A d \in Path(S, c) : parent[d] \in S => parent[d] \in Path(S, c)
  BY PathIs
<1> QED BY <1>1, <1>2, PathIs

-----------------------------------------------------------------------------
(* The library: rows that form no cycle                                    *)

LEMMA NotBelowItself ==
  ASSUME NEW S \in SUBSET Categories, Acyclic(S), NEW c \in S, NEW d \in Children(S, c)
  PROVE  c \notin Branch(S, d)
<1>1. d \in S /\ parent[d] = c
  BY DEF Children
<1> QED BY <1>1, WalksMeet DEF Acyclic

(* Of any rows, one has no child among them. *)
LEMMA LowestOf ==
  ASSUME NEW S \in SUBSET Categories, Acyclic(S), NEW T \in SUBSET S, T # {}
  PROVE  \E b \in T : Children(S, b) \cap T = {}
<1> DEFINE Bad == {B \in SUBSET S : \E b \in T : Branch(S, b) \subseteq B}
<1>1. IsFiniteSet(S)
  BY LibraryAssumption, FS_Subset
<1>2. \A b \in T : Branch(S, b) \subseteq S
  BY BranchIs
<1>3. Bad \in SUBSET (SUBSET S) /\ Bad # {}
  BY <1>2
<1>4. PICK B \in Bad : \A o \in B : B \ {o} \notin Bad
  <2> HIDE DEF Bad
  <2> QED BY <1>1, <1>3, SmallestSubset
<1>5. PICK b \in T : Branch(S, b) \subseteq B
  BY <1>4
<1>6. ASSUME NEW d \in Children(S, b), d \in T PROVE FALSE
  <2>1. Branch(S, d) \subseteq Branch(S, b)
    BY BranchUnfolds
  <2>2. b \notin Branch(S, d) /\ b \in Branch(S, b)
    BY NotBelowItself, BranchIs
  <2>3. Branch(S, d) \subseteq B \ {b} /\ b \in B /\ B \ {b} \in SUBSET S
    BY <1>4, <1>5, <2>1, <2>2
  <2> QED BY <1>4, <1>6, <2>3
<1> QED BY <1>6

(* Of any rows, one has its parent elsewhere. *)
LEMMA HighestOf ==
  ASSUME NEW S \in SUBSET Categories, Acyclic(S), NEW T \in SUBSET S, T # {}
  PROVE  \E b \in T : parent[b] \notin T
<1> DEFINE Bad == {B \in SUBSET S : \E b \in T : Path(S, b) \subseteq B}
<1>1. IsFiniteSet(S)
  BY LibraryAssumption, FS_Subset
<1>2. \A b \in T : Path(S, b) \subseteq S
  BY PathIs
<1>3. Bad \in SUBSET (SUBSET S) /\ Bad # {}
  BY <1>2
<1>4. PICK B \in Bad : \A o \in B : B \ {o} \notin Bad
  <2> HIDE DEF Bad
  <2> QED BY <1>1, <1>3, SmallestSubset
<1>5. PICK b \in T : Path(S, b) \subseteq B
  BY <1>4
<1>6. ASSUME parent[b] \in T PROVE FALSE
  <2>1. Path(S, parent[b]) \subseteq Path(S, b)
    BY <1>6, PathUnfolds
  <2>2. b \notin Path(S, parent[b]) /\ b \in Path(S, b)
    BY <1>6, PathIs DEF Acyclic
  <2>3. Path(S, parent[b]) \subseteq B \ {b} /\ b \in B /\ B \ {b} \in SUBSET S
    BY <1>4, <1>5, <2>1, <2>2
  <2> QED BY <1>4, <1>6, <2>3
<1> QED BY <1>6

(* Rows of which none is below the other have nothing below in common. *)
LEMMA BranchesApart ==
  ASSUME NEW S \in SUBSET Categories, NEW c \in S, NEW d \in S,
         c \notin Branch(S, d), parent[d] \notin Branch(S, c)
  PROVE  Branch(S, c) \cap Branch(S, d) = {}
<1> DEFINE T == Branch(S, c) \ Branch(S, d)
<1>1. T \in SUBSET Categories /\ c \in T
  BY BranchIs
<1>2. ASSUME NEW e \in T, NEW z \in Children(S, e) PROVE z \in T
  <2>1. z \in Branch(S, c) /\ parent[z] = e
    BY <1>2, BranchIs DEF Children
  <2>2. z \notin Branch(S, d)
    BY <1>2, <2>1, BranchStep
  <2> QED BY <2>1, <2>2
<1>3. Branch(S, c) \subseteq T
  <2> HIDE DEF T
  <2> QED BY <1>1, <1>2, BranchIs
<1> QED BY <1>3

-----------------------------------------------------------------------------
(* The library: sums over a branch                                         *)

(* g gives every set of these rows the sum of its weights. *)
Adds(g, f, S) ==
  /\ g \in [SUBSET S -> Nat]
  /\ g[{}] = 0
  /\ \A X \in SUBSET S : \A o \in X : g[X] = g[X \ {o}] + f[o]

(* There is such a function: a smallest set without one would have one. *)
LEMMA SumExists ==
  ASSUME NEW S, IsFiniteSet(S), NEW f, \A o \in S : f[o] \in Nat
  PROVE  \E g : Adds(g, f, S)
<1> DEFINE Bad == {T \in SUBSET S : ~ \E g : Adds(g, f, T)}
<1> SUFFICES ASSUME Bad # {} PROVE FALSE
  OBVIOUS
<1>1. PICK B \in Bad : \A o \in B : B \ {o} \notin Bad
  BY SmallestSubset
<1>2. ASSUME NEW x \in B PROVE FALSE
  <2>1. PICK g : Adds(g, f, B \ {x})
    BY <1>1, <1>2
  <2> DEFINE h == [Z \in SUBSET B |-> IF x \in Z THEN g[Z \ {x}] + f[x] ELSE g[Z]]
  <2>2. f[x] \in Nat /\ \A o \in B : f[o] \in Nat
    OBVIOUS
  <2>3. \A Z \in SUBSET B : x \notin Z => h[Z] = g[Z] /\ Z \in SUBSET (B \ {x})
    OBVIOUS
  <2>4. \A Z \in SUBSET B : x \in Z => h[Z] = g[Z \ {x}] + f[x] /\ Z \ {x} \in SUBSET (B \ {x})
    OBVIOUS
  <2>5. h \in [SUBSET B -> Nat]
    BY <2>1, <2>2, <2>3, <2>4 DEF Adds
  <2>6. h[{}] = 0
    BY <2>1, <2>3 DEF Adds
  <2>7. ASSUME NEW Z \in SUBSET B, NEW o \in Z PROVE h[Z] = h[Z \ {o}] + f[o]
    <3> HIDE DEF h
    <3>1. CASE o = x
      BY <2>3, <2>4, <3>1
    <3>2. CASE o # x /\ x \in Z
      <4>1. (Z \ {x}) \ {o} = (Z \ {o}) \ {x}
        OBVIOUS
      <4>2. g[Z \ {x}] = g[(Z \ {x}) \ {o}] + f[o]
        BY <2>1, <3>2 DEF Adds
      <4>3. h[Z \ {o}] = g[(Z \ {o}) \ {x}] + f[x] /\ h[Z] = g[Z \ {x}] + f[x]
        BY <2>4, <3>2
      <4> DEFINE n == g[(Z \ {o}) \ {x}]
                 a == f[o]
                 b == f[x]
      <4>4. n \in Nat /\ a \in Nat /\ b \in Nat
        BY <2>1, <2>2 DEF Adds
      <4>5. h[Z] = (n + a) + b /\ h[Z \ {o}] = n + b
        BY <4>1, <4>2, <4>3
      <4> HIDE DEF n, a, b
      <4>6. h[Z] = h[Z \ {o}] + a
        BY <4>4, <4>5
      <4> QED BY <4>6 DEF a
    <3>3. CASE x \notin Z
      BY <2>1, <2>3, <3>3 DEF Adds
    <3> QED BY <3>1, <3>2, <3>3
  <2>8. Adds(h, f, B)
    BY <2>5, <2>6, <2>7 DEF Adds
  <2> QED BY <1>1, <2>8
<1>3. CASE B = {}
  <2>1. Adds([Z \in SUBSET B |-> 0], f, B)
    BY <1>3 DEF Adds
  <2> QED BY <1>1, <2>1
<1> QED BY <1>2, <1>3

(* The fold that computes a sum is such a function. *)
LEMMA SumIs ==
  ASSUME NEW S, IsFiniteSet(S), NEW f, \A o \in S : f[o] \in Nat, NEW g, Adds(g, f, S)
  PROVE  Sum(f, S) = g[S]
<1> DEFINE rec(h) == h = [s \in SUBSET S |-> IF s = {} THEN 0
              ELSE f[CHOOSE x \in s : TRUE] + h[s \ {CHOOSE x \in s : TRUE}]]
           iter == CHOOSE h : rec(h)
<1>1. Sum(f, S) = iter[S]
  BY DEF Sum, MapThenSumSet, MapThenFoldSet
<1>2. rec(g)
  <2>1. ASSUME NEW s \in SUBSET S, s # {}
        PROVE  g[s] = f[CHOOSE x \in s : TRUE] + g[s \ {CHOOSE x \in s : TRUE}]
    <3> DEFINE x == CHOOSE x \in s : TRUE
    <3>1. x \in s
      BY <2>1
    <3>2. g[s] = g[s \ {x}] + f[x] /\ g[s \ {x}] \in Nat /\ f[x] \in Nat
      BY <3>1 DEF Adds
    <3> QED BY <3>2
  <2> QED BY <2>1 DEF Adds
<1>3. rec(iter)
  BY <1>2
<1> HIDE DEF iter
<1>4. \A s \in SUBSET S : iter[s] = g[s]
  <2> DEFINE Bad == {s \in SUBSET S : iter[s] # g[s]}
  <2> SUFFICES ASSUME Bad # {} PROVE FALSE
    OBVIOUS
  <2>2. PICK s \in Bad : \A o \in s : s \ {o} \notin Bad
    BY SmallestSubset
  <2> DEFINE x == CHOOSE x \in s : TRUE
  <2>3. CASE s = {}
    BY <1>3, <2>2, <2>3 DEF Adds
  <2>4. CASE s # {}
    <3>1. x \in s
      BY <2>4
    <3>2. iter[s] = f[x] + iter[s \ {x}]
      BY <1>3, <2>4
    <3>3. g[s] = f[x] + g[s \ {x}]
      BY <1>2, <2>4
    <3>4. iter[s \ {x}] = g[s \ {x}]
      BY <2>2, <3>1
    <3> QED BY <2>2, <3>2, <3>3, <3>4
  <2> QED BY <2>3, <2>4
<1> QED BY <1>1, <1>4

(* A sum is what it is without one of the rows, and the weight of that one. *)
LEMMA SumAdds ==
  ASSUME NEW S, IsFiniteSet(S), NEW f, \A o \in S : f[o] \in Nat
  PROVE  /\ Sum(f, {}) = 0
         /\ \A T \in SUBSET S : Sum(f, T) \in Nat
         /\ \A T \in SUBSET S : \A o \in T : Sum(f, T) = Sum(f, T \ {o}) + f[o]
<1>1. PICK g : Adds(g, f, S)
  BY SumExists
<1>2. ASSUME NEW T \in SUBSET S PROVE Sum(f, T) = g[T]
  <2> DEFINE h == [X \in SUBSET T |-> g[X]]
  <2>1. Adds(h, f, T)
    BY <1>1 DEF Adds
  <2>2. IsFiniteSet(T)
    BY FS_Subset
  <2> HIDE DEF h
  <2>3. Sum(f, T) = h[T]
    BY <2>1, <2>2, SumIs
  <2> QED BY <2>3 DEF h
<1>3. \A T \in SUBSET S : \A o \in T : T \ {o} \in SUBSET S
  OBVIOUS
<1> QED BY <1>1, <1>2, <1>3 DEF Adds

(* Equal weights have equal sums. *)
LEMMA SumCongruent ==
  ASSUME NEW S, IsFiniteSet(S), NEW f, NEW g, \A o \in S : f[o] \in Nat /\ f[o] = g[o]
  PROVE  Sum(f, S) = Sum(g, S)
<1> DEFINE Bad == {T \in SUBSET S : Sum(f, T) # Sum(g, T)}
<1> SUFFICES ASSUME Bad # {} PROVE FALSE
  OBVIOUS
<1>1. PICK B \in Bad : \A o \in B : B \ {o} \notin Bad
  BY SmallestSubset
<1>2. /\ Sum(f, {}) = 0 /\ \A o \in B : Sum(f, B) = Sum(f, B \ {o}) + f[o]
      /\ Sum(g, {}) = 0 /\ \A o \in B : Sum(g, B) = Sum(g, B \ {o}) + g[o]
  <2>1. \A o \in S : g[o] \in Nat
    OBVIOUS
  <2> QED BY <2>1, SumAdds
<1>3. ASSUME NEW o \in B PROVE FALSE
  <2>1. Sum(f, B \ {o}) = Sum(g, B \ {o}) /\ f[o] = g[o]
    BY <1>1
  <2> QED BY <1>1, <1>2, <2>1
<1> QED BY <1>1, <1>2, <1>3

(* Sets that have nothing in common add up. *)
LEMMA SumOfUnion ==
  ASSUME NEW S, IsFiniteSet(S), NEW f, \A o \in S : f[o] \in Nat,
         NEW A \in SUBSET S, NEW C \in SUBSET S, A \cap C = {}
  PROVE  Sum(f, A \cup C) = Sum(f, A) + Sum(f, C)
<1> DEFINE Bad == {T \in SUBSET C : Sum(f, A \cup T) # Sum(f, A) + Sum(f, T)}
<1> SUFFICES ASSUME Bad # {} PROVE FALSE
  OBVIOUS
<1>0. IsFiniteSet(C)
  BY FS_Subset
<1>1. PICK B \in Bad : \A o \in B : B \ {o} \notin Bad
  BY <1>0, SmallestSubset
<1>2. /\ Sum(f, {}) = 0 /\ Sum(f, A) \in Nat
      /\ \A T \in SUBSET S : Sum(f, T) \in Nat /\ \A o \in T : Sum(f, T) = Sum(f, T \ {o}) + f[o]
  BY SumAdds
<1>3. ASSUME NEW o \in B PROVE FALSE
  <2>1. o \in A \cup B /\ A \cup B \in SUBSET S /\ (A \cup B) \ {o} = A \cup (B \ {o})
    BY <1>1
  <2>2. Sum(f, A \cup (B \ {o})) = Sum(f, A) + Sum(f, B \ {o})
    BY <1>1
  <2>3. Sum(f, A \cup B) = Sum(f, A \cup (B \ {o})) + f[o]
    BY <1>2, <2>1
  <2>4. Sum(f, B) = Sum(f, B \ {o}) + f[o] /\ B \in SUBSET S /\ B \ {o} \in SUBSET S
    BY <1>1, <1>2
  <2>5. Sum(f, B \ {o}) \in Nat /\ f[o] \in Nat
    BY <1>2, <2>4
  <2>6. Sum(f, A \cup B) = Sum(f, A) + Sum(f, B)
    BY <1>2, <2>2, <2>3, <2>4, <2>5
  <2> QED BY <1>1, <2>6
<1>4. CASE B = {}
  <2>1. A \cup B = A
    BY <1>4
  <2> QED BY <1>1, <1>2, <1>4, <2>1
<1> QED BY <1>3, <1>4

(* A sum of ones counts. *)
LEMMA SumOfOnes ==
  ASSUME NEW S, IsFiniteSet(S)
  PROVE  Sum([c \in S |-> 1], S) = Cardinality(S)
<1> DEFINE f == [c \in S |-> 1]
           Bad == {T \in SUBSET S : Sum(f, T) # Cardinality(T)}
<1> SUFFICES ASSUME Bad # {} PROVE FALSE
  OBVIOUS
<1>1. PICK B \in Bad : \A o \in B : B \ {o} \notin Bad
  BY SmallestSubset
<1>2. \A o \in S : f[o] = 1 /\ f[o] \in Nat
  OBVIOUS
<1> HIDE DEF f
<1>3. Sum(f, {}) = 0 /\ \A o \in B : Sum(f, B) = Sum(f, B \ {o}) + f[o]
  BY <1>2, SumAdds
<1>4. ASSUME NEW o \in B PROVE FALSE
  <2>1. Sum(f, B \ {o}) = Cardinality(B \ {o})
    BY <1>1
  <2>2. IsFiniteSet(B)
    BY FS_Subset
  <2>3. Cardinality(B \ {o}) = Cardinality(B) - 1 /\ Cardinality(B) \in Nat
    BY <2>2, FS_RemoveElement, FS_CardinalityType
  <2> QED BY <1>1, <1>2, <1>3, <2>1, <2>3
<1> QED BY <1>1, <1>3, <1>4, FS_EmptySet

(* Branches that have nothing in common add up. *)
LEMMA SumOfBranches ==
  ASSUME NEW S \in SUBSET Categories, NEW w, \A c \in S : w[c] \in Nat,
         NEW g, \A c \in S : g[c] = Sum(w, Branch(S, c)),
         NEW K \in SUBSET S, \A c, d \in K : c # d => Branch(S, c) \cap Branch(S, d) = {}
  PROVE  Sum(w, UNION {Branch(S, d) : d \in K}) = Sum(g, K)
<1> DEFINE Joined(T) == UNION {Branch(S, d) : d \in T}
           Bad == {T \in SUBSET K : Sum(w, Joined(T)) # Sum(g, T)}
<1> SUFFICES ASSUME Bad # {} PROVE FALSE
  OBVIOUS
<1>1. IsFiniteSet(S) /\ IsFiniteSet(K)
  BY LibraryAssumption, FS_Subset
<1>2. PICK B \in Bad : \A o \in B : B \ {o} \notin Bad
  BY <1>1, SmallestSubset
<1>3. /\ Sum(w, {}) = 0
      /\ \A T \in SUBSET S : Sum(w, T) \in Nat
  BY <1>1, SumAdds
<1>4. \A c \in S : Branch(S, c) \in SUBSET S
  BY BranchIs
<1>5. Sum(g, {}) = 0 /\ \A o \in B : Sum(g, B) = Sum(g, B \ {o}) + g[o]
  <2>1. \A c \in S : g[c] \in Nat
    BY <1>3, <1>4
  <2> HIDE DEF Bad
  <2>2. B \in SUBSET S
    BY <1>2 DEF Bad
  <2> QED BY <1>1, <2>1, <2>2, SumAdds
<1>6. ASSUME NEW o \in B PROVE FALSE
  <2>1. Sum(w, Joined(B \ {o})) = Sum(g, B \ {o})
    BY <1>2
  <2>2. Joined(B) = Joined(B \ {o}) \cup Branch(S, o)
    OBVIOUS
  <2>3. Joined(B \ {o}) \in SUBSET S /\ Branch(S, o) \in SUBSET S /\ Joined(B \ {o}) \cap Branch(S, o) = {}
    BY <1>4
  <2>4. Sum(w, Joined(B)) = Sum(w, Joined(B \ {o})) + Sum(w, Branch(S, o))
    <3> DEFINE X == Joined(B \ {o})
               Y == Branch(S, o)
    <3>1. X \in SUBSET S /\ Y \in SUBSET S /\ X \cap Y = {}
      BY <2>3
    <3> HIDE DEF X, Y
    <3>2. Sum(w, X \cup Y) = Sum(w, X) + Sum(w, Y)
      BY <1>1, <3>1, SumOfUnion
    <3> QED BY <2>2, <3>2 DEF X, Y
  <2> HIDE DEF Joined
  <2> QED BY <1>2, <1>5, <2>1, <2>4
<1>7. CASE B = {}
  <2>1. Joined(B) = {}
    BY <1>7
  <2> QED BY <1>2, <1>3, <1>5, <1>7, <2>1
<1> QED BY <1>6, <1>7

(* What is rolled up to a node is the sum over its branch. *)
LEMMA RolledUp ==
  ASSUME NEW S \in SUBSET Categories, Acyclic(S), NEW w, \A c \in S : w[c] \in Nat
  PROVE  \A c \in S : RollUp(w, S)[c] = Sum(w, Branch(S, c))
<1> DEFINE rec(h) == h = [c \in S |-> w[c] + MapThenSumSet(LAMBDA d : h[d], Children(S, c))]
           total == CHOOSE h : rec(h)
           g == [c \in S |-> Sum(w, Branch(S, c))]
<1>1. RollUp(w, S) = total
  BY DEF RollUp
<1>2. IsFiniteSet(S)
  BY LibraryAssumption, FS_Subset
<1>3. \A h : rec(h) <=> h = [c \in S |-> w[c] + Sum(h, Children(S, c))]
  BY DEF Sum
<1> HIDE DEF rec
<1>4. \A c \in S : Branch(S, c) \in SUBSET S /\ Children(S, c) \in SUBSET S
  BY BranchIs DEF Children
<1>5. \A c \in S : g[c] = Sum(w, Branch(S, c)) /\ g[c] \in Nat
  BY <1>2, <1>4, SumAdds
<1>6. ASSUME NEW c \in S PROVE g[c] = w[c] + Sum(g, Children(S, c))
  <2> DEFINE K == Children(S, c)
             Under == UNION {Branch(S, d) : d \in K}
  <2>1. \A d \in K : c \notin Branch(S, d) /\ d \in S /\ parent[d] = c
    BY NotBelowItself DEF Children
  <2>2. ASSUME NEW d \in K, NEW e \in K, d # e PROVE Branch(S, d) \cap Branch(S, e) = {}
    <3>1. d \notin Branch(S, e)
      BY <2>1, <2>2, BranchStep
    <3> QED BY <2>1, <3>1, BranchesApart
  <2>3. Sum(w, Under) = Sum(g, K)
    <3> HIDE DEF g, K
    <3> QED BY <1>4, <1>5, <2>2, SumOfBranches DEF K
  <2>4. Branch(S, c) = {c} \cup Under /\ c \notin Under /\ Under \in SUBSET S
    BY <1>4, <2>1, BranchUnfolds
  <2> HIDE DEF K, Under, g
  <2>5. Branch(S, c) \ {c} = Under /\ c \in Branch(S, c)
    BY <2>4
  <2>6. Sum(w, Branch(S, c)) = Sum(w, Under) + w[c] /\ Sum(w, Under) \in Nat
    BY <1>2, <1>4, <2>4, <2>5, SumAdds
  <2>7. g[c] = w[c] + Sum(g, K)
    BY <1>5, <2>3, <2>6
  <2> QED BY <2>7 DEF K
<1>7. rec(g)
  <2>1. g = [c \in S |-> w[c] + Sum(g, Children(S, c))]
    BY <1>6
  <2> HIDE DEF g
  <2> QED BY <1>3, <2>1
<1>8. rec(total)
  BY <1>7
<1> HIDE DEF total, g
<1>9. \A c \in S : total[c] = g[c]
  <2> DEFINE T == {c \in S : total[c] # g[c]}
  <2> SUFFICES ASSUME T # {} PROVE FALSE
    OBVIOUS
  <2>1. PICK b \in T : Children(S, b) \cap T = {}
    BY LowestOf
  <2>2. Sum(g, Children(S, b)) = Sum(total, Children(S, b))
    <3>1. IsFiniteSet(Children(S, b)) /\ Children(S, b) \in SUBSET S
      BY <1>2, <1>4, FS_Subset
    <3>2. \A d \in Children(S, b) : g[d] \in Nat /\ g[d] = total[d]
      BY <1>5, <2>1, <3>1
    <3> QED BY <3>1, <3>2, SumCongruent
  <2>3. total[b] = w[b] + Sum(total, Children(S, b))
    <3>1. total = [c \in S |-> w[c] + Sum(total, Children(S, c))]
      BY <1>3, <1>8
    <3> QED BY <3>1
  <2> QED BY <1>6, <2>1, <2>2, <2>3
<1> QED BY <1>1, <1>5, <1>9

(* Every row is below one root, and below no other. *)
LEMMA RootsCover ==
  ASSUME NEW S \in SUBSET Categories, Acyclic(S)
  PROVE  /\ S = UNION {Branch(S, r) : r \in Roots(S)}
         /\ \A r, q \in Roots(S) : r # q => Branch(S, r) \cap Branch(S, q) = {}
<1>1. \A r \in Roots(S) : r \in S /\ parent[r] \notin S /\ Branch(S, r) \subseteq S /\ r \in Branch(S, r)
  BY BranchIs DEF Roots
<1>2. ASSUME NEW r \in Roots(S), NEW q \in Roots(S), r # q PROVE Branch(S, r) \cap Branch(S, q) = {}
  <2>1. r \notin Branch(S, q)
    BY <1>1, <1>2, BranchStep
  <2> QED BY <1>1, <2>1, BranchesApart
<1> DEFINE T == S \ UNION {Branch(S, r) : r \in Roots(S)}
<1>3. ASSUME T # {} PROVE FALSE
  <2>1. PICK b \in T : parent[b] \notin T
    BY <1>3, HighestOf
  <2>2. CASE parent[b] \notin S
    BY <1>1, <2>1, <2>2 DEF Roots
  <2>3. CASE parent[b] \in S
    <3>1. PICK r \in Roots(S) : parent[b] \in Branch(S, r)
      BY <2>1, <2>3
    <3>2. b \in Children(S, parent[b])
      BY DEF Children
    <3> QED BY <1>1, <2>1, <3>1, <3>2, BranchIs
  <2> QED BY <2>2, <2>3
<1> QED BY <1>1, <1>2, <1>3

(* The tree that is built has every row once. *)
LEMMA NodesCounted ==
  ASSUME NEW S \in SUBSET Categories, Acyclic(S)
  PROVE  CountNodes(S) = Cardinality(S)
<1> DEFINE w == [c \in S |-> 1]
           g == RollUp(w, S)
<1>1. \A c \in S : w[c] \in Nat
  OBVIOUS
<1>2. \A c \in S : g[c] = Sum(w, Branch(S, c))
  <2> HIDE DEF w
  <2> QED BY <1>1, RolledUp
<1>3. Sum(w, S) = Cardinality(S)
  BY LibraryAssumption, FS_Subset, SumOfOnes
<1>4. CountNodes(S) = Sum(g, Roots(S))
  BY DEF CountNodes
<1> HIDE DEF w, g
<1>5. Roots(S) \in SUBSET S
  BY DEF Roots
<1>6. Sum(w, UNION {Branch(S, r) : r \in Roots(S)}) = Sum(g, Roots(S))
  BY <1>1, <1>2, <1>5, RootsCover, SumOfBranches
<1> QED BY <1>3, <1>4, <1>6, RootsCover

(* Whatever rows there are. *)
LEMMA WalksAlwaysAgree ==
  ASSUME exists \subseteq Categories
  PROVE  WalksAgree
<1> SUFFICES ASSUME NEW u \in Callers \ {Anonymous}
             PROVE  LET S == Scope(u)
                    IN  /\ \A c, d \in S : d \in Branch(S, c) <=> c \in Path(S, d)
                        /\ Acyclic(S) =>
                             /\ CountNodes(S) = Cardinality(S)
                             /\ \A c \in S : TotalObjectCount(S)[c] = Sum(ObjectCount, Branch(S, c))
  BY DEF WalksAgree
<1> DEFINE S == Scope(u)
<1>1. S \in SUBSET Categories
  BY DEF Scope
<1> HIDE DEF S
<1>2. \A c, d \in S : d \in Branch(S, c) <=> c \in Path(S, d)
  BY <1>1, WalksMeet
<1>3. ASSUME Acyclic(S)
      PROVE  /\ CountNodes(S) = Cardinality(S)
             /\ \A c \in S : TotalObjectCount(S)[c] = Sum(ObjectCount, Branch(S, c))
  <2>1. \A c \in S : ObjectCount[c] \in Nat
    <3>1. \A c \in Categories : IsFiniteSet({o \in Media : c \in filed[o]})
      BY LibraryAssumption, FS_Subset
    <3> QED BY <1>1, <3>1, FS_CardinalityType DEF ObjectCount
  <2> QED BY <1>1, <1>3, <2>1, NodesCounted, RolledUp DEF TotalObjectCount
<1> QED BY <1>2, <1>3 DEF S

-----------------------------------------------------------------------------
(* The listing: the invariant                                              *)

(* What there is to know of a walk. *)
Walks == [at : {"idle", "branch", "list", "done"}, caller : Callers \cup {Null},
          query : Queries \cup {Null}, cursor : {<<>>} \cup (Keys \X Media),
          branch : SUBSET Categories, page : SUBSET Media, times : [Media -> Nat],
          steady : SUBSET Media, fixed : SUBSET Media]

(* Whoever walks has said who it is and what it asks for. *)
Begun(w) == IF w.at = "idle" THEN w = NoWalk ELSE w.caller \in Callers /\ w.query \in Queries

(* What kept its key was returned at most once, and then is not due again; what
   matched all along was returned or is due. *)
Counted(w) ==
  /\ w.steady \subseteq w.fixed
  /\ \A o \in w.fixed :
       /\ w.times[o] \in {0, 1}
       /\ w.at # "done" /\ w.times[o] = 1 => ~ After(w, o)
  /\ \A o \in w.steady : w.times[o] = 1 \/ (w.at # "done" /\ After(w, o))

StillMatching(w) == \A o \in w.steady, u \in {w.caller}, q \in {w.query} : Matches(u, q, o)

(* The branch read holds what is still in the tree, as far as the caller sees it. *)
BranchRead(w) ==
  w.at = "list" =>
    IF w.caller = Anonymous \/ w.query.branch = Null THEN w.branch = {}
    ELSE /\ \A c \in w.branch : InScope(w.caller, c)
         /\ w.steady # {} =>
              (IF w.query.deep THEN Below(w.query.branch) ELSE {w.query.branch})
                \cap Scope(w.caller) \subseteq w.branch

WalkInv(s) == /\ walk[s] \in Walks /\ Begun(walk[s]) /\ Counted(walk[s])
              /\ StillMatching(walk[s]) /\ BranchRead(walk[s])

(* No category has its parent in another tree. *)
OneTree == \A c \in Categories : parent[c] # Null => ScopeKey(parent[c]) = ScopeKey(c)

LibraryInv == /\ LibraryTypeOK /\ OneTree /\ walk \in [Slots -> Walks]
              /\ \A s \in Slots : WalkInv(s)

(* No walk is one of them. *)
LEMMA NoWalkTyped == NoWalk \in Walks /\ NoWalk.at = "idle"
BY DEF NoWalk, Walks

(* Nobody walks at first, and the tables are as the database holds them. *)
LEMMA LibraryInitInv == LibraryInit => LibraryInv
<1> SUFFICES ASSUME LibraryInit PROVE LibraryInv
  OBVIOUS
<1>1. PICK t \in Start : /\ state = t.state /\ visibility = t.visibility /\ key = t.key
                         /\ filed = t.filed /\ exists = t.exists /\ parent = t.parent
  BY DEF LibraryInit
<1>2. t \in Database
  BY StartAssumption
<1>3. walk = [s \in Slots |-> NoWalk] /\ edits = 0
  BY DEF LibraryInit
<1>4. walk \in [Slots -> Walks] /\ \A s \in Slots : walk[s] = NoWalk
  BY <1>3, NoWalkTyped
<1>5. filed \in [Media -> SUBSET exists]
  BY <1>1, <1>2, StartAssumption DEF Database
<1>6. /\ parent \in [Categories -> exists \cup {Null}]
      /\ \A c \in Categories \ exists : parent[c] = Null
  BY <1>1, <1>2, StartAssumption DEF Database
<1>7. OneTree
  BY <1>1, StartAssumption DEF OneTree
<1>8. LibraryTypeOK
  <2>1. /\ state \in [Media -> {"new", "live", "deleted"}]
        /\ visibility \in [Media -> {"private", "tenant", "public", "sensitive"}]
        /\ key \in [Media -> Keys] /\ exists \subseteq Categories
    BY <1>1, <1>2 DEF Database
  <2>2. edits \in 0 .. EditCap
    BY <1>3, LibraryAssumption
  <2>3. ASSUME NEW s \in Slots
        PROVE  /\ walk[s].at \in {"idle", "branch", "list", "done"}
               /\ walk[s].caller \in Callers \cup {Null}
               /\ walk[s].branch \subseteq Categories
               /\ walk[s].page \subseteq Media
               /\ walk[s].times \in [Media -> Nat]
    BY <1>4 DEF NoWalk
  <2> QED BY <1>5, <1>6, <2>1, <2>2, <2>3 DEF LibraryTypeOK
<1>9. ASSUME NEW s \in Slots PROVE WalkInv(s)
  BY <1>4, NoWalkTyped DEF WalkInv, Begun, Counted, StillMatching, BranchRead, NoWalk
<1> QED BY <1>4, <1>7, <1>8, <1>9 DEF LibraryInv

(* The order of the listing is strict, total and transitive. *)
LEMMA OrderedStrict ==
  ASSUME NEW d \in BOOLEAN, NEW k \in Nat, NEW n \in Nat, NEW l \in Nat, NEW m \in Nat
  PROVE  /\ Ordered(d, k, n, l, m) => ~ Ordered(d, l, m, k, n) /\ ~ (k = l /\ n = m)
         /\ Ordered(d, k, n, l, m) \/ Ordered(d, l, m, k, n) \/ (k = l /\ n = m)
<1>1. CASE d = TRUE
  BY <1>1 DEF Ordered
<1>2. CASE d = FALSE
  BY <1>2 DEF Ordered
<1> QED BY <1>1, <1>2

LEMMA OrderedOn ==
  ASSUME NEW d \in BOOLEAN, NEW k \in Nat, NEW n \in Nat, NEW l \in Nat, NEW m \in Nat,
         NEW i \in Nat, NEW j \in Nat, Ordered(d, k, n, l, m), Ordered(d, l, m, i, j)
  PROVE  Ordered(d, k, n, i, j)
<1>1. CASE d = TRUE
  BY <1>1 DEF Ordered
<1>2. CASE d = FALSE
  BY <1>2 DEF Ordered
<1> QED BY <1>1, <1>2

(* A parent is seen by whoever sees its child. *)
LEMMA SeenTogether ==
  ASSUME OneTree, NEW c \in Categories, parent[c] # Null, NEW u
  PROVE  InScope(u, parent[c]) <=> InScope(u, c)
<1>1. ScopeKey(parent[c]) = ScopeKey(c)
  BY DEF OneTree
<1> QED BY <1>1 DEF ScopeKey, InScope

(* Within what a caller sees the branch leaves out nothing that is below. *)
LEMMA BranchHasBelow ==
  ASSUME LibraryTypeOK, OneTree, NEW u, NEW c \in Scope(u)
  PROVE  Below(c) \cap Scope(u) \subseteq Branch(Scope(u), c)
<1> DEFINE S == Scope(u)
           T == Branch(S, c) \cup (exists \ S)
<1>1. S \in SUBSET exists /\ exists \in SUBSET Categories /\ c \in S
  BY DEF LibraryTypeOK, Scope
<1>2. c \in Branch(S, c) /\ Branch(S, c) \subseteq S
  BY <1>1, BranchIs
<1>3. \A d \in Branch(S, c) : Children(S, d) \subseteq Branch(S, c)
  BY <1>1, BranchIs
<1>4. T \in SUBSET exists /\ c \in T
  BY <1>1, <1>2
<1>5. ASSUME NEW e \in exists, parent[e] \in T PROVE e \in T
  <2>1. parent[e] \in exists /\ parent[e] # Null
    BY <1>1, <1>4, <1>5, LibraryAssumption
  <2>2. e \in S <=> parent[e] \in S
    <3>1. InScope(u, parent[e]) <=> InScope(u, e)
      BY <1>1, <2>1, SeenTogether
    <3> QED BY <2>1, <3>1 DEF Scope
  <2>3. CASE parent[e] \in Branch(S, c)
    BY <1>2, <1>3, <2>2, <2>3 DEF Children
  <2> QED BY <1>5, <2>2, <2>3
<1>6. Below(c) \subseteq T
  <2> HIDE DEF T
  <2> QED BY <1>4, <1>5 DEF Below
<1> QED BY <1>6

-----------------------------------------------------------------------------
(* The listing: the clients' steps                                         *)

(* A walk that stays as it is over rows that stay as they are. *)
LEMMA WalkStays ==
  ASSUME NEW s \in Slots, WalkInv(s), walk'[s] = walk[s], UNCHANGED tables
  PROVE  WalkInv(s)'
BY DEF WalkInv, Begun, Counted, StillMatching, BranchRead, After, Matches, Fetchable, MayRead,
       Scope, InScope, Below, Tenant, tables, Walks, NoWalk

(* Rows that stay as they are stay typed. *)
LEMMA TypesStay ==
  ASSUME LibraryInv, UNCHANGED <<tables, edits>>, walk' \in [Slots -> Walks]
  PROVE  LibraryTypeOK' /\ OneTree'
<1>1. OneTree'
  BY DEF LibraryInv, OneTree, tables, ScopeKey, Tenant
<1>2. ASSUME NEW s \in Slots
      PROVE  /\ walk'[s].at \in {"idle", "branch", "list", "done"}
             /\ walk'[s].caller \in Callers \cup {Null}
             /\ walk'[s].branch \subseteq Categories
             /\ walk'[s].page \subseteq Media
             /\ walk'[s].times \in [Media -> Nat]
  <2>1. walk'[s] \in Walks
    OBVIOUS
  <2> QED BY <2>1 DEF Walks
<1> QED BY <1>1, <1>2 DEF LibraryInv, LibraryTypeOK, tables

(* A step of one client. *)
LEMMA OneWalk ==
  ASSUME LibraryInv, NEW s \in Slots, NEW w \in Walks, walk' = [walk EXCEPT ![s] = w],
         UNCHANGED <<tables, edits>>, WalkInv(s)'
  PROVE  LibraryInv'
<1>1. walk' \in [Slots -> Walks]
  BY DEF LibraryInv
<1>2. \A r \in Slots \ {s} : walk'[r] = walk[r]
  BY DEF LibraryInv
<1>3. \A r \in Slots \ {s} : WalkInv(r)'
  BY <1>2, WalkStays DEF LibraryInv
<1> QED BY <1>1, <1>3, TypesStay DEF LibraryInv

(* A walk begins with nothing returned and everything due. *)
LEMMA OpenKeeps ==
  ASSUME LibraryInv, NEW s \in Slots, OpenWalk(s)
  PROVE  LibraryInv'
<1>1. PICK u \in Callers, q \in Queries :
        walk' = [walk EXCEPT ![s] = [NoWalk EXCEPT !.at = "branch", !.caller = u, !.query = q,
                   !.steady = {o \in Media : Matches(u, q, o)}, !.fixed = Media]]
  BY DEF OpenWalk
<1> DEFINE w == [NoWalk EXCEPT !.at = "branch", !.caller = u, !.query = q,
                   !.steady = {o \in Media : Matches(u, q, o)}, !.fixed = Media]
<1>2. /\ w.at = "branch" /\ w.caller = u /\ w.query = q /\ w.cursor = <<>>
      /\ w.times = [o \in Media |-> 0] /\ w.fixed = Media
      /\ w.steady = {o \in Media : Matches(u, q, o)}
      /\ w \in Walks
  BY DEF NoWalk, Walks
<1>3. walk' = [walk EXCEPT ![s] = w] /\ walk'[s] = w /\ UNCHANGED <<tables, edits>>
  BY <1>1 DEF OpenWalk, LibraryInv
<1> HIDE DEF w
<1>4. \A o \in w.steady : Matches(u, q, o)'
  BY <1>2, <1>3 DEF tables, Matches, Fetchable, MayRead, Scope, InScope, Below, Tenant
<1>5. StillMatching(walk[s])'
  BY <1>2, <1>3, <1>4 DEF StillMatching
<1>6. Counted(walk[s])'
  BY <1>2, <1>3 DEF Counted, After
<1>7. Begun(walk[s])' /\ BranchRead(walk[s])'
  BY <1>2, <1>3 DEF Begun, BranchRead
<1>8. WalkInv(s)'
  BY <1>2, <1>3, <1>5, <1>6, <1>7 DEF WalkInv
<1> QED BY <1>2, <1>3, <1>8, OneWalk

(* The branch is read whole, or the walk ends in an error. *)
LEMMA ReadBranchKeeps ==
  ASSUME LibraryInv, NEW s \in Slots, ReadBranch(s)
  PROVE  LibraryInv'
<1> DEFINE w == walk[s]
           c == w.query.branch
           asked == c # Null /\ w.caller # Anonymous
           ids == IF ~asked THEN {} ELSE IF w.query.deep THEN Branch(Scope(w.caller), c) ELSE {c}
           v == [w EXCEPT !.at = "list", !.branch = ids]
<1>1. /\ w.at = "branch" /\ UNCHANGED <<tables, edits>>
      /\ walk' = [walk EXCEPT ![s] = IF asked /\ c \notin Scope(w.caller) THEN NoWalk ELSE v]
  BY DEF ReadBranch
<1>2. w \in Walks /\ Begun(w) /\ Counted(w) /\ StillMatching(w) /\ exists \subseteq Categories
  BY DEF LibraryInv, WalkInv, LibraryTypeOK
<1>3. w.caller \in Callers /\ w.query \in Queries
  BY <1>1, <1>2 DEF Begun
<1>4. CASE asked /\ c \notin Scope(w.caller)
  <2>1. walk' = [walk EXCEPT ![s] = NoWalk] /\ walk'[s] = NoWalk
    BY <1>1, <1>4 DEF LibraryInv
  <2>2. WalkInv(s)'
    BY <2>1, NoWalkTyped DEF WalkInv, Begun, Counted, StillMatching, BranchRead, NoWalk
  <2> QED BY <1>1, <2>1, <2>2, NoWalkTyped, OneWalk
<1>5. CASE ~ (asked /\ c \notin Scope(w.caller))
  <2>1. asked => /\ ids \subseteq Scope(w.caller)
                 /\ (IF w.query.deep THEN Below(c) ELSE {c}) \cap Scope(w.caller) \subseteq ids
    <3>1. asked => c \in Scope(w.caller) /\ c \in Categories /\ Scope(w.caller) \in SUBSET Categories
      BY <1>2, <1>5 DEF Scope
    <3>2. asked => Branch(Scope(w.caller), c) \subseteq Scope(w.caller)
      BY <3>1, BranchIs
    <3>3. asked => Below(c) \cap Scope(w.caller) \subseteq Branch(Scope(w.caller), c)
      BY <3>1, BranchHasBelow DEF LibraryInv
    <3> QED BY <3>1, <3>2, <3>3
  <2>2. ids \in SUBSET Categories
    BY <1>2, <2>1 DEF Scope
  <2>3. ~ asked => ids = {}
    OBVIOUS
  <2> HIDE DEF ids
  <2>4. /\ v.at = "list" /\ v.branch = ids /\ v.caller = w.caller /\ v.query = w.query
        /\ v.cursor = w.cursor /\ v.times = w.times /\ v.steady = w.steady /\ v.fixed = w.fixed
        /\ v \in Walks
    BY <1>2, <2>2 DEF Walks
  <2>5. walk' = [walk EXCEPT ![s] = v] /\ walk'[s] = v
    BY <1>1, <1>5 DEF LibraryInv
  <2> HIDE DEF v
  <2>6. StillMatching(walk[s])'
    BY <1>1, <1>2, <2>4, <2>5
       DEF StillMatching, tables, Matches, Fetchable, MayRead, Scope, InScope, Below, Tenant
  <2>7. Counted(walk[s])'
    BY <1>1, <1>2, <2>4, <2>5 DEF Counted, After, tables
  <2>8. Begun(walk[s])'
    BY <1>3, <2>4, <2>5 DEF Begun
  <2>9. BranchRead(walk[s])'
    <3>1. ~ asked => w.caller = Anonymous \/ c = Null
      OBVIOUS
    <3>2. asked => w.caller # Anonymous /\ c # Null
      OBVIOUS
    <3>3. asked => \A d \in ids : InScope(w.caller, d)
      BY <2>1 DEF Scope
    <3> DEFINE D == (IF w.query.deep THEN Below(c) ELSE {c}) \cap Scope(w.caller)
    <3>4. asked => D \subseteq ids
      BY <2>1
    <3>5. (IF walk[s].query.deep THEN Below(walk[s].query.branch) ELSE {walk[s].query.branch})'
            \cap Scope(walk[s].caller)' = D
      BY <1>1, <2>4, <2>5 DEF Scope, Below, InScope, Tenant, tables
    <3>6. /\ walk'[s].branch = ids /\ walk'[s].caller = w.caller /\ walk'[s].query.branch = c
          /\ \A d \in ids : InScope(walk'[s].caller, d) <=> InScope(w.caller, d)
      BY <2>4, <2>5 DEF InScope, Tenant
    <3> HIDE DEF D, asked
    <3>7. CASE asked
      BY <3>2, <3>3, <3>4, <3>5, <3>6, <3>7 DEF BranchRead
    <3>8. CASE ~ asked
      BY <2>3, <3>1, <3>6, <3>8 DEF BranchRead
    <3> QED BY <3>7, <3>8
  <2> QED BY <1>1, <2>4, <2>5, <2>6, <2>7, <2>8, <2>9, OneWalk DEF WalkInv
<1> QED BY <1>4, <1>5

(* A walk that is done is forgotten. *)
LEMMA StopKeeps ==
  ASSUME LibraryInv, NEW s \in Slots, Stop(s)
  PROVE  LibraryInv'
<1>1. walk' = [walk EXCEPT ![s] = NoWalk] /\ walk'[s] = NoWalk /\ UNCHANGED <<tables, edits>>
  BY DEF Stop, LibraryInv
<1>2. WalkInv(s)'
  BY <1>1, NoWalkTyped DEF WalkInv, Begun, Counted, StillMatching, BranchRead, NoWalk
<1> QED BY <1>1, <1>2, NoWalkTyped, OneWalk

(* What matched all along and is due is among the rows the page's SELECT finds. *)
LEMMA SteadyIsFound ==
  ASSUME LibraryInv, NEW s \in Slots, walk[s].at = "list",
         NEW o \in walk[s].steady, After(walk[s], o)
  PROVE  o \in Rows(walk[s])
<1> DEFINE w == walk[s]
<1>1. /\ w \in Walks /\ w.caller \in Callers /\ w.query \in Queries /\ Matches(w.caller, w.query, o)
      /\ BranchRead(w)
  BY DEF LibraryInv, WalkInv, Begun, StillMatching
<1>2. o \in Media /\ w.caller # Null /\ w.query \in Query
  BY <1>1, LibraryAssumption DEF Walks
<1> HIDE DEF w
<1>3. Scoped(w.caller, w.query, o)
  BY <1>1, <1>2, LibraryAssumption DEF Matches, Fetchable, MayRead, Scoped
<1>4. InBranch(w, o)
  <2>1. CASE w.query.unfiled
    BY <1>1, <2>1 DEF Matches, InBranch
  <2>2. CASE ~ w.query.unfiled /\ w.query.branch # Null
    <3>1. /\ w.caller # Anonymous
          /\ filed[o] \cap (IF w.query.deep THEN Below(w.query.branch) ELSE {w.query.branch})
               \cap Scope(w.caller) # {}
      BY <1>1, <2>2 DEF Matches
    <3>2. (IF w.query.deep THEN Below(w.query.branch) ELSE {w.query.branch})
            \cap Scope(w.caller) \subseteq w.branch
      BY <1>1, <2>2, <3>1 DEF BranchRead, w
    <3>3. filed[o] \cap w.branch # {}
      BY <3>1, <3>2
    <3> QED BY <2>2, <3>3 DEF InBranch
  <2>3. CASE ~ w.query.unfiled /\ w.query.branch = Null
    BY <2>3 DEF InBranch
  <2> QED BY <2>1, <2>2, <2>3
<1> QED BY <1>2, <1>3, <1>4 DEF Rows, w

(* A page that returns what the next cursor is not before, and brings nothing
   back that was not due, keeps the books right. *)
LEMMA ReturnKeeps ==
  ASSUME LibraryInv, NEW s \in Slots, walk[s].at = "list", NEW page \in SUBSET Rows(walk[s]),
         NEW label \in {"branch", "done"}, NEW cursor \in {<<>>} \cup (Keys \X Media),
         Return(s, page, label, cursor), UNCHANGED <<tables, edits>>,
         label = "done" => page = Rows(walk[s]),
         label = "branch" =>
           LET next == [walk[s] EXCEPT !.cursor = cursor]
           IN  /\ \A o \in Rows(walk[s]) : o \in page <=> ~ After(next, o)
               /\ \A o \in Media : After(next, o) => After(walk[s], o)
  PROVE  LibraryInv'
<1> DEFINE w == walk[s]
           v == [w EXCEPT !.at = label, !.page = page, !.branch = {}, !.cursor = cursor,
                   !.times = [o \in Media |-> IF o \in page THEN w.times[o] + 1 ELSE w.times[o]]]
<1>1. w \in Walks /\ Begun(w) /\ Counted(w) /\ StillMatching(w)
  BY DEF LibraryInv, WalkInv
<1>2. page \in SUBSET Media /\ \A o \in Rows(w) : After(w, o)
  BY DEF Rows
<1>3. /\ v.at = label /\ v.caller = w.caller /\ v.query = w.query /\ v.branch = {} /\ v.cursor = cursor
      /\ v.steady = w.steady /\ v.fixed = w.fixed
      /\ \A o \in Media : v.times[o] = IF o \in page THEN w.times[o] + 1 ELSE w.times[o]
  BY <1>1 DEF Walks
<1>4. v \in Walks
  <2>1. [o \in Media |-> IF o \in page THEN w.times[o] + 1 ELSE w.times[o]] \in [Media -> Nat]
    BY <1>1 DEF Walks
  <2> HIDE DEF w
  <2> QED BY <1>1, <1>2, <2>1 DEF Walks
<1>5. walk' = [walk EXCEPT ![s] = v] /\ walk'[s] = v
  BY DEF Return, LibraryInv, Walks
<1>6. \A o \in w.steady : After(w, o) => o \in Rows(w)
  BY SteadyIsFound
<1>7. \A o \in Media : After(v, o) <=> After([w EXCEPT !.cursor = cursor], o)
  BY <1>1, <1>3 DEF After, Walks
<1>8. v.steady \subseteq v.fixed /\ v.fixed \subseteq Media
  BY <1>1, <1>3 DEF Counted, Walks
<1> HIDE DEF v
<1>9. ASSUME NEW o \in v.fixed
      PROVE  /\ v.times[o] \in {0, 1}
             /\ v.at # "done" /\ v.times[o] = 1 => ~ After(v, o)
  <2>1. /\ o \in Media /\ w.times[o] \in {0, 1} /\ (w.times[o] = 1 => ~ After(w, o))
    BY <1>1, <1>3, <1>8, <1>9 DEF Counted
  <2>2. CASE o \in page
    BY <1>2, <1>3, <1>7, <2>1, <2>2
  <2>3. CASE o \notin page
    BY <1>2, <1>3, <1>7, <2>1, <2>3
  <2> QED BY <2>2, <2>3
<1>10. ASSUME NEW o \in v.steady
       PROVE  v.times[o] = 1 \/ (v.at # "done" /\ After(v, o))
  <2>1. /\ o \in Media /\ w.times[o] \in {0, 1} /\ (w.times[o] = 1 => ~ After(w, o))
        /\ w.times[o] = 1 \/ After(w, o)
    BY <1>1, <1>3, <1>8, <1>10 DEF Counted
  <2>2. CASE After(w, o)
    BY <1>3, <1>6, <1>7, <1>10, <2>1, <2>2
  <2>3. CASE ~ After(w, o)
    BY <1>2, <1>3, <2>1, <2>3
  <2> QED BY <2>2, <2>3
<1>11. Counted(v)
  BY <1>8, <1>9, <1>10 DEF Counted
<1>12. Counted(walk[s])'
  BY <1>5, <1>11 DEF Counted, After, tables
<1>13. StillMatching(walk[s])'
  BY <1>1, <1>3, <1>5
     DEF StillMatching, tables, Matches, Fetchable, MayRead, Scope, InScope, Below, Tenant
<1>14. Begun(walk[s])' /\ BranchRead(walk[s])'
  BY <1>1, <1>3, <1>5 DEF Begun, BranchRead
<1> QED BY <1>4, <1>5, <1>12, <1>13, <1>14, OneWalk DEF WalkInv

(* The last row of a page is the cursor: what is up to it was returned or not
   found, what is after it is due. *)
LEMMA ReadPageKeeps ==
  ASSUME LibraryInv, NEW s \in Slots, ReadPage(s)
  PROVE  LibraryInv'
<1> DEFINE w == walk[s]
           UpTo(last) == {o \in Rows(w) : o = last \/ Ordered(w.query.down, key[o], o, key[last], last)}
<1>1. w.at = "list" /\ UNCHANGED <<tables, edits>>
  BY DEF ReadPage
<1>2. /\ w \in Walks /\ w.query \in Query /\ key \in [Media -> Keys] /\ Keys \subseteq Nat /\ Media \subseteq Nat
  BY <1>1, LibraryAssumption DEF LibraryInv, WalkInv, Begun, LibraryTypeOK
<1>3. CASE Return(s, Rows(w), "done", <<>>)
  BY <1>1, <1>3, ReturnKeeps
<1>4. ASSUME NEW last \in Rows(w), Return(s, UpTo(last), "branch", <<key[last], last>>)
      PROVE  LibraryInv'
  <2> DEFINE cursor == <<key[last], last>>
             x == [w EXCEPT !.cursor = cursor]
             d == w.query.down
  <2>1. last \in Media /\ After(w, last) /\ cursor \in Keys \X Media /\ d \in BOOLEAN
    BY <1>2 DEF Rows, Query
  <2>2. \A o \in Media : After(x, o) <=> Ordered(d, key[last], last, key[o], o)
    BY <1>2 DEF After, Walks
  <2>3. \A o \in Media : key[o] \in Nat /\ o \in Nat
    BY <1>2
  <2>4. \A o \in Media : After(x, o) <=> ~ (o = last \/ Ordered(d, key[o], o, key[last], last))
    BY <2>1, <2>2, <2>3, OrderedStrict
  <2>5. ASSUME NEW o \in Media, ~ After(w, o) PROVE ~ After(x, o)
    <3>1. w.cursor \in Keys \X Media /\ ~ Ordered(d, w.cursor[1], w.cursor[2], key[o], o)
      BY <1>2, <2>5 DEF After, Walks
    <3>2. Ordered(d, w.cursor[1], w.cursor[2], key[last], last)
      BY <2>1, <3>1 DEF After
    <3>3. w.cursor[1] \in Nat /\ w.cursor[2] \in Nat
      BY <1>2, <3>1
    <3>4. Ordered(d, key[last], last, key[o], o) => Ordered(d, w.cursor[1], w.cursor[2], key[o], o)
      <4> DEFINE k == w.cursor[1]
                 n == w.cursor[2]
                 l == key[last]
                 i == key[o]
      <4>1. /\ k \in Nat /\ n \in Nat /\ l \in Nat /\ last \in Nat /\ i \in Nat /\ o \in Nat
            /\ Ordered(d, k, n, l, last) /\ d \in BOOLEAN
        BY <2>1, <2>3, <3>2, <3>3
      <4> HIDE DEF k, n, d, l, i
      <4>2. Ordered(d, l, last, i, o) => Ordered(d, k, n, i, o)
        BY <4>1, OrderedOn
      <4> QED BY <4>2 DEF k, n, l, i, d
    <3> QED BY <2>2, <3>1, <3>4
  <2>6. \A o \in Rows(w) : o \in UpTo(last) <=> ~ After(x, o)
    BY <2>4 DEF Rows
  <2>7. UpTo(last) \in SUBSET Rows(w)
    OBVIOUS
  <2> DEFINE page == UpTo(last)
  <2>8. Return(s, page, "branch", cursor)
    BY <1>4
  <2> HIDE DEF page, cursor
  <2> QED BY <1>1, <2>1, <2>5, <2>6, <2>7, <2>8, ReturnKeeps DEF page
<1> QED BY <1>3, <1>4 DEF ReadPage

-----------------------------------------------------------------------------
(* The listing: changes meanwhile, and the theorems                        *)

(* Whatever the rows become, the books on every walk stay right. *)
LEMMA EditKeeps ==
  ASSUME LibraryInv, NEW tree \in BOOLEAN, Edit(tree), ~ tree => UNCHANGED <<exists, parent>>
  PROVE  /\ walk' \in [Slots -> Walks] /\ \A s \in Slots : WalkInv(s)'
         /\ edits' \in 0 .. EditCap
<1>1. edits' \in 0 .. EditCap
  <2>1. edits \in 0 .. EditCap /\ EditCap \in Nat
    BY LibraryAssumption DEF LibraryInv, LibraryTypeOK
  <2>2. edits < EditCap /\ edits' = edits + 1
    BY DEF Edit
  <2> QED BY <2>1, <2>2
<1>2. ASSUME NEW s \in Slots PROVE walk'[s] \in Walks /\ WalkInv(s)'
  <2> DEFINE w == walk[s]
             kept == {o \in w.fixed : key'[o] = key[o]}
             match == {o \in w.steady \cap kept : \E u \in {w.caller}, q \in {w.query} : Matches(u, q, o)'}
             left == IF tree /\ w.query.branch # Null THEN {} ELSE match
             v == [w EXCEPT !.fixed = kept, !.steady = left]
  <2>1. walk'[s] = IF w.at = "idle" THEN w ELSE v
    BY DEF Edit
  <2>2. w \in Walks /\ Begun(w) /\ Counted(w) /\ StillMatching(w) /\ BranchRead(w)
    BY DEF LibraryInv, WalkInv
  <2>3. CASE w.at = "idle"
    <3>1. walk'[s] = NoWalk
      BY <2>1, <2>2, <2>3 DEF Begun
    <3> QED BY <3>1, NoWalkTyped DEF WalkInv, Begun, Counted, StillMatching, BranchRead, NoWalk
  <2>4. CASE w.at # "idle"
    <3>1. kept \in SUBSET w.fixed /\ left \in SUBSET (w.steady \cap kept)
      OBVIOUS
    <3>2. \A o \in kept : key'[o] = key[o]
      OBVIOUS
    <3>3. \A o \in left, u \in {w.caller}, q \in {w.query} : Matches(u, q, o)'
      OBVIOUS
    <3>4. left # {} /\ w.query.branch # Null => UNCHANGED <<exists, parent>> /\ w.steady # {}
      OBVIOUS
    <3> HIDE DEF kept, left
    <3>5. /\ v.at = w.at /\ v.caller = w.caller /\ v.query = w.query /\ v.branch = w.branch
          /\ v.cursor = w.cursor /\ v.times = w.times /\ v.steady = left /\ v.fixed = kept
          /\ v \in Walks
      BY <2>2, <3>1 DEF Walks
    <3>6. walk'[s] = v
      BY <2>1, <2>4
    <3> HIDE DEF v
    <3>7. Begun(walk[s])'
      BY <2>2, <2>4, <3>5, <3>6 DEF Begun
    <3>8. Counted(walk[s])'
      <4>1. \A o \in kept : w.times[o] \in {0, 1} /\ (w.at # "done" /\ w.times[o] = 1 => ~ After(w, o))
        BY <2>2, <3>1 DEF Counted
      <4>2. \A o \in left : w.times[o] = 1 \/ (w.at # "done" /\ After(w, o))
        BY <2>2, <3>1 DEF Counted
      <4>3. \A o \in kept : After(walk[s], o)' <=> After(w, o)
        BY <3>2, <3>5, <3>6 DEF After
      <4>4. left \subseteq kept
        BY <3>1
      <4> QED BY <3>5, <3>6, <4>1, <4>2, <4>3, <4>4 DEF Counted
    <3>9. StillMatching(walk[s])'
      BY <3>3, <3>5, <3>6 DEF StillMatching
    <3>10. BranchRead(walk[s])'
      <4>1. CASE w.at # "list"
        BY <3>5, <3>6, <4>1 DEF BranchRead
      <4>2. CASE w.at = "list" /\ (w.caller = Anonymous \/ w.query.branch = Null)
        BY <2>2, <3>5, <3>6, <4>2 DEF BranchRead
      <4>3. CASE w.at = "list" /\ ~ (w.caller = Anonymous \/ w.query.branch = Null)
        <5> DEFINE D == (IF w.query.deep THEN Below(w.query.branch) ELSE {w.query.branch}) \cap Scope(w.caller)
        <5>1. (\A c \in w.branch : InScope(w.caller, c)) /\ (w.steady # {} => D \subseteq w.branch)
          BY <2>2, <4>3 DEF BranchRead
        <5>2. left # {} =>
                (IF walk[s].query.deep THEN Below(walk[s].query.branch) ELSE {walk[s].query.branch})'
                  \cap Scope(walk[s].caller)' = D
          BY <3>4, <3>5, <3>6, <4>3 DEF Scope, Below, InScope, Tenant
        <5>3. \A c \in w.branch : InScope(walk'[s].caller, c) <=> InScope(w.caller, c)
          BY <3>5, <3>6 DEF InScope, Tenant
        <5>4. /\ walk'[s].branch = w.branch /\ walk'[s].caller = w.caller /\ walk'[s].query = w.query
              /\ walk'[s].steady = left /\ walk'[s].at = "list"
          BY <3>5, <3>6, <4>3
        <5> HIDE DEF D
        <5>5. left # {} => D \subseteq w.branch
          BY <3>4, <4>3, <5>1
        <5> QED BY <4>3, <5>1, <5>2, <5>3, <5>4, <5>5 DEF BranchRead
      <4> QED BY <4>1, <4>2, <4>3
    <3> QED BY <3>5, <3>6, <3>7, <3>8, <3>9, <3>10 DEF WalkInv
  <2> QED BY <2>3, <2>4
<1>3. walk' \in [Slots -> Walks]
  <2>1. DOMAIN walk' = Slots /\ walk' = [s \in Slots |-> walk'[s]]
    BY DEF Edit
  <2> QED BY <1>2, <2>1
<1> QED BY <1>1, <1>2, <1>3

(* A change of the objects leaves the tree. *)
LEMMA ObjectChange ==
  ASSUME LibraryInv, Edit(FALSE), UNCHANGED <<exists, parent>>,
         state' \in [Media -> {"new", "live", "deleted"}],
         visibility' \in [Media -> {"private", "tenant", "public", "sensitive"}],
         key' \in [Media -> Keys], filed' \in [Media -> SUBSET exists]
  PROVE  LibraryInv'
<1>1. walk' \in [Slots -> Walks] /\ (\A s \in Slots : WalkInv(s)') /\ edits' \in 0 .. EditCap
  BY EditKeeps
<1>2. \A s \in Slots : walk'[s] \in Walks
  BY <1>1
<1>3. OneTree'
  BY DEF LibraryInv, OneTree, ScopeKey, Tenant
<1>4. LibraryTypeOK'
  BY <1>1, <1>2 DEF LibraryInv, LibraryTypeOK, Walks
<1> QED BY <1>1, <1>3, <1>4 DEF LibraryInv

(* A change of the tree. *)
LEMMA TreeChange ==
  ASSUME LibraryInv, Edit(TRUE), UNCHANGED <<state, visibility, key>>,
         exists' \subseteq exists, filed' \in [Media -> SUBSET exists'],
         parent' \in [Categories -> exists' \cup {Null}],
         \A c \in Categories \ exists' : parent'[c] = Null,
         \A c \in Categories : parent'[c] # Null => ScopeKey(parent'[c]) = ScopeKey(c)
  PROVE  LibraryInv'
<1>1. walk' \in [Slots -> Walks] /\ (\A s \in Slots : WalkInv(s)') /\ edits' \in 0 .. EditCap
  BY EditKeeps
<1>2. \A s \in Slots : walk'[s] \in Walks
  BY <1>1
<1>3. OneTree'
  BY DEF OneTree, ScopeKey, Tenant
<1>4. LibraryTypeOK'
  BY <1>1, <1>2 DEF LibraryInv, LibraryTypeOK, Walks
<1> QED BY <1>1, <1>3, <1>4 DEF LibraryInv

(* Every change of the rows keeps the invariant. *)
LEMMA ChangeKeeps == LibraryInv /\ Change => LibraryInv'
<1> SUFFICES ASSUME LibraryInv, Change PROVE LibraryInv'
  OBVIOUS
<1>0. /\ state \in [Media -> {"new", "live", "deleted"}]
      /\ visibility \in [Media -> {"private", "tenant", "public", "sensitive"}]
      /\ key \in [Media -> Keys] /\ exists \subseteq Categories
      /\ filed \in [Media -> SUBSET exists]
      /\ parent \in [Categories -> exists \cup {Null}]
      /\ \A c \in Categories \ exists : parent[c] = Null
  BY DEF LibraryInv, LibraryTypeOK
<1>1. ASSUME NEW o \in Media, Complete(o) PROVE LibraryInv'
  BY <1>0, <1>1, ObjectChange DEF Complete
<1>2. ASSUME NEW o \in Media, Delete(o) PROVE LibraryInv'
  BY <1>0, <1>2, ObjectChange DEF Delete
<1>3. ASSUME NEW o \in Media, SetVisibility(o) PROVE LibraryInv'
  BY <1>0, <1>3, ObjectChange DEF SetVisibility
<1>4. ASSUME NEW o \in Media, Rename(o) PROVE LibraryInv'
  BY <1>0, <1>4, ObjectChange DEF Rename
<1>5. ASSUME NEW o \in Media, Refile(o) PROVE LibraryInv'
  BY <1>0, <1>5, ObjectChange DEF Refile, Scope
<1>6. ASSUME NEW c \in Categories, Reparent(c) PROVE LibraryInv'
  <2>1. PICK p \in {d \in exists : ScopeKey(d) = ScopeKey(c)} \cup {Null} :
               parent' = [parent EXCEPT ![c] = p]
    BY <1>6 DEF Reparent
  <2>2. c \in exists /\ UNCHANGED <<state, visibility, key, filed, exists>> /\ Edit(TRUE)
    BY <1>6 DEF Reparent
  <2>3. \A d \in Categories : parent'[d] = IF d = c THEN p ELSE parent[d]
    BY <1>0, <2>1
  <2>4. \A d \in Categories : parent'[d] # Null => ScopeKey(parent'[d]) = ScopeKey(d)
    <3>1. ASSUME NEW d \in Categories, parent'[d] # Null, d = c
          PROVE  ScopeKey(parent'[d]) = ScopeKey(d)
      <4>1. parent'[d] = p /\ ScopeKey(p) = ScopeKey(d)
        BY <2>1, <2>3, <3>1
      <4> QED BY <4>1
    <3>2. ASSUME NEW d \in Categories, parent'[d] # Null, d # c
          PROVE  ScopeKey(parent'[d]) = ScopeKey(d)
      <4>1. parent'[d] = parent[d] /\ ScopeKey(parent[d]) = ScopeKey(d)
        BY <2>3, <3>2 DEF LibraryInv, OneTree
      <4> QED BY <4>1
    <3> QED BY <3>1, <3>2
  <2>5. parent' \in [Categories -> exists \cup {Null}] /\ \A d \in Categories \ exists : parent'[d] = Null
    BY <1>0, <2>1, <2>2, <2>3
  <2> QED BY <1>0, <2>2, <2>4, <2>5, TreeChange
<1>7. ASSUME NEW c \in Categories, RemoveCategory(c) PROVE LibraryInv'
  <2>1. /\ c \in exists /\ Children(exists, c) = {}
        /\ exists' = exists \ {c} /\ parent' = [parent EXCEPT ![c] = Null]
        /\ filed' = [o \in Media |-> filed[o] \ {c}]
        /\ UNCHANGED <<state, visibility, key>> /\ Edit(TRUE)
    BY <1>7 DEF RemoveCategory
  <2>2. \A d \in Categories : parent'[d] = IF d = c THEN Null ELSE parent[d]
    BY <1>0, <2>1
  <2>3. \A d \in Categories : parent[d] # c
    <3>1. \A d \in exists : parent[d] # c
      BY <2>1 DEF Children
    <3> QED BY <1>0, <2>1, <3>1, LibraryAssumption
  <2>4. \A d \in Categories : parent'[d] # Null => ScopeKey(parent'[d]) = ScopeKey(d)
    <3>1. ASSUME NEW d \in Categories, parent'[d] # Null PROVE ScopeKey(parent'[d]) = ScopeKey(d)
      <4>1. parent'[d] = parent[d] /\ ScopeKey(parent[d]) = ScopeKey(d)
        BY <2>2, <3>1 DEF LibraryInv, OneTree
      <4> QED BY <4>1
    <3> QED BY <3>1
  <2>5. parent' \in [Categories -> exists' \cup {Null}] /\ \A d \in Categories \ exists' : parent'[d] = Null
    BY <1>0, <2>1, <2>2, <2>3
  <2>6. filed' \in [Media -> SUBSET exists'] /\ exists' \subseteq exists
    BY <1>0, <2>1
  <2> QED BY <2>1, <2>4, <2>5, <2>6, TreeChange
<1> QED BY <1>1, <1>2, <1>3, <1>4, <1>5, <1>6, <1>7 DEF Change

(* So does every step. *)
LEMMA LibraryNextInv == LibraryInv /\ [LibraryNext]_libraryVars => LibraryInv'
<1> SUFFICES ASSUME LibraryInv, [LibraryNext]_libraryVars PROVE LibraryInv'
  OBVIOUS
<1>1. ASSUME NEW s \in Slots, Read(s) PROVE LibraryInv'
  BY <1>1, OpenKeeps, ReadBranchKeeps, ReadPageKeeps, StopKeeps DEF Read
<1>2. CASE Change
  BY <1>2, ChangeKeeps
<1>3. CASE UNCHANGED libraryVars
  <2>1. UNCHANGED <<tables, edits>> /\ walk' = walk /\ walk' \in [Slots -> Walks]
    BY <1>3 DEF libraryVars, tables, LibraryInv
  <2>2. \A s \in Slots : WalkInv(s)'
    BY <2>1, WalkStays DEF LibraryInv
  <2> QED BY <2>1, <2>2, TypesStay DEF LibraryInv
<1> QED BY <1>1, <1>2, <1>3 DEF LibraryNext

(* In every reachable state the rows are well-formed, no category has its parent
   in another tree, and what a walk has returned and what it has due fit. *)
THEOREM LibraryInvariant == LibrarySpec => []LibraryInv
<1>1. LibraryInit => LibraryInv
  BY LibraryInitInv
<1>2. LibraryInv /\ [LibraryNext]_libraryVars => LibraryInv'
  BY LibraryNextInv
<1> QED BY <1>1, <1>2, PTL DEF LibrarySpec

(* The listing and the rows it reads keep their types and their foreign keys. *)
THEOREM LibraryTypes == LibrarySpec => []LibraryTypeOK
<1>1. LibraryInv => LibraryTypeOK
  BY DEF LibraryInv
<1> QED BY <1>1, LibraryInvariant, PTL

(* Paging on (objects.py, _keyset_predicate): whatever changes meanwhile, no
   object that keeps its key is returned twice, and one that the caller may fetch
   and that matched all along has been returned once when the walk is done. *)
THEOREM ListedOnce == LibrarySpec => []SteadyListedOnce
<1>1. LibraryInv => SteadyListedOnce
  BY DEF LibraryInv, WalkInv, Counted, SteadyListedOnce
<1> QED BY <1>1, LibraryInvariant, PTL

(* The walks over the category tree (category_tree.py) agree for every caller:
   branch and path over any rows, cycles among them; the nodes counted and the
   totals rolled up where there is none. *)
THEOREM WalksMatch == LibrarySpec => []WalksAgree
<1>1. LibraryInv => WalksAgree
  BY WalksAlwaysAgree DEF LibraryInv, LibraryTypeOK
<1> QED BY <1>1, LibraryInvariant, PTL

(* The WHERE of the listing finds nothing the rule for one object would refuse. *)
LEMMA RowsReadable ==
  ASSUME LibraryInv, NEW s \in Slots, walk[s].at = "list", NEW o \in Rows(walk[s])
  PROVE  LET w == walk[s]
         IN  /\ Fetchable(w.caller, o) \/ w.caller \in Superusers
             /\ w.query.branch # Null => /\ w.caller # Anonymous
                                         /\ \E c \in filed[o] : InScope(w.caller, c)
<1> DEFINE w == walk[s]
<1>1. w.caller \in Callers /\ w.query \in Queries /\ BranchRead(w)
  BY DEF LibraryInv, WalkInv, Begun
<1>2. Scoped(w.caller, w.query, o) /\ InBranch(w, o)
  BY DEF Rows
<1> HIDE DEF w
<1>3. Fetchable(w.caller, o) \/ w.caller \in Superusers
  BY <1>1, <1>2, LibraryAssumption DEF Scoped, Fetchable, MayRead
<1>4. ASSUME w.query.branch # Null
      PROVE  w.caller # Anonymous /\ \E c \in filed[o] : InScope(w.caller, c)
  <2>1. filed[o] \cap w.branch # {}
    BY <1>1, <1>2, <1>4, LibraryAssumption DEF InBranch
  <2> QED BY <1>1, <1>4, <2>1 DEF BranchRead, w
<1> QED BY <1>3, <1>4 DEF w

(* A page holds only rows the caller could fetch by id when it was read and,
   under a category filter, rows filed where the caller sees them
   (objects.py, _scoped_query). *)
THEOREM ListingReadable == LibrarySpec => ListedIsReadable
<1> DEFINE Turn(s) == walk[s].at = "list" /\ walk'[s].at \in {"branch", "done"} =>
       \A o \in walk'[s].page :
         LET w == walk[s]
         IN  /\ Fetchable(w.caller, o) \/ w.caller \in Superusers
             /\ w.query.branch # Null => /\ w.caller # Anonymous
                                         /\ \E c \in filed[o] : InScope(w.caller, c)
<1>1. LibraryInv /\ [LibraryNext]_libraryVars => [\A s \in Slots : Turn(s)]_libraryVars
  <2> SUFFICES ASSUME LibraryInv, LibraryNext, NEW s \in Slots, walk[s].at = "list",
                      walk'[s].at \in {"branch", "done"}
               PROVE  walk'[s].page \subseteq Rows(walk[s])
    BY RowsReadable
  <2>1. walk \in [Slots -> Walks]
    BY DEF LibraryInv
  <2>2. ASSUME NEW r \in Slots, Read(r) PROVE walk'[s].page \subseteq Rows(walk[s])
    <3>1. \/ walk'[s] = walk[s]
          \/ r = s /\ ReadPage(s)
      <4>1. CASE r = s
        BY <2>1, <2>2, <4>1 DEF Read, OpenWalk, ReadBranch, ReadPage, Stop
      <4>2. CASE r # s
        BY <2>1, <2>2, <4>2 DEF Read, OpenWalk, ReadBranch, ReadPage, Return, Stop
      <4> QED BY <4>1, <4>2
    <3>2. CASE walk'[s] = walk[s]
      BY <3>2
    <3>3. CASE ReadPage(s)
      <4>1. PICK page, label, cursor : page \subseteq Rows(walk[s])
                                       /\ Return(s, page, label, cursor)
        BY <3>3 DEF ReadPage
      <4>2. walk'[s].page = page
        <5>1. walk[s] \in Walks
          BY <2>1
        <5> QED BY <2>1, <4>1, <5>1 DEF Return, Walks
      <4> QED BY <4>1, <4>2
    <3> QED BY <3>1, <3>2, <3>3
  <2>3. CASE Change
    <3>1. PICK tree : Edit(tree)
      BY <2>3 DEF Change, Complete, Delete, SetVisibility, Rename, Refile, Reparent, RemoveCategory
    <3>2. walk'[s].at = walk[s].at
      <4>1. walk[s] \in Walks
        BY <2>1
      <4>2. \/ walk'[s] = walk[s]
            \/ \E kept, left : walk'[s] = [walk[s] EXCEPT !.fixed = kept, !.steady = left]
        BY <3>1, Zenon DEF Edit
      <4> QED BY <4>1, <4>2 DEF Walks
    <3> QED BY <3>2
  <2> QED BY <2>2, <2>3 DEF LibraryNext
<1> QED BY <1>1, LibraryInvariant, PTL DEF LibrarySpec, ListedIsReadable
=============================================================================
