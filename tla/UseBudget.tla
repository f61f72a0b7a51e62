------------------------------ MODULE UseBudget ------------------------------
(***************************************************************************)
(* What a bounded-use link promises its owner, however it is resolved: it  *)
(* is minted with a budget of uses, every use is taken one at a time while *)
(* the link is alive, and death is final.  ShareLinks implements it.       *)
(***************************************************************************)
EXTENDS Integers

CONSTANTS Tokens,     \* the links that may ever be minted
          MaxUses,    \* the budgets an owner may ask for
          Unlimited   \* the budget of a link without a limit

VARIABLES life,       \* "unminted", "alive" or "dead", per link
          left        \* uses still to be taken, or Unlimited

vars == <<life, left>>

Init == /\ life = [t \in Tokens |-> "unminted"]
        /\ left = [t \in Tokens |-> 0]

(* The owner mints a link with a budget. *)
Mint(t) == /\ life[t] = "unminted"
           /\ life' = [life EXCEPT ![t] = "alive"]
           /\ \E m \in MaxUses : left' = [left EXCEPT ![t] = m]

(* One use leaves the budget of a living link. *)
Take(t) == /\ life[t] = "alive"
           /\ left[t] # Unlimited /\ left[t] > 0
           /\ left' = [left EXCEPT ![t] = @ - 1]
           /\ UNCHANGED life

(* Revocation and expiry end one link; a purged object ends all of its own. *)
Die(D) == /\ \A t \in D : life[t] = "alive"
          /\ life' = [t \in Tokens |-> IF t \in D THEN "dead" ELSE life[t]]
          /\ UNCHANGED left

Next == \/ \E t \in Tokens : Mint(t) \/ Take(t)
        \/ \E D \in SUBSET Tokens : Die(D)

Spec == Init /\ [][Next]_vars
==============================================================================
