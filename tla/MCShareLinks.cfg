SPECIFICATION Spec
CONSTANTS
  Tokens = {t1, t2}
  Objects = {o1}
  Requests = {r1, r2, r3}
  Unlimited = Unlimited
  None = None
  MaxUses = {1, 2, Unlimited}
  UsesCap = 2
SYMMETRY Symmetric
INVARIANTS
  GrantsWithinBudget
  UsesAccountedFor
PROPERTY
  ImplementsBudget
\* Once every object is purged nothing is left to do.
CHECK_DEADLOCK FALSE
