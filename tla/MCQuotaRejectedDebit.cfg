SPECIFICATION Spec
CONSTANTS
  Objects = {o1, o2}
  Large = o1
  Size <- MCSize
  Completers = {c1}
  Deleters = {d1}
  Rows = {w1, w2}
  Tenanted = TRUE
  DefaultBytes = 2
  DefaultObjects = Unlimited
  Overrides = {}
  Unlimited = Unlimited
  None = None
PROPERTY
  RejectedHoldsNoCredit
