SPECIFICATION FairSpec
CONSTANTS
  Objects = {o1, o2}
  Large = o1
  Size <- MCSize
  Completers = {c1, c2}
  Deleters = {d1}
  Rows = {w1, w2}
  Tenanted = TRUE
  DefaultBytes = 3
  DefaultObjects = 2
  Overrides = {1}
  Unlimited = Unlimited
  None = None
INVARIANTS
  LedgerExact
PROPERTIES
  CreditsRespectCeiling
  CompletionCreditsExactly
  AllRequestsFinish
