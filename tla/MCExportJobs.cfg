SPECIFICATION FairSpec
CONSTANTS
  Jobs = {j1, j2}
  None = None
  Requests = {r1}
  Handlers = {h1}
  MaxTries = 2
  Ambiguous = FALSE
  Crashes = TRUE
  Repairs = TRUE
INVARIANTS
  OneActive
PROPERTIES
  TerminalIsFinal
  WindowNeverReopens
  SlotIsFreed
\* A caller whose jobs are all used and settled has nothing left to do.
CHECK_DEADLOCK FALSE
