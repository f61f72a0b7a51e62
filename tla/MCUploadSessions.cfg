SPECIFICATION FairSpec
CONSTANTS
  Completers = {c1, c2}
  Importers = {c1, c2}
  Aborters = {a1}
  Purgers = {p1}
  Faults = TRUE
INVARIANTS
  UploadedHasBytes
  SessionTellsOutcome
PROPERTIES
  OneVerdict
  SessionsSettle
\* A settled and lapsed session leaves nothing to do.
CHECK_DEADLOCK FALSE
