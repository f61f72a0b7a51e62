SPECIFICATION FairSpec
CONSTANTS
  Updaters = {m1}
  Deleters = {m1}
  Purgers = {p1}
  Repairers = {m1}
  Visibilities = {"public", "private", "tenant"}
  Initially = {"public"}
  Faults = TRUE
  VerdictCap = 2
  None = None
INVARIANTS
  LiveBytesPresent
  BytesFollowVisibility
  NothingLeftBehind
  PublicGoesDark
  Recoverable
PROPERTIES
  EventuallyPurged
  
\* A purged object leaves nothing to do.
CHECK_DEADLOCK FALSE
