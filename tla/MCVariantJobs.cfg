SPECIFICATION FairSpec
CONSTANTS
  Names = {thumb}
  Buckets = {private, public}
  Jobs <- TwoJobs
  Deleters = {d1}
  Purgers = {p1}
  MaxTries <- TriesOf
  Faults = TRUE
  None = None
INVARIANTS
  ListedHasBytes
  BytesAccountedFor
PROPERTY
  EventuallyPurged
\* A purged object without jobs under way leaves nothing to do.
CHECK_DEADLOCK FALSE
