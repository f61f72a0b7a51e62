SPECIFICATION FairSpec
CONSTANTS
  Events <- MCEvents
  Subs = {s1, s2}
  Wants <- MCWants
  Runs = {r1}
  BatchLimit = 1
  MaxAttempts = 2
  MaxCrashes = 1
INVARIANTS
  DeliveredReachedAll
  GivesUpLate
PROPERTIES
  SettledIsFinal
  
\* Once every event is settled there may be nothing left to do.
CHECK_DEADLOCK FALSE
