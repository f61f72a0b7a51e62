CONSTANTS
  Media = {1, 2, 3, 4}
  Keys = {1, 2}
  Categories = {11, 12, 13, 14}
  Users = {"alice", "bob", "carol", "dave", "root"}
  Superusers = {"root"}
  TenantOf <- MCTenantOf
  OwnerOf <- MCOwnerOf
  Slots = {s1}
  Callers = {"alice", "bob", "dave", "root", Anonymous}
  Queries <- MCQueries
  Limit = 1
  Start <- MCStart
  EditCap = 2
  Anonymous = Anonymous
  Null = Null
SPECIFICATION LibrarySpec
INVARIANTS
  SteadyListedOnce
  WalksAgree
PROPERTIES
  ListedIsReadable
CHECK_DEADLOCK FALSE
