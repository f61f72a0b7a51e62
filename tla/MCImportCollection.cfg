CONSTANTS
  Importers = {i1, i2}
  Entries = {"e1", "e2"}
  Slugs = {"a", "b", "c"}
  Paths <- MCPaths
  IdCap = 4
  Documents <- MCDocuments
  Owned = {"e2"}
  MaxObjects = 2
  MaxCategories = 3
  MaxDepth = 2
  Faults = TRUE
  EditCap = 1
  Null = Null
SPECIFICATION ImportSpec
SYMMETRY Symmetric

  
PROPERTIES
  FilingOnlyGrows
  
\* An import waits for nobody, but a caller need not begin one.
CHECK_DEADLOCK FALSE
