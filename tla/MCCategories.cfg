SPECIFICATION TurnsSpec
CONSTANTS
  Ids = {c1, c2, c3, c4}
  Slugs = {a, b}
  Movers = {m}
  Creators = {w}
  Deleters = {d}
  Importers = {w}
  Tenanted = FALSE
  MaxDepth = 3
  None = None
SYMMETRY Symmetric
INVARIANTS
  Forest
  WithinDepthInTurn
  SiblingsDifferInTurn
\* Ids are not reused: with all of them deleted there is nothing left to do.
CHECK_DEADLOCK FALSE
