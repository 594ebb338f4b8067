SPECIFICATION Spec
CONSTANTS
  Block = {a, b}
  Page = {p1, p2}
  Client = {c1, c2}
  MaxLen = 3
  NumPages = 3
  MaxLeafSize = 3
SYMMETRY Symmetry
INVARIANTS
  TypeOK
  RefsExact
  BranchesAtNodes
  SizesExact
  LeafSizeNeverUnder
  EvictsLeastRecent
PROPERTIES
  HeldIndicesStable
  ImplementsPrefixCache
