SPECIFICATION SortedSpec
CONSTANTS
  tree1 = tree1  tree2 = tree2  NULL = NULL
  Nodes <- AllNodes
  KeyOf <- Keys
  Trees <- TwoTrees
  Programs <- EightPrograms
  Walkers <- WalkingPrograms
  Vectors <- VectorPrograms
  Lists <- ListPrograms
INVARIANTS LinksExact Balanced WalksExact
PROPERTIES LoopsClimb ImplementsSorted
