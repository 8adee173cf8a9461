SPECIFICATION MCSpec
CONSTANTS
  t1 = t1  t2 = t2  c1 = c1  b1 = b1  b2 = b2  NULL = NULL
  Threads <- TwoThreads
  Cells <- OneCell
  Blocks <- TwoBlocks
  Values <- OneValue
  Loaders <- OneLoader
  Recursive = {TRUE, FALSE}
INVARIANTS CountExact NeverRevived ReplacesCompared OperationsWhole Coherent SequentiallyConsistent
PROPERTY LockReleased
