SPECIFICATION Spec
CHECK_DEADLOCK FALSE
CONSTANTS
  Raw = Raw
  Moved = Moved
  NoMemory = NoMemory
  c1 = c1
  c2 = c2
VIEW View
INVARIANTS StorageExact LinksExact
PROPERTY ImplementsSequence
