SPECIFICATION TablesSpec
CONSTANTS
  t1 = t1  t2 = t2  a1 = a1  a2 = a2  a3 = a3  EmptyArray = EmptyArray
  Primes <- SmallPrimes
  Nodes <- EightNodes
  KeyOf <- NodeKeys
  HashOf <- Hashes
  Tables <- TwoTables
  HeapArrays <- ThreeArrays
  InitialLoad <- One
  MaxLost = 1
  Programs <- OneProgram
INVARIANT EmptyArrayUntouched
