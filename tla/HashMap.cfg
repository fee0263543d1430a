SPECIFICATION Spec
CONSTANTS
  a1 = a1  a2 = a2  b = b
  NULL = NULL
  Ptr <- MCPtr
  Content <- MCContent
  Hash <- MCHash
  Value = {0, 1}
  Tombstone = 57005
  DefaultCapacity = 4
  MaxCapacity = 8
  IterBreak = 1000
INVARIANTS
  TypeOK
  CountsMatch
  ProbesTerminate
  ListCoversTable
  LiveReachable
PROPERTY ImplementsOrderedMap
