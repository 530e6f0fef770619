CONSTANTS
  Key <- MCKey
  Val = {0}
  Hashes <- AllHashes
  InitCap = 4
  MaxCap = 8
  MaxMarks = 0
  Free = Free
SPECIFICATION Spec
PROPERTIES IterationIsInsertionOrder
