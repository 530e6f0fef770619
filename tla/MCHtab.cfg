CONSTANTS
  Key <- MCKey
  Val = {0, 1}
  Hashes <- AllHashes
  InitCap = 4
  MaxCap = 8
  MaxMarks = 2
  Free = Free
SPECIFICATION Spec
INVARIANTS TypeOK EveryKeyFound ProbesEnd
PROPERTIES RefinesOrderedMap TruncateRestores
