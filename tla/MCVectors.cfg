CONSTANTS
  First = First
  Second = Second
  Maps <- MCMaps
  Nibble = {0, 1, 2}
  Key <- MCKey
  Value = {First, Second}
  NoVal = NoVal
SPECIFICATION VectorsSpec
INVARIANTS RootIsOfMap OnlyMissingNodesFail InsertionsFirstSuffices
INVARIANTS SignaturesAgree RlpAgrees
INVARIANTS SszAcceptsEncodings ArithmeticAgrees PairingDecides
\* after an error the handle is not used any more
CHECK_DEADLOCK FALSE
