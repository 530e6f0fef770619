CONSTANTS
  alice = alice
  carol = carol
  k1 = k1
  e = e
  c = c
  None = None
  Absent = Absent
  Addr <- MCAddr
  Slot <- MCSlot
  CodeHash <- MCCode
  EmptyCode = e
  WordMod = 2
  MaxNonce = 0
  JournalCap = 3
  MaxInner = 2
  MaxDepth = 2
  PreAcct <- MCPreAcct
  PreStor <- MCPreStor
  PreCode = {}
SPECIFICATION Spec
PROPERTIES RefinesReference
CONSTRAINT OneScope
\* a trap or a StateErr halts the guest
CHECK_DEADLOCK FALSE
