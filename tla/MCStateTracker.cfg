CONSTANTS
  alice = alice
  carol = carol
  k1 = k1
  e = e
  c = c
  None = None
  Absent = Absent
  Addr <- MCAddr
  Slot <- MCSlot
  CodeHash <- MCCode
  EmptyCode = e
  WordMod = 2
  MaxNonce = 1
  JournalCap = 4
  MaxInner = 2
  MaxDepth = 1
  PreAcct <- MCPreAcct
  PreStor <- MCPreStor
  PreCode = {}
SPECIFICATION Spec
INVARIANTS TypeOK HistoryOK NoSharedTable RollbackExact StorageHasAccount
PROPERTIES TouchedNeverForgotten
CONSTRAINT OneScope
\* a trap or a StateErr halts the guest
CHECK_DEADLOCK FALSE
