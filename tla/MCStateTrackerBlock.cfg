CONSTANTS
  alice = alice
  carol = carol
  k1 = k1
  e = e
  c = c
  None = None
  Absent = Absent
  Addr <- MCAddr
  Slot <- MCSlot
  CodeHash <- MCCode
  EmptyCode = e
  WordMod = 2
  MaxNonce = 1
  JournalCap = 2
  MaxInner = 2
  MaxDepth = 1
  PreAcct <- MCPreAcct
  PreStor <- MCPreStor
  PreCode = {}
SPECIFICATION Spec
INVARIANTS CodeResolvable
PROPERTIES MergeKeepsReads
CONSTRAINT SmallBlock
\* a trap or a StateErr halts the guest
CHECK_DEADLOCK FALSE
