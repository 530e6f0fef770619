CONSTANTS
  contract = contract
  fresh = fresh
  identity = identity
  slot = slot
  Old <- MCOld
  New = {}
  Identity = identity
  Slot = {}
  Gas <- FreeMemory
  StateGas <- StatePrices
  Fraction = 4
  DepthLimit = 2
  StackInit = 1
  StackLimit = 2
  CallArgs = 2
  ArenaSize = 24
  FrameSize = 1
  MsgSize = 1
  MemInit = 1
  TxGas = 4
  TxReservoir = 2
  Requests = {9}
  Ranges = {0, 3}
SPECIFICATION Spec
INVARIANTS SlicesApart ViewsLive
\* the transaction is over
CHECK_DEADLOCK FALSE
