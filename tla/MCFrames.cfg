CONSTANTS
  contract = contract
  fresh = fresh
  identity = identity
  slot = slot
  Old <- MCOld
  New <- MCNew
  Identity = identity
  Slot <- MCSlot
  Gas <- FreeOperands
  StateGas <- StatePrices
  Fraction = 4
  DepthLimit = 2
  StackInit = 2
  StackLimit = 2
  CallArgs = 2
  ArenaSize = 100
  FrameSize = 1
  MsgSize = 1
  MemInit = 1
  TxGas = 4
  TxReservoir = 1
  Requests = {9}
  Ranges = {0, 1}
SPECIFICATION Spec
INVARIANTS TypeOK GasConserved StateGasPaysForGrowth DoomedWereCreated
PROPERTIES FailureLeavesNoTrace StaticWritesNothing
\* the transaction is over
CHECK_DEADLOCK FALSE
