CONSTANTS
  contract = contract
  fresh = fresh
  identity = identity
  slot = slot
  Old <- MCOld
  New <- MCNew
  Identity = identity
  Slot <- MCSlot
  Gas <- Prices
  StateGas <- StatePrices
  Fraction = 4
  DepthLimit = 2
  StackInit = 2
  StackLimit = 4
  CallArgs = 2
  ArenaSize = 100
  FrameSize = 1
  MsgSize = 1
  MemInit = 1
  TxGas = 7
  TxReservoir = 2
  Requests = {2}
  Ranges = {0, 1}
SPECIFICATION TurnSpec
PROPERTIES Terminates
\* the transaction is over
CHECK_DEADLOCK FALSE
