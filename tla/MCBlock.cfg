CONSTANTS
  Addr <- MCAddr
  Slot <- MCSlot
  Coinbase = "miner"
  System = "system"
  EmptyCode = 0
  Delegations = {2}
  NewCode = 1
  Worlds <- MCWorlds
  Txs <- MCTxs
  Effects <- MCEffects
  Uses <- MCUses
  Withdrawals <- MCWithdrawals
  MaxTxs = 2
  Before = 2
  After = 4
  GasLimit = 14
  TxMax = 8
  BlobMax = 3
  BaseFee = 1
  BlobPrice = 2
  ItemGas = 3
  GasMod = 256
  EtherMod = 128
SPECIFICATION Spec
INVARIANTS AccessListIsNet EtherConserved PoolsHold
\* the block is accepted or rejected
CHECK_DEADLOCK FALSE
