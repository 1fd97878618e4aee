SPECIFICATION FairSpec
CONSTANTS
  c1 = c1
  c2 = c2
  c3 = c3
  deposit = deposit
  withdrawal = withdrawal
  None = None
  Clients <- ThreeClients
  Accounts <- ThreeUsers
  Txs <- NoTxs
  Requests <- ForUpdateRequests
  TxAmount <- Amounts
  InitialDB <- SmallDB
  MaxCalls = 3
CHECK_DEADLOCK FALSE
INVARIANTS
  LocksAreBacked
  StandoffsAreSeen
PROPERTIES
  ImplementsLedger
  MoneyIsKept
  EveryCallReturns
