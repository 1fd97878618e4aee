SPECIFICATION Spec
CONSTANTS
  c1 = c1
  c2 = c2
  c3 = c3
  deposit = deposit
  withdrawal = withdrawal
  None = None
  Clients <- TwoClients
  Accounts <- TwoUsers
  Txs <- NoTxs
  Requests <- PlainRequests
  TxAmount <- Amounts
  InitialDB <- SmallDB
  MaxCalls = 2
CHECK_DEADLOCK FALSE
INVARIANT LocksAreBacked
