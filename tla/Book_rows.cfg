SPECIFICATION Spec
CONSTANTS
  c1 = c1
  c2 = c2
  c3 = c3
  deposit = deposit
  withdrawal = withdrawal
  None = None
  Clients <- ThreeClients
  Accounts <- TwoUsers
  Txs <- AllTxs
  Requests <- AllRequests
  TxAmount <- Amounts
  InitialDB <- SmallDB
  MaxCalls = 4
SYMMETRY Symmetry
CHECK_DEADLOCK FALSE
INVARIANTS
  TypeOK
  RowsAddUp
