SPECIFICATION FairSpec
CONSTANTS
  request1 = request1
  request2 = request2
  user = user
  market = market
  node1 = node1
  node2 = node2
  Sessions <- TwoSessions
  Resources <- TwoResources
  Processes <- TwoProcesses
  Host <- HostOf
  Wants <- WantsOf
  Lease = 2
  MaxTime = 4
CHECK_DEADLOCK FALSE
INVARIANTS
  TypeOK
  MutualExclusion
PROPERTIES
  LeaseIsKept
  RowsGo
