SPECIFICATION FairSpec
CONSTANTS
  m1 = m1
  m2 = m2
  t1 = t1
  t2 = t2
  orderbook = orderbook
  database = database
  pair = pair
  None = None
  Migrations <- TwoMigrations
  Pair <- OnePair
  Participants <- TwoParticipants
  Persistence <- OneDatabase
  Threads <- TwoThreads
  MaxConcurrent = 2
  MaxRetries <- RetryFirst
  MaxInterruptions = 1
CHECK_DEADLOCK FALSE
INVARIANTS
  TypeOK
  NothingLeftBehind
  OnePerPair
  NothingStranded
PROPERTIES
  CompletesOnlyWhole
  EventuallyEnds
