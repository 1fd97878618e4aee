SPECIFICATION Spec
CONSTANTS
  m1 = m1
  m2 = m2
  t1 = t1
  t2 = t2
  orderbook = orderbook
  database = database
  pair = pair
  None = None
  Migrations <- OneMigration
  Pair <- OnePair
  Participants <- TwoParticipants
  Persistence <- OneDatabase
  Threads <- TwoThreads
  MaxConcurrent = 1
  MaxRetries <- RetryFirst
  MaxInterruptions = 0
CHECK_DEADLOCK FALSE
PROPERTIES
  VotesAreHeeded
