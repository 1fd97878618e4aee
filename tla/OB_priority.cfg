SPECIFICATION Spec
CONSTANTS
  p1 = p1
  p2 = p2
  s1 = s1
  s2 = s2
  s3 = s3
  s4 = s4
  b1 = b1
  b2 = b2
  l1 = l1
  l2 = l2
  l3 = l3
  alice = alice
  bob = bob
  carol = carol
  None = None
  Procs <- OneProc
  Orders <- SixOrders
  Levels <- ThreeLevels
  KeyOrder <- TextOrder
  User <- UserOf
  Side <- SideOf
  Price <- TwoPrices
  Quantity <- QuantityOf
  Rests <- RestOf
  ChunkSize = 3
  MaxAdds = 3
CHECK_DEADLOCK FALSE
PROPERTY BestPriceFirst
