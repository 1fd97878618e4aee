SPECIFICATION FairSpec
CONSTANTS
  t1 = t1
  t2 = t2
  r1 = r1
  r2 = r2
  r3 = r3
  None = None
  Txns = {t1}
  Resources = {r1, r2}
  MaxApiAborts = 1
  StopAllowed = FALSE
PROPERTIES
  ActiveIsResolved
  EndedIsRemoved
