SPECIFICATION FairSpec
CONSTANTS
  i1 = i1
  i2 = i2
  b1 = b1
  b2 = b2
  b3 = b3
  Ids = {i1}
  Boxes = {b1, b2}
  NoBox = NoBox
  Callers = {c1, c2}
  IdOf <- MCIdOfPair
  ResponseVerdicts = {TRUE, FALSE}
  TimeoutVerdicts = {TRUE, FALSE}
PROPERTY RemoveReturns
CHECK_DEADLOCK FALSE
