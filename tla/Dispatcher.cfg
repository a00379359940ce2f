SPECIFICATION FairSpec
CONSTANTS
  i1 = i1
  i2 = i2
  b1 = b1
  b2 = b2
  b3 = b3
  Ids = {i1, i2}
  Boxes = {b1, b2, b3}
  NoBox = NoBox
  Callers = {c1, c2}
  IdOf <- MCIdOf
  ResponseVerdicts = {TRUE, FALSE}
  TimeoutVerdicts = {TRUE, FALSE}
INVARIANTS EntriesAreServed OwnEntry
PROPERTIES OnlyOwnerRemoves ImplementsRegistry DisposeGetsThrough EndIsServed
\* Two end requests for one box: the second caller waits for ever (see
\* DispatcherRemoveReturns), so the whole system may stop.
CHECK_DEADLOCK FALSE
