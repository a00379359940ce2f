SPECIFICATION FairSpec
CONSTANTS
  q1 = q1
  q2 = q2
  r1 = r1
  x1 = x1
  None = None
  InBuffer = InBuffer
  Packets = {q1, q2, r1, x1}
  Workers = {w1, w2}
  KindOf <- MCKindOf
INVARIANTS HandlersSeeTheirMessage OneHandlerEach
PROPERTIES OneReadAfterCancel CancelStopsServ AcceptedIsHandled
\* Serv returns, and then nothing is left to do.
CHECK_DEADLOCK FALSE
