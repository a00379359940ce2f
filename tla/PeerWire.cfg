SPECIFICATION FairSpec
CONSTANTS
  Base = 2
  LenSize = 2
  ExtID = 1
  Outgoing <- MCOutgoing
  Limits = {2}
  BufSize = 3
  MaxCalls = 2
INVARIANTS InOrder
PROPERTY AcceptedArrives
\* Writer and reader may both have come to their end.
CHECK_DEADLOCK FALSE
