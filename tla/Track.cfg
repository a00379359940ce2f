SPECIFICATION FairSpec
CONSTANTS
  Nil = Nil
  t1 = t1
  t2 = t2
  PieceSize = 2
  MaxSize = 4
  TrueMeta <- MCTrueMeta
  Messages <- MCMessages
  TrackerLists <- MCTrackerLists
INVARIANTS OnlyTrueDelivered AtMostOneDelivery
PROPERTIES CancelEndsFetch OneExtensionServed
\* A fetch ends.
CHECK_DEADLOCK FALSE
