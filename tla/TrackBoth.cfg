SPECIFICATION FairSpec
CONSTANTS
  Nil = Nil
  t1 = t1
  t2 = t2
  PieceSize = 2
  MaxSize = 4
  TrueMeta <- MCTrueMeta
  Messages <- MCMessages
  TrackerLists <- MCTrackerLists
PROPERTY MetaIsDelivered
CHECK_DEADLOCK FALSE
