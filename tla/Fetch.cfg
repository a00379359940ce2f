SPECIFICATION FairSpec
CONSTANTS
  Nil = Nil
  PieceSize = 2
  MaxSize = 8
  TrueMeta <- MCTrueMeta
  Messages <- MCMessages
  MaxHandshakes = 3
INVARIANTS OnlyTrueMeta ClosedOnReturn NeverVacuouslyDone
PROPERTIES OneMessageAfterCancel CancelEndsFetch HonestPeerSucceeds
\* A fetch ends.
CHECK_DEADLOCK FALSE
