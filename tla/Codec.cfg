SPECIFICATION Spec
CONSTANTS
  Pool <- MCPool
  Targets <- MCTargets
  Edits <- MCEdits
  MaxItems = 2
  MaxDamaged = 70
  Packets <- MCPackets
  NodeID <- MCNodeID
  Target <- MCTarget
  Token <- MCToken
INVARIANTS InStep ValueBack AcceptsGrammar OneExtent ReusedTarget OutlineComplete
PROPERTIES HostUnderstands AnswersTheAsker NodesAreAsked
CHECK_DEADLOCK FALSE
