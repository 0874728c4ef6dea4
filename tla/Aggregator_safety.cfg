\* One collector with its three sources, and the root.
CONSTANTS
  Aggregators = {1, 2}
  Root <- MCRoot
  NumNodes = 3
  NodeMap <- MCNodeMap
  MsgIds = {1, 2}
  MissedMod = 3
  Relayed <- MCRelayed
SPECIFICATION Spec
INVARIANTS TypeOK CountIsHeard SlotsHoldOwnNode
PROPERTY ImplementsRounds
