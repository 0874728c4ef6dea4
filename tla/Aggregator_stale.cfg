\* The messages an aggregate uses.
CONSTANTS
  Aggregators = {2}
  Root <- MCRoot
  NumNodes = 3
  NodeMap <- MCNodeMap
  MsgIds = {1, 2}
  MissedMod = 2
  Relayed <- MCRelayed
SPECIFICATION Spec
PROPERTY OnlyReceivedIsUsed
