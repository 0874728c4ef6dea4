\* The messages an aggregate names.
CONSTANTS
  Aggregators = {2}
  Root <- MCRoot
  NumNodes = 3
  NodeMap <- MCNodeMap
  MsgIds = {1}
  MissedMod = 2
  Relayed <- MCRelayed
SPECIFICATION Spec
PROPERTY ReceivedIsListed
