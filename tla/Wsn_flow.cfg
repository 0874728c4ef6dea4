\* Sources 5 and 8 are not there: every round needs its timeout.
CONSTANTS
  Aggregators = {1, 2, 3}
  Root <- MCRoot
  NumNodes = 2
  NodeMap <- MCNodeMap
  MsgIds <- MCMsgIds
  MissedMod = 1
  Relayed = {}
  Sources = {4, 7}
  Live = {4, 7}
  NextHop <- MCNextHop
  IdMod = 1
  Capacity = 3
SPECIFICATION WsnFairSpec
PROPERTY DataFlows
