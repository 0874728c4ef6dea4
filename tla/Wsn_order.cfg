\* Mote 3 with two sources, mote 2 a relay: losses, repetitions, late rounds.
CONSTANTS
  Aggregators = {1, 2, 3}
  Root <- MCRoot
  NumNodes = 2
  NodeMap <- MCNodeMap
  MsgIds <- MCMsgIds
  MissedMod = 1
  Relayed = {}
  Sources = {7, 8}
  Live = {}
  NextHop <- MCNextHop
  IdMod = 4
  Capacity = 3
SPECIFICATION WsnSpec
CONSTRAINTS NoWrap Traffic
INVARIANT WsnTypeOK
PROPERTY NamesGoForward
