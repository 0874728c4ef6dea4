\* An interval of two ticks, a queue that can be full.
CONSTANTS
  SendInterval = 2
  Jitter = 2
  IdMod = 3
  QueueSize = 2
SPECIFICATION FairSpec
INVARIANTS TypeOK ButtonCycle
PROPERTIES SendsSpaced ActiveSends PressAnswered
