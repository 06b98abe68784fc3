CONSTANTS
  Data <- Packets
  PcCount = 4
  Step = 1
  ShortSpan = 3
  TimerMax = 1
  Depth = 2
  SinkMayStall = TRUE

SPECIFICATION Spec

PROPERTIES
  NoDiscontinuityLost
