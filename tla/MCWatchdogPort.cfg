CONSTANTS
  Period = 4
  MaxWoofs = 3
  RawTicks = 2

SPECIFICATION FairWatchdogSpec

INVARIANTS
  OneWriteAtATime
  OneBeatAWrite

PROPERTIES
  WoofsReturn
