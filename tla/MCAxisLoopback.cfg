CONSTANTS
  Txn = 10
  Els = 4
  Latency = 3
  RawTicks = 2
  NoBeat = NoBeat

SPECIFICATION FairLoopSpec

INVARIANTS
  WordsInOrder
  PortHeldByOne
  FullMeansWhole
  AssertsHold
PROPERTIES
  BeatsHeld
  Completes
