CONSTANTS
  NumClients = 16
  MaxLen = 1
  ResetZeros = 60
  Files <- MCFiles
  Demands <- MCDemands
  FifoEls = 2
  MaxDemands = 3
  NCPUS = 2
  RomWords = 512

SPECIFICATION FairSpec

CHECK_DEADLOCK FALSE

INVARIANTS
  CoreStartsLoaded
  AnswersMatch

PROPERTIES
  TagOpsLand
  Completes
