CONSTANTS
  NumCsrs = 1
  NumIns = 2
  NumOuts = 1
  NumStats = 1
  AddrSpan = 8
  ReadSpan = 8
  WriteSpan = 4
  Els = 2
  WordCount = 8
  Words <- MCWords
  Payload <- MCWords
  WriteData = {1}
  AllBytes = AllBytes
  Tracked = {0}
  Strobes <- MCStrobes
  NoBeat = NoBeat

SPECIFICATION FairHostSpec

INVARIANTS
  HostTypeOK
  CreditsHold

PROPERTIES
  HostIsLegalMaster
  ImplementsDevice
  EveryCallReturns
