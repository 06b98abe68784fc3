CONSTANTS
  NumCsrs = 1
  NumIns = 1
  NumOuts = 1
  NumStats = 0
  AddrSpan = 4
  ReadSpan = 4
  WriteSpan = 2
  Els = 2
  Words <- MCWords
  Payload = {1}
  Strobes <- AllBytes
  NoBeat = NoBeat

SPECIFICATION ShellSpec

INVARIANTS
  WriteEngineConsistent
  EveryReadAnswered
  LatchedAddressIsAccepted
  FlowCountersExact
