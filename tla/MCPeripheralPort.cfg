CONSTANTS
  Mapped = {10}
  Unmapped = {20}
  Data = {0, 1}
  NoBeat = NoBeat
  RawTicks = 1

SPECIFICATION FairPortSpec

INVARIANTS
  OneHolder
  AnswersOwed
  Linearizable

PROPERTIES
  RequestsServed
