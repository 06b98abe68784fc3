CONSTANTS
  Half = 4
  MaxHigh = 2

SPECIFICATION CounterSpec

INVARIANTS
  Untorn
  RetriesPaid
