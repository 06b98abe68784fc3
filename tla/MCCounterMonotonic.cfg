CONSTANTS
  Half = 4
  MaxHigh = 1

SPECIFICATION CounterSpec

PROPERTIES
  Monotonic
