\* Speeds around a counter frequency of 5 ticks, all of which fit the cached copy.
SPECIFICATION Spec
CONSTANTS
  Freq = 5
  Speeds <- MCSpeeds
  Uint32Size = 8
  MaxTime = 12
INVARIANTS Inv NoDrift NeverEarly
