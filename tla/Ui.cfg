SPECIFICATION MainSpec
CONSTANTS
  MaxRegistered = 2
  MaxCallbacks = 2
  NumBoxes = 2
  MaxWindows = 5
  MaxEvents = 4
INVARIANTS NothingDeadIsUsed ClosedMeansReleased
PROPERTIES CloseEndsProgram
\* The program ends.
CHECK_DEADLOCK FALSE
