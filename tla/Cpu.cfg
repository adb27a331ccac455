SPECIFICATION MCSpec
CONSTANTS
  Program <- MCProgram
  DataAddrs <- MCDataAddrs
INVARIANTS AluAgrees
PROPERTIES StackHolds PcFollows
\* The program ends.
CHECK_DEADLOCK FALSE
