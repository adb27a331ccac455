SPECIFICATION Spec
CONSTANTS
  Capacity = 3
  Bytes <- MCBytes
  Zero = 0
  MaxData = 5
INVARIANT Inv
PROPERTY ImplementsQueue
