SPECIFICATION MCSpec
CONSTANTS
  Modes <- MCModes
  InitialMode = "cpu"
  SlotCount = 3
  InUse <- MCInUse
  Sections <- MCSections
  Filled <- MCFilled
  Reading <- MCReading
  MaxTick = 2
  MaxSpeed = 2
  MaxSteps = 1
INVARIANTS TextIsFresh LocksLastWhileOpen
PROPERTIES ForcedUpdate HandlersReturn
