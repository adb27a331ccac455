\* Does a CPU error lock up the emulation thread?
SPECIFICATION Spec
CONSTANTS
  Callers = {ui}
  Threads = {t1, t2}
  NoThread = NoThread
  Speeds <- MCSpeeds
  CycleMod = 3
  MaxPending = 3
PROPERTY ErrorLocksUp
\* After gboy_cleanup nothing is left to do.
CHECK_DEADLOCK FALSE
