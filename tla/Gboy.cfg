\* One caller, as in main.c: every call of the API comes from the main thread.
SPECIFICATION Spec
CONSTANTS
  Callers = {ui}
  Threads = {t1, t2}
  NoThread = NoThread
  Speeds <- MCSpeeds
  CycleMod = 3
  MaxPending = 3
INVARIANTS TypeOK OneThread NoMissedWakeup SafeTeardown Inv
PROPERTIES PowerOffReturns ImplementsStepper
\* After gboy_cleanup nothing is left to do.
CHECK_DEADLOCK FALSE
