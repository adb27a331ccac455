-------------------------------- MODULE Gboy --------------------------------
(***************************************************************************)
(* The control of the emulation thread, src/gboy.c: power on and off, the  *)
(* clock speed, single steps, the pause on the step condition, the error   *)
(* path and the cleanup, as calls of one or several caller threads that    *)
(* interleave with the emulation thread.                                   *)
(*                                                                         *)
(* A section under emulation_mutex that cannot block is one action: all it *)
(* touches is guarded by that mutex, which is recursive, so the calls made *)
(* with it held (gboy_step, gboy_set_clock_speed) belong to the action.    *)
(* What happens between two such sections (SDL_WaitThread, the busy wait,  *)
(* the teardown) is an action of its own.  Calls that are refused change   *)
(* nothing and have no action.                                             *)
(***************************************************************************)
EXTENDS Integers, FiniteSets

CONSTANTS
  Callers,      \* threads that call the API of gboy.h
  Threads,      \* identities SDL_CreateThread can hand out
  NoThread,     \* the NULL thread handle
  Speeds,       \* clock speeds the callers ask for; 0 pauses
  CycleMod,     \* the cycle counter is kept modulo this number
  MaxPending    \* bound on pending_steps: callers wait when it is reached

ASSUME CallersAssumption == Callers # {}
ASSUME ThreadsAssumption == NoThread \notin Threads
ASSUME SpeedsAssumption == Speeds \subseteq Nat /\ 0 \in Speeds
ASSUME BoundsAssumption == CycleMod \in Nat \ {0} /\ MaxPending \in Nat

VARIABLES
  init,         \* m_ctx.init: the mutex and the condition exist
  active,       \* m_ctx.emulation_thread_active
  clockSpeed,   \* m_ctx.clock_speed
  pendingSteps, \* m_ctx.pending_steps
  handle,       \* m_ctx.emulation_thread
  rendering,    \* the window callback is enabled in the renderer
  phase,        \* where each emulation thread is in emulation_loop
  call,         \* where each caller is in gboy_poweroff or gboy_cleanup
  joinee,       \* the handle a caller passed to SDL_WaitThread
  cleaning,     \* callers that are inside gboy_cleanup
  cpuFailed,    \* m_status of cpu.c is not zero, which nothing resets
  cycle         \* cycles executed (modulo CycleMod)

shared == <<init, active, clockSpeed, pendingSteps, handle, rendering>>
callState == <<call, joinee, cleaning>>
vars == <<shared, phase, callState, cpuFailed, cycle>>

\* unborn: not created; top: about to lock the mutex; waiting: blocked in
\* SDL_WaitCondition; awake: woken, about to get the mutex back; pacing: in the
\* busy wait; exited: returned from emulation_loop, not joined yet.
Phases == {"unborn", "top", "waiting", "awake", "pacing", "exited"}
Alive(t) == phase[t] \notin {"unborn", "exited"}

TypeOK ==
  /\ init \in BOOLEAN
  /\ active \in BOOLEAN
  /\ clockSpeed \in Speeds
  /\ pendingSteps \in 0..MaxPending
  /\ handle \in Threads \cup {NoThread}
  /\ rendering \in BOOLEAN
  /\ phase \in [Threads -> Phases]
  /\ call \in [Callers -> {"idle", "unlocked", "joining", "teardown"}]
  /\ joinee \in [Callers -> Threads \cup {NoThread}]
  /\ cleaning \in SUBSET Callers
  /\ cpuFailed \in BOOLEAN
  /\ cycle \in 0..(CycleMod - 1)

\* After gboy_init.
Init ==
  /\ init = TRUE
  /\ active = FALSE
  /\ clockSpeed = 0
  /\ pendingSteps = 0
  /\ handle = NoThread
  /\ rendering = FALSE
  /\ phase = [t \in Threads |-> "unborn"]
  /\ call = [c \in Callers |-> "idle"]
  /\ joinee = [c \in Callers |-> NoThread]
  /\ cleaning = {}
  /\ cpuFailed = FALSE
  /\ cycle = 0

-----------------------------------------------------------------------------
(* gboy_step, as it is also called with the mutex already held.            *)

\* Mutant of Signal: the signal is forgotten.
MutSignalLost(ph) == {ph}

\* SDL_SignalCondition: one waiting thread, if there is one, becomes awake.
Signal(ph) ==
  LET waiting == {t \in Threads : ph[t] = "waiting"}
  IN  IF waiting = {} THEN {ph} ELSE {[ph EXCEPT ![t] = "awake"] : t \in waiting}

\* The nested gboy_step of gboy_set_clock_speed and gboy_poweroff: it counts
\* and signals a step when the emulator is paused and is refused otherwise.
StepIfPaused ==
  IF clockSpeed = 0
  THEN /\ pendingSteps < MaxPending
       /\ pendingSteps' = pendingSteps + 1
       /\ phase' \in Signal(phase)
  ELSE UNCHANGED <<pendingSteps, phase>>

Idle(c) == init /\ call[c] = "idle"

Step(c) ==
  /\ Idle(c)
  /\ active
  /\ clockSpeed = 0
  /\ StepIfPaused
  /\ UNCHANGED <<init, active, clockSpeed, handle, rendering, callState,
                 cpuFailed, cycle>>

SetClockSpeed(c, speed) ==
  /\ Idle(c)
  /\ active
  /\ StepIfPaused
  /\ clockSpeed' = speed
  /\ UNCHANGED <<init, active, handle, rendering, callState, cpuFailed, cycle>>

-----------------------------------------------------------------------------
(* Power.                                                                  *)

\* SDL_CreateThread may fail; the callback and the speed are set even so.
PowerOn(c, speed) ==
  /\ Idle(c)
  /\ ~active
  /\ rendering' = TRUE
  /\ clockSpeed' = speed
  /\ \/ \E t \in Threads :
          /\ phase[t] = "unborn"
          /\ phase' = [phase EXCEPT ![t] = "top"]
          /\ handle' = t
          /\ active' = TRUE
     \/ /\ handle' = NoThread
        /\ active' = FALSE
        /\ UNCHANGED phase
  /\ UNCHANGED <<init, pendingSteps, callState, cpuFailed, cycle>>

\* Mutant of SwitchOff: a paused emulator is not made to take a step.
MutSwitchOffNoStep ==
  /\ active
  /\ active' = FALSE
  /\ rendering' = FALSE
  /\ UNCHANGED <<init, clockSpeed, pendingSteps, phase, handle, cpuFailed, cycle>>

\* The section of gboy_poweroff under the mutex.
SwitchOff ==
  /\ active
  /\ StepIfPaused
  /\ active' = FALSE
  /\ rendering' = FALSE
  /\ UNCHANGED <<init, clockSpeed, handle, cpuFailed, cycle>>

PowerOff(c) ==
  /\ Idle(c)
  /\ SwitchOff
  /\ call' = [call EXCEPT ![c] = "unlocked"]
  /\ UNCHANGED <<joinee, cleaning>>

\* The mutex is released before m_ctx.emulation_thread is read.
BeginJoin(c) ==
  /\ call[c] = "unlocked"
  /\ joinee' = [joinee EXCEPT ![c] = handle]
  /\ call' = [call EXCEPT ![c] = "joining"]
  /\ UNCHANGED <<shared, phase, cleaning, cpuFailed, cycle>>

\* Mutant of Joined: the end of the thread is not waited for.
MutJoinedAtOnce(c) == TRUE

\* SDL_WaitThread returns at once for a NULL handle, else when the thread has
\* ended.  gboy_cleanup goes on to its teardown.
Joined(c) == joinee[c] = NoThread \/ phase[joinee[c]] \in {"exited", "unborn"}

Join(c) ==
  /\ call[c] = "joining"
  /\ Joined(c)
  /\ phase' = [t \in Threads |->
                 IF t = joinee[c] /\ phase[t] = "exited" THEN "unborn" ELSE phase[t]]
  /\ handle' = NoThread
  /\ joinee' = [joinee EXCEPT ![c] = NoThread]
  /\ call' = [call EXCEPT ![c] = IF c \in cleaning THEN "teardown" ELSE "idle"]
  /\ UNCHANGED <<init, active, clockSpeed, pendingSteps, rendering, cleaning,
                 cpuFailed, cycle>>

-----------------------------------------------------------------------------
(* gboy_cleanup: power off, unless the emulator is off already; then the   *)
(* callback is removed and condition and mutex are destroyed.              *)

\* Mutant of Cleanup: the emulator is torn down without being powered off.
MutCleanupNoPowerOff(c) ==
  /\ Idle(c)
  /\ cleaning' = cleaning \cup {c}
  /\ call' = [call EXCEPT ![c] = "teardown"]
  /\ UNCHANGED <<shared, phase, joinee, cpuFailed, cycle>>

Cleanup(c) ==
  /\ Idle(c)
  /\ cleaning' = cleaning \cup {c}
  /\ \/ /\ SwitchOff
        /\ call' = [call EXCEPT ![c] = "unlocked"]
     \/ /\ ~active
        /\ call' = [call EXCEPT ![c] = "teardown"]
        /\ UNCHANGED <<shared, phase, cpuFailed, cycle>>
  /\ UNCHANGED joinee

Teardown(c) ==
  /\ call[c] = "teardown"
  /\ init' = FALSE
  /\ rendering' = FALSE
  /\ cleaning' = cleaning \ {c}
  /\ call' = [call EXCEPT ![c] = "idle"]
  /\ UNCHANGED <<active, clockSpeed, pendingSteps, handle, phase, joinee,
                 cpuFailed, cycle>>

-----------------------------------------------------------------------------
(* emulation_loop.                                                         *)

AtLock(t) == phase[t] \in {"top", "awake"}

\* The thread is inside `if (clock_speed == 0)`: it found the speed zero just
\* now, or before it waited.  A resume does not take it out of there.
InPauseBranch(t) == phase[t] = "awake" \/ clockSpeed = 0

\* Mutant of MustWait: an `if` in place of the `while` around the wait.
MutWaitOnce(t) == phase[t] = "top" /\ clockSpeed = 0 /\ pendingSteps = 0

\* Whether the loop on the condition blocks the thread (again).
MustWait(t) == InPauseBranch(t) /\ pendingSteps = 0

StepsLeft(t) == IF InPauseBranch(t) THEN pendingSteps - 1 ELSE pendingSteps

Wait(t) ==
  /\ AtLock(t)
  /\ MustWait(t)
  /\ phase' = [phase EXCEPT ![t] = "waiting"]
  /\ UNCHANGED <<shared, callState, cpuFailed, cycle>>

\* Condition variables may wake a thread that nobody signalled.
SpuriousWake(t) ==
  /\ phase[t] = "waiting"
  /\ phase' = [phase EXCEPT ![t] = "awake"]
  /\ UNCHANGED <<shared, callState, cpuFailed, cycle>>

\* The flag is false: leave the loop.
Exit(t) ==
  /\ AtLock(t)
  /\ ~MustWait(t)
  /\ ~active
  /\ pendingSteps' = StepsLeft(t)
  /\ phase' = [phase EXCEPT ![t] = "exited"]
  /\ UNCHANGED <<init, active, clockSpeed, handle, rendering, callState,
                 cpuFailed, cycle>>

\* gboy_set_clock_speed(0) of the error path, called with the mutex held by the
\* emulation thread itself: at speed zero it counts a step and signals.
PauseOnError(t) ==
  /\ clockSpeed' = 0
  /\ pendingSteps' = IF clockSpeed = 0 THEN StepsLeft(t) + 1 ELSE StepsLeft(t)
  /\ LET moved == [phase EXCEPT ![t] = "pacing"]
     IN  phase' \in IF clockSpeed = 0 THEN Signal(moved) ELSE {moved}

NoError(t) ==
  /\ pendingSteps' = StepsLeft(t)
  /\ phase' = [phase EXCEPT ![t] = "pacing"]
  /\ UNCHANGED clockSpeed

\* Mutant of Cycle: the active flag is not looked at after the wait.
MutCycleUnchecked(t) ==
  /\ AtLock(t)
  /\ ~MustWait(t)
  /\ cpuFailed' \in BOOLEAN
  /\ cpuFailed => cpuFailed'
  /\ IF cpuFailed' THEN PauseOnError(t) ELSE NoError(t)
  /\ cycle' = (cycle + 1) % CycleMod
  /\ UNCHANGED <<init, active, handle, rendering, callState>>

\* One CPU cycle and four PPU cycles.  The PPU has no error: its mode is two
\* bits wide and every value has a case.
Cycle(t) ==
  /\ AtLock(t)
  /\ ~MustWait(t)
  /\ active
  /\ cpuFailed' \in BOOLEAN
  /\ cpuFailed => cpuFailed'
  /\ IF cpuFailed' THEN PauseOnError(t) ELSE NoError(t)
  /\ cycle' = (cycle + 1) % CycleMod
  /\ UNCHANGED <<init, active, handle, rendering, callState>>

\* The busy wait for the target time, which module Pacing computes.
Pace(t) ==
  /\ phase[t] = "pacing"
  /\ phase' = [phase EXCEPT ![t] = "top"]
  /\ UNCHANGED <<shared, callState, cpuFailed, cycle>>

-----------------------------------------------------------------------------
Request(c) ==
  \/ Step(c)
  \/ PowerOff(c)
  \/ Cleanup(c)
  \/ \E s \in Speeds : SetClockSpeed(c, s) \/ PowerOn(c, s)

\* What a caller does once it is inside gboy_poweroff or gboy_cleanup.
Finish(c) == BeginJoin(c) \/ Join(c) \/ Teardown(c)

Run(t) == Wait(t) \/ Exit(t) \/ Cycle(t) \/ Pace(t)

Next ==
  \/ \E c \in Callers : Request(c) \/ Finish(c)
  \/ \E t \in Threads : Run(t) \/ SpuriousWake(t)

\* The scheduler runs every thread that can run; nobody has to call anything.
Fairness ==
  /\ \A c \in Callers : WF_vars(Finish(c))
  /\ \A t \in Threads : WF_vars(Run(t))

Spec == Init /\ [][Next]_vars /\ Fairness
-----------------------------------------------------------------------------
(* Properties.                                                             *)

\* There is never a second emulation thread: a thread that was created and not
\* joined is the one m_ctx.emulation_thread names, and it runs while the flag
\* says so (gboy_poweron checks the flag, gboy_poweroff joins).
OneThread ==
  /\ \A t \in Threads : phase[t] # "unborn" => handle = t
  /\ active => handle \in Threads /\ Alive(handle)

\* No wake-up is lost: a thread blocked on the step condition has nothing to
\* do.  It is powered on, paused and out of steps, whatever step, speed change
\* or power off raced with it on its way to the wait.
NoMissedWakeup ==
  \A t \in Threads :
    phase[t] = "waiting" => active /\ clockSpeed = 0 /\ pendingSteps = 0

\* gboy_cleanup destroys mutex and condition only after the last thread that
\* uses them is gone ("it will first safely stop emulation", gboy.h).
SafeTeardown == ~init => \A t \in Threads : ~Alive(t)

\* gboy_poweroff returns: the thread it joins notices the flag wherever it was,
\* also when a CPU error pauses it at the same moment.
PowerOffReturns ==
  \A c \in Callers : call[c] = "joining" ~> call[c] \in {"idle", "teardown"}

\* A failed CPU locks up the emulation thread (the comment in m_cycle): from
\* then on it always comes back to wait for a step, or is powered off.
ErrorLocksUp == cpuFailed ~> (~active \/ \E t \in Threads : phase[t] = "waiting")

Abstract ==
  INSTANCE Stepper WITH powered <- active, speed <- clockSpeed,
                        tokens <- pendingSteps, failed <- cpuFailed

\* The threads implement the stepping machine that gboy.h describes: cycles of a
\* paused emulator are paid for with steps, none runs after a power off, and an
\* emulator that may run does run.
ImplementsStepper == Abstract!Spec
=============================================================================
