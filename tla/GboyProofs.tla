----------------------------- MODULE GboyProofs -----------------------------
(***************************************************************************)
(* Proofs about Gboy with one caller: Inv is inductive, hence the safety   *)
(* properties of Gboy hold for every set of threads, every set of speeds   *)
(* and every bound on the pending steps.                                   *)
(***************************************************************************)
EXTENDS GboyInv, TLAPS

USE DEF Alive, Phases

(***************************************************************************)
(* What gboy_step does to the threads: nobody waits and nothing changes,   *)
(* or one waiting thread becomes awake (SDL_SignalCondition).              *)
(***************************************************************************)
LEMMA SignalEffect ==
  ASSUME NEW ph \in [Threads -> Phases], NEW q \in Signal(ph)
  PROVE  \/ q = ph /\ \A t \in Threads : ph[t] # "waiting"
         \/ \E t \in Threads : ph[t] = "waiting" /\ q = [ph EXCEPT ![t] = "awake"]
BY DEF Signal

(***************************************************************************)
(* A paused emulator gets one more step and, with Inv, has no thread left  *)
(* waiting; a running one is left alone.                                   *)
(***************************************************************************)
LEMMA StepEffect ==
  ASSUME Inv, StepIfPaused
  PROVE  /\ phase' \in [Threads -> Phases]
         /\ pendingSteps' \in 0..MaxPending
         /\ \A t \in Threads :
              /\ phase'[t] # "waiting"
              /\ phase[t] # "waiting" => phase'[t] = phase[t]
              /\ phase[t] = "waiting" => phase'[t] = "awake"
         /\ clockSpeed = 0 => pendingSteps' = pendingSteps + 1
         /\ clockSpeed # 0 => pendingSteps' = pendingSteps /\ phase' = phase
<1> USE BoundsAssumption DEF Inv, TypeOK
<1>1. CASE clockSpeed = 0
  <2>1. phase' \in Signal(phase) /\ pendingSteps' = pendingSteps + 1 /\ pendingSteps < MaxPending
    BY <1>1 DEF StepIfPaused
  <2>2. \A s, t \in Threads : phase[s] = "waiting" /\ phase[t] = "waiting" => s = t
    BY DEF ThreadInv, OneThread
  <2>3. CASE phase' = phase /\ \A t \in Threads : phase[t] # "waiting"
    BY <1>1, <2>1, <2>3
  <2>4. CASE \E t \in Threads : phase[t] = "waiting" /\ phase' = [phase EXCEPT ![t] = "awake"]
    BY <1>1, <2>1, <2>2, <2>4
  <2> QED
    BY <2>1, <2>3, <2>4, SignalEffect
<1>2. CASE clockSpeed # 0
  BY <1>2 DEF StepIfPaused, StepInv, NoMissedWakeup
<1> QED
  BY <1>1, <1>2

(***************************************************************************)
(* The state after gboy_init satisfies the invariant.                      *)
(***************************************************************************)
LEMMA InitInv == Init => Inv
<1> SUFFICES ASSUME Init PROVE Inv
  OBVIOUS
<1>1. TypeOK
  <2>1. 0 \in 0..MaxPending /\ 0 \in 0..(CycleMod - 1) /\ 0 \in Speeds
    BY SpeedsAssumption, BoundsAssumption
  <2> QED
    BY <2>1 DEF Init, TypeOK
<1>2. ThreadInv /\ CallInv
  BY DEF Init, ThreadInv, OneThread, CallInv
<1>3. StepInv
  BY DEF Init, StepInv, NoMissedWakeup
<1> QED
  BY <1>1, <1>2, <1>3 DEF Inv

(***************************************************************************)
(* Each call of a caller keeps it.                                         *)
(***************************************************************************)
LEMMA CallsKeepInv ==
  ASSUME OneCaller, Inv, NEW c \in Callers, Request(c) \/ Finish(c)
  PROVE  Inv'
<1> USE SpeedsAssumption, BoundsAssumption, ThreadsAssumption
    DEF Inv, TypeOK, ThreadInv, OneThread, CallInv, StepInv, NoMissedWakeup,
        OneCaller, shared, callState, Idle
<1>1. CASE Step(c)
  <2>1. /\ StepIfPaused
        /\ UNCHANGED <<init, active, clockSpeed, handle, rendering, call, joinee,
                       cleaning, cpuFailed, cycle>>
    BY <1>1 DEF Step
  <2>2. TypeOK'
    BY <2>1, StepEffect
  <2>3. ThreadInv' /\ CallInv'
    BY <2>1, StepEffect
  <2>4. StepInv'
    BY <1>1, <2>1, StepEffect DEF Step
  <2> QED
    BY <2>2, <2>3, <2>4
<1>2. CASE PowerOff(c)
  <2>1. TypeOK'
    BY <1>2, StepEffect DEF PowerOff, SwitchOff
  <2>2. ThreadInv' /\ CallInv'
    BY <1>2, StepEffect DEF PowerOff, SwitchOff
  <2>3. StepInv'
    BY <1>2, StepEffect DEF PowerOff, SwitchOff
  <2> QED
    BY <2>1, <2>2, <2>3
<1>3. CASE Cleanup(c)
  <2>1. CASE SwitchOff /\ call' = [call EXCEPT ![c] = "unlocked"]
    <3> cleaning' \in SUBSET Callers /\ UNCHANGED joinee
      BY <1>3 DEF Cleanup
    <3>1. TypeOK'
      BY <2>1, StepEffect DEF SwitchOff
    <3>2. ThreadInv' /\ CallInv'
      BY <1>3, <2>1, StepEffect DEF Cleanup, SwitchOff
    <3>3. StepInv'
      BY <1>3, <2>1, StepEffect DEF Cleanup, SwitchOff
    <3> QED
      BY <3>1, <3>2, <3>3
  <2>2. CASE ~active /\ call' = [call EXCEPT ![c] = "teardown"]
             /\ UNCHANGED <<shared, phase, cpuFailed, cycle>>
    BY <1>3, <2>2 DEF Cleanup
  <2> QED
    BY <1>3, <2>1, <2>2 DEF Cleanup
<1>4. ASSUME NEW s \in Speeds, SetClockSpeed(c, s)
      PROVE  Inv'
  BY <1>4, StepEffect DEF SetClockSpeed
<1>5. ASSUME NEW s \in Speeds, PowerOn(c, s)
      PROVE  Inv'
  BY <1>5 DEF PowerOn
<1>6. CASE BeginJoin(c)
  BY <1>6 DEF BeginJoin
<1>7. CASE Join(c)
  BY <1>7 DEF Join, Joined
<1>8. CASE Teardown(c)
  BY <1>8 DEF Teardown
<1> QED
  BY <1>1, <1>2, <1>3, <1>4, <1>5, <1>6, <1>7, <1>8 DEF Request, Finish

(***************************************************************************)
(* Each step of the emulation thread keeps it.                             *)
(***************************************************************************)
LEMMA ThreadKeepsInv ==
  ASSUME OneCaller, Inv, NEW t \in Threads, Run(t) \/ SpuriousWake(t)
  PROVE  Inv'
<1> USE SpeedsAssumption, BoundsAssumption, ThreadsAssumption
    DEF Inv, TypeOK, ThreadInv, OneThread, CallInv, StepInv, NoMissedWakeup,
        OneCaller, shared, callState, AtLock, InPauseBranch, MustWait, StepsLeft
<1>1. CASE Wait(t)
  BY <1>1 DEF Wait
<1>2. CASE Exit(t)
  BY <1>2 DEF Exit
<1>3. CASE Cycle(t)
  <2>1. CASE cpuFailed'
    <3> DEFINE moved == [phase EXCEPT ![t] = "pacing"]
    <3>1. moved \in [Threads -> Phases] /\ \A s \in Threads : moved[s] # "waiting"
      BY <1>3 DEF Cycle
    <3>2. phase' = moved
      BY <1>3, <2>1, <3>1, SignalEffect DEF Cycle, PauseOnError
    <3>3. cycle' \in 0..(CycleMod - 1)
      BY <1>3 DEF Cycle
    <3>4. TypeOK'
      BY <1>3, <2>1, <3>2, <3>3 DEF Cycle, PauseOnError
    <3>5. ThreadInv' /\ CallInv'
      BY <1>3, <2>1, <3>2 DEF Cycle, PauseOnError
    <3>6. StepInv'
      BY <1>3, <2>1, <3>2 DEF Cycle, PauseOnError
    <3> QED
      BY <3>4, <3>5, <3>6
  <2>2. CASE ~cpuFailed'
    <3>1. cycle' \in 0..(CycleMod - 1)
      BY <1>3 DEF Cycle
    <3>2. TypeOK'
      BY <1>3, <2>2, <3>1 DEF Cycle, NoError
    <3>3. ThreadInv' /\ CallInv'
      BY <1>3, <2>2 DEF Cycle, NoError
    <3>4. StepInv'
      BY <1>3, <2>2 DEF Cycle, NoError
    <3> QED
      BY <3>2, <3>3, <3>4
  <2> QED
    BY <2>1, <2>2
<1>4. CASE Pace(t)
  BY <1>4 DEF Pace
<1>5. CASE SpuriousWake(t)
  BY <1>5 DEF SpuriousWake
<1> QED
  BY <1>1, <1>2, <1>3, <1>4, <1>5 DEF Run

(***************************************************************************)
(* The invariant holds in every reachable state of an emulator with one    *)
(* caller.                                                                 *)
(***************************************************************************)
THEOREM Invariance == OneCaller => (Spec => []Inv)
<1> SUFFICES ASSUME OneCaller PROVE Spec => []Inv
  OBVIOUS
<1>1. Inv /\ [Next]_vars => Inv'
  <2> SUFFICES ASSUME Inv, [Next]_vars PROVE Inv'
    OBVIOUS
  <2>1. CASE Next
    BY <2>1, CallsKeepInv, ThreadKeepsInv DEF Next
  <2>2. CASE UNCHANGED vars
    BY <2>2 DEF vars, shared, callState, Inv, TypeOK, ThreadInv, OneThread,
                CallInv, StepInv, NoMissedWakeup
  <2> QED
    BY <2>1, <2>2
<1> QED
  BY <1>1, InitInv, PTL DEF Spec

(***************************************************************************)
(* The invariant implies that nobody uses what gboy_cleanup has destroyed. *)
(***************************************************************************)
LEMMA InvIsSafe == Inv => SafeTeardown
<1> SUFFICES ASSUME Inv, ~init, NEW t \in Threads, Alive(t) PROVE FALSE
  BY DEF SafeTeardown
<1>1. ~active /\ phase[t] # "unborn"
  BY DEF Inv, ThreadInv
<1>2. PICK c \in Callers : call[c] \in {"unlocked", "joining"}
  BY <1>1 DEF Inv, ThreadInv
<1> QED
  BY <1>2 DEF Inv, CallInv

(***************************************************************************)
(* There is one emulation thread, it never sleeps through a command, and   *)
(* gboy_cleanup destroys the mutex only when the thread is gone.           *)
(***************************************************************************)
THEOREM Safety == OneCaller => (Spec => [](OneThread /\ NoMissedWakeup /\ SafeTeardown))
<1>1. Inv => OneThread /\ NoMissedWakeup
  BY DEF Inv, ThreadInv, StepInv
<1> QED
  BY <1>1, InvIsSafe, Invariance, PTL

(***************************************************************************)
(* The variables keep their types; in particular the counter of pending    *)
(* steps, which is unsigned in the code, is never decremented below zero.  *)
(***************************************************************************)
THEOREM TypeCorrect == OneCaller => (Spec => []TypeOK)
<1>1. Inv => TypeOK
  BY DEF Inv
<1> QED
  BY <1>1, Invariance, PTL

(***************************************************************************)
(* gboy_poweron never makes a thread while an older one still runs.        *)
(***************************************************************************)
THEOREM SingleThread == OneCaller => (Spec => []OneThread)
<1>1. Inv => OneThread
  BY DEF Inv, ThreadInv
<1> QED
  BY <1>1, Invariance, PTL

(***************************************************************************)
(* gboy_cleanup destroys mutex and condition only without a thread.        *)
(***************************************************************************)
THEOREM TeardownIsSafe == OneCaller => (Spec => []SafeTeardown)
<1>1. Inv => SafeTeardown
  BY InvIsSafe
<1> QED
  BY <1>1, Invariance, PTL

(***************************************************************************)
(* Every step of Gboy is a step of the stepping machine of gboy.h, or      *)
(* changes nothing that machine can see.                                   *)
(***************************************************************************)
LEMMA CallsRefine ==
  ASSUME Inv, NEW c \in Callers, Request(c) \/ Finish(c)
  PROVE  [Abstract!Next]_(Abstract!vars)
<1> USE DEF Abstract!Next, Abstract!vars, Abstract!Granted
<1>1. CASE Step(c)
  BY <1>1, StepEffect DEF Step, Abstract!RequestStep
<1>2. CASE SwitchOff
  BY <1>2, StepEffect DEF SwitchOff, Abstract!Off
<1>3. ASSUME NEW s \in Speeds, SetClockSpeed(c, s)
      PROVE  Abstract!Next
  <2>1. Abstract!ChangeSpeed(s)
    BY <1>3, StepEffect DEF SetClockSpeed, Abstract!ChangeSpeed
  <2> QED
    BY <2>1
<1>4. ASSUME NEW s \in Speeds, PowerOn(c, s)
      PROVE  Abstract!Next
  <2>1. Abstract!On(s)
    BY <1>4 DEF PowerOn, Abstract!On
  <2> QED
    BY <2>1
<1>5. CASE Finish(c)
  BY <1>5 DEF Finish, BeginJoin, Join, Teardown, shared
<1>6. CASE Cleanup(c) \/ PowerOff(c)
  BY <1>2, <1>6 DEF Cleanup, PowerOff, shared
<1> QED
  BY <1>1, <1>3, <1>4, <1>5, <1>6 DEF Request

LEMMA ThreadRefines ==
  ASSUME Inv, NEW t \in Threads, Run(t) \/ SpuriousWake(t)
  PROVE  [Abstract!Next]_(Abstract!vars)
<1> USE DEF Abstract!Next, Abstract!vars, AtLock, InPauseBranch, MustWait, StepsLeft
<1> pendingSteps \in Nat
  BY BoundsAssumption DEF Inv, TypeOK
<1>1. CASE Wait(t) \/ Pace(t) \/ SpuriousWake(t)
  BY <1>1 DEF Wait, Pace, SpuriousWake, shared
<1>2. CASE Exit(t)
  BY <1>2 DEF Exit, Abstract!Drain
<1>3. CASE Cycle(t)
  <2>1. CASE cpuFailed'
    <3>1. /\ clockSpeed' = 0
          /\ clockSpeed = 0 => pendingSteps' = pendingSteps
          /\ clockSpeed # 0 => pendingSteps' = StepsLeft(t)
      BY <1>3, <2>1 DEF Cycle, PauseOnError
    <3>2. /\ active /\ active' = active
          /\ cycle' = (cycle + 1) % CycleMod
          /\ InPauseBranch(t) => pendingSteps > 0
      BY <1>3 DEF Cycle
    <3>3. Abstract!Cycle
      BY <2>1, <3>1, <3>2 DEF Abstract!Cycle
    <3> QED
      BY <3>3
  <2>2. CASE ~cpuFailed'
    BY <1>3, <2>2 DEF Cycle, NoError, Abstract!Cycle
  <2> QED
    BY <2>1, <2>2
<1> QED
  BY <1>1, <1>2, <1>3 DEF Run

(***************************************************************************)
(* The threads, with mutex, condition, wake-ups and joins, do what the     *)
(* stepping machine does: every behaviour starts in one of its initial     *)
(* states and every step is one of its steps or leaves it alone.           *)
(***************************************************************************)
THEOREM Refinement ==
  OneCaller => (Spec => Abstract!Init /\ [][Abstract!Next]_(Abstract!vars))
<1> SUFFICES ASSUME OneCaller
             PROVE Spec => Abstract!Init /\ [][Abstract!Next]_(Abstract!vars)
  OBVIOUS
<1>1. Init => Abstract!Init
  BY DEF Init, Abstract!Init
<1>2. Inv /\ [Next]_vars => [Abstract!Next]_(Abstract!vars)
  <2> SUFFICES ASSUME Inv, [Next]_vars PROVE [Abstract!Next]_(Abstract!vars)
    OBVIOUS
  <2>1. CASE Next
    BY <2>1, CallsRefine, ThreadRefines DEF Next
  <2>2. CASE UNCHANGED vars
    BY <2>2 DEF vars, shared, Abstract!vars
  <2> QED
    BY <2>1, <2>2
<1> QED
  BY <1>1, <1>2, Invariance, PTL DEF Spec
=============================================================================
