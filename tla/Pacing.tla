------------------------------- MODULE Pacing -------------------------------
(***************************************************************************)
(* How emulation_loop of src/gboy.c paces itself: the target time of the   *)
(* next cycle, its correction for integer division, and the restart after  *)
(* a pause.  Time is the performance counter.  The thread's waiting and    *)
(* waking is module Gboy; here a paused thread may be let go at any time,  *)
(* for a step or because the speed was changed.                            *)
(***************************************************************************)
EXTENDS Integers

CONSTANTS
  Freq,         \* SDL_GetPerformanceFrequency
  Speeds,       \* clock speeds that are set; 0 pauses
  Uint32Size,   \* prev_clock_speed keeps the speed modulo this (2^32)
  MaxTime       \* bound on the performance counter

ASSUME FreqAssumption == Freq \in Nat /\ MaxTime \in Nat /\ Uint32Size \in Nat \ {0}
ASSUME SpeedsAssumption == Speeds \subseteq Nat /\ 0 \in Speeds

VARIABLES
  now,          \* SDL_GetPerformanceCounter
  clockSpeed,   \* m_ctx.clock_speed
  phase,        \* where the thread is in its loop
  prevSpeed, target, tickIncrement, tickRemainder, fracAccum,  \* its locals
  pacedSpeed,   \* history: the clock speed of the cycles counted below
  base,         \* history: when these cycles began
  carry,        \* history: fracAccum at that time
  count         \* history: cycles paced since then

pace == <<prevSpeed, tickIncrement, tickRemainder>>
history == <<pacedSpeed, base, carry, count>>
vars == <<now, clockSpeed, phase, pace, target, fracAccum, history>>

TypeOK ==
  /\ now \in Nat
  /\ clockSpeed \in Speeds
  /\ phase \in {"lock", "paused", "advance", "spin"}
  /\ prevSpeed \in Nat /\ tickIncrement \in Nat /\ tickRemainder \in Nat
  /\ target \in Nat /\ fracAccum \in Nat
  /\ pacedSpeed \in Speeds /\ base \in Nat /\ carry \in Nat /\ count \in Nat

Init ==
  /\ now = 0
  /\ clockSpeed \in Speeds
  /\ phase = "lock"
  /\ prevSpeed = 0 /\ tickIncrement = 0 /\ tickRemainder = 0
  /\ target = now /\ fracAccum = 0
  /\ pacedSpeed = 0 /\ base = target /\ carry = 0 /\ count = 0

Tick ==
  /\ now < MaxTime
  /\ now' = now + 1
  /\ UNCHANGED <<clockSpeed, phase, pace, target, fracAccum, history>>

SetClockSpeed(s) ==
  /\ clockSpeed' = s
  /\ UNCHANGED <<now, phase, pace, target, fracAccum, history>>

-----------------------------------------------------------------------------
(* The loop.                                                               *)

\* The thread finds the speed zero and stays until a step lets it go.
Pause ==
  /\ phase = "lock"
  /\ clockSpeed = 0
  /\ phase' = "paused"
  /\ UNCHANGED <<now, clockSpeed, pace, target, fracAccum, history>>

\* Mutant of StartTarget: the target is not renewed after a pause.
MutStartTargetOld == target

\* After a pause the target is now, instead of some point in the past.
StartTarget == IF phase = "paused" THEN now ELSE target

\* Mutant of NewPace: the accumulator of the old speed is kept.
MutNewPaceKeepFrac(speed) ==
  /\ prevSpeed' = speed % Uint32Size
  /\ IF prevSpeed' # 0
     THEN /\ tickIncrement' = Freq \div prevSpeed'
          /\ tickRemainder' = Freq % prevSpeed'
     ELSE UNCHANGED <<tickIncrement, tickRemainder>>
  /\ UNCHANGED fracAccum

\* The cached speed differs from the current one: work out the new increment.
\* A speed of zero leaves the increment as it is.
NewPace(speed) ==
  /\ prevSpeed' = speed % Uint32Size
  /\ IF prevSpeed' # 0
     THEN /\ tickIncrement' = Freq \div prevSpeed'
          /\ tickRemainder' = Freq % prevSpeed'
          /\ fracAccum' = 0
     ELSE UNCHANGED <<tickIncrement, tickRemainder, fracAccum>>

\* One emulated cycle.  A CPU error inside it sets the speed to zero.
Execute ==
  /\ phase = "paused" \/ (phase = "lock" /\ clockSpeed # 0)
  /\ clockSpeed' \in {clockSpeed, 0}
  /\ target' = StartTarget
  /\ IF prevSpeed # clockSpeed'
     THEN NewPace(clockSpeed')
     ELSE UNCHANGED <<pace, fracAccum>>
  /\ phase' = "advance"
  /\ pacedSpeed' = clockSpeed'
  /\ IF pacedSpeed # clockSpeed' \/ phase = "paused"
     THEN /\ base' = IF phase = "paused" THEN now ELSE target
          /\ carry' = fracAccum' /\ count' = 0
     ELSE UNCHANGED <<base, carry, count>>
  /\ UNCHANGED now

\* Mutant of NextTarget: the remainder of the division is lost.
MutNextTargetNoCarry ==
  /\ target' = target + tickIncrement
  /\ UNCHANGED fracAccum

\* The next target; the remainder of the division is carried and paid back.
NextTarget ==
  LET frac == fracAccum + tickRemainder
  IN  IF frac >= prevSpeed
      THEN fracAccum' = frac - prevSpeed /\ target' = target + tickIncrement + 1
      ELSE fracAccum' = frac /\ target' = target + tickIncrement

Advance ==
  /\ phase = "advance"
  /\ phase' = "spin"
  /\ IF prevSpeed # 0
     THEN NextTarget /\ count' = count + 1
     ELSE UNCHANGED <<target, fracAccum, count>>
  /\ UNCHANGED <<now, clockSpeed, pace, pacedSpeed, base, carry>>

\* The busy loop ends once the target is reached.
SpinDone == now >= target

Spin ==
  /\ phase = "spin"
  /\ SpinDone
  /\ phase' = "lock"
  /\ UNCHANGED <<now, clockSpeed, pace, target, fracAccum, history>>

Next ==
  \/ Tick
  \/ \E s \in Speeds : SetClockSpeed(s)
  \/ Pause \/ Execute \/ Advance \/ Spin

Spec == Init /\ [][Next]_vars

-----------------------------------------------------------------------------
(* Properties.                                                             *)

\* The correction for drift works: after any number of cycles at one speed the
\* target is less than one tick before the exact deadline, count / speed, and
\* never after it.
NoDrift ==
  pacedSpeed # 0 =>
    LET behind == count * Freq + carry - pacedSpeed * (target - base)
    IN  0 <= behind /\ behind < pacedSpeed

\* The emulator never runs ahead of the clock, and does not make up for the time
\* of a pause: when a cycle starts, the cycles before it have had their time,
\* but for a single tick.
NeverEarly ==
  phase = "lock" /\ pacedSpeed # 0 =>
    pacedSpeed * (now + 1 - base) > count * Freq

\* Every speed fits the 32 bits of the cached copy.
SpeedsFit == \A s \in Speeds : s < Uint32Size

\* The inductive invariant: the accumulator is what is owed, exactly.
Inv ==
  /\ TypeOK
  /\ prevSpeed = pacedSpeed
  /\ prevSpeed # 0 =>
       /\ tickIncrement = Freq \div prevSpeed
       /\ tickRemainder = Freq % prevSpeed
       /\ fracAccum < prevSpeed
       /\ prevSpeed * (target - base) + fracAccum = count * Freq + carry
  /\ phase = "lock" => now >= target
=============================================================================
