------------------------------ MODULE Stepper ------------------------------
(***************************************************************************)
(* What gboy.h promises of an emulator, without its thread.  Powering on   *)
(* starts execution, a clock speed other than zero lets it run freely, and *)
(* at clock speed zero ("paused") every cycle costs one step token that a  *)
(* call has granted.  Mutex, condition variable, wake-ups and the joining  *)
(* of the thread do not appear: module Gboy is shown to implement this one.*)
(***************************************************************************)
EXTENDS Integers

CONSTANTS
  Speeds,       \* clock speeds a call may ask for; 0 pauses
  CycleMod      \* the cycle counter is kept modulo this number

VARIABLES
  powered,      \* between a successful power on and the next power off
  speed,        \* current clock speed
  tokens,       \* steps granted and not consumed yet
  failed,       \* the CPU has reported an error, which it never takes back
  cycle         \* cycles executed, modulo CycleMod

vars == <<powered, speed, tokens, failed, cycle>>

Init ==
  /\ powered = FALSE
  /\ speed = 0
  /\ tokens = 0
  /\ failed = FALSE
  /\ cycle = 0

\* Creating the thread may fail, which leaves the emulator off.
On(s) ==
  /\ ~powered
  /\ powered' \in BOOLEAN
  /\ speed' = s
  /\ UNCHANGED <<tokens, failed, cycle>>

Granted == IF speed = 0 THEN tokens + 1 ELSE tokens

Off ==
  /\ powered
  /\ powered' = FALSE
  /\ tokens' = Granted
  /\ UNCHANGED <<speed, failed, cycle>>

RequestStep ==
  /\ powered
  /\ speed = 0
  /\ tokens' = Granted
  /\ UNCHANGED <<powered, speed, failed, cycle>>

ChangeSpeed(s) ==
  /\ powered
  /\ speed' = s
  /\ tokens' = Granted
  /\ UNCHANGED <<powered, failed, cycle>>

\* One cycle.  At speed zero it costs a token, unless the CPU has failed: then
\* the error handler grants it back.  A token may also go to the first cycle
\* after a resume, and a failing cycle pauses the emulator.
Cycle ==
  /\ powered
  /\ speed = 0 => tokens > 0
  /\ failed' \in BOOLEAN
  /\ failed => failed'
  /\ speed' = IF failed' THEN 0 ELSE speed
  /\ \/ /\ tokens > 0
        /\ tokens' = IF failed' /\ speed = 0 THEN tokens ELSE tokens - 1
     \/ /\ speed # 0
        /\ tokens' = tokens
  /\ cycle' = (cycle + 1) % CycleMod
  /\ UNCHANGED powered

\* A stopping emulator takes one token with it; it executes nothing.
Drain ==
  /\ ~powered
  /\ tokens > 0
  /\ tokens' = tokens - 1
  /\ UNCHANGED <<powered, speed, failed, cycle>>

Next ==
  \/ \E s \in Speeds : On(s) \/ ChangeSpeed(s)
  \/ Off
  \/ RequestStep
  \/ Cycle
  \/ Drain

\* An emulator that may execute a cycle does not stay idle for ever.
Spec == Init /\ [][Next]_vars /\ WF_vars(Cycle)
=============================================================================
