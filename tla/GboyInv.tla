------------------------------ MODULE GboyInv ------------------------------
(***************************************************************************)
(* The inductive invariant of Gboy for one caller: what every state of the *)
(* emulation thread implies for the flag, the handle and the step counter. *)
(***************************************************************************)
EXTENDS Gboy

\* The API is called by one thread, as it is in this program.
OneCaller == \A c, d \in Callers : c = d

\* Only the thread in the handle exists; it runs while the flag is set.  With
\* the flag clear there is a thread only while a caller is about to join it.
ThreadInv ==
  /\ OneThread
  /\ active => init /\ \A c \in Callers : call[c] = "idle"
  /\ ~active =>
       \A t \in Threads : phase[t] # "unborn" =>
         \E c \in Callers : call[c] \in {"unlocked", "joining"}
  /\ \A t \in Threads : phase[t] = "exited" => ~active

\* A caller that joins waits for the thread in the handle.
CallInv ==
  \A c \in Callers :
    /\ call[c] # "idle" => init
    /\ call[c] = "unlocked" => handle \in Threads
    /\ call[c] = "joining" => joinee[c] = handle /\ handle \in Threads

\* The reason no wake-up is lost: a thread that is, or will be, in the pause
\* branch finds a step unless it is powered on and paused.
StepInv ==
  /\ NoMissedWakeup
  /\ \A t \in Threads :
       /\ phase[t] = "awake" /\ pendingSteps = 0 => active /\ clockSpeed = 0
       /\ Alive(t) /\ ~active /\ clockSpeed = 0 => pendingSteps > 0

Inv == TypeOK /\ ThreadInv /\ CallInv /\ StepInv
=============================================================================
