----------------------------- MODULE MCDebugger -----------------------------
(***************************************************************************)
(* Instances of Debugger for TLC: three slots in one or two sections.  As  *)
(* in the code the slots that are copied for the CPU window lack its last  *)
(* one.                                                                    *)
(***************************************************************************)
EXTENDS Debugger

VARIABLES
  forced,   \* history: a mode key's update of the paused machine is under way
  closed    \* history: the window was destroyed since the emulation thread's update saw it

MCModes == {"cpu", "ppu"}
MCInUse == [m \in MCModes |-> 2]
MCFilled == [m \in MCModes |-> IF m = "cpu" THEN 0..2 ELSE 0..1]
MCSections ==
  [m \in MCModes |-> IF m = "cpu" THEN <<{0}, {1, 2}>> ELSE <<{0, 1}>>]

\* The values of the two modes overlap.
MCReading(m, t, s) == IF m = "cpu" THEN (t + s) % 2 ELSE 1 + ((t + s) % 2)

\* The emulation thread is in debugger_update_slot_values, behind the question whether
\* the debugger is open.
Storing == emu \in {"asked", "mode", "values", "store"}

MCInit == Init /\ forced = FALSE /\ closed = FALSE
MCNext ==
  /\ Next
  /\ forced' = (ui' # "idle" /\ (forced \/ (ui = "store" /\ then = "draw")))
  /\ closed' = (Storing' /\ (closed \/ ~IsOpen'))
MCSpec == MCInit /\ [][MCNext]_<<vars, forced, closed>> /\ Fairness

\* The locks are there when the emulation thread asks for them (debugger.c:216, 244), and
\* are not taken from it inside its two critical sections, as long as the window that it
\* saw has not been destroyed since: the window goes before the locks, in err_cleanup and
\* in debugger_close.  Once it has been, nothing is promised: the question at
\* debugger.c:214 is asked without a lock, so that a close may destroy both locks before
\* they are asked for, or while they are held.
LocksLastWhileOpen ==
  Storing /\ ~closed =>
    /\ "locks" \in held
    /\ emu = "mode" => modeLocked
    /\ emu = "store" => slotsLocked

\* A mode key pressed while the machine is paused leaves a window that shows the
\* registers of the new mode, read since the key was pressed, although the
\* emulation thread may be storing the ones of the old mode, or execute a step
\* that was granted before.
ForcedUpdate ==
  [][forced /\ ui' = "idle" =>
       \A i \in DOMAIN Sections[mode] :
         \A s \in {x \in Sections[mode][i] : x < InUse[mode]} :
           \E t \in since..tick : text'[i][s] = Reading(mode, t, s)]_<<vars, forced, closed>>
=============================================================================
