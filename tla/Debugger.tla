------------------------------ MODULE Debugger ------------------------------
(***************************************************************************)
(* The debugger window of src/debugger.c between two threads.  The         *)
(* emulation thread stores the registers into slots after every cycle      *)
(* (debugger_update_slot_values, called in emulation_loop under            *)
(* emulation_mutex); the UI thread opens and closes the window, switches   *)
(* its mode, and redraws the text of the sections whose slots are dirty    *)
(* (debugger_update).  Two read-write locks protect mode and slots.  They  *)
(* are made by debugger_open and destroyed by debugger_close, and only     *)
(* "the window is not NULL" tells the emulation thread that they exist.    *)
(*                                                                         *)
(* A lock that is taken, used and given back with nothing else in between  *)
(* is one step; the emulation thread's two critical sections are steps of  *)
(* their own, because the UI thread may close the debugger inside them.    *)
(* What the registers hold is a function Reading of the number of cycles   *)
(* that were executed.                                                     *)
(***************************************************************************)
EXTENDS Integers

CONSTANTS
  Modes, InitialMode,   \* enum debug_mode, DEBUG_CPU
  SlotCount,            \* DEBUGGER_SLOT_COUNT
  InUse,                \* mode |-> slots that are copied, cpu_slots_in_use and ppu_slots_in_use
  Sections,             \* mode |-> section |-> its slots
  Filled,               \* mode |-> slots that debugger_update_slot_values fills
  Reading(_, _, _),     \* mode, cycles executed, slot |-> value read for it
  MaxTick,              \* bound: cycles executed
  MaxSpeed,             \* bound: clock speeds 0..MaxSpeed
  MaxSteps              \* bound: pending_steps

ASSUME ModesAssumption == InitialMode \in Modes
ASSUME SlotsAssumption ==
  /\ SlotCount \in Nat \ {0}
  /\ InUse \in [Modes -> 0..SlotCount]
  /\ Filled \in [Modes -> SUBSET (0..(SlotCount - 1))]
  /\ \A m \in Modes : \A i \in DOMAIN Sections[m] : Sections[m][i] \subseteq 0..(SlotCount - 1)
\* What is copied for a section is what is stored for it.
ASSUME FilledAssumption ==
  \A m \in Modes : \A i \in DOMAIN Sections[m] : \A s \in Sections[m][i] :
    s < InUse[m] => s \in Filled[m]
ASSUME BoundsAssumption == MaxTick \in Nat /\ MaxSpeed \in Nat /\ MaxSteps \in Nat

VARIABLES
  speed, steps,       \* clock speed and pending_steps of gboy.c
  tick,               \* cycles executed
  held,               \* what debugger_open has acquired and not given back
  mode, modeDirty,
  slotVal, slotDirty, \* slot_values
  text,               \* section |-> the values its text box shows
  bar,                \* the mode that the bar shows as selected
  modeLocked, slotsLocked,  \* the live lock is held across steps
  emu, emuMode,       \* where the emulation thread is, the mode it read
  ui, then,           \* where the UI thread is, and where an update leads it
  cached,             \* cached_clock_speed of the space key
  uiMode, uiDirty,    \* debugger_update's copies of mode and mode_dirty
  since,              \* cycles executed when the UI thread began to read registers
  local, localDirty   \* debugger_update's copy of the slots

emuVars == <<emu, emuMode>>
slotVars == <<slotVal, slotDirty>>
modeVars == <<mode, modeDirty>>
drawVars == <<text, bar, uiMode, uiDirty, local, localDirty>>
locks == <<modeLocked, slotsLocked>>
clock == <<speed, steps, cached>>
vars == <<clock, tick, held, modeVars, slotVars, drawVars, locks, emuVars, ui, then,
          since>>

Slots == 0..(SlotCount - 1)
Resources == {"locks", "window", "boxes", "callback"}

\* debugger_is_open
IsOpen == "window" \in held

\* emulation_mutex is free: the emulation thread is between two cycles.
EmulationMutexFree == emu = "free"

TypeOK ==
  /\ speed \in 0..MaxSpeed /\ cached \in 0..MaxSpeed /\ steps \in 0..MaxSteps
  /\ tick \in 0..MaxTick /\ since \in 0..MaxTick
  /\ held \subseteq Resources
  /\ mode \in Modes /\ bar \in Modes /\ uiMode \in Modes /\ emuMode \in Modes
  /\ modeDirty \in BOOLEAN /\ uiDirty \in BOOLEAN
  /\ DOMAIN slotVal = Slots /\ slotDirty \in [Slots -> BOOLEAN]
  /\ DOMAIN local = Slots /\ localDirty \in [Slots -> BOOLEAN]
  /\ modeLocked \in BOOLEAN /\ slotsLocked \in BOOLEAN
  /\ emu \in {"free", "cycle", "asked", "mode", "values", "store"}
  /\ ui \in {"idle", "window", "boxes", "ask", "register", "speed", "store", "draw",
             "clear", "copy", "sections", "cleanup"}
  /\ then \in {"register", "draw"}

\* m_ctx is zeroed; the main program powers the machine on paused.
Init ==
  /\ speed = 0 /\ steps = 0 /\ cached = 0
  /\ tick = 0 /\ since = 0
  /\ held = {}
  /\ mode = InitialMode /\ modeDirty = FALSE
  /\ slotVal = [s \in Slots |-> 0] /\ slotDirty = [s \in Slots |-> FALSE]
  /\ text = <<>> /\ bar = InitialMode /\ uiMode = InitialMode /\ uiDirty = FALSE
  /\ local = slotVal /\ localDirty = slotDirty
  /\ modeLocked = FALSE /\ slotsLocked = FALSE
  /\ emu = "free" /\ emuMode = InitialMode
  /\ ui = "idle" /\ then = "draw"

-----------------------------------------------------------------------------
(* debugger_update_slot_values.                                            *)

\* Compare every slot of the mode with the value that was read, and store and mark
\* the ones that differ.  vals holds the values read.
StoreValues(m, vals) ==
  LET changed == {s \in Filled[m] : slotVal[s] # vals[s]}
  IN /\ slotVal' = [s \in Slots |-> IF s \in changed THEN vals[s] ELSE slotVal[s]]
     /\ slotDirty' = [s \in Slots |-> slotDirty[s] \/ s \in changed]

\* What the reader of the slots of mode m gets while the registers go from their
\* values after t1 cycles to the ones after t2: each is read before or after that.
Readings(m, t1, t2) ==
  {[s \in Filled[m] |-> Reading(m, after[s], s)] : after \in [Filled[m] -> {t1, t2}]}

(* The emulation thread: a cycle with emulation_mutex, which ends with the *)
(* update.                                                                 *)

\* A thread that waits in its pause consumes a step, which set_clock_speed grants
\* as well.  An error pauses the machine by set_clock_speed(0).
EmuCycle ==
  /\ emu = "free"
  /\ tick < MaxTick
  /\ speed > 0 \/ steps > 0
  /\ tick' = tick + 1
  /\ \E used \in {0, 1}, error \in BOOLEAN :
       /\ used <= steps /\ (speed = 0 => used = 1)
       /\ steps' = steps - used + (IF error /\ speed = 0 THEN 1 ELSE 0)
       /\ speed' = IF error THEN 0 ELSE speed
  /\ emu' = "cycle"
  /\ UNCHANGED <<cached, held, modeVars, slotVars, drawVars, locks, emuMode, ui, then,
                 since>>

EmuAsk ==
  /\ emu = "cycle"
  /\ emu' = IF IsOpen THEN "asked" ELSE "free"
  /\ UNCHANGED <<clock, tick, held, modeVars, slotVars, drawVars, locks, emuMode, ui,
                 then, since>>

EmuLockMode ==
  /\ emu = "asked"
  /\ ~modeLocked
  /\ modeLocked' = ("locks" \in held)
  /\ emu' = "mode"
  /\ UNCHANGED <<clock, tick, held, modeVars, slotVars, drawVars, slotsLocked, emuMode,
                 ui, then, since>>

EmuReadMode ==
  /\ emu = "mode"
  /\ emuMode' = mode
  /\ modeLocked' = FALSE
  /\ emu' = "values"
  /\ UNCHANGED <<clock, tick, held, modeVars, slotVars, drawVars, slotsLocked, ui, then,
                 since>>

EmuLockSlots ==
  /\ emu = "values"
  /\ ~slotsLocked
  /\ slotsLocked' = ("locks" \in held)
  /\ emu' = "store"
  /\ UNCHANGED <<clock, tick, held, modeVars, slotVars, drawVars, modeLocked, emuMode,
                 ui, then, since>>

EmuStore ==
  /\ emu = "store"
  /\ \E vals \in Readings(emuMode, tick, tick) : StoreValues(emuMode, vals)
  /\ slotsLocked' = FALSE
  /\ emu' = "free" /\ emuMode' = InitialMode
  /\ UNCHANGED <<clock, tick, held, modeVars, drawVars, modeLocked, ui, then, since>>

-----------------------------------------------------------------------------
(* debugger_open: locks, window, text boxes and event handler, a first     *)
(* update if the machine is paused, render callback.  Whatever fails leads *)
(* to err_cleanup.                                                         *)

\* One of the two locks may exist when the other could not be made.
OpenLocks ==
  /\ ui = "idle" /\ ~IsOpen
  /\ mode' = InitialMode /\ modeDirty' = TRUE
  /\ \/ held' = held \cup {"locks"} /\ ui' = "window"
     \/ held' \in {held, held \cup {"locks"}} /\ ui' = "cleanup"
  /\ UNCHANGED <<clock, tick, slotVars, drawVars, locks, emuVars, then, since>>

OpenWindow ==
  /\ ui = "window"
  /\ \/ held' = held \cup {"window"} /\ ui' = "boxes"
     \/ held' = held /\ ui' = "cleanup"
  /\ UNCHANGED <<clock, tick, modeVars, slotVars, drawVars, locks, emuVars, then, since>>

\* textbox_create for the labels and the contents, whose text is empty.  When one
\* fails, the ones before it exist.
OpenBoxes ==
  /\ ui = "boxes"
  /\ held' = held \cup {"boxes"}
  /\ text' = <<>>
  /\ ui' \in {"ask", "cleanup"}
  /\ UNCHANGED <<clock, tick, modeVars, slotVars, bar, uiMode, uiDirty, local, localDirty,
                 locks, emuVars, then, since>>

\* if (gboy_get_clock_speed() == 0) debugger_update_slot_values()
OpenAsk ==
  /\ ui = "ask"
  /\ EmulationMutexFree
  /\ IF speed = 0
     THEN ui' = "store" /\ then' = "register" /\ since' = tick
     ELSE ui' = "register" /\ UNCHANGED <<then, since>>
  /\ UNCHANGED <<clock, tick, held, modeVars, slotVars, drawVars, locks, emuVars>>

OpenRegister ==
  /\ ui = "register"
  /\ then' = "draw" /\ since' = 0
  /\ \/ held' = held \cup {"callback"} /\ ui' = "idle"
     \/ held' = held /\ ui' = "cleanup"
  /\ UNCHANGED <<clock, tick, modeVars, slotVars, drawVars, locks, emuVars>>

\* Mutant of CleanupOrder: the locks go before the window.
MutCleanupLocksFirst == [boxes |-> 1, locks |-> 2, window |-> 3]

CleanupOrder == [boxes |-> 1, window |-> 2, locks |-> 3]

\* What err_cleanup would destroy next.
NextToGo(r) ==
  /\ r \in held \cap DOMAIN CleanupOrder
  /\ \A q \in held \cap DOMAIN CleanupOrder : CleanupOrder[r] <= CleanupOrder[q]

\* err_cleanup of debugger_open, which debugger_close repeats line by line: what
\* exists is destroyed.  The locks are, whoever holds them.
Cleanup ==
  /\ ui = "cleanup"
  /\ \/ /\ held \cap DOMAIN CleanupOrder = {}
        /\ ui' = "idle"
        /\ UNCHANGED <<held, locks>>
     \/ \E r \in held : /\ NextToGo(r)
                        /\ held' = held \ {r}
                        /\ ui' = IF held' \cap DOMAIN CleanupOrder = {} THEN "idle" ELSE ui
                        /\ IF r = "locks"
                           THEN modeLocked' = FALSE /\ slotsLocked' = FALSE
                           ELSE UNCHANGED locks
  /\ UNCHANGED <<clock, tick, modeVars, slotVars, drawVars, emuVars, then, since>>

\* debugger_close: by its own window, by its grave key, or by gboy_cleanup.
Close ==
  /\ ui = "idle" /\ IsOpen
  /\ held' = held \ {"callback"}
  /\ ui' = "cleanup"
  /\ UNCHANGED <<clock, tick, modeVars, slotVars, drawVars, locks, emuVars, then, since>>

-----------------------------------------------------------------------------
(* The UI thread's own update: the registers are read without              *)
(* emulation_mutex, so a granted step may run meanwhile.                   *)

UiStore ==
  /\ ui = "store"
  /\ ~modeLocked /\ ~slotsLocked
  /\ \E vals \in Readings(mode, since, tick) : StoreValues(mode, vals)
  /\ ui' = then
  /\ UNCHANGED <<clock, tick, held, modeVars, drawVars, locks, emuVars, then, since>>

(* debugger_update, called by the renderer or by the mode keys.            *)

Render ==
  /\ ui = "idle" /\ "callback" \in held
  /\ ui' = "draw"
  /\ UNCHANGED <<clock, tick, held, modeVars, slotVars, drawVars, locks, emuVars, then,
                 since>>

\* Copy mode and flag.  A dirty mode redraws the bar, where the mode is selected.
FetchMode ==
  /\ ui = "draw"
  /\ uiMode' = mode /\ uiDirty' = modeDirty
  /\ bar' = IF modeDirty THEN mode ELSE bar
  /\ ui' = IF modeDirty THEN "clear" ELSE "copy"
  /\ UNCHANGED <<clock, tick, held, modeVars, slotVars, text, local, localDirty, locks,
                 emuVars, then, since>>

ClearModeDirty ==
  /\ ui = "clear"
  /\ ~modeLocked
  /\ modeDirty' = FALSE
  /\ ui' = "copy"
  /\ UNCHANGED <<clock, tick, held, mode, slotVars, drawVars, locks, emuVars, then, since>>

\* Mutant of CopySlots: the flags are cleared by the next update of the window.
MutCopySlotsThenClear ==
  /\ ui = "copy"
  /\ ~slotsLocked
  /\ slotDirty' = [s \in Slots |-> s >= InUse[uiMode] /\ slotDirty[s]]
  /\ localDirty' = slotDirty'
  /\ local' = [s \in Slots |-> IF s < InUse[uiMode] THEN slotVal[s] ELSE 0]
  /\ ui' = "sections"
  /\ UNCHANGED <<clock, tick, held, modeVars, slotVal, text, bar, uiMode, uiDirty, locks,
                 emuVars, then, since>>

CopySlots ==
  /\ ui = "copy"
  /\ ~slotsLocked
  /\ local' = [s \in Slots |-> IF s < InUse[uiMode] THEN slotVal[s] ELSE 0]
  /\ localDirty' = [s \in Slots |-> s < InUse[uiMode] /\ slotDirty[s]]
  /\ slotDirty' = [s \in Slots |-> s >= InUse[uiMode] /\ slotDirty[s]]
  /\ ui' = "sections"
  /\ UNCHANGED <<clock, tick, held, modeVars, slotVal, text, bar, uiMode, uiDirty, locks,
                 emuVars, then, since>>

\* debugger_is_any_slot_dirty
AnySlotDirty(slots) == \E s \in slots : localDirty[s]

SectionText(slots) == [s \in slots |-> local[s]]

\* The text boxes are shared by the modes: a dirty mode sets them all.  The copies
\* end with the call.
DrawSections ==
  /\ ui = "sections"
  /\ text' = [i \in DOMAIN Sections[uiMode] |->
                IF uiDirty \/ AnySlotDirty(Sections[uiMode][i])
                THEN SectionText(Sections[uiMode][i])
                ELSE text[i]]
  /\ ui' = "idle"
  /\ uiMode' = InitialMode /\ uiDirty' = FALSE
  /\ local' = [s \in Slots |-> 0] /\ localDirty' = [s \in Slots |-> FALSE]
  /\ since' = 0
  /\ UNCHANGED <<clock, tick, held, modeVars, slotVars, bar, locks, emuVars, then>>

-----------------------------------------------------------------------------
(* The keys of the debugger window.                                        *)

\* Mutant of PressMode: the lock is kept for the whole handler.
MutPressModeHolding(m) ==
  /\ ui = "idle" /\ IsOpen
  /\ ~modeLocked
  /\ mode' = m /\ modeDirty' = TRUE
  /\ modeLocked' = TRUE
  /\ ui' = "speed"
  /\ UNCHANGED <<clock, tick, held, slotVars, drawVars, slotsLocked, emuVars, then, since>>

\* F1 and F2.
PressMode(m) ==
  /\ ui = "idle" /\ IsOpen
  /\ ~modeLocked
  /\ mode' = m /\ modeDirty' = TRUE
  /\ ui' = "speed"
  /\ UNCHANGED <<clock, tick, held, slotVars, drawVars, locks, emuVars, then, since>>

\* Mutant of AskSpeed: the speed is read without emulation_mutex.
MutAskSpeedUnlocked ==
  /\ ui = "speed"
  /\ IF speed = 0
     THEN ui' = "store" /\ since' = tick
     ELSE ui' = "idle" /\ UNCHANGED since
  /\ UNCHANGED <<clock, tick, held, modeVars, slotVars, drawVars, locks, emuVars, then>>

\* "If paused, force debugger update"
AskSpeed ==
  /\ ui = "speed"
  /\ EmulationMutexFree
  /\ IF speed = 0
     THEN ui' = "store" /\ since' = tick
     ELSE ui' = "idle" /\ UNCHANGED since
  /\ UNCHANGED <<clock, tick, held, modeVars, slotVars, drawVars, locks, emuVars, then>>

\* gboy_set_clock_speed: paused, it grants a step.
SetClockSpeed(s) ==
  /\ ui = "idle" /\ IsOpen /\ EmulationMutexFree
  /\ speed = 0 => steps < MaxSteps
  /\ steps' = IF speed = 0 THEN steps + 1 ELSE steps
  /\ speed' = s
  /\ UNCHANGED <<tick, held, modeVars, slotVars, drawVars, locks, emuVars, ui, then,
                 since>>

\* Space.  The speed is asked for, set, and cached: for the emulation thread these
\* are one step unless an error pauses the machine after the question, and then
\* the pause is set once more.
Play ==
  /\ speed = 0
  /\ SetClockSpeed(cached)
  /\ UNCHANGED cached

Pause ==
  /\ speed > 0
  /\ SetClockSpeed(0)
  /\ cached' = speed

\* Right, paused: gboy_step.
StepKey ==
  /\ ui = "idle" /\ IsOpen /\ EmulationMutexFree
  /\ speed = 0 /\ steps < MaxSteps
  /\ steps' = steps + 1
  /\ UNCHANGED <<speed, cached, tick, held, modeVars, slotVars, drawVars, locks, emuVars,
                 ui, then, since>>

\* Right, running.
Faster ==
  /\ speed > 0 /\ speed < MaxSpeed
  /\ SetClockSpeed(speed + 1)
  /\ UNCHANGED cached

\* 1 to 4: fixed speeds.
SpeedKey(s) == SetClockSpeed(s) /\ UNCHANGED cached
-----------------------------------------------------------------------------
EmuNext ==
  EmuCycle \/ EmuAsk \/ EmuLockMode \/ EmuReadMode \/ EmuLockSlots \/ EmuStore

\* The rest of a call of the UI thread, once it has begun.
UiContinue ==
  \/ OpenWindow \/ OpenBoxes \/ OpenAsk \/ OpenRegister
  \/ Cleanup
  \/ UiStore \/ FetchMode \/ ClearModeDirty \/ CopySlots \/ DrawSections
  \/ AskSpeed

UiNext ==
  \/ OpenLocks \/ Close \/ Render
  \/ UiContinue
  \/ \E m \in Modes : PressMode(m)
  \/ Play \/ Pause \/ StepKey \/ Faster
  \/ \E s \in 1..MaxSpeed : SpeedKey(s)

Next == EmuNext \/ UiNext

\* Both threads are scheduled; the user need not do anything.
Fairness == WF_vars(EmuNext) /\ WF_vars(UiContinue)

Spec == Init /\ [][Next]_vars /\ Fairness

-----------------------------------------------------------------------------
(* Properties.                                                             *)

\* Between two updates of the window the bar shows the mode, and the text of every
\* section shows its slots or one of them is dirty: no store of the emulation
\* thread is lost between copying the slots and clearing their flags.  Slots that
\* are not copied (the carry flag) are left out.
TextIsFresh ==
  ui = "idle" /\ IsOpen /\ ~modeDirty =>
    /\ bar = mode
    /\ \A i \in DOMAIN Sections[mode] :
         LET slots == {s \in Sections[mode][i] : s < InUse[mode]}
         IN \/ \E s \in slots : slotDirty[s]
            \/ \A s \in slots : text[i][s] = slotVal[s]

\* Every call of the UI thread returns: the threads take emulation_mutex and the
\* locks of the debugger without waiting for each other for ever.
HandlersReturn == ui # "idle" ~> ui = "idle"
=============================================================================
