----------------------------- MODULE DebuggerInv -----------------------------
(***************************************************************************)
(* The inductive invariant of Debugger and of the history of MCDebugger.   *)
(***************************************************************************)
EXTENDS MCDebugger

\* The slots of a section whose values are copied.
Shown(m, i) == {s \in Sections[m][i] : s < InUse[m]}

\* debugger_open has not returned yet.
Opening ==
  ui \in {"window", "boxes", "ask", "register"} \/ (ui = "store" /\ then = "register")

\* debugger_update, or a mode key, is at work.
Updating ==
  ui \in {"draw", "clear", "copy", "sections", "speed"} \/ (ui = "store" /\ then = "draw")

\* What exists when: the window stands on its locks, and a render callback on its window.
HeldInv ==
  /\ "window" \in held => "locks" \in held
  /\ ui = "window" => "locks" \in held
  /\ Opening /\ ui # "window" => "window" \in held
  /\ Updating => "window" \in held
  /\ "callback" \in held => "window" \in held
  /\ Opening \/ ui = "cleanup" => "callback" \notin held

\* A debugger that is being opened draws everything at its first update.
OpeningInv ==
  /\ then \in {"register", "draw"}
  /\ then = "register" => ui \in {"store", "register"}
  /\ Opening => modeDirty

\* The text of a section is the value of its slots, unless one of them is dirty.
Fresh ==
  /\ bar = mode
  /\ \A i \in DOMAIN Sections[mode] :
       \/ \E s \in Shown(mode, i) : slotDirty[s]
       \/ \A s \in Shown(mode, i) : text[i][s] = slotVal[s]

FreshInv == ui \notin {"clear", "copy", "sections"} /\ IsOpen /\ ~modeDirty => Fresh

\* While the window is updated its mode does not change; a store that comes between
\* the copy and the drawing leaves a dirty slot for the next update.
UpdateInv ==
  /\ ui = "clear" => uiDirty /\ modeDirty /\ uiMode = mode /\ bar = mode
  /\ ui = "copy" => uiMode = mode /\ ~modeDirty /\ bar = mode /\ (uiDirty \/ Fresh)
  /\ ui = "sections" =>
       /\ uiMode = mode /\ ~modeDirty /\ bar = mode
       /\ \A s \in Slots : s < InUse[mode] => slotDirty[s] \/ local[s] = slotVal[s]
       /\ \/ uiDirty
          \/ \A i \in DOMAIN Sections[mode] :
               \/ \E s \in Shown(mode, i) : localDirty[s] \/ slotDirty[s]
               \/ \A s \in Shown(mode, i) : text[i][s] = slotVal[s]

Inv == TypeOK /\ HeldInv /\ OpeningInv /\ FreshInv /\ UpdateInv

(***************************************************************************)
(* The update that a mode key starts on a paused machine.                  *)
(***************************************************************************)
Begun == forced \/ (ui = "store" /\ then = "draw")

\* Read for the mode since the update began.
Recent(s, value) == \E t \in since..tick : value = Reading(mode, t, s)

\* The emulation thread stores for the new mode only, what both store is recent, and the
\* mode is dirty until the copy of its flag makes every section be drawn.
ForcedInv ==
  /\ forced => ui \in {"store", "draw", "clear", "copy", "sections"}
  /\ forced /\ ui = "store" => then = "draw"
  /\ ui = "speed" => modeDirty
  /\ Begun => /\ since <= tick
              /\ emu \in {"values", "store"} => emuMode = mode
              /\ ui \in {"store", "draw", "clear"} => modeDirty
              /\ ui \in {"copy", "sections"} => uiDirty
  /\ forced /\ ui \in {"draw", "clear", "copy"} =>
       \A s \in Filled[mode] : Recent(s, slotVal[s])
  /\ forced /\ ui = "sections" =>
       \A s \in Filled[mode] : s < InUse[mode] => Recent(s, local[s])
=============================================================================
