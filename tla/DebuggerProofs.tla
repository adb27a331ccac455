--------------------------- MODULE DebuggerProofs ---------------------------
(***************************************************************************)
(* Proofs about Debugger: Inv is inductive, hence the window is never      *)
(* stale and the emulation thread only asks for locks that exist, for      *)
(* every set of modes, slots and sections, and whatever the slots hold;    *)
(* and, with ForcedInv, a mode key on a paused machine shows its mode.     *)
(***************************************************************************)
EXTENDS DebuggerInv, TLAPS

(***************************************************************************)
(* A store changes the values of some slots and marks those, hence a text  *)
(* that was fresh stays fresh.                                             *)
(***************************************************************************)
LEMMA StoreEffect ==
  ASSUME TypeOK, NEW m \in Modes, NEW vals, StoreValues(m, vals)
  PROVE  /\ DOMAIN slotVal' = Slots /\ slotDirty' \in [Slots -> BOOLEAN]
         /\ \A s \in Slots : slotDirty[s] => slotDirty'[s]
         /\ \A s \in Slots : slotDirty'[s] \/ slotVal'[s] = slotVal[s]
BY DEF StoreValues, TypeOK

LEMMA ShownAreSlots ==
  ASSUME NEW m \in Modes, NEW i \in DOMAIN Sections[m]
  PROVE  Shown(m, i) \subseteq Slots
BY SlotsAssumption DEF Shown, Slots

LEMMA StoreKeepsFresh ==
  ASSUME TypeOK, NEW m \in Modes, NEW vals, StoreValues(m, vals),
         UNCHANGED <<text, bar, mode>>, Fresh
  PROVE  Fresh'
<1> SUFFICES ASSUME NEW i \in DOMAIN Sections[mode]
             PROVE  \/ \E s \in Shown(mode, i) : slotDirty'[s]
                    \/ \A s \in Shown(mode, i) : text[i][s] = slotVal'[s]
  BY DEF Fresh, Shown
<1>1. Shown(mode, i) \subseteq Slots
  BY ShownAreSlots DEF TypeOK
<1>2. CASE \E s \in Shown(mode, i) : slotDirty[s]
  BY <1>1, <1>2, StoreEffect
<1>3. CASE \A s \in Shown(mode, i) : text[i][s] = slotVal[s]
  BY <1>1, <1>3, StoreEffect
<1> QED
  BY <1>2, <1>3 DEF Fresh

(***************************************************************************)
(* The same while the window is being drawn.                               *)
(***************************************************************************)
LEMMA StoreKeepsUpdate ==
  ASSUME TypeOK, NEW m \in Modes, NEW vals, StoreValues(m, vals),
         UNCHANGED <<drawVars, modeVars, ui>>, UpdateInv
  PROVE  UpdateInv'
<1>1. UNCHANGED <<text, bar, uiMode, uiDirty, local, localDirty, mode, modeDirty, ui>>
  BY DEF drawVars, modeVars
<1>2. (ui = "clear" => uiDirty /\ modeDirty /\ uiMode = mode /\ bar = mode)'
  BY <1>1 DEF UpdateInv
<1>3. (ui = "copy" => uiMode = mode /\ ~modeDirty /\ bar = mode /\ (uiDirty \/ Fresh))'
  BY <1>1, StoreKeepsFresh DEF UpdateInv
<1>4. ASSUME ui = "sections"
      PROVE  \A s \in Slots : s < InUse[mode] => slotDirty'[s] \/ local[s] = slotVal'[s]
  BY <1>4, StoreEffect DEF UpdateInv
<1>5. ASSUME ui = "sections", ~uiDirty, NEW i \in DOMAIN Sections[mode]
      PROVE  \/ \E s \in Shown(mode, i) : localDirty[s] \/ slotDirty'[s]
             \/ \A s \in Shown(mode, i) : text[i][s] = slotVal'[s]
  <2>1. Shown(mode, i) \subseteq Slots
    BY ShownAreSlots DEF TypeOK
  <2>2. \/ \E s \in Shown(mode, i) : localDirty[s] \/ slotDirty[s]
        \/ \A s \in Shown(mode, i) : text[i][s] = slotVal[s]
    BY <1>5 DEF UpdateInv
  <2> QED
    BY <2>1, <2>2, StoreEffect
<1> QED
  BY <1>1, <1>2, <1>3, <1>4, <1>5 DEF UpdateInv, Shown

(***************************************************************************)
(* The initial state satisfies the invariant.                              *)
(***************************************************************************)
LEMMA InitInv == Init => Inv
<1> SUFFICES ASSUME Init PROVE Inv
  OBVIOUS
<1>1. TypeOK
  <2>1. 0 \in 0..MaxSpeed /\ 0 \in 0..MaxSteps /\ 0 \in 0..MaxTick
    BY BoundsAssumption
  <2>2. slotDirty \in [Slots -> BOOLEAN] /\ DOMAIN slotVal = Slots
    BY DEF Init
  <2> QED
    BY <2>1, <2>2, ModesAssumption DEF Init, TypeOK
<1>2. HeldInv /\ OpeningInv /\ FreshInv /\ UpdateInv
  BY DEF Init, HeldInv, OpeningInv, Opening, Updating, FreshInv, UpdateInv, IsOpen
<1> QED
  BY <1>1, <1>2 DEF Inv

(***************************************************************************)
(* The variables keep their types.                                         *)
(***************************************************************************)
LEMMA StoreKeepsType ==
  ASSUME TypeOK, NEW m \in Modes, NEW vals, StoreValues(m, vals)
  PROVE  DOMAIN slotVal' = Slots /\ slotDirty' \in [Slots -> BOOLEAN]
BY StoreEffect

LEMMA TypeStep ==
  ASSUME TypeOK, [Next]_vars
  PROVE  TypeOK'
<1> USE ModesAssumption, BoundsAssumption
    DEF TypeOK, clock, modeVars, slotVars, drawVars, locks, emuVars
<1> 0 \in 0..MaxTick
  OBVIOUS
<1>1. CASE EmuNext
  <2>1. CASE EmuCycle
    BY <2>1 DEF EmuCycle
  <2>2. CASE EmuAsk
    BY <2>2 DEF EmuAsk
  <2>3. CASE EmuLockMode
    BY <2>3 DEF EmuLockMode
  <2>4. CASE EmuReadMode
    BY <2>4 DEF EmuReadMode
  <2>5. CASE EmuLockSlots
    BY <2>5 DEF EmuLockSlots
  <2>6. CASE EmuStore
    BY <2>6, StoreKeepsType DEF EmuStore
  <2> QED
    BY <1>1, <2>1, <2>2, <2>3, <2>4, <2>5, <2>6 DEF EmuNext
<1>2. CASE UiContinue
  <2>1. CASE OpenWindow
    BY <2>1 DEF OpenWindow, Resources
  <2>2. CASE OpenBoxes
    BY <2>2 DEF OpenBoxes, Resources
  <2>3. CASE OpenAsk
    BY <2>3 DEF OpenAsk
  <2>4. CASE OpenRegister
    BY <2>4 DEF OpenRegister, Resources
  <2>5. CASE Cleanup
    BY <2>5 DEF Cleanup, NextToGo, Resources
  <2>6. CASE UiStore
    BY <2>6, StoreKeepsType DEF UiStore
  <2>7. CASE FetchMode
    BY <2>7 DEF FetchMode
  <2>8. CASE ClearModeDirty
    BY <2>8 DEF ClearModeDirty
  <2>9. CASE CopySlots
    <3>1. slotDirty' \in [Slots -> BOOLEAN] /\ localDirty' \in [Slots -> BOOLEAN]
      BY <2>9 DEF CopySlots
    <3> QED
      BY <2>9, <3>1 DEF CopySlots
  <2>10. CASE DrawSections
    <3>1. DOMAIN local' = Slots /\ localDirty' \in [Slots -> BOOLEAN]
      BY <2>10 DEF DrawSections
    <3> QED
      BY <2>10, <3>1 DEF DrawSections
  <2>11. CASE AskSpeed
    BY <2>11 DEF AskSpeed
  <2> QED
    BY <1>2, <2>1, <2>2, <2>3, <2>4, <2>5, <2>6, <2>7, <2>8, <2>9, <2>10, <2>11 DEF UiContinue
<1>3. CASE OpenLocks
  BY <1>3 DEF OpenLocks, Resources
<1>4. CASE Close
  BY <1>4 DEF Close
<1>5. CASE Render
  BY <1>5 DEF Render
<1>6. ASSUME NEW m \in Modes, PressMode(m) PROVE TypeOK'
  BY <1>6 DEF PressMode
<1>7. ASSUME NEW s \in 0..MaxSpeed, SetClockSpeed(s), cached' \in 0..MaxSpeed PROVE TypeOK'
  BY <1>7 DEF SetClockSpeed
<1>8. CASE Play \/ Pause \/ Faster \/ \E s \in 1..MaxSpeed : SpeedKey(s)
  BY <1>7, <1>8 DEF Play, Pause, Faster, SpeedKey
<1>9. CASE StepKey
  BY <1>9 DEF StepKey
<1>10. CASE UNCHANGED vars
  BY <1>10 DEF vars
<1> QED
  BY <1>1, <1>2, <1>3, <1>4, <1>5, <1>6, <1>8, <1>9, <1>10 DEF Next, UiNext

(***************************************************************************)
(* The emulation thread takes nothing away, nor do the keys.               *)
(***************************************************************************)
LEMMA EmuLeavesWindow ==
  ASSUME EmuNext
  PROVE  UNCHANGED <<held, ui, then, mode, modeDirty, drawVars, since>>
BY DEF EmuNext, EmuCycle, EmuAsk, EmuLockMode, EmuReadMode, EmuLockSlots, EmuStore, modeVars

LEMMA KeysLeaveWindow ==
  ASSUME Play \/ Pause \/ StepKey \/ Faster \/ \E s \in 1..MaxSpeed : SpeedKey(s)
  PROVE  UNCHANGED <<held, ui, then, modeVars, slotVars, drawVars, since>>
BY DEF Play, Pause, StepKey, Faster, SpeedKey, SetClockSpeed

(***************************************************************************)
(* What is made is given back in an order that leaves nothing without what *)
(* it stands on: the locks outlive the window.                             *)
(***************************************************************************)
LEMMA LocksGoLast ==
  ASSUME "window" \in held
  PROVE  ~NextToGo("locks")
<1>1. "window" \in DOMAIN CleanupOrder /\ "locks" \in DOMAIN CleanupOrder
  BY DEF CleanupOrder
<1>2. ~(CleanupOrder["locks"] <= CleanupOrder["window"])
  BY DEF CleanupOrder
<1> QED
  BY <1>1, <1>2 DEF NextToGo

LEMMA CleanupKeepsHeld ==
  ASSUME Inv, Cleanup
  PROVE  HeldInv' /\ OpeningInv'
<1> USE DEF Inv, HeldInv, OpeningInv, Opening, Updating
<1>1. ui = "cleanup" /\ UNCHANGED <<then, modeDirty>> /\ then = "draw" /\ "callback" \notin held
  BY DEF Cleanup, modeVars
<1>2. CASE held \cap DOMAIN CleanupOrder = {} /\ ui' = "idle" /\ UNCHANGED held
  BY <1>1, <1>2
<1>3. ASSUME NEW r \in held, NextToGo(r), held' = held \ {r}, ui' \in {"idle", "cleanup"}
      PROVE  HeldInv' /\ OpeningInv'
  <2>1. "window" \in held' => "locks" \in held'
    BY <1>3, LocksGoLast
  <2> QED
    BY <1>1, <1>3, <2>1
<1> QED
  BY <1>1, <1>2, <1>3 DEF Cleanup

LEMMA HeldStep ==
  ASSUME Inv, [Next]_vars
  PROVE  HeldInv' /\ OpeningInv'
<1> USE DEF Inv, HeldInv, OpeningInv, Opening, Updating, modeVars, IsOpen
<1>1. CASE EmuNext
  BY <1>1, EmuLeavesWindow
<1>2. CASE UiContinue
  <2>1. CASE OpenWindow
    BY <2>1 DEF OpenWindow
  <2>2. CASE OpenBoxes
    BY <2>2 DEF OpenBoxes
  <2>3. CASE OpenAsk
    BY <2>3 DEF OpenAsk
  <2>4. CASE OpenRegister
    BY <2>4 DEF OpenRegister
  <2>5. CASE Cleanup
    BY <2>5, CleanupKeepsHeld
  <2>6. CASE UiStore
    BY <2>6 DEF UiStore
  <2>7. CASE FetchMode
    BY <2>7 DEF FetchMode
  <2>8. CASE ClearModeDirty
    BY <2>8 DEF ClearModeDirty
  <2>9. CASE CopySlots
    BY <2>9 DEF CopySlots
  <2>10. CASE DrawSections
    BY <2>10 DEF DrawSections
  <2>11. CASE AskSpeed
    BY <2>11 DEF AskSpeed
  <2> QED
    BY <1>2, <2>1, <2>2, <2>3, <2>4, <2>5, <2>6, <2>7, <2>8, <2>9, <2>10, <2>11 DEF UiContinue
<1>3. CASE OpenLocks
  BY <1>3 DEF OpenLocks
<1>4. CASE Close
  BY <1>4 DEF Close
<1>5. CASE Render
  BY <1>5 DEF Render
<1>6. ASSUME NEW m \in Modes, PressMode(m) PROVE HeldInv' /\ OpeningInv'
  BY <1>6 DEF PressMode
<1>7. CASE Play \/ Pause \/ StepKey \/ Faster \/ \E s \in 1..MaxSpeed : SpeedKey(s)
  BY <1>7, KeysLeaveWindow
<1>8. CASE UNCHANGED vars
  BY <1>8 DEF vars
<1> QED
  BY <1>1, <1>2, <1>3, <1>4, <1>5, <1>6, <1>7, <1>8 DEF Next, UiNext

(***************************************************************************)
(* Nothing becomes stale by a step that leaves slots and texts alone.      *)
(***************************************************************************)
LEMMA FreshUnchanged ==
  ASSUME Fresh, UNCHANGED <<slotVal, slotDirty, text, bar, mode>>
  PROVE  Fresh'
BY DEF Fresh, Shown

LEMMA QuietStep ==
  ASSUME Inv, UNCHANGED <<held, modeVars, slotVars, drawVars, ui>>
  PROVE  FreshInv' /\ UpdateInv'
<1>1. UNCHANGED <<held, mode, modeDirty, slotVal, slotDirty, text, bar, uiMode, uiDirty, local,
                  localDirty, ui>>
  BY DEF modeVars, slotVars, drawVars
<1>2. FreshInv'
  BY <1>1, FreshUnchanged DEF Inv, FreshInv, IsOpen
<1>3. UpdateInv'
  BY <1>1, FreshUnchanged DEF Inv, UpdateInv, Shown
<1> QED
  BY <1>2, <1>3

(***************************************************************************)
(* The steps of an update of the window.                                   *)
(***************************************************************************)
LEMMA FetchKeepsFresh ==
  ASSUME Inv, FetchMode
  PROVE  FreshInv' /\ UpdateInv'
<1>1. /\ ui = "draw" /\ UNCHANGED <<held, mode, modeDirty, slotVal, slotDirty, text>>
      /\ uiMode' = mode /\ uiDirty' = modeDirty
      /\ bar' = IF modeDirty THEN mode ELSE bar
      /\ ui' = IF modeDirty THEN "clear" ELSE "copy"
  BY DEF FetchMode, modeVars, slotVars
<1>2. IsOpen
  BY <1>1 DEF Inv, HeldInv, Updating, IsOpen
<1>3. CASE modeDirty
  BY <1>1, <1>3 DEF FreshInv, UpdateInv
<1>4. CASE ~modeDirty
  <2>1. Fresh
    BY <1>1, <1>2, <1>4 DEF Inv, FreshInv
  <2>2. bar = mode /\ Fresh'
    BY <1>1, <1>4, <2>1, FreshUnchanged DEF Fresh
  <2> QED
    BY <1>1, <1>4, <2>2 DEF FreshInv, UpdateInv
<1> QED
  BY <1>3, <1>4

LEMMA CopyKeepsFresh ==
  ASSUME Inv, CopySlots
  PROVE  FreshInv' /\ UpdateInv'
<1>1. /\ ui = "copy" /\ ui' = "sections"
      /\ UNCHANGED <<mode, modeDirty, slotVal, text, bar, uiMode, uiDirty>>
      /\ uiMode = mode /\ ~modeDirty /\ bar = mode /\ (uiDirty \/ Fresh)
  BY DEF CopySlots, modeVars, Inv, UpdateInv
<1>2. ASSUME NEW s \in Slots, s < InUse[mode]
      PROVE  local'[s] = slotVal[s] /\ (slotDirty[s] => localDirty'[s])
  BY <1>1, <1>2 DEF CopySlots
<1>3. ASSUME ~uiDirty, NEW i \in DOMAIN Sections[mode]
      PROVE  \/ \E s \in Shown(mode, i) : localDirty'[s]
             \/ \A s \in Shown(mode, i) : text[i][s] = slotVal[s]
  <2>1. \A s \in Shown(mode, i) : s \in Slots /\ s < InUse[mode]
    BY ShownAreSlots DEF Inv, TypeOK, Shown
  <2> QED
    BY <1>1, <1>2, <1>3, <2>1 DEF Fresh
<1> QED
  BY <1>1, <1>2, <1>3 DEF FreshInv, UpdateInv, Shown

LEMMA DrawKeepsFresh ==
  ASSUME Inv, DrawSections
  PROVE  FreshInv' /\ UpdateInv'
<1>1. /\ ui = "sections" /\ ui' = "idle"
      /\ UNCHANGED <<mode, modeDirty, slotVal, slotDirty, bar>>
      /\ uiMode = mode /\ ~modeDirty /\ bar = mode
  BY DEF DrawSections, modeVars, slotVars, Inv, UpdateInv
<1>2. ASSUME NEW i \in DOMAIN Sections[mode]
      PROVE  \/ \E s \in Shown(mode, i) : slotDirty[s]
             \/ \A s \in Shown(mode, i) : text'[i][s] = slotVal[s]
  <2>1. \A s \in Shown(mode, i) : s \in Slots /\ s < InUse[mode] /\ s \in Sections[mode][i]
    BY ShownAreSlots DEF Inv, TypeOK, Shown
  <2>2. CASE uiDirty \/ AnySlotDirty(Sections[mode][i])
    <3>1. text'[i] = SectionText(Sections[mode][i])
      BY <1>1, <1>2, <2>2 DEF DrawSections
    <3>2. \A s \in Shown(mode, i) : text'[i][s] = local[s]
      BY <2>1, <3>1 DEF SectionText
    <3> QED
      BY <1>1, <2>1, <3>2 DEF Inv, UpdateInv
  <2>3. CASE ~(uiDirty \/ AnySlotDirty(Sections[mode][i]))
    <3>1. text'[i] = text[i]
      BY <1>1, <1>2, <2>3 DEF DrawSections
    <3>2. \A s \in Shown(mode, i) : ~localDirty[s]
      BY <2>1, <2>3 DEF AnySlotDirty
    <3> QED
      BY <1>1, <2>1, <2>3, <3>1, <3>2 DEF Inv, UpdateInv
  <2> QED
    BY <2>2, <2>3
<1>3. Fresh'
  BY <1>1, <1>2 DEF Fresh, Shown
<1> QED
  BY <1>1, <1>3 DEF FreshInv, UpdateInv

(***************************************************************************)
(* The text stays fresh, or the mode or a slot of the section is dirty.    *)
(***************************************************************************)
LEMMA FreshStep ==
  ASSUME Inv, [Next]_vars
  PROVE  FreshInv' /\ UpdateInv'
<1>1. CASE EmuNext
  <2>1. UNCHANGED <<held, ui, mode, modeDirty, drawVars>>
    BY <1>1, EmuLeavesWindow
  <2>2. CASE EmuStore
    <3>1. PICK vals : StoreValues(emuMode, vals)
      BY <2>2 DEF EmuStore
    <3>2. emuMode \in Modes /\ TypeOK
      BY DEF Inv, TypeOK
    <3>3. FreshInv'
      BY <2>1, <3>1, <3>2, StoreKeepsFresh DEF Inv, FreshInv, IsOpen, drawVars
    <3>4. UpdateInv'
      BY <2>1, <3>1, <3>2, StoreKeepsUpdate DEF Inv, modeVars
    <3> QED
      BY <3>3, <3>4
  <2>3. CASE ~EmuStore
    <3>1. UNCHANGED slotVars
      BY <1>1, <2>3 DEF EmuNext, EmuCycle, EmuAsk, EmuLockMode, EmuReadMode, EmuLockSlots
    <3> QED
      BY <2>1, <3>1, QuietStep DEF modeVars
  <2> QED
    BY <2>2, <2>3
<1>2. CASE UiContinue
  <2>1. CASE OpenWindow \/ OpenBoxes \/ OpenAsk \/ OpenRegister
    <3>1. modeDirty' /\ ui' \notin {"clear", "copy", "sections"}
      BY <2>1 DEF OpenWindow, OpenBoxes, OpenAsk, OpenRegister, modeVars, Inv, OpeningInv,
                  Opening
    <3> QED
      BY <3>1 DEF FreshInv, UpdateInv
  <2>2. CASE Cleanup
    <3>1. /\ ui = "cleanup" /\ ui' \in {"idle", "cleanup"} /\ (IsOpen' => IsOpen)
          /\ UNCHANGED <<mode, modeDirty, slotVal, slotDirty, text, bar>>
      BY <2>2 DEF Cleanup, IsOpen, modeVars, slotVars, drawVars
    <3> QED
      BY <3>1, FreshUnchanged DEF Inv, FreshInv, UpdateInv
  <2>3. CASE UiStore
    <3>1. PICK vals : StoreValues(mode, vals)
      BY <2>3 DEF UiStore
    <3>2. /\ mode \in Modes /\ TypeOK /\ ui = "store" /\ ui' \in {"register", "draw"}
          /\ UNCHANGED <<held, mode, modeDirty, text, bar>>
      BY <2>3 DEF UiStore, Inv, TypeOK, OpeningInv, modeVars, drawVars
    <3>3. FreshInv'
      BY <3>1, <3>2, StoreKeepsFresh DEF Inv, FreshInv, IsOpen
    <3> QED
      BY <3>2, <3>3 DEF UpdateInv
  <2>4. CASE FetchMode
    BY <2>4, FetchKeepsFresh
  <2>5. CASE ClearModeDirty
    BY <2>5 DEF ClearModeDirty, drawVars, Inv, FreshInv, UpdateInv
  <2>6. CASE CopySlots
    BY <2>6, CopyKeepsFresh
  <2>7. CASE DrawSections
    BY <2>7, DrawKeepsFresh
  <2>8. CASE AskSpeed
    <3>1. /\ ui = "speed" /\ ui' \in {"idle", "store"}
          /\ UNCHANGED <<held, mode, modeDirty, slotVal, slotDirty, text, bar>>
      BY <2>8 DEF AskSpeed, modeVars, slotVars, drawVars
    <3> QED
      BY <3>1, FreshUnchanged DEF Inv, FreshInv, UpdateInv, IsOpen
  <2> QED
    BY <1>2, <2>1, <2>2, <2>3, <2>4, <2>5, <2>6, <2>7, <2>8 DEF UiContinue
<1>3. CASE OpenLocks \/ \E m \in Modes : PressMode(m)
  BY <1>3 DEF OpenLocks, PressMode, FreshInv, UpdateInv
<1>4. CASE Close \/ Render
  <2>1. /\ ui = "idle" /\ ui' \in {"cleanup", "draw"} /\ (IsOpen' => IsOpen)
        /\ UNCHANGED <<mode, modeDirty, slotVal, slotDirty, text, bar>>
    BY <1>4 DEF Close, Render, IsOpen, modeVars, slotVars, drawVars
  <2> QED
    BY <2>1, FreshUnchanged DEF Inv, FreshInv, UpdateInv
<1>5. CASE Play \/ Pause \/ StepKey \/ Faster \/ \E s \in 1..MaxSpeed : SpeedKey(s)
  BY <1>5, KeysLeaveWindow, QuietStep
<1>6. CASE UNCHANGED vars
  BY <1>6, QuietStep DEF vars
<1> QED
  BY <1>1, <1>2, <1>3, <1>4, <1>5, <1>6 DEF Next, UiNext

(***************************************************************************)
(* The invariant of the debugger window, in every reachable state.         *)
(***************************************************************************)
THEOREM Invariance == Spec => []Inv
<1>1. Inv /\ [Next]_vars => Inv'
  BY TypeStep, HeldStep, FreshStep DEF Inv
<1> QED
  BY <1>1, InitInv, PTL DEF Spec

(***************************************************************************)
(* Between two updates the window shows the mode and the values of the     *)
(* slots, or knows that it does not: no store of the emulation thread is   *)
(* lost, however its critical sections fall between those of an update.    *)
(***************************************************************************)
THEOREM NeverStale == Spec => []TextIsFresh
<1>1. Inv => TextIsFresh
  BY DEF Inv, FreshInv, Fresh, Shown, TextIsFresh
<1> QED
  BY <1>1, Invariance, PTL

(***************************************************************************)
(* As long as the window that an update saw is not destroyed, both locks   *)
(* exist when it asks for them and are held inside its critical sections.  *)
(***************************************************************************)

\* An update whose window was not destroyed since still has it.
ClosedInv ==
  /\ closed \in BOOLEAN
  /\ closed => Storing
  /\ Storing /\ ~closed => /\ "window" \in held
                           /\ emu = "mode" => modeLocked
                           /\ emu = "store" => slotsLocked

LEMMA ClosedInvLasts ==
  ASSUME Inv, Inv', ClosedInv, MCNext
  PROVE  ClosedInv'
<1>1. closed' = (Storing' /\ (closed \/ ~IsOpen'))
  BY DEF MCNext
<1>2. closed' \in BOOLEAN /\ (closed' => Storing') /\ (Storing' /\ ~closed' => "window" \in held')
  BY <1>1 DEF IsOpen
<1>3. ASSUME Storing', ~closed'
      PROVE  /\ emu' = "mode" => modeLocked'
             /\ emu' = "store" => slotsLocked'
  <2>1. ~closed /\ "window" \in held' /\ "locks" \in held'
    BY <1>1, <1>2, <1>3 DEF Inv, HeldInv
  <2>2. CASE EmuNext
    <3>1. CASE EmuLockMode
      BY <2>1, <3>1 DEF EmuLockMode
    <3>2. CASE EmuLockSlots
      BY <2>1, <3>2 DEF EmuLockSlots
    <3>3. CASE EmuCycle \/ EmuAsk \/ EmuReadMode \/ EmuStore
      <4>1. emu' \notin {"mode", "store"}
        BY <3>3 DEF EmuCycle, EmuAsk, EmuReadMode, EmuStore
      <4> QED
        BY <4>1
    <3> QED
      BY <2>2, <3>1, <3>2, <3>3 DEF EmuNext
  <2>3. CASE UiNext
    <3>1. emu' = emu /\ (UNCHANGED locks \/ (Cleanup /\ "locks" \notin held'))
      BY <2>3 DEF UiNext, UiContinue, OpenLocks, OpenWindow, OpenBoxes, OpenAsk, OpenRegister,
                  Cleanup, Close, UiStore, Render, FetchMode, ClearModeDirty, CopySlots,
                  DrawSections, PressMode, AskSpeed, Play, Pause, StepKey, Faster, SpeedKey,
                  SetClockSpeed, emuVars
    <3>2. modeLocked' = modeLocked /\ slotsLocked' = slotsLocked
      BY <2>1, <3>1 DEF locks
    <3>3. Storing
      BY <1>3, <3>1 DEF Storing
    <3> QED
      BY <2>1, <3>1, <3>2, <3>3 DEF ClosedInv
  <2> QED
    BY <2>2, <2>3 DEF MCNext, Next
<1> QED
  BY <1>2, <1>3 DEF ClosedInv

THEOREM LocksExist == MCSpec => []LocksLastWhileOpen
<1>1. MCInit => Inv /\ ClosedInv
  <2>1. MCInit => ClosedInv
    BY DEF MCInit, Init, ClosedInv, Storing
  <2> QED
    BY <2>1, InitInv DEF MCInit
<1>2. Inv /\ ClosedInv /\ [MCNext]_<<vars, forced, closed>> => Inv' /\ ClosedInv'
  <2> SUFFICES ASSUME Inv, ClosedInv, [MCNext]_<<vars, forced, closed>>
               PROVE  Inv' /\ ClosedInv'
    OBVIOUS
  <2>1. [Next]_vars
    BY DEF MCNext
  <2>2. Inv'
    BY <2>1, TypeStep, HeldStep, FreshStep DEF Inv
  <2>3. CASE MCNext
    BY <2>2, <2>3, ClosedInvLasts
  <2>4. CASE UNCHANGED <<vars, forced, closed>>
    <3>1. /\ emu' = emu /\ held' = held /\ closed' = closed
          /\ modeLocked' = modeLocked /\ slotsLocked' = slotsLocked
      BY <2>4 DEF vars, emuVars, locks
    <3>2. Storing' <=> Storing
      BY <3>1 DEF Storing
    <3>3. ClosedInv'
      BY <3>1, <3>2, Zenon DEF ClosedInv
    <3> QED
      BY <2>2, <3>3
  <2> QED
    BY <2>2, <2>3, <2>4
<1>3. Inv /\ ClosedInv => LocksLastWhileOpen
  BY DEF Inv, HeldInv, ClosedInv, LocksLastWhileOpen
<1> QED
  BY <1>1, <1>2, <1>3, PTL DEF MCSpec

(***************************************************************************)
(* The update that a mode key starts: what is stored meanwhile is recent.  *)
(***************************************************************************)
LEMMA StoredReading ==
  ASSUME TypeOK, NEW m \in Modes, NEW t1, NEW t2, NEW vals \in Readings(m, t1, t2),
         StoreValues(m, vals), NEW s \in Filled[m]
  PROVE  slotVal'[s] = Reading(m, t1, s) \/ slotVal'[s] = Reading(m, t2, s)
<1>1. PICK after \in [Filled[m] -> {t1, t2}] :
        vals = [r \in Filled[m] |-> Reading(m, after[r], r)]
  BY DEF Readings
<1>2. s \in Slots
  BY SlotsAssumption DEF Slots
<1>3. slotVal'[s] = vals[s]
  BY <1>2 DEF StoreValues
<1>4. vals[s] = Reading(m, after[s], s) /\ after[s] \in {t1, t2}
  BY <1>1
<1> QED
  BY <1>3, <1>4

LEMMA RecentGrows ==
  ASSUME UNCHANGED <<since, mode>>, tick \in Int, tick' \in Int, since \in Int, tick <= tick',
         NEW s, NEW value, Recent(s, value)
  PROVE  \E t \in since'..tick' : value = Reading(mode', t, s)
BY DEF Recent

\* Neither is a key's update under way after this step, nor is the key about to ask.
LEMMA NotForced ==
  ASSUME ~forced', ui' # "speed", ~(ui' = "store" /\ then' = "draw")
  PROVE  ForcedInv'
BY DEF ForcedInv, Begun

Goes == forced' <=> ui' # "idle" /\ Begun

LEMMA EmuKeepsForced ==
  ASSUME Inv, ForcedInv, EmuNext, Goes
  PROVE  ForcedInv'
<1>1. UNCHANGED <<ui, then, mode, modeDirty, uiDirty, local, since>>
  BY EmuLeavesWindow DEF drawVars
<1>2. tick \in Int /\ tick' \in Int /\ since \in Int /\ tick <= tick'
  BY DEF Inv, TypeOK, EmuNext, EmuCycle, EmuAsk, EmuLockMode, EmuReadMode, EmuLockSlots,
         EmuStore
<1>3. Begun /\ emu' \in {"values", "store"} => emuMode' = mode
  BY DEF ForcedInv, EmuNext, EmuCycle, EmuAsk, EmuLockMode, EmuReadMode, EmuLockSlots,
         EmuStore
<1>4. (Begun' => Begun) /\ (forced' => Begun)
  BY <1>1 DEF Goes, Begun
<1>5. ASSUME forced', ui' \in {"draw", "clear", "copy"}, NEW s \in Filled[mode]
      PROVE  \E t \in since'..tick' : slotVal'[s] = Reading(mode', t, s)
  <2>1. forced /\ Recent(s, slotVal[s]) /\ mode \in Modes /\ since <= tick
    BY <1>1, <1>4, <1>5 DEF ForcedInv, Begun, Inv, TypeOK
  <2>2. CASE EmuStore
    <3>1. emuMode = mode /\ tick' = tick
      BY <2>1, <2>2 DEF EmuStore, ForcedInv, Begun
    <3>2. PICK vals \in Readings(mode, tick, tick) : StoreValues(mode, vals)
      BY <2>2, <3>1 DEF EmuStore
    <3>3. slotVal'[s] = Reading(mode, tick, s)
      BY <2>1, <3>2, StoredReading DEF Inv
    <3> QED
      BY <1>1, <1>2, <2>1, <3>1, <3>3
  <2>3. CASE ~EmuStore
    <3>1. slotVal' = slotVal
      BY <2>3 DEF EmuNext, EmuCycle, EmuAsk, EmuLockMode, EmuReadMode, EmuLockSlots, slotVars
    <3> QED
      BY <1>1, <1>2, <2>1, <3>1, RecentGrows
  <2> QED
    BY <2>2, <2>3
<1>6. ASSUME forced', ui' = "sections", NEW s \in Filled[mode], s < InUse[mode]
      PROVE  \E t \in since'..tick' : local'[s] = Reading(mode', t, s)
  <2>1. Recent(s, local[s])
    BY <1>1, <1>4, <1>6 DEF ForcedInv, Begun
  <2> QED
    BY <1>1, <1>2, <2>1, RecentGrows
<1>7. Begun' => since' <= tick'
  BY <1>1, <1>2, <1>4 DEF ForcedInv
<1> QED
  BY <1>1, <1>3, <1>4, <1>5, <1>6, <1>7 DEF ForcedInv, Recent, Begun

LEMMA UiStoreForces ==
  ASSUME Inv, ForcedInv, UiStore, Goes
  PROVE  ForcedInv'
<1>1. ui = "store" /\ ui' = then /\ UNCHANGED <<then, mode, modeDirty, since, tick, emu, emuMode>>
  BY DEF UiStore, modeVars, emuVars
<1>2. CASE then # "draw"
  <2>1. then = "register" /\ ~Begun
    BY <1>1, <1>2 DEF Inv, OpeningInv, ForcedInv, Begun
  <2> QED
    BY <1>1, <2>1, NotForced DEF Goes
<1>3. CASE then = "draw"
  <2>1. Begun /\ since <= tick /\ modeDirty
    BY <1>1, <1>3 DEF Begun, ForcedInv
  <2>2. PICK vals \in Readings(mode, since, tick) : StoreValues(mode, vals)
    BY DEF UiStore
  <2>3. mode \in Modes /\ TypeOK /\ since \in Int /\ tick \in Int
    BY DEF Inv, TypeOK
  <2>4. ASSUME NEW s \in Filled[mode]
        PROVE  \E t \in since'..tick' : slotVal'[s] = Reading(mode', t, s)
    <3>1. slotVal'[s] = Reading(mode, since, s) \/ slotVal'[s] = Reading(mode, tick, s)
      BY <2>2, <2>3, StoredReading
    <3> QED
      BY <1>1, <2>1, <2>3, <3>1
  <2> QED
    BY <1>1, <1>3, <2>1, <2>4 DEF ForcedInv, Recent, Begun, Goes
<1> QED
  BY <1>2, <1>3

LEMMA UiKeepsForced ==
  ASSUME Inv, ForcedInv, UiNext, Goes
  PROVE  ForcedInv'
<1> USE DEF Goes
<1>1. CASE ui \notin {"store", "draw", "clear", "copy", "sections", "speed"}
  <2>1. ~Begun
    BY <1>1 DEF ForcedInv, Begun
  <2>2. ASSUME ~PressMode(mode'), ui' = "speed"
        PROVE  FALSE
    BY <1>1, <2>2 DEF UiNext, UiContinue, OpenLocks, OpenWindow, OpenBoxes, OpenAsk,
                      OpenRegister, Cleanup, Close, Render, UiStore, FetchMode, ClearModeDirty,
                      CopySlots, DrawSections, AskSpeed, PressMode, Play, Pause, StepKey,
                      Faster, SpeedKey, SetClockSpeed
  <2>3. CASE PressMode(mode')
    BY <2>1, <2>3 DEF PressMode, ForcedInv, Begun
  <2>4. ~(ui' = "store" /\ then' = "draw")
    BY <1>1 DEF UiNext, UiContinue, OpenLocks, OpenWindow, OpenBoxes, OpenAsk,
                OpenRegister, Cleanup, Close, Render, UiStore, FetchMode, ClearModeDirty,
                CopySlots, DrawSections, AskSpeed, PressMode, Play, Pause, StepKey,
                Faster, SpeedKey, SetClockSpeed
  <2> QED
    BY <2>1, <2>2, <2>3, <2>4, NotForced
<1>2. CASE UiStore
  BY <1>2, UiStoreForces
<1>3. CASE AskSpeed
  <2>1. /\ ui = "speed" /\ ui' \in {"store", "idle"} /\ emu = "free" /\ ~Begun /\ modeDirty
        /\ UNCHANGED <<modeDirty, tick, emu>> /\ (ui' = "store" => since' = tick)
        /\ tick \in Int /\ then' = "draw"
    BY <1>3 DEF AskSpeed, EmulationMutexFree, modeVars, emuVars, ForcedInv, Begun, Inv, TypeOK,
                OpeningInv
  <2> QED
    BY <2>1 DEF ForcedInv, Begun
<1>4. CASE FetchMode
  <2>1. /\ ui = "draw" /\ uiDirty' = modeDirty /\ ui' = IF modeDirty THEN "clear" ELSE "copy"
        /\ UNCHANGED <<mode, modeDirty, slotVal, since, tick, emu, emuMode, then>>
    BY <1>4 DEF FetchMode, modeVars, slotVars, emuVars
  <2> QED
    BY <2>1 DEF ForcedInv, Begun, Recent
<1>5. CASE ClearModeDirty
  <2>1. /\ ui = "clear" /\ ui' = "copy" /\ uiDirty
        /\ UNCHANGED <<mode, uiDirty, slotVal, since, tick, emu, emuMode, then>>
    BY <1>5 DEF ClearModeDirty, slotVars, emuVars, drawVars, Inv, UpdateInv
  <2> QED
    BY <2>1 DEF ForcedInv, Begun, Recent
<1>6. CASE CopySlots
  <2>1. /\ ui = "copy" /\ ui' = "sections" /\ uiMode = mode /\ mode \in Modes
        /\ UNCHANGED <<mode, uiDirty, slotVal, since, tick, emu, emuMode, then>>
    BY <1>6 DEF CopySlots, modeVars, emuVars, Inv, UpdateInv, TypeOK
  <2>2. ASSUME NEW s \in Filled[mode], s < InUse[mode]
        PROVE  local'[s] = slotVal[s]
    <3>1. s \in Slots
      BY <2>1, SlotsAssumption DEF Slots
    <3> QED
      BY <1>6, <2>1, <2>2, <3>1 DEF CopySlots
  <2> QED
    BY <2>1, <2>2 DEF ForcedInv, Begun, Recent
<1>7. CASE DrawSections
  <2>1. ui' = "idle"
    BY <1>7 DEF DrawSections
  <2> QED
    BY <2>1, NotForced
<1>8. CASE ui \in {"store", "draw", "clear", "copy", "sections", "speed"}
  <2>1. UiStore \/ AskSpeed \/ FetchMode \/ ClearModeDirty \/ CopySlots \/ DrawSections
    BY <1>8 DEF UiNext, UiContinue, OpenLocks, OpenWindow, OpenBoxes, OpenAsk,
                OpenRegister, Cleanup, Close, Render, PressMode, Play, Pause, StepKey,
                Faster, SpeedKey, SetClockSpeed
  <2> QED
    BY <1>2, <1>3, <1>4, <1>5, <1>6, <1>7, <2>1
<1> QED
  BY <1>1, <1>8

LEMMA ForcedStep ==
  ASSUME Inv, ForcedInv, [MCNext]_<<vars, forced, closed>>
  PROVE  ForcedInv'
<1>1. CASE MCNext
  <2>1. Goes
    BY <1>1 DEF MCNext, Goes, Begun
  <2> QED
    BY <1>1, <2>1, EmuKeepsForced, UiKeepsForced DEF MCNext, Next
<1>2. CASE UNCHANGED <<vars, forced, closed>>
  BY <1>2 DEF vars, ForcedInv, Begun, Recent, modeVars, slotVars, drawVars, emuVars
<1> QED
  BY <1>1, <1>2

(***************************************************************************)
(* A mode key on a paused machine: when the handler returns, every section *)
(* shows values of the new mode that were read since the key was pressed,  *)
(* although a step granted before may be executed and stored meanwhile     *)
(* (button_input_event, debugger.c).                                       *)
(***************************************************************************)
THEOREM ModeKeyShowsItsMode == MCSpec => ForcedUpdate
<1>1. MCInit => Inv /\ ForcedInv
  <2>1. MCInit => ForcedInv
    BY DEF MCInit, Init, ForcedInv, Begun
  <2> QED
    BY <2>1, InitInv DEF MCInit
<1>2. Inv /\ ForcedInv /\ [MCNext]_<<vars, forced, closed>> => Inv' /\ ForcedInv'
  <2>1. [MCNext]_<<vars, forced, closed>> => [Next]_vars
    BY DEF MCNext
  <2> QED
    BY <2>1, TypeStep, HeldStep, FreshStep, ForcedStep DEF Inv
<1>3. Inv /\ ForcedInv /\ [MCNext]_<<vars, forced, closed>> =>
        [forced /\ ui' = "idle" =>
           \A i \in DOMAIN Sections[mode] :
             \A s \in {x \in Sections[mode][i] : x < InUse[mode]} :
               \E t \in since..tick : text'[i][s] = Reading(mode, t, s)]_<<vars, forced, closed>>
  <2> SUFFICES ASSUME Inv, ForcedInv, MCNext, forced, ui' = "idle",
                      NEW i \in DOMAIN Sections[mode], NEW s \in Sections[mode][i],
                      s < InUse[mode]
               PROVE  \E t \in since..tick : text'[i][s] = Reading(mode, t, s)
    OBVIOUS
  <2>1. DrawSections
    <3>1. /\ ui \in {"store", "draw", "clear", "copy", "sections"}
          /\ ui = "store" => then = "draw"
      BY DEF ForcedInv
    <3>2. ~EmuNext
      BY <3>1, EmuLeavesWindow
    <3> QED
      BY <3>1, <3>2 DEF MCNext, Next, UiNext, UiContinue, OpenLocks, OpenWindow, OpenBoxes,
                  OpenAsk, OpenRegister, Cleanup, Close, Render, UiStore, FetchMode,
                  ClearModeDirty, CopySlots, AskSpeed, PressMode, Play, Pause, StepKey,
                  Faster, SpeedKey, SetClockSpeed
  <2>2. ui = "sections" /\ uiMode = mode /\ uiDirty /\ mode \in Modes
    BY <2>1 DEF DrawSections, Inv, UpdateInv, TypeOK, ForcedInv, Begun
  <2>3. text'[i] = SectionText(Sections[mode][i])
    BY <2>1, <2>2 DEF DrawSections
  <2>4. text'[i][s] = local[s]
    BY <2>3 DEF SectionText
  <2>5. s \in Filled[mode]
    BY <2>2, FilledAssumption
  <2> QED
    BY <2>2, <2>4, <2>5 DEF ForcedInv, Recent
<1> QED
  BY <1>1, <1>2, <1>3, PTL DEF MCSpec, ForcedUpdate
=============================================================================
