------------------------------- MODULE UiInv -------------------------------
(***************************************************************************)
(* The inductive invariant of Ui: what main, the machine and the debugger  *)
(* hold between two handlers.                                              *)
(***************************************************************************)
EXTENDS Ui

WindowOrNone == 0..MaxWindows
Callbacks == {"none", "window_update", "debugger_update"}
Owners == {"none", "gboy", "debugger"}

References == [refs : Int, lost : Int]

\* References that somebody will give back.
Owed(r) == r.refs - r.lost

AppState ==
  [ registry : [1..MaxRegistered -> WindowOrNone],
    handler : [Windows -> Owners],
    alive : SUBSET Windows, created : 0..MaxWindows,
    video : References, ttf : References,
    callbacks : [Handles -> [cb : Callbacks, enabled : BOOLEAN]],
    gInit : BOOLEAN, gWindow : WindowOrNone, gTexture : WindowOrNone, gHandle : Int,
    on : BOOLEAN, cart : BOOLEAN,
    dWindow : WindowOrNone, dBoxes : 0..NumBoxes, dHandle : Int,
    active : BOOLEAN,
    queue : Seq([kind : Kinds, window : WindowOrNone]),
    ret : Int, bad : BOOLEAN ]

\* A registry holds exactly the windows of a set, each once.
Registered(registry, windows) ==
  /\ \A i \in 1..MaxRegistered : registry[i] \in windows \cup {NoWindow}
  /\ \A i, j \in 1..MaxRegistered :
       registry[i] = registry[j] /\ registry[i] # NoWindow => i = j
  /\ \A w \in windows : \E i \in 1..MaxRegistered : registry[i] = w

\* The handlers of a window of the machine and one of the debugger, either may be
\* missing, and of no other window.
Handled(handler, g, d) ==
  \A w \in Windows :
    handler[w] = IF w = g THEN "gboy" ELSE IF w = d THEN "debugger" ELSE "none"

\* A callback is registered with its handle as long as its owner has a window.
Called(callbacks, cb, window, handle) ==
  /\ window # NoWindow => handle \in Handles
  /\ \A h \in Handles : callbacks[h].cb = cb <=> window # NoWindow /\ h = handle

\* References that a window needs.
Needs(w) == IF w = NoWindow THEN 0 ELSE 1

WindowsInv(s) ==
  /\ s.alive = {s.gWindow, s.dWindow} \ {NoWindow}
  /\ s.gWindow = s.dWindow => s.gWindow = NoWindow
  /\ s.alive \subseteq 1..s.created
  /\ Registered(s.registry, s.alive)
  /\ Handled(s.handler, s.gWindow, s.dWindow)
  /\ Owed(s.video) = Needs(s.gWindow) + Needs(s.dWindow)

MachineInv(s) ==
  /\ s.gTexture = s.gWindow
  /\ s.gInit <=> s.gWindow # NoWindow
  /\ ~s.gInit => ~s.on /\ ~s.cart /\ s.dWindow = NoWindow
  /\ Called(s.callbacks, "window_update", s.gWindow, s.gHandle)

DebuggerInv(s) ==
  /\ Called(s.callbacks, "debugger_update", s.dWindow, s.dHandle)
  /\ s.dBoxes = IF s.dWindow = NoWindow THEN 0 ELSE NumBoxes
  /\ Owed(s.ttf) = s.dBoxes

\* No call of a handler is on its way.
Resting(s) == WindowsInv(s) /\ MachineInv(s) /\ DebuggerInv(s) /\ ~s.bad

MainTypeOK ==
  /\ app \in AppState
  /\ place \in {"start", "loop", "cleanup", "done"}
  /\ posted \in 0..MaxEvents

\* A window is created by the start or by an event that came from outside and has
\* left the queue.
CreatedInv == app.created + Len(app.queue) <= 1 + posted

MainInv ==
  /\ MainTypeOK
  /\ Resting(app)
  /\ CreatedInv
  /\ place = "start" => app = Start
  /\ place = "done" => app.gWindow = NoWindow
=============================================================================
