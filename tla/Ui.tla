--------------------------------- MODULE Ui ---------------------------------
(***************************************************************************)
(* The UI thread of GBoy: main of src/main.c, the events of                *)
(* src/events/event.c, windows, textures and text boxes of src/display,    *)
(* the render callbacks of src/display/renderer.c, and what the machine    *)
(* (gboy.c) and the debugger acquire from them and give back.  Everything  *)
(* here runs on one thread; what is hard is the order of acquisition and   *)
(* release when any call fails, when windows close inside their own event  *)
(* handlers, and when events for them are still queued.                    *)
(*                                                                         *)
(* One record holds the state, each function of the code is an operator    *)
(* from state to state, and a handler is their composition.  A call that   *)
(* works on a window that was destroyed sets the flag "bad".  At most one  *)
(* call fails in a handler, the one named by its parameter "fail".         *)
(***************************************************************************)
EXTENDS Integers, Sequences, FiniteSets, FiniteSetsExt

CONSTANTS
  MaxRegistered,  \* EVENT_MAX_REGISTERED_WINDOWS
  MaxCallbacks,   \* RENDERER_MAX_CALLBACKS
  NumBoxes,       \* text boxes of the debugger
  MaxWindows,     \* bound: windows created, at most one by each event
  MaxEvents       \* bound: events the user and the system cause

ASSUME SizesAssumption ==
  /\ MaxRegistered \in Nat \ {0} /\ MaxCallbacks \in Nat \ {0} /\ NumBoxes \in Nat \ {0}
  /\ MaxEvents \in Nat /\ MaxWindows \in Nat /\ MaxWindows > MaxEvents

VARIABLES
  app,      \* the state of all modules, see Start
  place,    \* where main is
  posted    \* events that came from outside so far

mainVars == <<app, place, posted>>

NoWindow == 0
Windows == 1..MaxWindows
Handles == 0..(MaxCallbacks - 1)

\* The references to a system of SDL; lost is history, the number of those whose owner
\* could not be made and which nobody will give back.
None == [refs |-> 0, lost |-> 0]
Acquire(r, n) == [r EXCEPT !.refs = @ + n]
Release(r, n) == [r EXCEPT !.refs = @ - n]
Lose(r) == [r EXCEPT !.lost = @ + 1]

Start ==
  [ registry |-> [i \in 1..MaxRegistered |-> NoWindow],       \* m_registered_inst
    handler |-> [w \in Windows |-> "none"],                   \* event_handler of a window
    alive |-> {}, created |-> 0,                              \* windows that exist
    video |-> None, ttf |-> None,                             \* references to SDL's systems
    callbacks |-> [h \in Handles |-> [cb |-> "none", enabled |-> FALSE]],
    gInit |-> FALSE, gWindow |-> NoWindow, gTexture |-> NoWindow, gHandle |-> 0,
    on |-> FALSE, cart |-> FALSE,                             \* gboy.c
    dWindow |-> NoWindow, dBoxes |-> 0, dHandle |-> 0,        \* debugger.c
    active |-> TRUE,                                          \* m_active of main.c
    queue |-> <<>>,                                           \* SDL's event queue
    ret |-> 0, bad |-> FALSE ]

Ret(s, value) == [s EXCEPT !.ret = value]

-----------------------------------------------------------------------------
(* Kinds of SDL events.                                                    *)

ApplicationTypes ==
  [quit |-> "quit", terminating |-> "terminating", theme |-> "unknown"]
WindowTypes == [close |-> "close_requested", exposed |-> "exposed", gone |-> "destroyed"]
InputTypes == [grave |-> "button", f1 |-> "button", motion |-> "motion", joystick |-> "axis"]
OtherTypes == [display |-> "unknown", drop |-> "unknown"]

\* event_get_simple_sdl_event_type
Simple(kind) ==
  CASE kind \in DOMAIN ApplicationTypes -> "application"
    [] kind = "display"                 -> "display"
    [] kind \in DOMAIN WindowTypes      -> "window"
    [] kind \in {"grave", "f1"}         -> "key"
    [] kind = "motion"                  -> "button"
    [] kind = "joystick"                -> "joystick"
    [] OTHER                            -> "unknown"

\* event_convert_sdl_evt: the type of the converted event and of its part.
Convert(kind) ==
  CASE kind \in DOMAIN ApplicationTypes -> [type |-> "application", part |-> ApplicationTypes[kind]]
    [] kind \in DOMAIN WindowTypes      -> [type |-> "window", part |-> WindowTypes[kind]]
    [] kind \in DOMAIN InputTypes       -> [type |-> "input", part |-> InputTypes[kind]]
    [] kind \in DOMAIN OtherTypes       -> [type |-> "unknown", part |-> OtherTypes[kind]]

\* event_get_evt_window_id.  There is no case for an unknown type: the function
\* ends without a value, which is any.
WindowIds(e) ==
  CASE Simple(e.kind) \in {"application", "display", "joystick"} -> {NoWindow}
    [] Simple(e.kind) \in {"window", "key", "button"}            -> {e.window}
    [] OTHER                                                     -> {NoWindow} \cup Windows

-----------------------------------------------------------------------------
(* The registry of event.c.                                                *)

FreeEntries(s) == {i \in 1..MaxRegistered : s.registry[i] = NoWindow}

RegisterWindow(s, w) ==
  IF FreeEntries(s) = {} THEN Ret(s, -1)
  ELSE Ret([s EXCEPT !.registry[Min(FreeEntries(s))] = w], 0)

DeregisterWindow(s, w) ==
  [s EXCEPT !.registry = [i \in 1..MaxRegistered |-> IF @[i] = w THEN NoWindow ELSE @[i]]]

FindWindow(s, id) ==
  IF \E i \in 1..MaxRegistered : s.registry[i] = id THEN id ELSE NoWindow

-----------------------------------------------------------------------------
(* Windows, textures and text boxes.                                       *)

\* Drawing, presenting and sizing: nothing for a NULL window.
UseWindow(s, w) == [s EXCEPT !.bad = @ \/ (w # NoWindow /\ w \notin s.alive)]

WindowDestroy(s, w) ==
  IF w = NoWindow THEN s
  ELSE LET r == DeregisterWindow(UseWindow(s, w), w)
       IN [r EXCEPT !.alive = @ \ {w}, !.handler[w] = "none",
                        !.video = Release(@, 1)]

\* Without memory for its handle window_destroy does nothing, and the reference to
\* the video system is kept for ever.
WindowCreate(s, fail) ==
  LET up == [s EXCEPT !.video = Acquire(@, 1)]
      w == s.created + 1
      made == [up EXCEPT !.created = w, !.alive = @ \cup {w}]
      registered == RegisterWindow(made, w)
  IN CASE fail = "subsystem" -> Ret(s, NoWindow)
       [] fail = "calloc" -> Ret([up EXCEPT !.video = Lose(@)], NoWindow)
       [] fail = "window" -> Ret(WindowDestroy(made, w), NoWindow)
       [] OTHER -> IF registered.ret = 0 THEN Ret(registered, w)
                   ELSE Ret(WindowDestroy(made, w), NoWindow)

RegisterHandler(s, w, owner) == [UseWindow(s, w) EXCEPT !.handler[w] = owner]

\* A texture and a text box are made from the renderer of a window and must go
\* before it.
TextureCreate(s, w, fail) ==
  IF fail = "texture" THEN s ELSE [UseWindow(s, w) EXCEPT !.gTexture = w]

TextureDestroy(s) == [UseWindow(s, s.gTexture) EXCEPT !.gTexture = NoWindow]

TextureDraw(s) == UseWindow(UseWindow(s, s.gTexture), s.gWindow)

\* n text boxes.
TextboxDestroy(s, n) ==
  IF n = 0 THEN s
  ELSE [UseWindow(s, s.dWindow) EXCEPT !.dBoxes = 0, !.ttf = Release(@, n)]

\* All text boxes of the debugger, of which the last one fails if one does; without
\* memory for its handle its reference to SDL_ttf is kept for ever.
TextboxCreate(s, fail) ==
  LET failed == [s EXCEPT !.dBoxes = NumBoxes - 1]
  IN CASE fail = "box" -> Ret([failed EXCEPT !.ttf = Acquire(@, NumBoxes - 1)], -1)
       [] fail = "boxcalloc" -> Ret([failed EXCEPT !.ttf = Lose(Acquire(@, NumBoxes))], -1)
       [] OTHER -> Ret([s EXCEPT !.dBoxes = NumBoxes, !.ttf = Acquire(@, NumBoxes)], 0)

-----------------------------------------------------------------------------
(* The render callbacks of renderer.c.                                     *)

\* HANDLE_CHECK
Valid(h) == h \in Handles

FreeHandles(s) == {h \in Handles : s.callbacks[h].cb = "none"}

RegisterCb(s, cb) ==
  IF FreeHandles(s) = {} THEN Ret(s, -1)
  ELSE LET h == Min(FreeHandles(s))
       IN Ret([s EXCEPT !.callbacks[h] = [cb |-> cb, enabled |-> FALSE]], h)

EnableCb(s, h, enable) ==
  IF Valid(h) THEN [s EXCEPT !.callbacks[h].enabled = enable] ELSE s

\* Only the callback goes, the entry stays enabled if it was.
DeregisterCb(s, h) == IF Valid(h) THEN [s EXCEPT !.callbacks[h].cb = "none"] ELSE s

\* is_active_entry
ActiveEntry(entry) == entry.cb # "none" /\ entry.enabled

-----------------------------------------------------------------------------
(* The debugger.                                                           *)

\* Mutant of DebuggerRelease: the window goes first.
MutDebuggerRelease(s) ==
  [TextboxDestroy(WindowDestroy(s, s.dWindow), s.dBoxes) EXCEPT !.dWindow = NoWindow]

\* What err_cleanup and debugger_close have in common.
DebuggerRelease(s) ==
  [WindowDestroy(TextboxDestroy(s, s.dBoxes), s.dWindow) EXCEPT !.dWindow = NoWindow]

\* Mutant of DebuggerClose: only disabled, not deregistered.
MutDebuggerClose(s) == DebuggerRelease(EnableCb(s, s.dHandle, FALSE))

DebuggerClose(s) ==
  DebuggerRelease(DeregisterCb(EnableCb(s, s.dHandle, FALSE), s.dHandle))

DebuggerRegister(s) ==
  LET r == RegisterCb(RegisterHandler(s, s.dWindow, "debugger"), "debugger_update")
      h == [r EXCEPT !.dHandle = r.ret]
  IN IF r.ret < 0 THEN DebuggerRelease(h) ELSE EnableCb(h, h.dHandle, TRUE)

DebuggerOpen(s, fail) ==
  LET win == WindowCreate(s, fail)
      w == [win EXCEPT !.dWindow = win.ret]
      boxes == TextboxCreate(w, fail)
  IN CASE s.dWindow # NoWindow -> s
       [] s.dWindow = NoWindow /\ fail = "locks" -> DebuggerRelease(s)
       [] OTHER -> IF w.dWindow = NoWindow THEN DebuggerRelease(w)
                   ELSE IF boxes.ret # 0 THEN DebuggerRelease(boxes)
                   ELSE DebuggerRegister(boxes)

\* debugger_update
DebuggerUpdate(s) == UseWindow(s, s.dWindow)

-----------------------------------------------------------------------------
(* The machine.                                                            *)

GboyRelease(s) ==
  LET t == TextureDestroy(DeregisterCb(s, s.gHandle))
  IN [WindowDestroy(t, t.gWindow) EXCEPT !.gWindow = NoWindow]

GboyInit(s, fail) ==
  LET win == WindowCreate(s, fail)
      w == [win EXCEPT !.gWindow = win.ret]
      t == TextureCreate(w, w.gWindow, fail)
      r == RegisterCb(t, "window_update")
      h == RegisterHandler([r EXCEPT !.gHandle = r.ret], w.gWindow, "gboy")
  IN CASE fail = "lcd" -> s
       [] fail = "mutex" -> GboyRelease(s)
       [] OTHER -> IF w.gWindow = NoWindow THEN GboyRelease(w)
                   ELSE IF t.gTexture = NoWindow THEN GboyRelease(t)
                   ELSE IF r.ret < 0 THEN GboyRelease([r EXCEPT !.gHandle = r.ret])
                   ELSE [h EXCEPT !.gInit = TRUE]

\* gboy_load_rom loads a cartridge that was ejected before.
LoadRom(s, fail) == IF ~s.gInit \/ fail = "cart" THEN s ELSE [s EXCEPT !.cart = TRUE]

PowerOn(s, fail) ==
  IF ~s.gInit \/ ~s.cart THEN s
  ELSE [EnableCb(s, s.gHandle, TRUE) EXCEPT !.on = (fail # "thread")]

PowerOff(s) ==
  IF ~s.gInit \/ ~s.on THEN s
  ELSE [EnableCb(s, s.gHandle, FALSE) EXCEPT !.on = FALSE]

GboyCleanup(s) ==
  IF ~s.gInit THEN s
  ELSE LET closed == IF s.dWindow # NoWindow THEN DebuggerClose(s) ELSE s
       IN [GboyRelease([PowerOff(closed) EXCEPT !.cart = FALSE]) EXCEPT !.gInit = FALSE]

\* window_update
WindowUpdate(s) == TextureDraw(s)

-----------------------------------------------------------------------------
(* Event handlers.                                                         *)

Quit == [kind |-> "quit", window |-> NoWindow]

\* Mutant of GboyWindowEvent: the quit event is left to SDL, which posts one only
\* when the last window closes.
MutGboyWindowEvent(s, part) ==
  IF part = "close_requested"
  THEN IF s.dWindow = NoWindow
       THEN [PowerOff(s) EXCEPT !.queue = Append(@, Quit)] ELSE PowerOff(s)
  ELSE s

\* window_event_handler of gboy.c
GboyWindowEvent(s, part) ==
  IF part = "close_requested" THEN [PowerOff(s) EXCEPT !.queue = Append(@, Quit)] ELSE s

\* window_handle_input of gboy.c
GboyInput(s, kind, fail) ==
  IF kind = "grave" /\ s.dWindow = NoWindow THEN DebuggerOpen(s, fail) ELSE s

\* window_event of debugger.c
DebuggerWindowEvent(s, part) == IF part = "close_requested" THEN DebuggerClose(s) ELSE s

\* button_input_event of debugger.c: F1 updates the window of a paused machine.
DebuggerInput(s, kind) ==
  CASE kind = "grave" -> DebuggerClose(s)
    [] kind = "f1" -> DebuggerUpdate(s)
    [] OTHER -> s

\* window_handle_event: input goes to the handler of the window, of the window's own
\* events only a close request does.  The handler is read from the window itself.
HandleEvent(s, w, kind, fail) ==
  LET evt == Convert(kind)
      u == UseWindow(s, w)
  IN IF w = NoWindow \/ (evt.type # "input" /\ kind # "close") THEN s
     ELSE CASE s.handler[w] = "gboy" /\ kind # "close" -> GboyInput(u, kind, fail)
            [] s.handler[w] = "gboy" /\ kind = "close" -> GboyWindowEvent(u, evt.part)
            [] s.handler[w] = "debugger" /\ kind # "close" -> DebuggerInput(u, kind)
            [] s.handler[w] = "debugger" /\ kind = "close" -> DebuggerWindowEvent(u, evt.part)
            [] OTHER -> u

\* application_event_handler of main.c
ApplicationEvent(s, kind) ==
  LET evt == Convert(kind)
  IN IF evt.type = "application" /\ evt.part \in {"quit", "terminating"}
     THEN [s EXCEPT !.active = FALSE] ELSE s

-----------------------------------------------------------------------------
(* main.                                                                   *)

InitFailures == {"none", "lcd", "mutex", "subsystem", "calloc", "window", "texture", "cart",
                 "thread"}
OpenFailures == {"none", "locks", "subsystem", "calloc", "window", "box", "boxcalloc"}

MainInit == app = Start /\ place = "start" /\ posted = 0

\* gboy_init, gboy_load_rom, gboy_poweron(0).
Startup(fail) ==
  /\ place = "start"
  /\ app' = PowerOn(LoadRom(GboyInit(app, fail), fail), fail)
  /\ place' = IF app'.on THEN "loop" ELSE "cleanup"
  /\ UNCHANGED posted

\* One event of event_poll.  A fault only matters where a window is opened.
PollEvent(fail) ==
  /\ place = "loop"
  /\ app.queue # <<>>
  /\ LET e == Head(app.queue)
         s == [app EXCEPT !.queue = Tail(@), !.ret = 0]
     IN \E id \in WindowIds(e) :
          /\ fail # "none" => e.kind = "grave"
          /\ app' = [(IF id = NoWindow THEN ApplicationEvent(s, e.kind)
                      ELSE HandleEvent(s, FindWindow(s, id), e.kind, fail)) EXCEPT !.ret = 0]
  /\ UNCHANGED <<place, posted>>

\* The end of event_poll, then renderer_update: the entries are copied, the ones
\* that are active are called.  Neither callback changes what the other one uses.
CallEntry(called, cb, s) ==
  IF cb \notin called THEN s
  ELSE IF cb = "window_update" THEN WindowUpdate(s) ELSE DebuggerUpdate(s)

RendererUpdate ==
  /\ place = "loop"
  /\ app.queue = <<>>
  /\ LET called == {app.callbacks[h].cb : h \in {x \in Handles : ActiveEntry(app.callbacks[x])}}
     IN app' = CallEntry(called, "window_update", CallEntry(called, "debugger_update", app))
  /\ place' = IF app.active THEN "loop" ELSE "cleanup"
  /\ UNCHANGED posted

\* gboy_cleanup at the end, and after a failed start.
Cleanup ==
  /\ place = "cleanup"
  /\ app' = [GboyCleanup(app) EXCEPT !.queue = <<>>, !.ret = 0]
  /\ place' = "done"
  /\ UNCHANGED posted

\* SDL queues an event, of a window that exists or of none.
Post(kind, w) ==
  /\ place = "loop"
  /\ posted < MaxEvents
  /\ w \in app.alive \cup {NoWindow}
  /\ (w = NoWindow) <=> (Simple(kind) \notin {"window", "key", "button"})
  /\ posted' = posted + 1
  /\ app' = [app EXCEPT !.queue = Append(@, [kind |-> kind, window |-> w])]
  /\ UNCHANGED place

Kinds == DOMAIN ApplicationTypes \cup DOMAIN WindowTypes \cup DOMAIN InputTypes
           \cup DOMAIN OtherTypes

Main ==
  \/ \E fail \in InitFailures : Startup(fail)
  \/ \E fail \in OpenFailures : PollEvent(fail)
  \/ RendererUpdate
  \/ Cleanup

MainNext == Main \/ \E kind \in Kinds, w \in Windows \cup {NoWindow} : Post(kind, w)

\* main runs.
MainSpec == MainInit /\ [][MainNext]_mainVars /\ WF_mainVars(Main)

-----------------------------------------------------------------------------
(* Properties.                                                             *)

\* No window is drawn to, asked or given back after it was destroyed, nor is
\* anything that was made from it, whatever failed before and whichever handler
\* closed it.
NothingDeadIsUsed == ~app.bad

\* Between two handlers exactly the open windows exist, each registered for events
\* once, with its owner as handler and one render callback, and what refers to SDL's
\* systems are the windows and the text boxes that exist.  A debugger that was closed, or
\* could not be opened, has left nothing, and at the end nothing is left, with one
\* exception: each calloc that fails in window_create or textbox_create (window.c:58,
\* textbox.c:50) leaves exactly one reference for ever, which destroying a NULL handle
\* does not give back.
ClosedMeansReleased ==
  LET open == {app.gWindow, app.dWindow} \ {NoWindow}
      Calls(cb) == {h \in Handles : app.callbacks[h].cb = cb}
  IN /\ app.alive = open
     /\ \A w \in Windows :
          Cardinality({i \in 1..MaxRegistered : app.registry[i] = w}) = (IF w \in open THEN 1 ELSE 0)
     /\ Calls("window_update") = IF app.gWindow = NoWindow THEN {} ELSE {app.gHandle}
     /\ Calls("debugger_update") = IF app.dWindow = NoWindow THEN {} ELSE {app.dHandle}
     /\ app.dBoxes = IF app.dWindow = NoWindow THEN 0 ELSE NumBoxes
     /\ app.video.refs = Cardinality(open) + app.video.lost
     /\ app.ttf.refs = app.dBoxes + app.ttf.lost
     /\ place = "done" => open = {} /\ ~app.on /\ ~app.cart

\* Closing the window of the machine ends the program, whatever else is queued.
CloseEndsProgram ==
  (\E i \in DOMAIN app.queue :
     app.queue[i].kind = "close" /\ app.queue[i].window = app.gWindow) ~> place = "done"
=============================================================================
