--------------------------- MODULE DisplayProofs ---------------------------
(***************************************************************************)
(* Proofs about what is on the screen, two specifications with variables   *)
(* of their own.                                                           *)
(*                                                                         *)
(* Ui: whichever call fails and whichever handler closes a window, nothing *)
(* is used after its window was destroyed, and between two handlers        *)
(* exactly what is open is held, for every number of entries, callbacks,   *)
(* text boxes and events.                                                  *)
(*                                                                         *)
(* Lcd: the buffers stay a permutation and no pixel is stored where the UI *)
(* thread reads, only whole frames are shown as long as the speed stays    *)
(* above the boundary, and a frame that was streamed is drawn, for every   *)
(* frame size, every set of speeds and every boundary.                     *)
(***************************************************************************)
EXTENDS UiInv, MCLcd, FiniteSetTheorems, WellFoundedInduction, TLAPS

-----------------------------------------------------------------------------
(* Windows, callbacks and who holds them.                                  *)

USE SizesAssumption DEF NoWindow

(***************************************************************************)
(* The smallest member of a set of numbers is a member.                    *)
(***************************************************************************)
LEMMA MinMember ==
  ASSUME NEW S \in SUBSET Nat, S # {}
  PROVE  Min(S) \in S
<1> DEFINE Less == {ss \in Nat \X Nat : ss[1] < ss[2]}
<1>1. IsWellFoundedOn(Less, Nat)
  BY NatLessThanWellFounded DEF OpToRel
<1>2. PICK x \in S : \A y \in S : ~ (<<y, x>> \in Less)
  <2> HIDE DEF Less
  <2> QED
    BY <1>1, WFMin
<1>3. \A y \in S : x <= y
  <2> TAKE y \in S
  <2>1. x \in Nat /\ y \in Nat /\ <<y, x>> \notin Less
    BY <1>2
  <2>2. <<y, x>> \in Nat \X Nat /\ <<y, x>>[1] = y /\ <<y, x>>[2] = x
    BY <2>1
  <2>3. ~(y < x)
    BY <2>1, <2>2
  <2> QED
    BY <2>1, <2>3
<1> QED
  BY <1>2, <1>3 DEF Min

(***************************************************************************)
(* A window that exists, or none, is used without harm.                    *)
(***************************************************************************)
LEMMA UseAlive ==
  ASSUME NEW s \in AppState, NEW w, w \in s.alive \cup {NoWindow}
  PROVE  UseWindow(s, w) = s
BY DEF UseWindow, AppState

(***************************************************************************)
(* References to SDL's systems, and those that somebody will give back.    *)
(***************************************************************************)
LEMMA OwedInt ==
  ASSUME NEW r \in References
  PROVE  Owed(r) \in Int
BY DEF References, Owed

\* Acquiring and giving back.
LEMMA OwedEffect ==
  ASSUME NEW r \in References, NEW n \in Int
  PROVE  /\ Acquire(r, n) \in References /\ Owed(Acquire(r, n)) = Owed(r) + n
         /\ Release(r, n) \in References /\ Owed(Release(r, n)) = Owed(r) - n
BY DEF References, Owed, Acquire, Release

\* A reference that nobody will give back is not owed any more.
LEMMA OwedLose ==
  ASSUME NEW r \in References
  PROVE  Lose(r) \in References /\ Owed(Lose(r)) = Owed(r) - 1
BY DEF References, Owed, Lose

\* A window that is taken out of the registry.
LEMMA DeregisterOne ==
  ASSUME NEW r, NEW W, NoWindow \notin W, Registered(r, W), NEW w,
         NEW q, q = [i \in 1..MaxRegistered |-> IF r[i] = w THEN NoWindow ELSE r[i]]
  PROVE  Registered(q, W \ {w})
BY DEF Registered

\* A window that gets a free entry.
LEMMA RegisterOne ==
  ASSUME NEW r \in [1..MaxRegistered -> WindowOrNone], NEW W, NoWindow \notin W, Registered(r, W), NEW w, w # NoWindow, w \notin W,
         NEW i \in 1..MaxRegistered, r[i] = NoWindow
  PROVE  Registered([r EXCEPT ![i] = w], W \cup {w})
<1> DEFINE q == [r EXCEPT ![i] = w]
<1>1. q[i] = w /\ \A j \in 1..MaxRegistered : j # i => q[j] = r[j]
  OBVIOUS
<1>2. \A j \in 1..MaxRegistered : r[j] # w
  BY DEF Registered
<1> HIDE DEF q
<1>3. \A j \in 1..MaxRegistered : q[j] \in (W \cup {w}) \cup {NoWindow}
  BY <1>1 DEF Registered
<1>4. \A j, k \in 1..MaxRegistered : q[j] = q[k] /\ q[j] # NoWindow => j = k
  BY <1>1, <1>2 DEF Registered
<1>5. \A v \in W \cup {w} : \E j \in 1..MaxRegistered : q[j] = v
  <2> TAKE v \in W \cup {w}
  <2>1. CASE v = w
    BY <1>1, <2>1
  <2>2. CASE v # w
    <3>1. PICK j \in 1..MaxRegistered : r[j] = v
      BY <2>2 DEF Registered
    <3>2. j # i
      BY <3>1, <2>2
    <3> QED
      BY <1>1, <3>1, <3>2
  <2> QED
    BY <2>1, <2>2
<1>6. Registered(q, W \cup {w})
  BY <1>3, <1>4, <1>5 DEF Registered
<1> QED
  BY <1>6 DEF q

\* The fields of a state.
LEMMA FieldTypes ==
  ASSUME NEW s \in AppState
  PROVE  /\ s.registry \in [1..MaxRegistered -> WindowOrNone]
         /\ s.handler \in [Windows -> Owners]
         /\ s.alive \in SUBSET Windows /\ s.created \in 0..MaxWindows
         /\ s.video \in References /\ s.ttf \in References
         /\ s.callbacks \in [Handles -> [cb : Callbacks, enabled : BOOLEAN]]
         /\ s.gInit \in BOOLEAN /\ s.gWindow \in WindowOrNone
         /\ s.gTexture \in WindowOrNone /\ s.gHandle \in Int
         /\ s.on \in BOOLEAN /\ s.cart \in BOOLEAN
         /\ s.dWindow \in WindowOrNone /\ s.dBoxes \in 0..NumBoxes /\ s.dHandle \in Int
         /\ s.active \in BOOLEAN /\ s.queue \in Seq([kind : Kinds, window : WindowOrNone])
         /\ s.ret \in Int /\ s.bad \in BOOLEAN
BY DEF AppState

(***************************************************************************)
(* What a function of the code leaves alone: the machine's part of the     *)
(* state, the debugger's, and main's.                                      *)
(***************************************************************************)
SameMachine(s, t) ==
  /\ t.gInit = s.gInit /\ t.gWindow = s.gWindow /\ t.gTexture = s.gTexture
  /\ t.gHandle = s.gHandle /\ t.on = s.on /\ t.cart = s.cart

SameDebugger(s, t) ==
  t.dWindow = s.dWindow /\ t.dBoxes = s.dBoxes /\ t.dHandle = s.dHandle /\ t.ttf = s.ttf

SameMain(s, t) == t.active = s.active /\ t.queue = s.queue

SameWindows(s, t) ==
  /\ t.registry = s.registry /\ t.handler = s.handler /\ t.alive = s.alive
  /\ t.created = s.created /\ t.video = s.video /\ t.bad = s.bad

\* A window, or none, was given back.
Gone(s, t, w) ==
  /\ t.alive = s.alive \ {w}
  /\ Registered(t.registry, t.alive)
  /\ \A v \in Windows : t.handler[v] = IF v = w THEN "none" ELSE s.handler[v]
  /\ Owed(t.video) = Owed(s.video) - Needs(w)
  /\ t.created = s.created /\ t.bad = s.bad

WindowsSet(s, q, a, h, v) ==
  [s EXCEPT !.registry = q, !.alive = a, !.handler = h, !.video = v]

(***************************************************************************)
(* The state after an update of what belongs to the windows.               *)
(***************************************************************************)
LEMMA WindowsUpdate ==
  ASSUME NEW s \in AppState,
         NEW q \in [1..MaxRegistered -> WindowOrNone], NEW a \in SUBSET Windows,
         NEW h \in [Windows -> Owners], NEW v \in References,
         NEW t, t = WindowsSet(s, q, a, h, v)
  PROVE  /\ t \in AppState
         /\ t.registry = q /\ t.alive = a /\ t.handler = h /\ t.video = v
         /\ t.created = s.created /\ t.bad = s.bad /\ t.ret = s.ret
         /\ SameMachine(s, t) /\ SameDebugger(s, t) /\ SameMain(s, t)
         /\ t.callbacks = s.callbacks
BY DEF WindowsSet, AppState, SameMachine, SameDebugger, SameMain

(***************************************************************************)
(* window_destroy takes a window out of the registry, in which it may be   *)
(* missing, and leaves every other window as it was.                       *)
(***************************************************************************)
LEMMA DestroyEffect ==
  ASSUME NEW s \in AppState, NEW w \in s.alive \cup {NoWindow},
         NEW W, NoWindow \notin W, W \ {w} = s.alive \ {w}, Registered(s.registry, W),
         NEW t, t = WindowDestroy(s, w)
  PROVE  /\ t \in AppState
         /\ Gone(s, t, w)
         /\ SameMachine(s, t) /\ SameDebugger(s, t) /\ SameMain(s, t)
         /\ t.callbacks = s.callbacks
<1>0. NoWindow \notin s.alive /\ NoWindow \notin Windows
  BY FieldTypes DEF Windows
<1>a. CASE w = NoWindow
  <2>1. t = s /\ W = s.alive
    BY <1>0, <1>a DEF WindowDestroy
  <2> QED
    BY <2>1, <1>0, <1>a, FieldTypes, OwedInt
       DEF Gone, Needs, SameMachine, SameDebugger, SameMain
<1>b. CASE w # NoWindow
  <2>1. w \in Windows
    BY <1>b, FieldTypes
  <2>2. UseWindow(s, w) = s
    BY UseAlive
  <2> DEFINE q == [i \in 1..MaxRegistered |->
                     IF s.registry[i] = w THEN NoWindow ELSE s.registry[i]]
             h == [s.handler EXCEPT ![w] = "none"]
             v == Release(s.video, 1)
  <2>3. t = WindowsSet(s, q, s.alive \ {w}, h, v)
    BY <1>b, <2>2 DEF WindowDestroy, DeregisterWindow, AppState, WindowsSet
  <2>4. q \in [1..MaxRegistered -> WindowOrNone]
    <3>1. 0 \in WindowOrNone
      BY DEF WindowOrNone
    <3>2. s.registry \in [1..MaxRegistered -> WindowOrNone]
      BY FieldTypes
    <3> QED
      BY <3>1, <3>2
  <2>5. Registered(q, s.alive \ {w})
    <3>1. Registered(q, W \ {w})
      BY DeregisterOne
    <3> QED
      BY <3>1
  <2>6. s.handler \in [Windows -> Owners] /\ "none" \in Owners
    BY FieldTypes DEF Owners
  <2>7. /\ h \in [Windows -> Owners]
        /\ \A u \in Windows : h[u] = IF u = w THEN "none" ELSE s.handler[u]
    BY <2>1, <2>6
  <2>8. /\ s.alive \ {w} \in SUBSET Windows
        /\ v \in References /\ Owed(v) = Owed(s.video) - 1
    BY FieldTypes, OwedEffect
  <2> HIDE DEF q, h, v
  <2>9. /\ t \in AppState
        /\ t.registry = q /\ t.alive = s.alive \ {w} /\ t.handler = h
        /\ t.video = v /\ t.bad = s.bad /\ t.created = s.created
        /\ t.callbacks = s.callbacks
        /\ SameMachine(s, t) /\ SameDebugger(s, t) /\ SameMain(s, t)
    BY <2>3, <2>4, <2>7, <2>8, WindowsUpdate
  <2>10. Gone(s, t, w)
    BY <1>b, <2>5, <2>7, <2>8, <2>9 DEF Gone, Needs
  <2> QED
    BY <2>9, <2>10
<1> QED
  BY <1>a, <1>b

(***************************************************************************)
(* window_create from the reference to the video system on.                *)
(***************************************************************************)
SubsystemUp(s) == [s EXCEPT !.video = Acquire(s.video, 1)]

HandleLost(s) == [s EXCEPT !.video = Lose(Acquire(s.video, 1))]

Made(s) == [SubsystemUp(s) EXCEPT !.created = s.created + 1,
                                  !.alive = s.alive \cup {s.created + 1}]

\* A reference to the video system more.
LEMMA UpEffect ==
  ASSUME NEW s \in AppState, NEW t, t = SubsystemUp(s)
  PROVE  /\ t \in AppState
         /\ t.registry = s.registry /\ t.alive = s.alive /\ t.handler = s.handler
         /\ Owed(t.video) = Owed(s.video) + 1
         /\ t.created = s.created /\ t.bad = s.bad /\ t.callbacks = s.callbacks
         /\ SameMachine(s, t) /\ SameDebugger(s, t) /\ SameMain(s, t)
<1> DEFINE v == Acquire(s.video, 1)
<1>1. v \in References /\ Owed(v) = Owed(s.video) + 1 /\ t = [s EXCEPT !.video = v]
  BY FieldTypes, OwedEffect DEF SubsystemUp
<1> HIDE DEF v
<1>2. t \in AppState
  BY <1>1 DEF AppState
<1>3. /\ t.registry = s.registry /\ t.alive = s.alive /\ t.handler = s.handler
      /\ t.video = v
      /\ t.created = s.created /\ t.bad = s.bad /\ t.callbacks = s.callbacks
      /\ SameMachine(s, t) /\ SameDebugger(s, t) /\ SameMain(s, t)
  BY <1>1 DEF AppState, SameMachine, SameDebugger, SameMain
<1> QED
  BY <1>1, <1>2, <1>3

\* Without memory for the handle the reference is lost.
LEMMA LostEffect ==
  ASSUME NEW s \in AppState, NEW t, t = HandleLost(s)
  PROVE  /\ t \in AppState
         /\ t.registry = s.registry /\ t.alive = s.alive /\ t.handler = s.handler
         /\ Owed(t.video) = Owed(s.video)
         /\ t.created = s.created /\ t.bad = s.bad /\ t.callbacks = s.callbacks
         /\ SameMachine(s, t) /\ SameDebugger(s, t) /\ SameMain(s, t)
<1> DEFINE a == Acquire(s.video, 1)  v == Lose(a)
<1>0. s.video \in References
  BY FieldTypes
<1>1. a \in References /\ Owed(a) = Owed(s.video) + 1 /\ Owed(s.video) \in Int
  <2>1. a \in References /\ Owed(a) = Owed(s.video) + 1
    BY <1>0, OwedEffect
  <2>2. Owed(s.video) \in Int
    BY <1>0, OwedInt
  <2> QED
    BY <2>1, <2>2
<1>2. t = [s EXCEPT !.video = v]
  BY DEF HandleLost
<1> HIDE DEF a
<1>3. v \in References /\ Owed(v) = Owed(s.video)
  BY <1>1, OwedLose
<1> HIDE DEF v
<1>4. t \in AppState
  BY <1>2, <1>3 DEF AppState
<1>5. /\ t.registry = s.registry /\ t.alive = s.alive /\ t.handler = s.handler
      /\ t.video = v
      /\ t.created = s.created /\ t.bad = s.bad /\ t.callbacks = s.callbacks
      /\ SameMachine(s, t) /\ SameDebugger(s, t) /\ SameMain(s, t)
  BY <1>2 DEF AppState, SameMachine, SameDebugger, SameMain
<1> QED
  BY <1>3, <1>4, <1>5

\* The window exists but is not registered for events yet.
LEMMA MadeEffect ==
  ASSUME NEW s \in AppState, s.created < MaxWindows, NEW t, t = Made(s)
  PROVE  /\ t \in AppState
         /\ t.registry = s.registry /\ t.alive = s.alive \cup {s.created + 1}
         /\ t.handler = s.handler /\ Owed(t.video) = Owed(s.video) + 1
         /\ t.created = s.created + 1 /\ t.bad = s.bad /\ t.callbacks = s.callbacks
         /\ SameMachine(s, t) /\ SameDebugger(s, t) /\ SameMain(s, t)
<1> DEFINE u == SubsystemUp(s)  c == s.created + 1  a == s.alive \cup {c}
<1>1. /\ u \in AppState
      /\ u.registry = s.registry /\ u.handler = s.handler
      /\ Owed(u.video) = Owed(s.video) + 1
      /\ u.bad = s.bad /\ u.callbacks = s.callbacks
      /\ SameMachine(s, u) /\ SameDebugger(s, u) /\ SameMain(s, u)
  BY UpEffect
<1>2. t = [u EXCEPT !.created = c, !.alive = a]
  BY DEF Made
<1>3. c \in 0..MaxWindows /\ c \in Windows /\ a \in SUBSET Windows
  BY FieldTypes DEF Windows
<1> HIDE DEF u, c, a
<1>4. t \in AppState
  BY <1>1, <1>2, <1>3 DEF AppState
<1>5. /\ t.registry = u.registry /\ t.alive = a /\ t.handler = u.handler
      /\ t.video = u.video /\ t.created = c /\ t.bad = u.bad /\ t.callbacks = u.callbacks
  BY <1>1, <1>2 DEF AppState
<1>6. SameMachine(u, t) /\ SameDebugger(u, t) /\ SameMain(u, t)
  BY <1>1, <1>2 DEF AppState, SameMachine, SameDebugger, SameMain
<1> QED
  BY <1>1, <1>4, <1>5, <1>6 DEF a, c, SameMachine, SameDebugger, SameMain

\* A return value.
LEMMA RetEffect ==
  ASSUME NEW s \in AppState, NEW v \in Int, NEW t, t = Ret(s, v)
  PROVE  /\ t \in AppState /\ t.ret = v
         /\ SameWindows(s, t) /\ t.callbacks = s.callbacks
         /\ SameMachine(s, t) /\ SameDebugger(s, t) /\ SameMain(s, t)
BY DEF Ret, AppState, SameWindows, SameMachine, SameDebugger, SameMain

\* The same for a window that is returned.
LEMMA RetWindow ==
  ASSUME NEW s \in AppState, NEW v \in Windows, NEW t, t = Ret(s, v)
  PROVE  /\ t \in AppState /\ t.ret = v
         /\ SameWindows(s, t) /\ t.callbacks = s.callbacks
         /\ SameMachine(s, t) /\ SameDebugger(s, t) /\ SameMain(s, t)
<1>1. v \in Int
  BY DEF Windows
<1> QED
  BY <1>1 DEF Ret, AppState, SameWindows, SameMachine, SameDebugger, SameMain

(***************************************************************************)
(* event_register_window: a window that is not registered gets an entry,   *)
(* if one is free.                                                         *)
(***************************************************************************)
LEMMA RegisterEffect ==
  ASSUME NEW s \in AppState, NEW w \in Windows, NEW W, NoWindow \notin W, w \notin W,
         Registered(s.registry, W), NEW t, t = RegisterWindow(s, w), t.ret = 0
  PROVE  /\ t \in AppState
         /\ Registered(t.registry, W \cup {w})
         /\ t.alive = s.alive /\ t.handler = s.handler /\ t.video = s.video
         /\ t.created = s.created /\ t.bad = s.bad /\ t.callbacks = s.callbacks
         /\ SameMachine(s, t) /\ SameDebugger(s, t) /\ SameMain(s, t)
<1>1. FreeEntries(s) # {}
  <2>1. FreeEntries(s) = {} => t = Ret(s, -1)
    BY DEF RegisterWindow
  <2>2. t = Ret(s, -1) => t.ret = -1
    BY RetEffect
  <2> QED
    BY <2>1, <2>2
<1> DEFINE i == Min(FreeEntries(s))
<1>2. i \in FreeEntries(s)
  <2>1. FreeEntries(s) \in SUBSET Nat
    BY DEF FreeEntries
  <2> QED
    BY <1>1, <2>1, MinMember
<1>3. i \in 1..MaxRegistered /\ s.registry[i] = NoWindow
  BY <1>2 DEF FreeEntries
<1> DEFINE q == [s.registry EXCEPT ![i] = w]
           u == WindowsSet(s, q, s.alive, s.handler, s.video)
<1>4. t = Ret(u, 0)
  BY <1>1 DEF RegisterWindow, WindowsSet, AppState
<1> HIDE DEF i
<1>5. w \in WindowOrNone /\ w # NoWindow
  BY DEF Windows, WindowOrNone
<1>6. s.registry \in [1..MaxRegistered -> WindowOrNone]
  BY FieldTypes
<1>7. q \in [1..MaxRegistered -> WindowOrNone]
  BY <1>3, <1>5, <1>6
<1>8. Registered(q, W \cup {w})
  BY <1>3, <1>5, <1>6, RegisterOne
<1>9. s.alive \in SUBSET Windows /\ s.handler \in [Windows -> Owners] /\ s.video \in References
  BY FieldTypes
<1> HIDE DEF q
<1>10. /\ u \in AppState
       /\ u.registry = q /\ u.alive = s.alive /\ u.handler = s.handler /\ u.video = s.video
       /\ u.created = s.created /\ u.bad = s.bad /\ u.callbacks = s.callbacks
       /\ SameMachine(s, u) /\ SameDebugger(s, u) /\ SameMain(s, u)
  BY <1>7, <1>9, WindowsUpdate
<1> HIDE DEF u
<1>11. /\ t \in AppState /\ SameWindows(u, t) /\ t.callbacks = u.callbacks
       /\ SameMachine(u, t) /\ SameDebugger(u, t) /\ SameMain(u, t)
  BY <1>4, <1>10, RetEffect
<1> QED
  BY <1>8, <1>10, <1>11 DEF SameWindows, SameMachine, SameDebugger, SameMain

(***************************************************************************)
(* window_create gives a registered window, or none and leaves no window   *)
(* behind, and the reference to the video system is given back or lost.    *)
(***************************************************************************)
CreateDone(s, t) ==
  /\ t.created \in {s.created, s.created + 1}
  /\ t.alive \subseteq 1..t.created
  /\ Registered(t.registry, t.alive)
  /\ \A v \in Windows : t.handler[v] = s.handler[v]
  /\ t.bad = s.bad
  /\ \/ t.ret = NoWindow /\ t.alive = s.alive /\ Owed(t.video) = Owed(s.video)
     \/ /\ t.ret \in Windows \ s.alive
        /\ t.alive = s.alive \cup {t.ret}
        /\ Owed(t.video) = Owed(s.video) + 1

\* window_create keeps the registry exact, whichever of its calls fails.
LEMMA CreateEffect ==
  ASSUME NEW s \in AppState, s.created < MaxWindows, s.alive \subseteq 1..s.created,
         Registered(s.registry, s.alive), NEW fail, NEW t, t = WindowCreate(s, fail),
         \A v \in Windows \ s.alive : s.handler[v] = "none"
  PROVE  /\ t \in AppState
         /\ CreateDone(s, t)
         /\ SameMachine(s, t) /\ SameDebugger(s, t) /\ SameMain(s, t)
         /\ t.callbacks = s.callbacks
<1> DEFINE w == s.created + 1
           lost == HandleLost(s)
           made == Made(s)
           reg == RegisterWindow(made, w)
           gone == WindowDestroy(made, w)
<1>1. /\ w \in Windows /\ w \notin s.alive /\ w \in 1..w /\ s.alive \subseteq 1..w
      /\ NoWindow \notin s.alive /\ w # NoWindow /\ s.handler[w] = "none"
      /\ Owed(s.video) \in Int /\ s.created \in Nat
  <2>1. s.created \in 0..MaxWindows /\ Owed(s.video) \in Int
    BY FieldTypes, OwedInt
  <2>2. w \in Windows /\ w \notin s.alive /\ w \in 1..w /\ w # NoWindow
    BY <2>1 DEF Windows
  <2>3. s.alive \subseteq 1..w /\ NoWindow \notin s.alive
    BY <2>1
  <2> QED
    BY <2>1, <2>2, <2>3
<1>2. /\ lost \in AppState
      /\ lost.registry = s.registry /\ lost.alive = s.alive /\ lost.handler = s.handler
      /\ Owed(lost.video) = Owed(s.video)
      /\ lost.created = s.created /\ lost.bad = s.bad /\ lost.callbacks = s.callbacks
      /\ SameMachine(s, lost) /\ SameDebugger(s, lost) /\ SameMain(s, lost)
  BY LostEffect
<1>3. /\ made \in AppState
      /\ made.registry = s.registry /\ made.alive = s.alive \cup {w}
      /\ made.handler = s.handler /\ Owed(made.video) = Owed(s.video) + 1
      /\ made.created = w /\ made.bad = s.bad /\ made.callbacks = s.callbacks
      /\ SameMachine(s, made) /\ SameDebugger(s, made) /\ SameMain(s, made)
  BY MadeEffect
<1>4. /\ gone \in AppState /\ Gone(made, gone, w)
      /\ SameMachine(made, gone) /\ SameDebugger(made, gone) /\ SameMain(made, gone)
      /\ gone.callbacks = made.callbacks
  <2>1. Registered(made.registry, s.alive) /\ s.alive \ {w} = made.alive \ {w}
    BY <1>1, <1>3
  <2> HIDE DEF made, w
  <2> QED
    BY <1>1, <1>3, <2>1, DestroyEffect
<1>5. t \in {Ret(s, NoWindow), Ret(lost, NoWindow), Ret(gone, NoWindow)}
      \/ (t = Ret(reg, w) /\ reg.ret = 0)
  <2>1. lost = [SubsystemUp(s) EXCEPT !.video = Lose(SubsystemUp(s).video)]
    BY DEF HandleLost, SubsystemUp, AppState
  <2> QED
    BY <2>1 DEF WindowCreate, SubsystemUp, Made
<1> HIDE DEF w, lost, made, reg, gone
<1>6. CASE t = Ret(s, NoWindow)
  <2>1. /\ t \in AppState /\ t.ret = NoWindow /\ SameWindows(s, t)
        /\ t.callbacks = s.callbacks
        /\ SameMachine(s, t) /\ SameDebugger(s, t) /\ SameMain(s, t)
    BY <1>6, RetEffect
  <2> QED
    BY <1>1, <2>1 DEF CreateDone, SameWindows
<1>7. CASE t = Ret(lost, NoWindow)
  <2>1. /\ t \in AppState /\ t.ret = NoWindow /\ SameWindows(lost, t)
        /\ t.callbacks = lost.callbacks
        /\ SameMachine(lost, t) /\ SameDebugger(lost, t) /\ SameMain(lost, t)
    <3>1. lost \in AppState
      BY <1>2
    <3> QED
      BY <1>7, <3>1, RetEffect
  <2> QED
    BY <1>1, <1>2, <2>1 DEF CreateDone, SameWindows, SameMachine, SameDebugger, SameMain
<1>8. CASE t = Ret(gone, NoWindow)
  <2>1. /\ t \in AppState /\ t.ret = NoWindow /\ SameWindows(gone, t)
        /\ t.callbacks = gone.callbacks
        /\ SameMachine(gone, t) /\ SameDebugger(gone, t) /\ SameMain(gone, t)
    BY <1>4, <1>8, RetEffect
  <2>2. /\ gone.alive = s.alive /\ Registered(gone.registry, gone.alive)
        /\ \A v \in Windows : gone.handler[v] = s.handler[v]
        /\ Owed(gone.video) = Owed(s.video) /\ gone.created = w /\ gone.bad = s.bad
    BY <1>1, <1>3, <1>4 DEF Gone, Needs
  <2>3. CreateDone(s, t)
    BY <1>1, <2>1, <2>2 DEF CreateDone, SameWindows, w
  <2> QED
    BY <1>3, <1>4, <2>1, <2>3 DEF SameMachine, SameDebugger, SameMain
<1>9. CASE t = Ret(reg, w) /\ reg.ret = 0
  <2>1. /\ reg \in AppState /\ Registered(reg.registry, s.alive \cup {w})
        /\ reg.alive = made.alive /\ reg.handler = made.handler /\ reg.video = made.video
        /\ reg.created = made.created /\ reg.bad = made.bad
        /\ reg.callbacks = made.callbacks
        /\ SameMachine(made, reg) /\ SameDebugger(made, reg) /\ SameMain(made, reg)
    <3>1. made \in AppState /\ Registered(made.registry, s.alive)
      BY <1>3
    <3> QED
      BY <1>1, <1>9, <3>1, RegisterEffect DEF reg
  <2>3. /\ t \in AppState /\ t.ret = w /\ SameWindows(reg, t)
        /\ t.callbacks = reg.callbacks
        /\ SameMachine(reg, t) /\ SameDebugger(reg, t) /\ SameMain(reg, t)
    <3>1. reg \in AppState /\ t = Ret(reg, w)
      BY <1>9, <2>1
    <3> QED
      BY <1>1, <3>1, RetWindow
  <2>4. CreateDone(s, t)
    BY <1>1, <1>3, <2>1, <2>3 DEF CreateDone, SameWindows, w
  <2> QED
    BY <1>3, <2>1, <2>3, <2>4 DEF SameMachine, SameDebugger, SameMain
<1> QED
  BY <1>5, <1>6, <1>7, <1>8, <1>9

(***************************************************************************)
(* The state after an update of the render callbacks.                      *)
(***************************************************************************)
CallsSet(s, c) == [s EXCEPT !.callbacks = c]

CallType == [Handles -> [cb : Callbacks, enabled : BOOLEAN]]

\* Only the callbacks change.
LEMMA CallsUpdate ==
  ASSUME NEW s \in AppState, NEW c \in CallType, NEW t, t = CallsSet(s, c)
  PROVE  /\ t \in AppState /\ t.callbacks = c
         /\ SameWindows(s, t)
         /\ SameMachine(s, t) /\ SameDebugger(s, t) /\ SameMain(s, t)
BY DEF CallsSet, CallType, AppState, SameWindows, SameMachine, SameDebugger, SameMain

(***************************************************************************)
(* A handle may be enabled or disabled whether or not it is in use.        *)
(***************************************************************************)
LEMMA EnableEffect ==
  ASSUME NEW s \in AppState, NEW h \in Int, NEW e \in BOOLEAN, NEW t, t = EnableCb(s, h, e)
  PROVE  /\ t \in AppState
         /\ \A g \in Handles : t.callbacks[g].cb = s.callbacks[g].cb
         /\ SameWindows(s, t)
         /\ SameMachine(s, t) /\ SameDebugger(s, t) /\ SameMain(s, t)
<1>1. CASE h \notin Handles
  <2>1. t = s
    BY <1>1 DEF EnableCb, Valid
  <2> QED
    BY <2>1 DEF SameWindows, SameMachine, SameDebugger, SameMain
<1>2. CASE h \in Handles
  <2> DEFINE c == [s.callbacks EXCEPT ![h].enabled = e]
  <2>1. s.callbacks \in CallType
    BY FieldTypes DEF CallType
  <2>2. t = CallsSet(s, c)
    BY <1>2 DEF EnableCb, Valid, CallsSet, AppState
  <2>3. c \in CallType /\ \A g \in Handles : c[g].cb = s.callbacks[g].cb
    BY <1>2, <2>1 DEF CallType
  <2> HIDE DEF c
  <2>4. /\ t \in AppState /\ t.callbacks = c
        /\ SameWindows(s, t)
        /\ SameMachine(s, t) /\ SameDebugger(s, t) /\ SameMain(s, t)
    BY <2>2, <2>3, CallsUpdate
  <2> QED
    BY <2>3, <2>4
<1> QED
  BY <1>1, <1>2

(***************************************************************************)
(* renderer_deregister_cb frees the entry of a valid handle and nothing    *)
(* else.                                                                   *)
(***************************************************************************)
LEMMA DeregisterEffect ==
  ASSUME NEW s \in AppState, NEW h \in Int, NEW t, t = DeregisterCb(s, h)
  PROVE  /\ t \in AppState
         /\ \A g \in Handles :
              t.callbacks[g].cb = IF g = h THEN "none" ELSE s.callbacks[g].cb
         /\ SameWindows(s, t)
         /\ SameMachine(s, t) /\ SameDebugger(s, t) /\ SameMain(s, t)
<1>1. CASE h \notin Handles
  <2>1. t = s
    BY <1>1 DEF DeregisterCb, Valid
  <2> QED
    BY <1>1, <2>1 DEF SameWindows, SameMachine, SameDebugger, SameMain
<1>2. CASE h \in Handles
  <2> DEFINE c == [s.callbacks EXCEPT ![h].cb = "none"]
  <2>1. s.callbacks \in CallType
    BY FieldTypes DEF CallType
  <2>2. t = CallsSet(s, c)
    BY <1>2 DEF DeregisterCb, Valid, CallsSet, AppState
  <2>3. /\ c \in CallType
        /\ \A g \in Handles : c[g].cb = IF g = h THEN "none" ELSE s.callbacks[g].cb
    BY <1>2, <2>1 DEF CallType, Callbacks
  <2> HIDE DEF c
  <2>4. /\ t \in AppState /\ t.callbacks = c
        /\ SameWindows(s, t)
        /\ SameMachine(s, t) /\ SameDebugger(s, t) /\ SameMain(s, t)
    BY <2>2, <2>3, CallsUpdate
  <2> QED
    BY <2>3, <2>4
<1> QED
  BY <1>1, <1>2

(***************************************************************************)
(* renderer_register_cb takes a free entry, or fails and changes nothing.  *)
(***************************************************************************)
LEMMA RegisterCbEffect ==
  ASSUME NEW s \in AppState, NEW cb \in Callbacks, NEW t, t = RegisterCb(s, cb)
  PROVE  /\ t \in AppState
         /\ SameWindows(s, t)
         /\ SameMachine(s, t) /\ SameDebugger(s, t) /\ SameMain(s, t)
         /\ \/ /\ t.ret = -1 /\ t.callbacks = s.callbacks
               /\ \A h \in Handles : s.callbacks[h].cb # "none"
            \/ /\ t.ret \in Handles /\ s.callbacks[t.ret].cb = "none"
               /\ \A g \in Handles :
                    t.callbacks[g].cb = IF g = t.ret THEN cb ELSE s.callbacks[g].cb
<1>1. CASE FreeHandles(s) = {}
  <2>1. t = Ret(s, -1)
    BY <1>1 DEF RegisterCb
  <2>2. \A h \in Handles : s.callbacks[h].cb # "none"
    BY <1>1 DEF FreeHandles
  <2> QED
    BY <2>1, <2>2, RetEffect
<1>2. CASE FreeHandles(s) # {}
  <2> DEFINE h == Min(FreeHandles(s))
             c == [s.callbacks EXCEPT ![h] = [cb |-> cb, enabled |-> FALSE]]
             u == CallsSet(s, c)
  <2>1. h \in Handles /\ s.callbacks[h].cb = "none"
    <3>1. FreeHandles(s) \in SUBSET Nat
      BY DEF FreeHandles, Handles
    <3>2. h \in FreeHandles(s)
      BY <1>2, <3>1, MinMember
    <3> QED
      BY <3>2 DEF FreeHandles
  <2>2. t = Ret(u, h)
    BY <1>2 DEF RegisterCb, CallsSet, AppState
  <2>3. s.callbacks \in CallType
    BY FieldTypes DEF CallType
  <2> HIDE DEF h
  <2>4. /\ c \in CallType
        /\ \A g \in Handles : c[g].cb = IF g = h THEN cb ELSE s.callbacks[g].cb
    BY <2>1, <2>3 DEF CallType
  <2> HIDE DEF c
  <2>5. /\ u \in AppState /\ u.callbacks = c
        /\ SameWindows(s, u)
        /\ SameMachine(s, u) /\ SameDebugger(s, u) /\ SameMain(s, u)
    BY <2>4, CallsUpdate
  <2> HIDE DEF u
  <2>6. h \in Int
    BY <2>1 DEF Handles
  <2>7. u \in AppState
    BY <2>5
  <2>8. /\ t \in AppState /\ t.ret = h /\ t.callbacks = u.callbacks
        /\ SameWindows(u, t)
        /\ SameMachine(u, t) /\ SameDebugger(u, t) /\ SameMain(u, t)
    BY <2>2, <2>6, <2>7, RetEffect
  <2> QED
    BY <2>1, <2>4, <2>5, <2>8 DEF SameWindows, SameMachine, SameDebugger, SameMain
<1> QED
  BY <1>1, <1>2

(***************************************************************************)
(* The state after an update of what belongs to the debugger.              *)
(***************************************************************************)
BoxesSet(s, n, r) == [s EXCEPT !.dBoxes = n, !.ttf = r]

\* Only the text boxes and their references change.
LEMMA BoxesUpdate ==
  ASSUME NEW s \in AppState, NEW n \in 0..NumBoxes, NEW r \in References,
         NEW t, t = BoxesSet(s, n, r)
  PROVE  /\ t \in AppState /\ t.dBoxes = n /\ t.ttf = r
         /\ t.dWindow = s.dWindow /\ t.dHandle = s.dHandle
         /\ SameWindows(s, t) /\ t.callbacks = s.callbacks
         /\ SameMachine(s, t) /\ SameMain(s, t)
BY DEF BoxesSet, AppState, SameWindows, SameMachine, SameMain

DWindowSet(s, w) == [s EXCEPT !.dWindow = w]

\* Only the debugger's window changes.
LEMMA DWindowUpdate ==
  ASSUME NEW s \in AppState, NEW w \in WindowOrNone, NEW t, t = DWindowSet(s, w)
  PROVE  /\ t \in AppState /\ t.dWindow = w
         /\ t.dBoxes = s.dBoxes /\ t.ttf = s.ttf /\ t.dHandle = s.dHandle
         /\ SameWindows(s, t) /\ t.callbacks = s.callbacks
         /\ SameMachine(s, t) /\ SameMain(s, t)
BY DEF DWindowSet, AppState, SameWindows, SameMachine, SameMain

DHandleSet(s, h) == [s EXCEPT !.dHandle = h]

\* Only the debugger's handle changes.
LEMMA DHandleUpdate ==
  ASSUME NEW s \in AppState, NEW h \in Int, NEW t, t = DHandleSet(s, h)
  PROVE  /\ t \in AppState /\ t.dHandle = h
         /\ t.dBoxes = s.dBoxes /\ t.ttf = s.ttf /\ t.dWindow = s.dWindow
         /\ SameWindows(s, t) /\ t.callbacks = s.callbacks
         /\ SameMachine(s, t) /\ SameMain(s, t)
BY DEF DHandleSet, AppState, SameWindows, SameMachine, SameMain

(***************************************************************************)
(* All text boxes go while their window still exists.                      *)
(***************************************************************************)
LEMMA TextboxesGone ==
  ASSUME NEW s \in AppState, s.dWindow \in s.alive \cup {NoWindow},
         NEW t, t = TextboxDestroy(s, s.dBoxes)
  PROVE  /\ t \in AppState /\ t.dBoxes = 0 /\ Owed(t.ttf) = Owed(s.ttf) - s.dBoxes
         /\ t.dWindow = s.dWindow /\ t.dHandle = s.dHandle
         /\ SameWindows(s, t) /\ t.callbacks = s.callbacks
         /\ SameMachine(s, t) /\ SameMain(s, t)
<1>0. s.ttf \in References /\ Owed(s.ttf) \in Int /\ s.dBoxes \in 0..NumBoxes
  BY FieldTypes, OwedInt
<1>1. CASE s.dBoxes = 0
  <2>1. t = s
    BY <1>1 DEF TextboxDestroy
  <2> QED
    BY <1>0, <1>1, <2>1 DEF SameWindows, SameMachine, SameMain
<1>2. CASE s.dBoxes # 0
  <2>1. UseWindow(s, s.dWindow) = s
    BY UseAlive
  <2> DEFINE r == Release(s.ttf, s.dBoxes)
  <2>2. t = BoxesSet(s, 0, r)
    BY <1>2, <2>1 DEF TextboxDestroy, BoxesSet, AppState
  <2>3. r \in References /\ Owed(r) = Owed(s.ttf) - s.dBoxes
    <3>1. s.ttf \in References /\ s.dBoxes \in Int
      BY <1>0
    <3> QED
      BY ONLY <3>1, OwedEffect DEF r
  <2>4. 0 \in 0..NumBoxes
    BY <1>0
  <2> HIDE DEF r
  <2> QED
    BY <2>2, <2>3, <2>4, BoxesUpdate
<1> QED
  BY <1>1, <1>2

(***************************************************************************)
(* err_cleanup of the debugger gives back what was acquired so far.        *)
(***************************************************************************)
LEMMA ReleaseEffect ==
  ASSUME NEW s \in AppState, s.dWindow \in s.alive \cup {NoWindow},
         Registered(s.registry, s.alive), NEW t, t = DebuggerRelease(s)
  PROVE  /\ t \in AppState /\ t.dWindow = NoWindow
         /\ t.dBoxes = 0 /\ Owed(t.ttf) = Owed(s.ttf) - s.dBoxes
         /\ Gone(s, t, s.dWindow)
         /\ t.callbacks = s.callbacks
         /\ SameMachine(s, t) /\ SameMain(s, t)
<1> DEFINE b == TextboxDestroy(s, s.dBoxes)
           d == WindowDestroy(b, s.dWindow)
<1>1. /\ b \in AppState /\ b.dBoxes = 0 /\ Owed(b.ttf) = Owed(s.ttf) - s.dBoxes
      /\ SameWindows(s, b) /\ b.callbacks = s.callbacks
      /\ SameMachine(s, b) /\ SameMain(s, b)
  BY TextboxesGone
<1>2. t = DWindowSet(d, NoWindow)
  BY DEF DebuggerRelease, DWindowSet
<1> HIDE DEF b
<1>3. /\ s.dWindow \in b.alive \cup {NoWindow} /\ Registered(b.registry, b.alive)
      /\ NoWindow \notin b.alive
  BY <1>1, FieldTypes DEF SameWindows, Windows
<1>4. /\ d \in AppState /\ Gone(b, d, s.dWindow)
      /\ SameMachine(b, d) /\ SameDebugger(b, d) /\ SameMain(b, d)
      /\ d.callbacks = b.callbacks
  BY <1>1, <1>3, DestroyEffect
<1> HIDE DEF d
<1>5. 0 \in WindowOrNone
  BY DEF WindowOrNone
<1>6. /\ t \in AppState /\ t.dWindow = NoWindow
      /\ t.dBoxes = d.dBoxes /\ t.ttf = d.ttf /\ t.dHandle = d.dHandle
      /\ SameWindows(d, t) /\ t.callbacks = d.callbacks
      /\ SameMachine(d, t) /\ SameMain(d, t)
  BY <1>2, <1>4, <1>5, DWindowUpdate
<1>7. Gone(s, t, s.dWindow)
  BY <1>1, <1>4, <1>6 DEF Gone, SameWindows
<1> QED
  BY <1>1, <1>4, <1>6, <1>7 DEF SameMachine, SameDebugger, SameMain

(***************************************************************************)
(* While the debugger opens or closes: its window, if it has one, may be   *)
(* without handler, and it has no render callback.                         *)
(***************************************************************************)
Opening(s) ==
  /\ s.alive = {s.gWindow, s.dWindow} \ {NoWindow}
  /\ s.gWindow = s.dWindow => s.gWindow = NoWindow
  /\ s.alive \subseteq 1..s.created
  /\ Registered(s.registry, s.alive)
  /\ \A v \in Windows \ {s.dWindow} :
       s.handler[v] = IF v = s.gWindow THEN "gboy" ELSE "none"
  /\ Owed(s.video) = Needs(s.gWindow) + Needs(s.dWindow)
  /\ MachineInv(s)
  /\ \A h \in Handles : s.callbacks[h].cb # "debugger_update"
  /\ Owed(s.ttf) = s.dBoxes
  /\ ~s.bad

\* However far debugger_open came, its cleanup brings the state to rest.
LEMMA ReleaseRests ==
  ASSUME NEW s \in AppState, Opening(s), NEW t, t = DebuggerRelease(s)
  PROVE  /\ t \in AppState /\ Resting(t) /\ t.dWindow = NoWindow
         /\ t.created = s.created
         /\ SameMachine(s, t) /\ SameMain(s, t)
<1>1. s.dWindow \in s.alive \cup {NoWindow} /\ Registered(s.registry, s.alive)
  BY DEF Opening
<1>2. /\ t \in AppState /\ t.dWindow = NoWindow
      /\ t.dBoxes = 0 /\ Owed(t.ttf) = Owed(s.ttf) - s.dBoxes
      /\ Gone(s, t, s.dWindow)
      /\ t.callbacks = s.callbacks
      /\ SameMachine(s, t) /\ SameMain(s, t)
  BY <1>1, ReleaseEffect
<1>3. /\ Owed(s.video) \in Int /\ Owed(s.ttf) \in Int /\ s.dBoxes \in Int
      /\ s.gWindow \in WindowOrNone /\ s.dWindow \in WindowOrNone
  BY FieldTypes, OwedInt
<1>4. /\ t.alive = s.alive \ {s.dWindow} /\ Registered(t.registry, t.alive)
      /\ \A v \in Windows : t.handler[v] = IF v = s.dWindow THEN "none" ELSE s.handler[v]
      /\ Owed(t.video) = Owed(s.video) - Needs(s.dWindow)
      /\ t.created = s.created /\ t.bad = s.bad /\ t.gWindow = s.gWindow
  BY <1>2 DEF Gone, SameMachine
<1>5. WindowsInv(t)
  <2>1. t.alive = {t.gWindow, t.dWindow} \ {NoWindow}
    BY <1>2, <1>4 DEF Opening
  <2>2. Handled(t.handler, t.gWindow, t.dWindow)
    BY <1>2, <1>4 DEF Opening, Handled, Windows
  <2>3. Owed(t.video) = Needs(t.gWindow) + Needs(t.dWindow)
    BY <1>2, <1>3, <1>4 DEF Opening, Needs
  <2> QED
    BY <1>2, <1>4, <2>1, <2>2, <2>3 DEF Opening, WindowsInv
<1>6. MachineInv(t)
  BY <1>2 DEF Opening, MachineInv, SameMachine, Called
<1>7. DebuggerInv(t)
  BY <1>2, <1>3 DEF Opening, DebuggerInv, Called
<1>8. ~t.bad
  BY <1>4 DEF Opening
<1> QED
  BY <1>2, <1>4, <1>5, <1>6, <1>7, <1>8 DEF Resting

(***************************************************************************)
(* debugger_close gives back all that the debugger holds.                  *)
(***************************************************************************)
LEMMA CloseEffect ==
  ASSUME NEW s \in AppState, Resting(s), s.dWindow # NoWindow,
         NEW t, t = DebuggerClose(s)
  PROVE  /\ t \in AppState /\ Resting(t) /\ t.dWindow = NoWindow
         /\ t.created = s.created
         /\ SameMachine(s, t) /\ SameMain(s, t)
<1> DEFINE e == EnableCb(s, s.dHandle, FALSE)
           c == DeregisterCb(e, s.dHandle)
<1>1. s.dHandle \in Int
  BY FieldTypes
<1>2. /\ e \in AppState
      /\ \A g \in Handles : e.callbacks[g].cb = s.callbacks[g].cb
      /\ SameWindows(s, e)
      /\ SameMachine(s, e) /\ SameDebugger(s, e) /\ SameMain(s, e)
  BY <1>1, EnableEffect
<1> HIDE DEF e
<1>3. /\ c \in AppState
      /\ \A g \in Handles :
           c.callbacks[g].cb = IF g = s.dHandle THEN "none" ELSE e.callbacks[g].cb
      /\ SameWindows(e, c)
      /\ SameMachine(e, c) /\ SameDebugger(e, c) /\ SameMain(e, c)
  BY <1>1, <1>2, DeregisterEffect
<1> HIDE DEF c
<1>4. /\ SameWindows(s, c) /\ SameMachine(s, c) /\ SameDebugger(s, c) /\ SameMain(s, c)
      /\ \A g \in Handles :
           c.callbacks[g].cb = IF g = s.dHandle THEN "none" ELSE s.callbacks[g].cb
  BY <1>2, <1>3 DEF SameWindows, SameMachine, SameDebugger, SameMain
<1>5. Called(c.callbacks, "window_update", c.gWindow, c.gHandle)
  BY <1>4 DEF Resting, MachineInv, DebuggerInv, Called, SameMachine
<1>6. MachineInv(c)
  BY <1>4, <1>5 DEF Resting, MachineInv, SameMachine, SameDebugger
<1>7. \A h \in Handles : c.callbacks[h].cb # "debugger_update"
  BY <1>4 DEF Resting, DebuggerInv, Called
<1>8. Opening(c)
  BY <1>4, <1>6, <1>7
     DEF Opening, Resting, WindowsInv, DebuggerInv, Handled, SameWindows, SameMachine,
         SameDebugger
<1>9. t = DebuggerRelease(c)
  BY DEF DebuggerClose, e, c
<1>10. /\ t \in AppState /\ Resting(t) /\ t.dWindow = NoWindow
       /\ t.created = c.created
       /\ SameMachine(c, t) /\ SameMain(c, t)
  BY <1>3, <1>8, <1>9, ReleaseRests
<1> QED
  BY <1>4, <1>10 DEF SameWindows, SameMachine, SameMain

(***************************************************************************)
(* The text boxes of the debugger: all of them, or all but one.            *)
(***************************************************************************)
LEMMA BoxesEffect ==
  ASSUME NEW s \in AppState, NEW fail, NEW t, t = TextboxCreate(s, fail)
  PROVE  /\ t \in AppState
         /\ t.dWindow = s.dWindow
         /\ Owed(s.ttf) = 0 => Owed(t.ttf) = t.dBoxes
         /\ t.ret = 0 => t.dBoxes = NumBoxes
         /\ SameWindows(s, t) /\ t.callbacks = s.callbacks
         /\ SameMachine(s, t) /\ SameMain(s, t)
<1>0. s.ttf \in References /\ Owed(s.ttf) \in Int /\ NumBoxes \in Nat \ {0}
  BY FieldTypes, OwedInt
<1>1. PICK n \in 0..NumBoxes, r \in References, v \in {0, -1} :
        /\ t = Ret(BoxesSet(s, n, r), v)
        /\ Owed(s.ttf) = 0 => Owed(r) = n
        /\ v = 0 => n = NumBoxes
  <2>1. CASE fail = "box"
    <3> DEFINE r == Acquire(s.ttf, NumBoxes - 1)
    <3>1. t = Ret(BoxesSet(s, NumBoxes - 1, r), -1)
      BY <2>1 DEF TextboxCreate, BoxesSet, AppState
    <3>2. r \in References /\ Owed(r) = Owed(s.ttf) + (NumBoxes - 1)
      <4>1. NumBoxes - 1 \in Int
        BY <1>0
      <4> QED
        BY <1>0, <4>1, OwedEffect
    <3> HIDE DEF r
    <3> QED
      BY <1>0, <3>1, <3>2
  <2>2. CASE fail = "boxcalloc"
    <3> DEFINE a == Acquire(s.ttf, NumBoxes)  r == Lose(a)
    <3>1. t = Ret(BoxesSet(s, NumBoxes - 1, r), -1)
      BY <2>2 DEF TextboxCreate, BoxesSet, AppState
    <3>2. a \in References /\ Owed(a) = Owed(s.ttf) + NumBoxes
      <4>1. NumBoxes \in Int
        BY <1>0
      <4> QED
        BY <1>0, <4>1, OwedEffect
    <3> HIDE DEF a
    <3>3. r \in References /\ Owed(r) = Owed(a) - 1
      BY <3>2, OwedLose
    <3> HIDE DEF r
    <3> QED
      BY <1>0, <3>1, <3>2, <3>3
  <2>3. CASE fail \notin {"box", "boxcalloc"}
    <3> DEFINE r == Acquire(s.ttf, NumBoxes)
    <3>1. t = Ret(BoxesSet(s, NumBoxes, r), 0)
      BY <2>3 DEF TextboxCreate, BoxesSet, AppState
    <3>2. r \in References /\ Owed(r) = Owed(s.ttf) + NumBoxes
      <4>1. NumBoxes \in Int
        BY <1>0
      <4> QED
        BY <1>0, <4>1, OwedEffect
    <3> HIDE DEF r
    <3> QED
      BY <1>0, <3>1, <3>2
  <2> QED
    BY <2>1, <2>2, <2>3
<1> DEFINE b == BoxesSet(s, n, r)
<1>2. /\ b \in AppState /\ b.dBoxes = n /\ b.ttf = r
      /\ b.dWindow = s.dWindow /\ b.dHandle = s.dHandle
      /\ SameWindows(s, b) /\ b.callbacks = s.callbacks
      /\ SameMachine(s, b) /\ SameMain(s, b)
  BY BoxesUpdate
<1>3. t = Ret(b, v) /\ b \in AppState /\ v \in Int
  BY <1>1, <1>2
<1> HIDE DEF b
<1>4. /\ t \in AppState /\ t.ret = v
      /\ SameWindows(b, t) /\ t.callbacks = b.callbacks
      /\ SameMachine(b, t) /\ SameDebugger(b, t) /\ SameMain(b, t)
  BY <1>3, RetEffect
<1> QED
  BY <1>1, <1>2, <1>4 DEF SameWindows, SameMachine, SameDebugger, SameMain

HandlerSet(s, h) == [s EXCEPT !.handler = h]

\* A window that exists gets its event handler.
LEMMA HandlerEffect ==
  ASSUME NEW s \in AppState, NEW w \in s.alive, NEW owner \in Owners,
         NEW t, t = RegisterHandler(s, w, owner)
  PROVE  /\ t \in AppState
         /\ t.registry = s.registry /\ t.alive = s.alive
         /\ \A v \in Windows : t.handler[v] = IF v = w THEN owner ELSE s.handler[v]
         /\ t.created = s.created /\ t.video = s.video /\ t.bad = s.bad
         /\ t.ret = s.ret /\ t.callbacks = s.callbacks
         /\ SameMachine(s, t) /\ SameDebugger(s, t) /\ SameMain(s, t)
<1>1. UseWindow(s, w) = s
  BY UseAlive
<1> DEFINE h == [s.handler EXCEPT ![w] = owner]
<1>2. t = HandlerSet(s, h)
  BY <1>1 DEF RegisterHandler, HandlerSet, AppState
<1>3. s.handler \in [Windows -> Owners] /\ s.alive \subseteq Windows
  BY FieldTypes
<1>4. /\ h \in [Windows -> Owners]
      /\ \A v \in Windows : h[v] = IF v = w THEN owner ELSE s.handler[v]
  BY <1>3
<1> HIDE DEF h
<1>5. t \in AppState /\ t.handler = h
  BY <1>2, <1>4 DEF HandlerSet, AppState
<1>6. /\ t.registry = s.registry /\ t.alive = s.alive
      /\ t.created = s.created /\ t.video = s.video /\ t.bad = s.bad
      /\ t.ret = s.ret /\ t.callbacks = s.callbacks
      /\ SameMachine(s, t) /\ SameDebugger(s, t) /\ SameMain(s, t)
  BY <1>2 DEF HandlerSet, AppState, SameMachine, SameDebugger, SameMain
<1> QED
  BY <1>4, <1>5, <1>6

(***************************************************************************)
(* The last part of debugger_open, from the event handler on: either the   *)
(* debugger is open or it has left nothing.                                *)
(***************************************************************************)
LEMMA DebuggerRegisterEffect ==
  ASSUME NEW s \in AppState, Opening(s), s.dWindow # NoWindow, s.gWindow # NoWindow,
         s.dBoxes = NumBoxes, NEW t, t = DebuggerRegister(s)
  PROVE  /\ t \in AppState /\ Resting(t)
         /\ t.created = s.created
         /\ SameMachine(s, t) /\ SameMain(s, t)
<1> DEFINE i == RegisterHandler(s, s.dWindow, "debugger")
           r == RegisterCb(i, "debugger_update")
           h == DHandleSet(r, r.ret)
<1>1. s.dWindow \in s.alive /\ "debugger" \in Owners /\ "debugger_update" \in Callbacks
  BY DEF Opening, Owners, Callbacks
<1>2. /\ i \in AppState
      /\ i.registry = s.registry /\ i.alive = s.alive
      /\ \A v \in Windows : i.handler[v] = IF v = s.dWindow THEN "debugger" ELSE s.handler[v]
      /\ i.created = s.created /\ i.video = s.video /\ i.bad = s.bad
      /\ i.callbacks = s.callbacks
      /\ SameMachine(s, i) /\ SameDebugger(s, i) /\ SameMain(s, i)
  BY <1>1, HandlerEffect
<1> HIDE DEF i
<1>3. /\ r \in AppState
      /\ SameWindows(i, r)
      /\ SameMachine(i, r) /\ SameDebugger(i, r) /\ SameMain(i, r)
      /\ \/ r.ret = -1 /\ r.callbacks = i.callbacks
         \/ /\ r.ret \in Handles /\ i.callbacks[r.ret].cb = "none"
            /\ \A g \in Handles :
                 r.callbacks[g].cb =
                   IF g = r.ret THEN "debugger_update" ELSE i.callbacks[g].cb
  BY <1>1, <1>2, RegisterCbEffect
<1>4. r.ret \in Int
  BY <1>3, FieldTypes
<1> HIDE DEF r
<1>5. /\ h \in AppState /\ h.dHandle = r.ret
      /\ h.dBoxes = r.dBoxes /\ h.ttf = r.ttf /\ h.dWindow = r.dWindow
      /\ SameWindows(r, h) /\ h.callbacks = r.callbacks
      /\ SameMachine(r, h) /\ SameMain(r, h)
  BY <1>3, <1>4, DHandleUpdate
<1>6. t = IF r.ret < 0 THEN DebuggerRelease(h) ELSE EnableCb(h, h.dHandle, TRUE)
  BY DEF DebuggerRegister, i, r, DHandleSet
<1> HIDE DEF h
<1>7. /\ h.registry = s.registry /\ h.alive = s.alive /\ h.created = s.created
      /\ h.video = s.video /\ h.bad = s.bad
      /\ \A v \in Windows : h.handler[v] = IF v = s.dWindow THEN "debugger" ELSE s.handler[v]
      /\ h.dBoxes = s.dBoxes /\ h.ttf = s.ttf /\ h.dWindow = s.dWindow
      /\ SameMachine(s, h) /\ SameMain(s, h)
  BY <1>2, <1>3, <1>5 DEF SameWindows, SameMachine, SameDebugger, SameMain
<1>8. CASE r.ret = -1
  <2>1. h.callbacks = s.callbacks
    BY <1>2, <1>3, <1>5, <1>8 DEF Handles
  <2>2. MachineInv(h)
    BY <1>7, <2>1 DEF Opening, MachineInv, SameMachine
  <2>3. Opening(h)
    BY <1>7, <2>1, <2>2 DEF Opening, SameMachine
  <2>4. t = DebuggerRelease(h)
    BY <1>6, <1>8
  <2>5. /\ t \in AppState /\ Resting(t) /\ t.created = h.created
        /\ SameMachine(h, t) /\ SameMain(h, t)
    BY <1>5, <2>3, <2>4, ReleaseRests
  <2> QED
    BY <1>7, <2>5 DEF SameMachine, SameMain
<1>9. CASE r.ret \in Handles
  <2>1. t = EnableCb(h, h.dHandle, TRUE) /\ h.dHandle \in Int
    <3>1. ~(r.ret < 0)
      BY <1>9 DEF Handles
    <3>2. h.dHandle = r.ret
      BY <1>5
    <3> QED
      BY <1>4, <1>6, <3>1, <3>2
  <2>2. /\ t \in AppState
        /\ \A g \in Handles : t.callbacks[g].cb = h.callbacks[g].cb
        /\ SameWindows(h, t)
        /\ SameMachine(h, t) /\ SameDebugger(h, t) /\ SameMain(h, t)
    BY <1>5, <2>1, EnableEffect
  <2>3. /\ s.callbacks[r.ret].cb = "none"
        /\ \A g \in Handles :
             t.callbacks[g].cb = IF g = r.ret THEN "debugger_update" ELSE s.callbacks[g].cb
    BY <1>2, <1>3, <1>5, <1>9, <2>2 DEF Handles
  <2>4. /\ t.dWindow = s.dWindow /\ t.dHandle = r.ret /\ t.dBoxes = s.dBoxes
        /\ t.ttf = s.ttf
        /\ SameMachine(s, t) /\ SameMain(s, t)
        /\ t.registry = s.registry /\ t.alive = s.alive /\ t.created = s.created
        /\ t.video = s.video /\ t.bad = s.bad /\ t.handler = h.handler
    BY <1>5, <1>7, <2>2 DEF SameWindows, SameMachine, SameDebugger, SameMain
  <2>5. WindowsInv(t)
    BY <1>7, <2>4 DEF Opening, WindowsInv, Handled, SameMachine
  <2>6. Called(t.callbacks, "window_update", t.gWindow, t.gHandle)
    BY <2>3, <2>4 DEF Opening, MachineInv, Called, SameMachine
  <2>7. MachineInv(t)
    BY <2>4, <2>6 DEF Opening, MachineInv, SameMachine
  <2>8. Called(t.callbacks, "debugger_update", t.dWindow, t.dHandle)
    BY <1>9, <2>3, <2>4 DEF Opening, Called
  <2>9. DebuggerInv(t)
    BY <2>4, <2>8 DEF Opening, DebuggerInv
  <2> QED
    BY <2>2, <2>4, <2>5, <2>7, <2>9 DEF Resting, Opening
<1> QED
  BY <1>3, <1>8, <1>9

(***************************************************************************)
(* debugger_open: whichever call fails, the debugger is open or it has     *)
(* left nothing behind.                                                    *)
(***************************************************************************)
LEMMA OpenEffect ==
  ASSUME NEW s \in AppState, Resting(s), s.dWindow = NoWindow, s.gWindow # NoWindow,
         s.created < MaxWindows, NEW fail, NEW t, t = DebuggerOpen(s, fail)
  PROVE  /\ t \in AppState /\ Resting(t)
         /\ t.created \in {s.created, s.created + 1}
         /\ SameMachine(s, t) /\ SameMain(s, t)
<1> DEFINE win == WindowCreate(s, fail)
           w == DWindowSet(win, win.ret)
           boxes == TextboxCreate(w, fail)
<1>0. /\ Owed(s.ttf) \in Int /\ s.dBoxes \in Int /\ s.alive \in SUBSET Windows
      /\ s.gWindow \in WindowOrNone /\ Owed(s.video) \in Int /\ NoWindow \notin Windows
  BY FieldTypes, OwedInt DEF Windows
<1>1. Opening(s)
  BY DEF Resting, WindowsInv, DebuggerInv, Handled, Called, Opening
<1>2. \A v \in Windows \ s.alive : s.handler[v] = "none"
  BY <1>0 DEF Resting, WindowsInv, Handled
<1>3. /\ win \in AppState /\ CreateDone(s, win)
      /\ SameMachine(s, win) /\ SameDebugger(s, win) /\ SameMain(s, win)
      /\ win.callbacks = s.callbacks
  BY <1>1, <1>2, CreateEffect DEF Opening
<1>4. win.ret \in WindowOrNone
  BY <1>3 DEF CreateDone, Windows, WindowOrNone
<1>5. /\ w \in AppState /\ w.dWindow = win.ret
      /\ w.dBoxes = win.dBoxes /\ w.ttf = win.ttf /\ w.dHandle = win.dHandle
      /\ SameWindows(win, w) /\ w.callbacks = win.callbacks
      /\ SameMachine(win, w) /\ SameMain(win, w)
  <2> HIDE DEF win
  <2> QED
    BY <1>3, <1>4, DWindowUpdate
<1>6. t = IF fail = "locks" THEN DebuggerRelease(s)
          ELSE IF w.dWindow = NoWindow THEN DebuggerRelease(w)
          ELSE IF boxes.ret # 0 THEN DebuggerRelease(boxes)
          ELSE DebuggerRegister(boxes)
  BY DEF DebuggerOpen, DWindowSet
<1> HIDE DEF win, w, boxes
<1>7. /\ w.callbacks = s.callbacks /\ w.dBoxes = s.dBoxes /\ w.ttf = s.ttf
      /\ SameMachine(s, w) /\ SameMain(s, w)
      /\ w.created \in {s.created, s.created + 1}
      /\ w.alive \subseteq 1..w.created /\ Registered(w.registry, w.alive)
      /\ \A v \in Windows : w.handler[v] = s.handler[v]
      /\ w.bad = s.bad
      /\ \/ w.dWindow = NoWindow /\ w.alive = s.alive /\ Owed(w.video) = Owed(s.video)
         \/ /\ w.dWindow \in Windows \ s.alive
            /\ w.alive = s.alive \cup {w.dWindow}
            /\ Owed(w.video) = Owed(s.video) + 1
  BY <1>3, <1>5 DEF CreateDone, SameWindows, SameMachine, SameDebugger, SameMain
<1>8. Opening(w)
  <2>1. /\ s.alive = {s.gWindow} /\ Owed(s.video) = 1
        /\ \A v \in Windows : s.handler[v] = IF v = s.gWindow THEN "gboy" ELSE "none"
    BY <1>0 DEF Resting, WindowsInv, Handled, Needs
  <2>2. w.gWindow = s.gWindow /\ Owed(s.ttf) = s.dBoxes /\ ~s.bad
    BY <1>1, <1>7 DEF SameMachine, Opening
  <2>3. MachineInv(w)
    BY <1>1, <1>7 DEF Opening, MachineInv, SameMachine
  <2>4. Owed(w.video) = Needs(w.gWindow) + Needs(w.dWindow)
    BY <1>0, <1>5, <1>7, <2>1, <2>2, FieldTypes DEF Needs
  <2>5. /\ w.alive = {w.gWindow, w.dWindow} \ {NoWindow}
        /\ w.gWindow = w.dWindow => w.gWindow = NoWindow
    BY <1>0, <1>7, <2>1, <2>2
  <2> QED
    BY <1>1, <1>7, <2>1, <2>2, <2>3, <2>4, <2>5 DEF Opening
<1>9. /\ boxes \in AppState
      /\ boxes.dWindow = w.dWindow
      /\ Owed(w.ttf) = 0 => Owed(boxes.ttf) = boxes.dBoxes
      /\ boxes.ret = 0 => boxes.dBoxes = NumBoxes
      /\ SameWindows(w, boxes) /\ boxes.callbacks = w.callbacks
      /\ SameMachine(w, boxes) /\ SameMain(w, boxes)
  BY <1>5, BoxesEffect DEF boxes
<1>10. Opening(boxes)
  <2>1. Owed(w.ttf) = 0
    BY <1>0, <1>7 DEF Resting, DebuggerInv
  <2>2. MachineInv(boxes)
    BY <1>8, <1>9 DEF Opening, MachineInv, SameMachine
  <2> QED
    BY <1>8, <1>9, <2>1, <2>2 DEF Opening, SameWindows, SameMachine
<1>11. CASE fail = "locks"
  <2>1. t = DebuggerRelease(s)
    BY <1>6, <1>11
  <2> QED
    BY <1>1, <2>1, ReleaseRests
<1>12. CASE fail # "locks" /\ w.dWindow = NoWindow
  <2>1. t = DebuggerRelease(w) /\ w \in AppState
    BY <1>5, <1>6, <1>12
  <2>2. /\ t \in AppState /\ Resting(t) /\ t.created = w.created
        /\ SameMachine(w, t) /\ SameMain(w, t)
    BY <1>8, <2>1, ReleaseRests
  <2> QED
    BY <1>7, <2>2 DEF SameMachine, SameMain
<1>13. CASE fail # "locks" /\ w.dWindow # NoWindow /\ boxes.ret # 0
  <2>1. t = DebuggerRelease(boxes) /\ boxes \in AppState
    BY <1>6, <1>9, <1>13
  <2>2. /\ t \in AppState /\ Resting(t) /\ t.created = boxes.created
        /\ SameMachine(boxes, t) /\ SameMain(boxes, t)
    BY <1>10, <2>1, ReleaseRests
  <2> QED
    BY <1>7, <1>9, <2>2 DEF SameWindows, SameMachine, SameMain
<1>14. CASE fail # "locks" /\ w.dWindow # NoWindow /\ boxes.ret = 0
  <2>1. t = DebuggerRegister(boxes) /\ boxes \in AppState
    BY <1>6, <1>9, <1>14
  <2>2. boxes.dWindow # NoWindow /\ boxes.gWindow # NoWindow /\ boxes.dBoxes = NumBoxes
    BY <1>7, <1>9, <1>14 DEF SameMachine
  <2>3. /\ t \in AppState /\ Resting(t) /\ t.created = boxes.created
        /\ SameMachine(boxes, t) /\ SameMain(boxes, t)
    BY <1>10, <2>1, <2>2, DebuggerRegisterEffect
  <2> QED
    BY <1>7, <1>9, <2>3 DEF SameWindows, SameMachine, SameMain
<1> QED
  BY <1>11, <1>12, <1>13, <1>14

(***************************************************************************)
(* The state after an update of what belongs to the machine.               *)
(***************************************************************************)
MachineSet(s, w, x) == [s EXCEPT !.gWindow = w, !.gTexture = x]

SameFlags(s, t) == t.gInit = s.gInit /\ t.on = s.on /\ t.cart = s.cart

\* Only the machine's window and texture change.
LEMMA MachineUpdate ==
  ASSUME NEW s \in AppState, NEW w \in WindowOrNone, NEW x \in WindowOrNone,
         NEW t, t = MachineSet(s, w, x)
  PROVE  /\ t \in AppState
         /\ t.gWindow = w /\ t.gTexture = x /\ t.gHandle = s.gHandle
         /\ t.ret = s.ret
         /\ SameFlags(s, t)
         /\ SameWindows(s, t) /\ t.callbacks = s.callbacks
         /\ SameDebugger(s, t) /\ SameMain(s, t)
<1>1. t \in AppState
  BY DEF MachineSet, AppState
<1>2. /\ t.gWindow = w /\ t.gTexture = x /\ t.gHandle = s.gHandle
      /\ t.ret = s.ret /\ t.callbacks = s.callbacks
  BY DEF MachineSet, AppState
<1>3. SameFlags(s, t) /\ SameWindows(s, t) /\ SameDebugger(s, t) /\ SameMain(s, t)
  BY DEF MachineSet, AppState, SameFlags, SameWindows, SameDebugger, SameMain
<1> QED
  BY <1>1, <1>2, <1>3

(***************************************************************************)
(* The end of gboy_cleanup and of a failed gboy_init: callback, texture    *)
(* and window go, the texture while its window still exists.               *)
(***************************************************************************)
LEMMA GboyReleaseEffect ==
  ASSUME NEW s \in AppState, s.gWindow \in s.alive \cup {NoWindow},
         s.gTexture \in s.alive \cup {NoWindow},
         Registered(s.registry, s.alive), NEW t, t = GboyRelease(s)
  PROVE  /\ t \in AppState /\ t.gWindow = NoWindow /\ t.gTexture = NoWindow
         /\ t.gInit = s.gInit /\ t.on = s.on /\ t.cart = s.cart
         /\ Gone(s, t, s.gWindow)
         /\ \A g \in Handles :
              t.callbacks[g].cb = IF g = s.gHandle THEN "none" ELSE s.callbacks[g].cb
         /\ SameDebugger(s, t) /\ SameMain(s, t)
<1> DEFINE d == DeregisterCb(s, s.gHandle)
           x == MachineSet(d, d.gWindow, 0)
           y == WindowDestroy(x, x.gWindow)
<1>0. s.gHandle \in Int /\ 0 \in WindowOrNone /\ NoWindow \notin s.alive
  BY FieldTypes DEF WindowOrNone, Windows
<1>1. /\ d \in AppState
      /\ \A g \in Handles :
           d.callbacks[g].cb = IF g = s.gHandle THEN "none" ELSE s.callbacks[g].cb
      /\ SameWindows(s, d)
      /\ SameMachine(s, d) /\ SameDebugger(s, d) /\ SameMain(s, d)
  BY <1>0, DeregisterEffect
<1>2. d.gTexture \in d.alive \cup {NoWindow}
  BY <1>1 DEF SameWindows, SameMachine
<1> HIDE DEF d
<1>3. TextureDestroy(d) = x
  <2>1. UseWindow(d, d.gTexture) = d
    BY <1>1, <1>2, UseAlive
  <2> QED
    BY <1>1, <2>1 DEF TextureDestroy, MachineSet, AppState
<1>4. /\ x \in AppState
      /\ x.gWindow = d.gWindow /\ x.gTexture = 0 /\ x.gHandle = d.gHandle
      /\ SameFlags(d, x)
      /\ SameWindows(d, x) /\ x.callbacks = d.callbacks
      /\ SameDebugger(d, x) /\ SameMain(d, x)
  <2>1. d.gWindow \in WindowOrNone /\ d.gHandle \in Int /\ d \in AppState
    BY <1>1, FieldTypes
  <2> QED
    BY <1>0, <2>1, MachineUpdate
<1>5. /\ t = [y EXCEPT !.gWindow = NoWindow]
  BY <1>3 DEF GboyRelease, d
<1> HIDE DEF x
<1>6. /\ x.gWindow \in x.alive \cup {NoWindow} /\ Registered(x.registry, x.alive)
      /\ NoWindow \notin x.alive /\ x.gWindow = s.gWindow
  BY <1>0, <1>1, <1>4 DEF SameWindows, SameMachine
<1>7. /\ y \in AppState /\ Gone(x, y, x.gWindow)
      /\ SameMachine(x, y) /\ SameDebugger(x, y) /\ SameMain(x, y)
      /\ y.callbacks = x.callbacks
  BY <1>4, <1>6, DestroyEffect
<1> HIDE DEF y
<1>8. t = MachineSet(y, 0, y.gTexture)
  BY <1>5, <1>7 DEF MachineSet, AppState
<1>9. /\ t \in AppState
      /\ t.gWindow = 0 /\ t.gTexture = y.gTexture /\ SameFlags(y, t)
      /\ SameWindows(y, t) /\ t.callbacks = y.callbacks
      /\ SameDebugger(y, t) /\ SameMain(y, t)
  <2>1. y.gTexture \in WindowOrNone /\ y.gHandle \in Int /\ y \in AppState
    BY <1>7, FieldTypes
  <2> QED
    BY <1>0, <1>8, <2>1, MachineUpdate
<1>10. Gone(s, t, s.gWindow)
  BY <1>1, <1>4, <1>6, <1>7, <1>9 DEF Gone, SameWindows
<1>11. t.gInit = s.gInit /\ t.on = s.on /\ t.cart = s.cart /\ t.gTexture = NoWindow
  BY <1>1, <1>4, <1>7, <1>9 DEF SameMachine, SameFlags
<1>12. SameDebugger(s, t) /\ SameMain(s, t)
  BY <1>1, <1>4, <1>7, <1>9 DEF SameDebugger, SameMain
<1> QED
  BY <1>1, <1>4, <1>7, <1>9, <1>10, <1>11, <1>12

(***************************************************************************)
(* While the machine starts or ends, without a debugger.                   *)
(***************************************************************************)
Starting(s) ==
  /\ s.dWindow = NoWindow /\ s.dBoxes = 0 /\ Owed(s.ttf) = 0
  /\ s.alive = {s.gWindow} \ {NoWindow}
  /\ s.alive \subseteq 1..s.created
  /\ Registered(s.registry, s.alive)
  /\ \A v \in Windows \ {s.gWindow} : s.handler[v] = "none"
  /\ Owed(s.video) = Needs(s.gWindow)
  /\ s.gTexture \in {NoWindow, s.gWindow}
  /\ \A h \in Handles : s.callbacks[h].cb = "none" \/ h = s.gHandle
  /\ ~s.bad

\* However far gboy_init came, its cleanup leaves no window and no callback.
LEMMA GboyReleaseRests ==
  ASSUME NEW s \in AppState, Starting(s), NEW t, t = GboyRelease(s)
  PROVE  /\ t \in AppState /\ t.gWindow = NoWindow /\ t.dWindow = NoWindow
         /\ t.gInit = s.gInit /\ t.on = s.on /\ t.cart = s.cart
         /\ WindowsInv(t) /\ DebuggerInv(t) /\ ~t.bad /\ t.gTexture = NoWindow
         /\ Called(t.callbacks, "window_update", t.gWindow, t.gHandle)
         /\ t.created = s.created
         /\ SameMain(s, t)
<1>1. /\ s.gWindow \in s.alive \cup {NoWindow} /\ s.gTexture \in s.alive \cup {NoWindow}
      /\ Registered(s.registry, s.alive)
  BY DEF Starting
<1>2. /\ t \in AppState /\ t.gWindow = NoWindow /\ t.gTexture = NoWindow
      /\ t.gInit = s.gInit /\ t.on = s.on /\ t.cart = s.cart
      /\ Gone(s, t, s.gWindow)
      /\ \A g \in Handles :
           t.callbacks[g].cb = IF g = s.gHandle THEN "none" ELSE s.callbacks[g].cb
      /\ SameDebugger(s, t) /\ SameMain(s, t)
  BY <1>1, GboyReleaseEffect
<1>3. /\ t.alive = s.alive \ {s.gWindow} /\ Registered(t.registry, t.alive)
      /\ \A v \in Windows : t.handler[v] = IF v = s.gWindow THEN "none" ELSE s.handler[v]
      /\ Owed(t.video) = Owed(s.video) - Needs(s.gWindow)
      /\ t.created = s.created /\ t.bad = s.bad
      /\ t.dWindow = NoWindow /\ t.dBoxes = 0 /\ Owed(t.ttf) = 0
  BY <1>2 DEF Gone, SameDebugger, Starting
<1>4. Owed(s.video) \in Int /\ NoWindow \notin Windows
  BY FieldTypes, OwedInt DEF Windows
<1>5. WindowsInv(t)
  <2>1. t.alive = {t.gWindow, t.dWindow} \ {NoWindow}
    BY <1>2, <1>3 DEF Starting
  <2>2. Handled(t.handler, t.gWindow, t.dWindow)
    BY <1>2, <1>3, <1>4 DEF Starting, Handled
  <2>3. Owed(t.video) = Needs(t.gWindow) + Needs(t.dWindow)
    BY <1>2, <1>3, <1>4 DEF Starting, Needs
  <2> QED
    BY <1>2, <1>3, <2>1, <2>2, <2>3 DEF WindowsInv
<1>6. \A h \in Handles : t.callbacks[h].cb = "none"
  BY <1>2 DEF Starting
<1>7. /\ DebuggerInv(t)
      /\ Called(t.callbacks, "window_update", t.gWindow, t.gHandle)
  BY <1>2, <1>3, <1>6 DEF DebuggerInv, Called
<1>8. ~t.bad
  BY <1>3 DEF Starting
<1> QED
  BY <1>2, <1>3, <1>5, <1>7, <1>8

GHandleSet(s, h) == [s EXCEPT !.gHandle = h]

\* Only the machine's handle changes.
LEMMA GHandleUpdate ==
  ASSUME NEW s \in AppState, NEW h \in Int, NEW t, t = GHandleSet(s, h)
  PROVE  /\ t \in AppState /\ t.gHandle = h
         /\ t.gWindow = s.gWindow /\ t.gTexture = s.gTexture
         /\ SameFlags(s, t)
         /\ SameWindows(s, t) /\ t.callbacks = s.callbacks
         /\ SameDebugger(s, t) /\ SameMain(s, t)
BY DEF GHandleSet, AppState, SameFlags, SameWindows, SameDebugger, SameMain

SamePlaces(s, t) == t.gWindow = s.gWindow /\ t.gTexture = s.gTexture /\ t.gHandle = s.gHandle

\* Only m_ctx.init of gboy.c changes.
LEMMA InitUpdate ==
  ASSUME NEW s \in AppState, NEW e \in BOOLEAN, NEW t, t = [s EXCEPT !.gInit = e]
  PROVE  /\ t \in AppState
         /\ t.on = s.on /\ t.cart = s.cart
         /\ SamePlaces(s, t)
         /\ SameWindows(s, t) /\ t.callbacks = s.callbacks
         /\ SameDebugger(s, t) /\ SameMain(s, t)
<1>1. t \in AppState
  BY DEF AppState
<1>2. /\ t.on = s.on /\ t.cart = s.cart /\ t.callbacks = s.callbacks
      /\ SamePlaces(s, t) /\ SameWindows(s, t) /\ SameDebugger(s, t) /\ SameMain(s, t)
  BY DEF AppState, SamePlaces, SameWindows, SameDebugger, SameMain
<1> QED
  BY <1>1, <1>2

(***************************************************************************)
(* gboy_init from the registration of the callback on.                     *)
(***************************************************************************)
GboyRegister(s) ==
  LET r == RegisterCb(s, "window_update")
      h == RegisterHandler(GHandleSet(r, r.ret), s.gWindow, "gboy")
  IN IF r.ret < 0 THEN GboyRelease(GHandleSet(r, r.ret)) ELSE [h EXCEPT !.gInit = TRUE]

\* With window and texture the machine gets its callback, and is ready.
LEMMA GboyRegisterEffect ==
  ASSUME NEW s \in AppState, Starting(s), s.gWindow # NoWindow, s.gTexture = s.gWindow,
         \A h \in Handles : s.callbacks[h].cb = "none",
         NEW t, t = GboyRegister(s)
  PROVE  /\ t \in AppState /\ Resting(t) /\ t.created = s.created
         /\ SameMain(s, t)
<1> DEFINE r == RegisterCb(s, "window_update")
           g == GHandleSet(r, r.ret)
           h == RegisterHandler(g, s.gWindow, "gboy")
<1>0. /\ s.gWindow \in s.alive /\ "gboy" \in Owners /\ "window_update" \in Callbacks
      /\ 0 \in Handles
  BY DEF Starting, Owners, Callbacks, Handles
<1>1. /\ r \in AppState
      /\ SameWindows(s, r)
      /\ SameMachine(s, r) /\ SameDebugger(s, r) /\ SameMain(s, r)
      /\ r.ret \in Handles
      /\ \A k \in Handles : r.callbacks[k].cb = IF k = r.ret THEN "window_update" ELSE "none"
  <2>1. \/ /\ r.ret = -1 /\ r.callbacks = s.callbacks
           /\ \A k \in Handles : s.callbacks[k].cb # "none"
        \/ /\ r.ret \in Handles /\ s.callbacks[r.ret].cb = "none"
           /\ \A k \in Handles :
                r.callbacks[k].cb = IF k = r.ret THEN "window_update" ELSE s.callbacks[k].cb
    BY <1>0, RegisterCbEffect
  <2>2. /\ r \in AppState
        /\ SameWindows(s, r)
        /\ SameMachine(s, r) /\ SameDebugger(s, r) /\ SameMain(s, r)
    BY <1>0, RegisterCbEffect
  <2> HIDE DEF r
  <2> QED
    BY <1>0, <2>1, <2>2
<1>2. r.ret \in Int /\ ~(r.ret < 0)
  BY <1>1 DEF Handles
<1> HIDE DEF r
<1>3. /\ g \in AppState /\ g.gHandle = r.ret
      /\ g.gWindow = r.gWindow /\ g.gTexture = r.gTexture
      /\ SameFlags(r, g)
      /\ SameWindows(r, g) /\ g.callbacks = r.callbacks
      /\ SameDebugger(r, g) /\ SameMain(r, g)
  BY <1>1, <1>2, GHandleUpdate
<1>4. t = [h EXCEPT !.gInit = TRUE]
  BY <1>2 DEF GboyRegister, r
<1> HIDE DEF g
<1>5. s.gWindow \in g.alive
  BY <1>0, <1>1, <1>3 DEF SameWindows
<1>6. /\ h \in AppState
      /\ h.registry = g.registry /\ h.alive = g.alive
      /\ \A v \in Windows : h.handler[v] = IF v = s.gWindow THEN "gboy" ELSE g.handler[v]
      /\ h.created = g.created /\ h.video = g.video /\ h.bad = g.bad
      /\ h.callbacks = g.callbacks
      /\ SameMachine(g, h) /\ SameDebugger(g, h) /\ SameMain(g, h)
  BY <1>0, <1>3, <1>5, HandlerEffect
<1> HIDE DEF h
<1>7. /\ t \in AppState
      /\ t.on = h.on /\ t.cart = h.cart
      /\ SamePlaces(h, t)
      /\ SameWindows(h, t) /\ t.callbacks = h.callbacks
      /\ SameDebugger(h, t) /\ SameMain(h, t)
  BY <1>4, <1>6, InitUpdate
<1>8. t.gInit = TRUE
  BY <1>4, <1>6 DEF AppState
<1>9. /\ t.registry = s.registry /\ t.alive = s.alive /\ t.created = s.created
      /\ t.video = s.video /\ t.bad = s.bad
      /\ \A v \in Windows : t.handler[v] = IF v = s.gWindow THEN "gboy" ELSE s.handler[v]
  BY <1>1, <1>3, <1>6, <1>7 DEF SameWindows
<1>10. /\ t.gWindow = s.gWindow /\ t.gTexture = s.gTexture /\ t.gHandle = r.ret
       /\ t.callbacks = r.callbacks
  BY <1>1, <1>3, <1>6, <1>7 DEF SameMachine, SamePlaces
<1>11. SameDebugger(s, t) /\ SameMain(s, t)
  BY <1>1, <1>3, <1>6, <1>7 DEF SameDebugger, SameMain
<1>12. WindowsInv(t)
  <2>1. t.dWindow = NoWindow /\ Owed(s.video) \in Int
    BY <1>11, FieldTypes, OwedInt DEF Starting, SameDebugger
  <2>2. Owed(t.video) = Needs(t.gWindow) + Needs(t.dWindow)
    BY <1>9, <1>10, <2>1 DEF Starting, Needs
  <2>3. Handled(t.handler, t.gWindow, t.dWindow)
    BY <1>9, <1>10, <2>1 DEF Starting, Handled, Windows
  <2>4. t.alive = {t.gWindow, t.dWindow} \ {NoWindow}
    BY <1>9, <1>10, <2>1 DEF Starting
  <2> QED
    BY <1>9, <1>10, <2>1, <2>2, <2>3, <2>4 DEF Starting, WindowsInv
<1>13. Called(t.callbacks, "window_update", t.gWindow, t.gHandle)
  BY <1>1, <1>10 DEF Called
<1>14. MachineInv(t)
  BY <1>8, <1>10, <1>13 DEF MachineInv
<1>15. DebuggerInv(t)
  <2>1. \A k \in Handles : t.callbacks[k].cb # "debugger_update"
    BY <1>1, <1>10
  <2> QED
    BY <1>11, <2>1 DEF Starting, DebuggerInv, Called, SameDebugger
<1>16. ~t.bad
  BY <1>9 DEF Starting
<1> QED
  BY <1>7, <1>9, <1>11, <1>12, <1>14, <1>15, <1>16 DEF Resting

(***************************************************************************)
(* gboy_init: whichever call fails, the machine is ready or nothing is     *)
(* left of it.                                                             *)
(***************************************************************************)
LEMMA StartStarting == Start \in AppState /\ Starting(Start) /\ Resting(Start)
<1> DEFINE c == [h \in Handles |-> [cb |-> "none", enabled |-> FALSE]]
           r == [i \in 1..MaxRegistered |-> NoWindow]
           n == [w \in Windows |-> "none"]
<1>1. /\ r \in [1..MaxRegistered -> WindowOrNone] /\ n \in [Windows -> Owners]
      /\ c \in [Handles -> [cb : Callbacks, enabled : BOOLEAN]]
      /\ 0 \in WindowOrNone /\ 0 \in 0..MaxWindows /\ 0 \in 0..NumBoxes
      /\ <<>> \in Seq([kind : Kinds, window : WindowOrNone])
  BY DEF WindowOrNone, Owners, Callbacks
<1>2. /\ \A h \in Handles : c[h].cb = "none"
      /\ \A w \in Windows : n[w] = "none"
      /\ Registered(r, {})
  BY DEF Registered
<1>3. /\ Start.registry = r /\ Start.handler = n /\ Start.callbacks = c
      /\ Start.alive = {} /\ Start.created = 0
      /\ Start.video = None /\ Start.ttf = None
      /\ Start.gInit = FALSE /\ Start.gWindow = 0 /\ Start.gTexture = 0
      /\ Start.gHandle = 0 /\ Start.on = FALSE /\ Start.cart = FALSE
      /\ Start.dWindow = 0 /\ Start.dBoxes = 0 /\ Start.dHandle = 0
      /\ Start.active = TRUE /\ Start.queue = <<>> /\ Start.ret = 0 /\ Start.bad = FALSE
  BY DEF Start
<1>4. Start \in AppState
  <2>1. Start = [registry |-> r, handler |-> n, alive |-> {}, created |-> 0,
                 video |-> None, ttf |-> None, callbacks |-> c,
                 gInit |-> FALSE, gWindow |-> 0, gTexture |-> 0, gHandle |-> 0,
                 on |-> FALSE, cart |-> FALSE,
                 dWindow |-> 0, dBoxes |-> 0, dHandle |-> 0,
                 active |-> TRUE, queue |-> <<>>, ret |-> 0, bad |-> FALSE]
    BY DEF Start
  <2> HIDE DEF r, n, c
  <2>2. None \in References
    BY DEF None, References
  <2> QED
    BY <1>1, <2>1, <2>2 DEF AppState
<1>0. Owed(None) = 0
  BY DEF None, Owed
<1> HIDE DEF r, n, c
<1>5. Starting(Start)
  BY <1>0, <1>2, <1>3 DEF Starting, Needs
<1>6. WindowsInv(Start)
  BY <1>0, <1>2, <1>3 DEF WindowsInv, Handled, Needs, Windows
<1>7. MachineInv(Start) /\ DebuggerInv(Start)
  BY <1>0, <1>2, <1>3 DEF MachineInv, DebuggerInv, Called
<1> QED
  BY <1>3, <1>4, <1>5, <1>6, <1>7 DEF Resting

\* gboy_init of a program that has just started.
LEMMA GboyInitEffect ==
  ASSUME NEW fail, NEW t, t = GboyInit(Start, fail)
  PROVE  /\ t \in AppState /\ Resting(t) /\ t.created \in {0, 1}
         /\ SameMain(Start, t)
<1> DEFINE s == Start
           win == WindowCreate(s, fail)
           w == [win EXCEPT !.gWindow = win.ret]
           x == TextureCreate(w, w.gWindow, fail)
           r == RegisterCb(x, "window_update")
           g == RegisterHandler([r EXCEPT !.gHandle = r.ret], w.gWindow, "gboy")
<1>a. fail \notin {"lcd", "mutex"} =>
        t = IF w.gWindow = NoWindow THEN GboyRelease(w)
            ELSE IF x.gTexture = NoWindow THEN GboyRelease(x)
            ELSE IF r.ret < 0 THEN GboyRelease([r EXCEPT !.gHandle = r.ret])
            ELSE [g EXCEPT !.gInit = TRUE]
  BY DEF GboyInit
<1>0. /\ s.created = 0 /\ s.gWindow = 0 /\ s.gTexture = 0 /\ s.alive = {} /\ s.gInit = FALSE
      /\ s.on = FALSE /\ s.cart = FALSE /\ Owed(s.video) = 0
      /\ \A h \in Handles : s.callbacks[h].cb = "none"
      /\ \A v \in Windows : s.handler[v] = "none"
  BY DEF Start, None, Owed
<1>1. s \in AppState /\ Starting(s) /\ Resting(s)
  BY StartStarting
<1> HIDE DEF s
<1>2. s.created < MaxWindows /\ s.alive \subseteq 1..s.created /\ Registered(s.registry, s.alive)
  BY <1>0, <1>1 DEF Starting
<1>3. /\ win \in AppState /\ CreateDone(s, win)
      /\ SameMachine(s, win) /\ SameDebugger(s, win) /\ SameMain(s, win)
      /\ win.callbacks = s.callbacks
  BY <1>0, <1>1, <1>2, CreateEffect
<1> HIDE DEF win
<1>4. win.ret \in WindowOrNone /\ win.gTexture \in WindowOrNone
  BY <1>3, FieldTypes DEF CreateDone, Windows, WindowOrNone
<1>5. /\ w \in AppState
      /\ w.gWindow = win.ret /\ w.gTexture = win.gTexture /\ w.gHandle = win.gHandle
      /\ SameFlags(win, w)
      /\ SameWindows(win, w) /\ w.callbacks = win.callbacks
      /\ SameDebugger(win, w) /\ SameMain(win, w)
  <2>1. w = MachineSet(win, win.ret, win.gTexture)
    BY <1>3 DEF MachineSet, AppState
  <2> HIDE DEF w
  <2> QED
    BY <1>3, <1>4, <2>1, MachineUpdate
<1> HIDE DEF w
<1>7. /\ w.dWindow = s.dWindow /\ w.dBoxes = s.dBoxes /\ w.ttf = s.ttf
      /\ w.gTexture = 0 /\ w.callbacks = s.callbacks
      /\ w.gInit = FALSE /\ w.on = FALSE /\ w.cart = FALSE
      /\ SameMain(s, w)
      /\ w.created \in {0, 1}
      /\ w.alive \subseteq 1..w.created /\ Registered(w.registry, w.alive)
      /\ \A v \in Windows : w.handler[v] = "none"
      /\ w.bad = s.bad
      /\ \/ w.gWindow = NoWindow /\ w.alive = {} /\ Owed(w.video) = 0
         \/ w.gWindow \in Windows /\ w.alive = {w.gWindow} /\ Owed(w.video) = 1
  BY <1>0, <1>3, <1>5
     DEF CreateDone, SameWindows, SameMachine, SameFlags, SameDebugger, SameMain
<1>8. Starting(w)
  <2>1. w.alive = {w.gWindow} \ {NoWindow} /\ Owed(w.video) = Needs(w.gWindow)
    BY <1>7 DEF Needs, Windows
  <2> QED
    BY <1>0, <1>1, <1>7, <2>1 DEF Starting
<1>9. CASE fail = "lcd"
  <2>1. t = s
    BY <1>9 DEF GboyInit, s
  <2> QED
    BY <1>0, <1>1, <2>1 DEF SameMain, s
<1>10. CASE fail = "mutex"
  <2>1. t = GboyRelease(s)
    BY <1>10 DEF GboyInit, s
  <2>2. /\ t \in AppState /\ t.gWindow = NoWindow /\ t.dWindow = NoWindow
        /\ t.gInit = s.gInit /\ t.on = s.on /\ t.cart = s.cart
        /\ WindowsInv(t) /\ DebuggerInv(t) /\ ~t.bad /\ t.gTexture = NoWindow
        /\ Called(t.callbacks, "window_update", t.gWindow, t.gHandle)
        /\ t.created = s.created
        /\ SameMain(s, t)
    BY <1>1, <2>1, GboyReleaseRests
  <2> QED
    BY <1>0, <2>2 DEF Resting, MachineInv, s
<1>11. CASE fail \notin {"lcd", "mutex"} /\ w.gWindow = NoWindow
  <2>1. t = GboyRelease(w)
    BY <1>a, <1>11
  <2>2. /\ t \in AppState /\ t.gWindow = NoWindow /\ t.dWindow = NoWindow
        /\ t.gInit = w.gInit /\ t.on = w.on /\ t.cart = w.cart
        /\ WindowsInv(t) /\ DebuggerInv(t) /\ ~t.bad /\ t.gTexture = NoWindow
        /\ Called(t.callbacks, "window_update", t.gWindow, t.gHandle)
        /\ t.created = w.created
        /\ SameMain(w, t)
    BY <1>5, <1>8, <2>1, GboyReleaseRests
  <2> QED
    BY <1>7, <2>2 DEF Resting, MachineInv, SameMain, s
<1>12. CASE fail = "texture" /\ w.gWindow # NoWindow
  <2>1. x = w
    BY <1>12 DEF TextureCreate
  <2>2. t = GboyRelease(w)
    BY <1>a, <1>7, <1>12, <2>1
  <2>3. /\ t \in AppState /\ t.gWindow = NoWindow /\ t.dWindow = NoWindow
        /\ t.gInit = w.gInit /\ t.on = w.on /\ t.cart = w.cart
        /\ WindowsInv(t) /\ DebuggerInv(t) /\ ~t.bad /\ t.gTexture = NoWindow
        /\ Called(t.callbacks, "window_update", t.gWindow, t.gHandle)
        /\ t.created = w.created
        /\ SameMain(w, t)
    BY <1>5, <1>8, <2>2, GboyReleaseRests
  <2> QED
    BY <1>7, <2>3 DEF Resting, MachineInv, SameMain, s
<1>13. CASE fail \notin {"lcd", "mutex", "texture"} /\ w.gWindow # NoWindow
  <2>1. w.gWindow \in w.alive /\ w.gWindow \in WindowOrNone
    BY <1>4, <1>5, <1>7, <1>13
  <2>2. UseWindow(w, w.gWindow) = w
    BY <1>5, <2>1, UseAlive
  <2>3. x = MachineSet(w, w.gWindow, w.gWindow)
    BY <1>5, <1>13, <2>2 DEF TextureCreate, MachineSet, AppState
  <2>4. t = GboyRegister(x)
    <3>1. x.gWindow = w.gWindow /\ x.gTexture = w.gWindow
      BY <1>5, <2>3 DEF MachineSet, AppState
    <3> HIDE DEF x
    <3> QED
      BY <1>a, <1>13, <3>1 DEF GboyRegister, GHandleSet
  <2> HIDE DEF x
  <2>5. /\ x \in AppState
        /\ x.gWindow = w.gWindow /\ x.gTexture = w.gWindow /\ x.gHandle = w.gHandle
        /\ SameFlags(w, x)
        /\ SameWindows(w, x) /\ x.callbacks = w.callbacks
        /\ SameDebugger(w, x) /\ SameMain(w, x)
    BY <1>5, <2>1, <2>3, MachineUpdate
  <2>6. Starting(x)
    BY <1>8, <2>5 DEF Starting, SameWindows, SameDebugger
  <2>7. x.gWindow # NoWindow /\ x.gTexture = x.gWindow
    BY <1>13, <2>5
  <2>8. \A h \in Handles : x.callbacks[h].cb = "none"
    BY <1>0, <1>7, <2>5
  <2>9. /\ t \in AppState /\ Resting(t) /\ t.created = x.created /\ SameMain(x, t)
    BY <2>4, <2>5, <2>6, <2>7, <2>8, GboyRegisterEffect
  <2> QED
    BY <1>7, <2>5, <2>9 DEF SameMain, SameWindows, s
<1> QED
  BY <1>9, <1>10, <1>11, <1>12, <1>13

(***************************************************************************)
(* Between handlers: loading a cartridge, power and the render callback's  *)
(* enable bit change nothing of what is held.                              *)
(***************************************************************************)
\* All but the power and the cartridge is as it was.
SameHeld(s, t) ==
  /\ SameWindows(s, t) /\ SamePlaces(s, t) /\ t.gInit = s.gInit
  /\ SameDebugger(s, t) /\ SameMain(s, t)
  /\ \A h \in Handles : t.callbacks[h].cb = s.callbacks[h].cb

\* A state at rest stays so when only the power and the cartridge change.
LEMMA HeldRests ==
  ASSUME NEW s, NEW t, Resting(s), SameHeld(s, t), ~t.gInit => ~t.on /\ ~t.cart
  PROVE  Resting(t)
<1>1. /\ t.gWindow = s.gWindow /\ t.gTexture = s.gTexture /\ t.gHandle = s.gHandle
      /\ t.gInit = s.gInit /\ t.bad = s.bad
      /\ t.dWindow = s.dWindow /\ t.dBoxes = s.dBoxes /\ t.dHandle = s.dHandle /\ t.ttf = s.ttf
      /\ \A h \in Handles : t.callbacks[h].cb = s.callbacks[h].cb
  BY DEF SameHeld, SameWindows, SamePlaces, SameDebugger
<1>2. WindowsInv(t)
  BY <1>1 DEF Resting, WindowsInv, SameHeld, SameWindows
<1>3. MachineInv(t)
  BY <1>1 DEF Resting, MachineInv, Called
<1>4. DebuggerInv(t)
  BY <1>1 DEF Resting, DebuggerInv, Called
<1> QED
  BY <1>1, <1>2, <1>3, <1>4 DEF Resting

\* Only the power changes.
LEMMA OnUpdate ==
  ASSUME NEW s \in AppState, NEW e \in BOOLEAN, NEW t, t = [s EXCEPT !.on = e]
  PROVE  t \in AppState /\ SameHeld(s, t) /\ t.cart = s.cart /\ t.on = e
<1>1. t \in AppState
  BY DEF AppState
<1>2. t.cart = s.cart /\ t.on = e /\ t.callbacks = s.callbacks /\ t.gInit = s.gInit
  BY DEF AppState
<1>3. SamePlaces(s, t) /\ SameWindows(s, t) /\ SameDebugger(s, t) /\ SameMain(s, t)
  BY DEF AppState, SamePlaces, SameWindows, SameDebugger, SameMain
<1> QED
  BY <1>1, <1>2, <1>3 DEF SameHeld

\* Only the cartridge changes.
LEMMA CartUpdate ==
  ASSUME NEW s \in AppState, NEW e \in BOOLEAN, NEW t, t = [s EXCEPT !.cart = e]
  PROVE  t \in AppState /\ SameHeld(s, t) /\ t.on = s.on /\ t.cart = e
<1>1. t \in AppState
  BY DEF AppState
<1>2. t.cart = e /\ t.on = s.on /\ t.callbacks = s.callbacks /\ t.gInit = s.gInit
  BY DEF AppState
<1>3. SamePlaces(s, t) /\ SameWindows(s, t) /\ SameDebugger(s, t) /\ SameMain(s, t)
  BY DEF AppState, SamePlaces, SameWindows, SameDebugger, SameMain
<1> QED
  BY <1>1, <1>2, <1>3 DEF SameHeld

\* The callback of the window is enabled or disabled.
LEMMA EnableHeld ==
  ASSUME NEW s \in AppState, NEW e \in BOOLEAN, NEW t, t = EnableCb(s, s.gHandle, e)
  PROVE  t \in AppState /\ SameHeld(s, t) /\ t.on = s.on /\ t.cart = s.cart
<1>1. s.gHandle \in Int
  BY FieldTypes
<1>2. /\ t \in AppState
      /\ \A g \in Handles : t.callbacks[g].cb = s.callbacks[g].cb
      /\ SameWindows(s, t)
      /\ SameMachine(s, t) /\ SameDebugger(s, t) /\ SameMain(s, t)
  BY <1>1, EnableEffect
<1> QED
  BY <1>2 DEF SameHeld, SameMachine, SamePlaces

\* Two such changes.
LEMMA HeldTransitive ==
  ASSUME NEW r, NEW s, NEW t, SameHeld(r, s), SameHeld(s, t)
  PROVE  SameHeld(r, t)
BY DEF SameHeld, SameWindows, SamePlaces, SameDebugger, SameMain

\* No change.
LEMMA HeldSame == ASSUME NEW s PROVE SameHeld(s, s)
BY DEF SameHeld, SameWindows, SamePlaces, SameDebugger, SameMain

\* gboy_load_rom.
LEMMA LoadRomEffect ==
  ASSUME NEW s \in AppState, Resting(s), NEW fail, NEW t, t = LoadRom(s, fail)
  PROVE  t \in AppState /\ Resting(t) /\ SameHeld(s, t)
<1>1. CASE ~s.gInit \/ fail = "cart"
  BY <1>1, HeldSame DEF LoadRom
<1>2. CASE ~(~s.gInit \/ fail = "cart")
  <2>1. t = [s EXCEPT !.cart = TRUE]
    BY <1>2 DEF LoadRom
  <2>2. t \in AppState /\ SameHeld(s, t)
    BY <2>1, CartUpdate
  <2>3. t.gInit
    BY <1>2, <2>2 DEF SameHeld
  <2> QED
    BY <2>2, <2>3, HeldRests
<1> QED
  BY <1>1, <1>2

\* gboy_poweron, with or without a thread.
LEMMA PowerOnEffect ==
  ASSUME NEW s \in AppState, Resting(s), NEW fail, NEW t, t = PowerOn(s, fail)
  PROVE  t \in AppState /\ Resting(t) /\ SameHeld(s, t)
<1>1. CASE ~s.gInit \/ ~s.cart
  BY <1>1, HeldSame DEF PowerOn
<1>2. CASE ~(~s.gInit \/ ~s.cart)
  <2> DEFINE e == EnableCb(s, s.gHandle, TRUE)
  <2>1. t = [e EXCEPT !.on = (fail # "thread")]
    BY <1>2 DEF PowerOn
  <2>2. e \in AppState /\ SameHeld(s, e)
    BY EnableHeld
  <2> HIDE DEF e
  <2>3. t \in AppState /\ SameHeld(e, t)
    <3>2. CASE fail = "thread"
      <4>1. t = [e EXCEPT !.on = FALSE]
        BY <2>1, <3>2
      <4> QED
        BY <2>2, <4>1, OnUpdate
    <3>3. CASE fail # "thread"
      <4>1. t = [e EXCEPT !.on = TRUE]
        BY <2>1, <3>3
      <4> QED
        BY <2>2, <4>1, OnUpdate
    <3> QED
      BY <3>2, <3>3
  <2>4. SameHeld(s, t)
    BY <2>2, <2>3, HeldTransitive
  <2>5. t.gInit
    BY <1>2, <2>4 DEF SameHeld
  <2> QED
    BY <2>3, <2>4, <2>5, HeldRests
<1> QED
  BY <1>1, <1>2

\* gboy_poweroff.
LEMMA PowerOffEffect ==
  ASSUME NEW s \in AppState, Resting(s), NEW t, t = PowerOff(s)
  PROVE  t \in AppState /\ Resting(t) /\ SameHeld(s, t) /\ ~t.on
<1>1. CASE ~s.gInit \/ ~s.on
  BY <1>1, HeldSame DEF PowerOff, Resting, MachineInv
<1>2. CASE ~(~s.gInit \/ ~s.on)
  <2> DEFINE e == EnableCb(s, s.gHandle, FALSE)
  <2>1. t = [e EXCEPT !.on = FALSE]
    BY <1>2 DEF PowerOff
  <2>2. e \in AppState /\ SameHeld(s, e)
    BY EnableHeld
  <2> HIDE DEF e
  <2>3. t \in AppState /\ SameHeld(e, t) /\ t.on = FALSE
    BY <2>1, <2>2, OnUpdate
  <2>4. SameHeld(s, t)
    BY <2>2, <2>3, HeldTransitive
  <2>5. t.gInit
    BY <1>2, <2>4 DEF SameHeld
  <2> QED
    BY <2>3, <2>4, <2>5, HeldRests
<1> QED
  BY <1>1, <1>2

(***************************************************************************)
(* gboy_cleanup gives back what is still held: the debugger's first, then  *)
(* the machine's.                                                          *)
(***************************************************************************)
LEMMA CleanupEffect ==
  ASSUME NEW s \in AppState, Resting(s), NEW t, t = GboyCleanup(s)
  PROVE  /\ t \in AppState /\ Resting(t) /\ t.gWindow = NoWindow
         /\ t.created = s.created
<1>1. CASE ~s.gInit
  BY <1>1 DEF GboyCleanup, Resting, MachineInv
<1>2. CASE s.gInit
  <2> DEFINE closed == IF s.dWindow # NoWindow THEN DebuggerClose(s) ELSE s
             off == PowerOff(closed)
             cart == [off EXCEPT !.cart = FALSE]
             rel == GboyRelease(cart)
  <2>1. t = [rel EXCEPT !.gInit = FALSE]
    BY <1>2 DEF GboyCleanup
  <2>2. /\ closed \in AppState /\ Resting(closed) /\ closed.dWindow = NoWindow
        /\ closed.created = s.created
    BY CloseEffect
  <2> HIDE DEF closed
  <2>3. off \in AppState /\ Resting(off) /\ SameHeld(closed, off) /\ ~off.on
    BY <2>2, PowerOffEffect
  <2> HIDE DEF off
  <2>4. cart \in AppState /\ SameHeld(off, cart) /\ cart.on = off.on /\ ~cart.cart
    BY <2>3, CartUpdate
  <2> HIDE DEF cart
  <2>5. Resting(cart)
    BY <2>3, <2>4, HeldRests
  <2>6. cart.dWindow = NoWindow /\ cart.created = s.created /\ ~cart.on
    BY <2>2, <2>3, <2>4 DEF SameHeld, SameWindows, SameDebugger
  <2>7. Starting(cart)
    <3>1. cart.alive = {cart.gWindow} \ {NoWindow}
      BY <2>5, <2>6 DEF Resting, WindowsInv
    <3>2. Owed(cart.video) = Needs(cart.gWindow)
      BY <2>5, <2>6 DEF Resting, WindowsInv, Needs
    <3>3. \A v \in Windows \ {cart.gWindow} : cart.handler[v] = "none"
      BY <2>5, <2>6 DEF Resting, WindowsInv, Handled, Windows
    <3>4. \A h \in Handles : cart.callbacks[h].cb = "none" \/ h = cart.gHandle
      <4>1. /\ \A h \in Handles : cart.callbacks[h].cb = "window_update" => h = cart.gHandle
            /\ \A h \in Handles : cart.callbacks[h].cb # "debugger_update"
        BY <2>5, <2>6 DEF Resting, MachineInv, DebuggerInv, Called
      <4>2. \A h \in Handles : cart.callbacks[h].cb \in Callbacks
        BY <2>4, FieldTypes
      <4> QED
        BY <4>1, <4>2 DEF Callbacks
    <3> QED
      BY <2>5, <2>6, <3>1, <3>2, <3>3, <3>4
         DEF Resting, WindowsInv, MachineInv, DebuggerInv, Starting
  <2>8. /\ rel \in AppState /\ rel.gWindow = NoWindow /\ rel.dWindow = NoWindow
        /\ rel.on = cart.on /\ rel.cart = cart.cart
        /\ WindowsInv(rel) /\ DebuggerInv(rel) /\ ~rel.bad /\ rel.gTexture = NoWindow
        /\ Called(rel.callbacks, "window_update", rel.gWindow, rel.gHandle)
        /\ rel.created = cart.created
    BY <2>4, <2>7, GboyReleaseRests
  <2> HIDE DEF rel
  <2>9. /\ t \in AppState
        /\ t.on = rel.on /\ t.cart = rel.cart
        /\ SamePlaces(rel, t)
        /\ SameWindows(rel, t) /\ t.callbacks = rel.callbacks
        /\ SameDebugger(rel, t)
    BY <2>1, <2>8, InitUpdate
  <2>10. ~t.gInit
    BY <2>1, <2>8 DEF AppState
  <2>11. t.gWindow = NoWindow /\ t.gTexture = NoWindow /\ t.dWindow = NoWindow
    BY <2>8, <2>9 DEF SamePlaces, SameDebugger
  <2>12. MachineInv(t)
    BY <2>4, <2>6, <2>8, <2>9, <2>10, <2>11 DEF MachineInv, Called
  <2>13. WindowsInv(t)
    BY <2>8, <2>9, <2>11 DEF WindowsInv, SameWindows
  <2>14. DebuggerInv(t)
    BY <2>8, <2>9, <2>11 DEF DebuggerInv, SameDebugger, Called
  <2> QED
    BY <2>6, <2>8, <2>9, <2>11, <2>12, <2>13, <2>14 DEF Resting, SameWindows
<1> QED
  BY <1>1, <1>2

(***************************************************************************)
(* SDL's queue and main's own fields are not what is held.                 *)
(***************************************************************************)
Events == [kind : Kinds, window : WindowOrNone]

Queues == Seq(Events)

\* The length of a queue.
LEMMA LengthNat ==
  ASSUME NEW E, NEW q \in Seq(E)
  PROVE  Len(q) \in Nat
OBVIOUS

\* One more event in a queue.
LEMMA AppendType ==
  ASSUME NEW E, NEW q \in Seq(E), NEW e \in E
  PROVE  Append(q, e) \in Seq(E) /\ Len(Append(q, e)) = Len(q) + 1
OBVIOUS

\* One event less in a queue.
LEMMA HeadTail ==
  ASSUME NEW E, NEW q \in Seq(E), q # <<>>
  PROVE  Head(q) \in E /\ Tail(q) \in Seq(E) /\ Len(q) = Len(Tail(q)) + 1
OBVIOUS

\* Only the queue changes.
LEMMA QueueUpdate ==
  ASSUME NEW s \in AppState, Resting(s), NEW q \in Queues, NEW t,
         t = [s EXCEPT !.queue = q]
  PROVE  /\ t \in AppState /\ Resting(t) /\ t.queue = q /\ t.active = s.active
         /\ t.created = s.created /\ t.dWindow = s.dWindow /\ t.gWindow = s.gWindow
         /\ t.on = s.on
<1>1. t \in AppState
  BY DEF AppState, Queues, Events
<1>2. /\ t.queue = q /\ t.active = s.active /\ t.callbacks = s.callbacks
      /\ t.gInit = s.gInit /\ t.on = s.on /\ t.cart = s.cart
  BY DEF AppState
<1>3. SamePlaces(s, t) /\ SameWindows(s, t) /\ SameDebugger(s, t)
  BY DEF AppState, SamePlaces, SameWindows, SameDebugger
<1>4. WindowsInv(t)
  BY <1>3 DEF Resting, WindowsInv, SamePlaces, SameWindows, SameDebugger
<1>5. MachineInv(t) /\ DebuggerInv(t)
  BY <1>2, <1>3 DEF Resting, MachineInv, DebuggerInv, Called, SamePlaces, SameDebugger
<1> QED
  BY <1>1, <1>2, <1>3, <1>4, <1>5
     DEF Resting, SamePlaces, SameWindows, SameDebugger

\* Only m_active of main.c changes.
LEMMA ActiveUpdate ==
  ASSUME NEW s \in AppState, Resting(s), NEW t, t = [s EXCEPT !.active = FALSE]
  PROVE  /\ t \in AppState /\ Resting(t) /\ t.queue = s.queue /\ t.created = s.created
<1>1. t \in AppState
  BY DEF AppState
<1>2. /\ t.queue = s.queue /\ t.callbacks = s.callbacks
      /\ t.gInit = s.gInit /\ t.on = s.on /\ t.cart = s.cart
  BY DEF AppState
<1>3. SamePlaces(s, t) /\ SameWindows(s, t) /\ SameDebugger(s, t)
  BY DEF AppState, SamePlaces, SameWindows, SameDebugger
<1>4. WindowsInv(t)
  BY <1>3 DEF Resting, WindowsInv, SamePlaces, SameWindows, SameDebugger
<1>5. MachineInv(t) /\ DebuggerInv(t)
  BY <1>2, <1>3 DEF Resting, MachineInv, DebuggerInv, Called, SamePlaces, SameDebugger
<1> QED
  BY <1>1, <1>2, <1>3, <1>4, <1>5 DEF Resting, SameWindows

\* Only the return value changes.
LEMMA RetRests ==
  ASSUME NEW s \in AppState, Resting(s), NEW t, t = Ret(s, 0)
  PROVE  /\ t \in AppState /\ Resting(t) /\ t.queue = s.queue /\ t.created = s.created
         /\ t.on = s.on /\ t.gWindow = s.gWindow
<1>1. /\ t \in AppState
      /\ SameWindows(s, t) /\ t.callbacks = s.callbacks
      /\ SameMachine(s, t) /\ SameDebugger(s, t) /\ SameMain(s, t)
  BY RetEffect
<1>2. SameHeld(s, t) /\ t.on = s.on /\ t.cart = s.cart /\ t.gInit = s.gInit
  BY <1>1 DEF SameHeld, SameMachine, SamePlaces
<1>3. Resting(t)
  BY <1>2, HeldRests DEF Resting, MachineInv
<1> QED
  BY <1>1, <1>2, <1>3 DEF SameWindows, SameMain, SameMachine

(***************************************************************************)
(* What a queue may gain while an event is handled: the quit event, or a   *)
(* window, not both.                                                       *)
(***************************************************************************)
Grows(s, t) == t.created + Len(t.queue) <= s.created + Len(s.queue) + 1

\* The queue of a state, and the windows created so far.
LEMMA QueueFacts ==
  ASSUME NEW s \in AppState
  PROVE  s.queue \in Queues /\ Len(s.queue) \in Nat /\ s.created \in Nat
<1>1. s.queue \in Queues /\ s.created \in 0..MaxWindows
  BY FieldTypes DEF Queues, Events
<1> QED
  BY <1>1, LengthNat DEF Queues

\* A close request of the machine's window: power off and the quit event.
LEMMA GboyWindowEventEffect ==
  ASSUME NEW s \in AppState, Resting(s), NEW part, NEW t, t = GboyWindowEvent(s, part)
  PROVE  t \in AppState /\ Resting(t) /\ Grows(s, t)
<1>1. CASE part # "close_requested"
  BY <1>1, QueueFacts DEF GboyWindowEvent, Grows
<1>2. CASE part = "close_requested"
  <2> DEFINE off == PowerOff(s)
             q == Append(off.queue, Quit)
  <2>1. t = [off EXCEPT !.queue = q]
    BY <1>2 DEF GboyWindowEvent
  <2>2. off \in AppState /\ Resting(off) /\ SameHeld(s, off)
    BY PowerOffEffect
  <2>3. off.queue = s.queue /\ off.created = s.created
    BY <2>2 DEF SameHeld, SameMain, SameWindows
  <2> HIDE DEF off
  <2>4. Quit \in Events
    <3>1. "quit" \in Kinds
      BY DEF Kinds, ApplicationTypes
    <3>2. 0 \in WindowOrNone
      BY DEF WindowOrNone
    <3> QED
      BY <3>1, <3>2 DEF Quit, Events
  <2>5. q \in Queues /\ Len(q) = Len(s.queue) + 1
    BY <2>3, <2>4, QueueFacts, AppendType DEF Queues
  <2> HIDE DEF q
  <2>6. /\ t \in AppState /\ Resting(t) /\ t.queue = q /\ t.created = off.created
    BY <2>1, <2>2, <2>5, QueueUpdate
  <2> QED
    BY <2>3, <2>5, <2>6, QueueFacts DEF Grows
<1> QED
  BY <1>1, <1>2

\* Input for the machine's window may open the debugger.
LEMMA GboyInputEffect ==
  ASSUME NEW s \in AppState, Resting(s), s.gWindow # NoWindow, s.created < MaxWindows,
         NEW kind, NEW fail, NEW t, t = GboyInput(s, kind, fail)
  PROVE  t \in AppState /\ Resting(t) /\ Grows(s, t)
<1>1. CASE ~(kind = "grave" /\ s.dWindow = NoWindow)
  BY <1>1, QueueFacts DEF GboyInput, Grows
<1>2. CASE kind = "grave" /\ s.dWindow = NoWindow
  <2>1. t = DebuggerOpen(s, fail)
    BY <1>2 DEF GboyInput
  <2>2. /\ t \in AppState /\ Resting(t)
        /\ t.created \in {s.created, s.created + 1}
        /\ SameMain(s, t)
    BY <1>2, <2>1, OpenEffect
  <2> QED
    BY <2>2, QueueFacts DEF Grows, SameMain
<1> QED
  BY <1>1, <1>2

\* The debugger closes inside the handler of its own window.
LEMMA DebuggerClosed ==
  ASSUME NEW s \in AppState, Resting(s), s.dWindow # NoWindow, NEW t, t = DebuggerClose(s)
  PROVE  t \in AppState /\ Resting(t) /\ Grows(s, t)
<1>1. /\ t \in AppState /\ Resting(t) /\ t.created = s.created /\ SameMain(s, t)
  BY CloseEffect
<1> QED
  BY <1>1, QueueFacts DEF Grows, SameMain

\* Input for the debugger's window may close it.
LEMMA DebuggerInputEffect ==
  ASSUME NEW s \in AppState, Resting(s), s.dWindow # NoWindow, NEW kind,
         NEW t, t = DebuggerInput(s, kind)
  PROVE  t \in AppState /\ Resting(t) /\ Grows(s, t)
<1>1. CASE kind = "grave"
  BY <1>1, DebuggerClosed DEF DebuggerInput
<1>2. CASE kind # "grave"
  <2>1. s.dWindow \in s.alive
    BY DEF Resting, WindowsInv
  <2>2. DebuggerUpdate(s) = s
    BY <2>1, UseAlive DEF DebuggerUpdate
  <2>3. t = s
    BY <1>2, <2>2 DEF DebuggerInput
  <2> QED
    BY <2>3, QueueFacts DEF Grows
<1> QED
  BY <1>1, <1>2

(***************************************************************************)
(* window_handle_event: whatever the event, of a window that is found in   *)
(* the registry, its handler leaves a state at rest.                       *)
(***************************************************************************)
LEMMA HandleEventEffect ==
  ASSUME NEW s \in AppState, Resting(s), s.created < MaxWindows,
         NEW id, NEW kind, NEW fail, NEW t, t = HandleEvent(s, FindWindow(s, id), kind, fail)
  PROVE  t \in AppState /\ Resting(t) /\ Grows(s, t)
<1> DEFINE w == FindWindow(s, id)
           part == Convert(kind).part
<1>1. w \in s.alive \cup {NoWindow}
  BY DEF FindWindow, Resting, WindowsInv, Registered
<1>2. \/ t = s
      \/ /\ w # NoWindow /\ s.handler[w] = "gboy"
         /\ t \in {GboyInput(s, kind, fail), GboyWindowEvent(s, part)}
      \/ /\ w # NoWindow /\ s.handler[w] = "debugger"
         /\ t \in {DebuggerInput(s, kind), DebuggerWindowEvent(s, part)}
  <2> DEFINE ignored == w = NoWindow \/ (Convert(kind).type # "input" /\ kind # "close")
  <2>0. UseWindow(s, w) = s
    BY <1>1, UseAlive
  <2>1. CASE ignored
    BY <2>1 DEF HandleEvent
  <2>2. CASE ~ignored /\ s.handler[w] = "gboy" /\ kind # "close"
    BY <2>0, <2>2 DEF HandleEvent
  <2>3. CASE ~ignored /\ s.handler[w] = "gboy" /\ kind = "close"
    BY <2>0, <2>3 DEF HandleEvent
  <2>4. CASE ~ignored /\ s.handler[w] = "debugger" /\ kind # "close"
    BY <2>0, <2>4 DEF HandleEvent
  <2>5. CASE ~ignored /\ s.handler[w] = "debugger" /\ kind = "close"
    BY <2>0, <2>5 DEF HandleEvent
  <2>6. CASE ~ignored /\ s.handler[w] \notin {"gboy", "debugger"}
    BY <2>0, <2>6 DEF HandleEvent
  <2> QED
    BY <2>1, <2>2, <2>3, <2>4, <2>5, <2>6
<1> HIDE DEF w, part
<1>3. CASE t = s
  BY <1>3, QueueFacts DEF Grows
<1>4. w \in Windows => s.handler[w] = IF w = s.gWindow THEN "gboy"
                                      ELSE IF w = s.dWindow THEN "debugger" ELSE "none"
  BY DEF Resting, WindowsInv, Handled
<1>5. w # NoWindow => w \in Windows
  BY <1>1, FieldTypes
<1>6. CASE w # NoWindow /\ s.handler[w] = "gboy"
           /\ t \in {GboyInput(s, kind, fail), GboyWindowEvent(s, part)}
  <2>1. s.gWindow # NoWindow
    BY <1>4, <1>5, <1>6
  <2> QED
    BY <1>6, <2>1, GboyInputEffect, GboyWindowEventEffect
<1>7. CASE w # NoWindow /\ s.handler[w] = "debugger"
           /\ t \in {DebuggerInput(s, kind), DebuggerWindowEvent(s, part)}
  <2>1. s.dWindow # NoWindow
    BY <1>4, <1>5, <1>7
  <2>2. CASE t = DebuggerInput(s, kind)
    BY <2>1, <2>2, DebuggerInputEffect
  <2>3. CASE t = DebuggerWindowEvent(s, part)
    <3>1. t = s \/ t = DebuggerClose(s)
      BY <2>3 DEF DebuggerWindowEvent
    <3>2. Grows(s, s)
      BY QueueFacts DEF Grows
    <3> QED
      BY <2>1, <3>1, <3>2, DebuggerClosed
  <2> QED
    BY <1>7, <2>2, <2>3
<1> QED
  BY <1>2, <1>3, <1>6, <1>7

\* An event of no window can only end the program.
LEMMA ApplicationEventEffect ==
  ASSUME NEW s \in AppState, Resting(s), NEW kind, NEW t, t = ApplicationEvent(s, kind)
  PROVE  t \in AppState /\ Resting(t) /\ Grows(s, t)
<1>1. t = s \/ t = [s EXCEPT !.active = FALSE]
  BY DEF ApplicationEvent
<1>2. CASE t = s
  BY <1>2, QueueFacts DEF Grows
<1>3. CASE t = [s EXCEPT !.active = FALSE]
  <2>1. /\ t \in AppState /\ Resting(t) /\ t.queue = s.queue /\ t.created = s.created
    BY <1>3, ActiveUpdate
  <2> QED
    BY <2>1, QueueFacts DEF Grows
<1> QED
  BY <1>1, <1>2, <1>3

(***************************************************************************)
(* Every step keeps the invariant.                                         *)
(***************************************************************************)
LEMMA MainInitInv == MainInit => MainInv
<1> SUFFICES ASSUME MainInit PROVE MainInv
  OBVIOUS
<1>1. app \in AppState /\ Resting(app)
  BY StartStarting DEF MainInit
<1>2. app.created = 0 /\ app.queue = <<>> /\ app.gWindow = NoWindow
  BY DEF MainInit, Start
<1>3. CreatedInv
  BY <1>2 DEF MainInit, CreatedInv
<1> QED
  BY <1>1, <1>3 DEF MainInit, MainInv, MainTypeOK

\* The start of main, with any of its calls failing.
LEMMA StartupStep ==
  ASSUME MainInv, NEW fail, Startup(fail)
  PROVE  MainInv'
<1> DEFINE s == GboyInit(Start, fail)
           r == LoadRom(s, fail)
<1>1. app = Start /\ app' = PowerOn(r, fail)
  BY DEF MainInv, Startup
<1>2. /\ s \in AppState /\ Resting(s) /\ s.created \in {0, 1} /\ SameMain(Start, s)
  BY GboyInitEffect
<1> HIDE DEF s
<1>3. r \in AppState /\ Resting(r) /\ SameHeld(s, r)
  BY <1>2, LoadRomEffect
<1> HIDE DEF r
<1>4. app' \in AppState /\ Resting(app') /\ SameHeld(r, app')
  BY <1>1, <1>3, PowerOnEffect
<1>5. app'.created \in {0, 1} /\ app'.queue = <<>>
  BY <1>2, <1>3, <1>4 DEF SameHeld, SameWindows, SameMain, Start
<1>6. place' \in {"loop", "cleanup"} /\ posted' = posted /\ posted \in 0..MaxEvents
  BY DEF Startup, MainInv, MainTypeOK
<1>7. CreatedInv'
  BY <1>5, <1>6 DEF CreatedInv
<1> QED
  BY <1>4, <1>6, <1>7 DEF MainInv, MainTypeOK

\* An event with its handler, with any of the handler's calls failing.
LEMMA PollEventStep ==
  ASSUME MainInv, NEW fail, PollEvent(fail)
  PROVE  MainInv'
<1> DEFINE e == Head(app.queue)
           q == Tail(app.queue)
           p == [app EXCEPT !.queue = q]
           s == Ret(p, 0)
<1>1. PICK id \in WindowIds(e) :
        app' = Ret(IF id = NoWindow THEN ApplicationEvent(s, e.kind)
                   ELSE HandleEvent(s, FindWindow(s, id), e.kind, fail), 0)
  BY DEF PollEvent, Ret
<1>2. app \in AppState /\ Resting(app) /\ posted \in 0..MaxEvents /\ CreatedInv
  BY DEF MainInv, MainTypeOK
<1>3. q \in Queues /\ Len(app.queue) = Len(q) + 1 /\ Len(q) \in Nat
  <2>1. app.queue \in Queues /\ app.queue # <<>>
    BY <1>2, QueueFacts DEF PollEvent
  <2> QED
    BY <2>1, HeadTail, LengthNat DEF Queues
<1> HIDE DEF e, q
<1>4. /\ p \in AppState /\ Resting(p) /\ p.queue = q /\ p.created = app.created
  BY <1>2, <1>3, QueueUpdate
<1> HIDE DEF p
<1>5. /\ s \in AppState /\ Resting(s) /\ s.queue = q /\ s.created = app.created
  BY <1>4, RetRests
<1> HIDE DEF s
<1>6. app.created + Len(app.queue) <= 1 + posted /\ app.created \in Nat
  BY <1>2, QueueFacts DEF CreatedInv
<1>7. s.created < MaxWindows
  BY <1>2, <1>3, <1>5, <1>6
<1>8. PICK t : /\ app' = Ret(t, 0)
               /\ t \in AppState /\ Resting(t) /\ Grows(s, t)
  <2>1. CASE id = NoWindow
    <3> DEFINE t == ApplicationEvent(s, e.kind)
    <3>1. app' = Ret(t, 0)
      BY <1>1, <2>1
    <3>2. t \in AppState /\ Resting(t) /\ Grows(s, t)
      BY <1>5, ApplicationEventEffect
    <3> QED
      BY <3>1, <3>2
  <2>2. CASE id # NoWindow
    <3> DEFINE t == HandleEvent(s, FindWindow(s, id), e.kind, fail)
    <3>1. app' = Ret(t, 0)
      BY <1>1, <2>2
    <3>2. t \in AppState /\ Resting(t) /\ Grows(s, t)
      BY <1>5, <1>7, HandleEventEffect
    <3> QED
      BY <3>1, <3>2
  <2> QED
    BY <2>1, <2>2
<1>9. /\ app' \in AppState /\ Resting(app') /\ app'.queue = t.queue
      /\ app'.created = t.created
  BY <1>8, RetRests
<1>10. CreatedInv'
  <2>1. posted' = posted
    BY DEF PollEvent
  <2>2. /\ t.created \in Nat /\ Len(t.queue) \in Nat
    BY <1>8, QueueFacts
  <2>3. t.created + Len(t.queue) <= s.created + Len(s.queue) + 1
    BY <1>8 DEF Grows
  <2> QED
    BY <1>2, <1>3, <1>5, <1>6, <1>9, <2>1, <2>2, <2>3 DEF CreatedInv
<1> QED
  BY <1>2, <1>9, <1>10 DEF PollEvent, MainInv, MainTypeOK

\* The render callbacks only use what exists.
LEMMA RendererStep ==
  ASSUME MainInv, RendererUpdate
  PROVE  MainInv' /\ app' = app
<1>1. app \in AppState /\ Resting(app)
  BY DEF MainInv, MainTypeOK
<1>2. /\ app.gWindow \in app.alive \cup {NoWindow} /\ app.gTexture \in app.alive \cup {NoWindow}
      /\ app.dWindow \in app.alive \cup {NoWindow}
  BY <1>1 DEF Resting, WindowsInv, MachineInv
<1>3. DebuggerUpdate(app) = app /\ WindowUpdate(app) = app
  <2>1. UseWindow(app, app.dWindow) = app /\ UseWindow(app, app.gTexture) = app
        /\ UseWindow(app, app.gWindow) = app
    BY <1>1, <1>2, UseAlive
  <2> QED
    BY <2>1 DEF DebuggerUpdate, WindowUpdate, TextureDraw
<1>4. app' = app
  BY <1>3 DEF RendererUpdate, CallEntry
<1>5. place' \in {"loop", "cleanup"} /\ posted' = posted
  BY DEF RendererUpdate
<1>6. CreatedInv'
  BY <1>4, <1>5 DEF MainInv, CreatedInv
<1> QED
  BY <1>1, <1>4, <1>5, <1>6 DEF MainInv, MainTypeOK

\* The end of main.
LEMMA CleanupStep ==
  ASSUME MainInv, Cleanup
  PROVE  MainInv'
<1> DEFINE s == GboyCleanup(app)
           q == [s EXCEPT !.queue = <<>>]
<1>1. app \in AppState /\ Resting(app) /\ posted \in 0..MaxEvents /\ CreatedInv
  BY DEF MainInv, MainTypeOK
<1>2. s \in AppState /\ Resting(s) /\ s.gWindow = NoWindow /\ s.created = app.created
  BY <1>1, CleanupEffect
<1>3. app' = Ret(q, 0)
  BY DEF Cleanup, Ret
<1> HIDE DEF s
<1>4. <<>> \in Queues
  BY DEF Queues
<1>5. /\ q \in AppState /\ Resting(q) /\ q.queue = <<>> /\ q.created = s.created
      /\ q.gWindow = s.gWindow
  BY <1>2, <1>4, QueueUpdate
<1> HIDE DEF q
<1>6. /\ app' \in AppState /\ Resting(app') /\ app'.queue = q.queue
      /\ app'.created = q.created /\ app'.gWindow = q.gWindow
  BY <1>3, <1>5, RetRests
<1>7. CreatedInv'
  <2>1. posted' = posted /\ Len(app'.queue) = 0 /\ app'.created = app.created
    BY <1>2, <1>5, <1>6 DEF Cleanup
  <2>2. Len(app.queue) \in Nat /\ app.created \in Nat
    BY <1>1, QueueFacts
  <2> QED
    BY <1>1, <2>1, <2>2 DEF CreatedInv
<1> QED
  BY <1>1, <1>2, <1>5, <1>6, <1>7 DEF Cleanup, MainInv, MainTypeOK

\* Another event is queued.
LEMMA PostStep ==
  ASSUME MainInv, NEW kind \in Kinds, NEW w \in Windows \cup {NoWindow}, Post(kind, w)
  PROVE  MainInv'
<1> DEFINE e == [kind |-> kind, window |-> w]
           q == Append(app.queue, e)
<1>1. app \in AppState /\ Resting(app) /\ posted \in 0..MaxEvents /\ CreatedInv
  BY DEF MainInv, MainTypeOK
<1>2. e \in Events
  BY DEF Events, Windows, WindowOrNone
<1> HIDE DEF e
<1>3. q \in Queues /\ Len(q) = Len(app.queue) + 1
  BY <1>1, <1>2, QueueFacts, AppendType DEF Queues
<1>4. app' = [app EXCEPT !.queue = q]
  BY DEF Post, e
<1> HIDE DEF q
<1>5. /\ app' \in AppState /\ Resting(app') /\ app'.queue = q /\ app'.created = app.created
  BY <1>1, <1>3, <1>4, QueueUpdate
<1>6. posted' = posted + 1 /\ posted' \in 0..MaxEvents /\ place' = place /\ place = "loop"
  BY <1>1 DEF Post
<1>7. CreatedInv'
  BY <1>1, <1>3, <1>5, <1>6, QueueFacts DEF CreatedInv
<1> QED
  BY <1>5, <1>6, <1>7 DEF MainInv, MainTypeOK

\* The invariant holds in every state.
LEMMA MainInvariance == MainSpec => []MainInv
<1>1. MainInv /\ [MainNext]_mainVars => MainInv'
  <2> SUFFICES ASSUME MainInv, [MainNext]_mainVars PROVE MainInv'
    OBVIOUS
  <2>1. CASE \E fail \in InitFailures : Startup(fail)
    BY <2>1, StartupStep
  <2>2. CASE \E fail \in OpenFailures : PollEvent(fail)
    BY <2>2, PollEventStep
  <2>3. CASE RendererUpdate
    BY <2>3, RendererStep
  <2>4. CASE Cleanup
    BY <2>4, CleanupStep
  <2>5. CASE \E kind \in Kinds, w \in Windows \cup {NoWindow} : Post(kind, w)
    BY <2>5, PostStep
  <2>6. CASE UNCHANGED mainVars
    BY <2>6 DEF mainVars, MainInv, MainTypeOK, CreatedInv
  <2> QED
    BY <2>1, <2>2, <2>3, <2>4, <2>5, <2>6 DEF MainNext, Main
<1> QED
  BY <1>1, MainInitInv, PTL DEF MainSpec

(***************************************************************************)
(* Between handlers no call has used a window, a texture or a text box     *)
(* after its window was destroyed.                                         *)
(***************************************************************************)
THEOREM NoUseAfterDestroy == MainSpec => []NothingDeadIsUsed
<1>1. MainInv => NothingDeadIsUsed
  BY DEF MainInv, Resting, NothingDeadIsUsed
<1> QED
  BY <1>1, MainInvariance, PTL

(***************************************************************************)
(* A window of a registry has one entry, any other has none.               *)
(***************************************************************************)
LEMMA EntriesCounted ==
  ASSUME NEW r, NEW W, Registered(r, W), NEW w, w # NoWindow
  PROVE  Cardinality({i \in 1..MaxRegistered : r[i] = w}) = IF w \in W THEN 1 ELSE 0
<1> DEFINE S == {i \in 1..MaxRegistered : r[i] = w}
<1>1. CASE w \in W
  <2>1. PICK i \in 1..MaxRegistered : r[i] = w
    BY <1>1 DEF Registered
  <2>2. S = {i}
    BY <2>1 DEF Registered
  <2> QED
    BY <1>1, <2>2, FS_Singleton
<1>2. CASE w \notin W
  <2>1. S = {}
    BY <1>2 DEF Registered
  <2> QED
    BY <1>2, <2>1, FS_EmptySet
<1> QED
  BY <1>1, <1>2

(***************************************************************************)
(* Two windows, either of which may be none, are as many as the references *)
(* they need.                                                              *)
(***************************************************************************)
LEMMA OpenCounted ==
  ASSUME NEW g, NEW d, g = d => g = NoWindow
  PROVE  Cardinality({g, d} \ {NoWindow}) = Needs(g) + Needs(d)
<1> DEFINE S == {g, d} \ {NoWindow}
<1>1. CASE g = NoWindow /\ d = NoWindow
  <2>1. S = {}
    BY <1>1
  <2> QED
    BY <1>1, <2>1, FS_EmptySet DEF Needs
<1>2. CASE g # NoWindow /\ d = NoWindow
  <2>1. S = {g}
    BY <1>2
  <2> QED
    BY <1>2, <2>1, FS_Singleton DEF Needs
<1>3. CASE g = NoWindow /\ d # NoWindow
  <2>1. S = {d}
    BY <1>3
  <2> QED
    BY <1>3, <2>1, FS_Singleton DEF Needs
<1>4. CASE g # NoWindow /\ d # NoWindow
  <2>1. S = {g} \cup {d} /\ d \notin {g}
    BY <1>4
  <2>2. Cardinality({g}) = 1 /\ IsFiniteSet({g})
    BY FS_Singleton
  <2>3. Cardinality({g} \cup {d}) = 2
    BY <2>1, <2>2, FS_AddElement
  <2> QED
    BY <1>4, <2>1, <2>3 DEF Needs
<1> QED
  BY <1>1, <1>2, <1>3, <1>4

(***************************************************************************)
(* Between handlers exactly what is open is held, and once main is done    *)
(* nothing is.                                                             *)
(***************************************************************************)
THEOREM NothingIsLeft == MainSpec => []ClosedMeansReleased
<1>1. MainInv => ClosedMeansReleased
  <2> SUFFICES ASSUME MainInv PROVE ClosedMeansReleased
    OBVIOUS
  <2> DEFINE open == {app.gWindow, app.dWindow} \ {NoWindow}
             Calls(cb) == {h \in Handles : app.callbacks[h].cb = cb}
  <2>1. Resting(app) /\ app \in AppState
    BY DEF MainInv, MainTypeOK
  <2>2. app.alive = open /\ Registered(app.registry, open)
    BY <2>1 DEF Resting, WindowsInv
  <2>3. \A w \in Windows :
          Cardinality({i \in 1..MaxRegistered : app.registry[i] = w}) =
            IF w \in open THEN 1 ELSE 0
    <3> HIDE DEF open
    <3> TAKE w \in Windows
    <3>1. w # NoWindow
      BY DEF Windows
    <3> QED
      BY <2>2, <3>1, EntriesCounted
  <2>4. /\ Calls("window_update") = IF app.gWindow = NoWindow THEN {} ELSE {app.gHandle}
        /\ Calls("debugger_update") = IF app.dWindow = NoWindow THEN {} ELSE {app.dHandle}
    <3>1. /\ Called(app.callbacks, "window_update", app.gWindow, app.gHandle)
          /\ Called(app.callbacks, "debugger_update", app.dWindow, app.dHandle)
      BY <2>1 DEF Resting, MachineInv, DebuggerInv
    <3> QED
      BY <3>1 DEF Called
  <2>5. /\ app.dBoxes = IF app.dWindow = NoWindow THEN 0 ELSE NumBoxes
        /\ app.ttf.refs = app.dBoxes + app.ttf.lost
    BY <2>1, FieldTypes DEF Resting, DebuggerInv, Owed, References
  <2>6. app.video.refs = Cardinality(open) + app.video.lost
    <3>1. /\ Owed(app.video) = Needs(app.gWindow) + Needs(app.dWindow)
          /\ app.gWindow = app.dWindow => app.gWindow = NoWindow
      BY <2>1 DEF Resting, WindowsInv
    <3>2. Cardinality(open) = Needs(app.gWindow) + Needs(app.dWindow)
      BY <3>1, OpenCounted
    <3>3. app.video \in References
      BY <2>1, FieldTypes
    <3> QED
      BY <3>1, <3>2, <3>3 DEF Owed, References
  <2>7. place = "done" => open = {} /\ ~app.on /\ ~app.cart
    BY <2>1 DEF MainInv, Resting, MachineInv
  <2> QED
    BY <2>2, <2>3, <2>4, <2>5, <2>6, <2>7 DEF ClosedMeansReleased
<1> QED
  BY <1>1, MainInvariance, PTL

-----------------------------------------------------------------------------
(* The frame buffers.                                                      *)

USE PixelsAssumption, SpeedsAssumption, NoFrameAssumption
USE DEF indices, emuVars, uiVars, EmuPlaces, UiPlaces, NormalMode

(***************************************************************************)
(* The state after lcd_init.                                               *)
(***************************************************************************)
LEMMA InitInv == Init => Inv
<1> SUFFICES ASSUME Init PROVE Inv
  OBVIOUS
<1>1. TypeOK
  <2>1. [p \in Pixels |-> 0] \in Picture
    BY DEF Picture, Frames
  <2>2. 0 \in 0..NumPixels /\ 1 \in 1..(MaxFrame + 1)
    OBVIOUS
  <2>3. buffers \in [0..2 -> Picture] /\ texture \in Picture /\ shown \in Picture
    BY <2>1 DEF Init
  <2>4. readyIndex \in 0..2 /\ writeIndex \in 0..2 /\ drawIndex \in 0..2
    BY DEF Init
  <2> QED
    BY <2>2, <2>3, <2>4 DEF Init, TypeOK
<1>2. BuffersDistinct /\ MutexInv /\ PathInv /\ FrameInv
  BY DEF Init, BuffersDistinct, MutexInv, PathInv, PathsAgree, FrameInv
<1> QED
  BY <1>1, <1>2 DEF Inv

(***************************************************************************)
(* Storing a pixel in a buffer gives a buffer.                             *)
(***************************************************************************)
LEMMA StoreType ==
  ASSUME TypeOK, NEW b \in 0..2, NEW p \in Pixels, NEW f \in Frames,
         buffers' = [buffers EXCEPT ![b][p] = f]
  PROVE  buffers' \in [0..2 -> Picture]
BY DEF TypeOK, Picture

(***************************************************************************)
(* Steps of the emulation thread.                                          *)
(***************************************************************************)
LEMMA EmuKeepsInv ==
  ASSUME Inv, EmuNext
  PROVE  Inv'
<1> USE DEF Inv, BuffersDistinct, MutexInv, PathInv, PathsAgree, FrameInv
<1>1. CASE BeginCycle
  BY <1>1 DEF BeginCycle, TypeOK
<1>2. CASE EndCycle
  BY <1>2 DEF EndCycle, TypeOK
<1>3. CASE BeginPixel
  BY <1>3 DEF BeginPixel, TypeOK
<1>4. CASE StorePixel
  <2>1. writeIndex \in 0..2 /\ emuPixel \in Pixels /\ frame \in Frames
    BY <1>4 DEF StorePixel, TypeOK, Pixels, Frames
  <2>2. buffers' \in [0..2 -> Picture]
    BY <1>4, <2>1, StoreType DEF StorePixel
  <2>3. TypeOK'
    BY <1>4, <2>1, <2>2 DEF StorePixel, TypeOK, Pixels
  <2>4. (BuffersDistinct /\ MutexInv /\ PathInv /\ FrameInv)'
    BY <1>4, <2>1 DEF StorePixel, TypeOK, Pixels
  <2> QED
    BY <2>3, <2>4
<1>5. CASE CompleteFrame
  <2>1. TypeOK'
    BY <1>5 DEF CompleteFrame, Publish, TypeOK
  <2>2. (BuffersDistinct /\ MutexInv /\ PathInv /\ FrameInv)'
    BY <1>5 DEF CompleteFrame, Publish, TypeOK
  <2> QED
    BY <2>1, <2>2
<1>6. CASE MarkFresh
  BY <1>6 DEF MarkFresh, TypeOK
<1> QED
  BY <1>1, <1>2, <1>3, <1>4, <1>5, <1>6 DEF EmuNext

(***************************************************************************)
(* Steps of the UI thread.                                                 *)
(***************************************************************************)
LEMMA UiKeepsInv ==
  ASSUME Inv, UiNext
  PROVE  Inv'
<1> USE DEF Inv, BuffersDistinct, MutexInv, PathInv, PathsAgree, FrameInv
<1>1. ASSUME NEW s \in Speeds, SetClockSpeed(s)
      PROVE  Inv'
  BY <1>1 DEF SetClockSpeed, TypeOK
<1>2. CASE Request
  BY <1>2 DEF Request, TypeOK
<1>3. CASE CheckStale
  BY <1>3 DEF CheckStale, TypeOK
<1>4. CASE TakeReady
  BY <1>4 DEF TakeReady, TypeOK
<1>5. CASE MarkStale
  BY <1>5 DEF MarkStale, TypeOK
<1>6. CASE LockForCopy
  BY <1>6 DEF LockForCopy, TypeOK
<1>7. CASE CopyPixel
  <2>1. drawIndex \in 0..2 /\ uiPixel \in Pixels /\ buffers[writeIndex][uiPixel] \in Frames
    BY <1>7 DEF CopyPixel, TypeOK, Pixels, Picture
  <2>2. buffers' \in [0..2 -> Picture]
    BY <1>7, <2>1, StoreType DEF CopyPixel
  <2>3. TypeOK'
    BY <1>7, <2>1, <2>2 DEF CopyPixel, TypeOK, Pixels
  <2>4. (BuffersDistinct /\ MutexInv /\ PathInv /\ FrameInv)'
    BY <1>7 DEF CopyPixel
  <2> QED
    BY <2>3, <2>4
<1>8. CASE EndCopy
  BY <1>8 DEF EndCopy, TypeOK
<1>9. CASE Decide
  BY <1>9 DEF Decide, TypeOK
<1>10. CASE DrawPixel
  <2>1. uiPixel \in Pixels /\ buffers[drawIndex][uiPixel] \in Frames
    BY <1>10 DEF DrawPixel, TypeOK, Pixels, Picture
  <2>2. texture' \in Picture
    BY <1>10, <2>1 DEF DrawPixel, TypeOK, Picture
  <2>3. TypeOK'
    BY <1>10, <2>1, <2>2 DEF DrawPixel, TypeOK, Pixels
  <2> QED
    BY <1>10, <2>3 DEF DrawPixel
<1>11. CASE Present
  BY <1>11 DEF Present, TypeOK
<1> QED
  BY <1>1, <1>2, <1>3, <1>4, <1>5, <1>6, <1>7, <1>8, <1>9, <1>10, <1>11 DEF UiNext

(***************************************************************************)
(* The invariant of the frame hand-over, in every reachable state.         *)
(***************************************************************************)
THEOREM Invariance == Spec => []Inv
<1>1. Inv /\ [Next]_vars => Inv'
  <2> SUFFICES ASSUME Inv, [Next]_vars PROVE Inv'
    OBVIOUS
  <2>1. CASE Next
    BY <2>1, EmuKeepsInv, UiKeepsInv DEF Next
  <2>2. CASE UNCHANGED vars
    BY <2>2 DEF vars, Inv, TypeOK, BuffersDistinct, MutexInv, PathInv, PathsAgree,
                FrameInv
  <2> QED
    BY <2>1, <2>2
<1> QED
  BY <1>1, InitInv, PTL DEF Spec

(***************************************************************************)
(* The writer and the UI thread never meet in one buffer, on either path   *)
(* and across every change of the clock speed.                             *)
(***************************************************************************)
THEOREM Safety == Spec => [](BuffersDistinct /\ NoDataRace)
<1>1. Inv => BuffersDistinct /\ NoDataRace
  BY DEF Inv, BuffersDistinct, NoDataRace, MutexInv, PathInv, PathsAgree
<1> QED
  BY <1>1, Invariance, PTL

(***************************************************************************)
(* The three indices of the frame buffers never coincide.                  *)
(***************************************************************************)
THEOREM Distinct == Spec => []BuffersDistinct
<1> QED
  BY Safety, PTL
-----------------------------------------------------------------------------
(***************************************************************************)
(* Whole frames on the normal path.                                        *)
(***************************************************************************)
LEMMA InitWhole == MCInit => WholeInv
<1> SUFFICES ASSUME MCInit, ~slowed PROVE WholeInv
  BY DEF WholeInv
<1>1. Whole(buffers[readyIndex]) /\ Whole(buffers[drawIndex]) /\ Whole(shown)
  BY DEF MCInit, Init, Whole
<1>2. NormalMode
  BY Zenon DEF MCInit
<1> QED
  BY <1>1, <1>2 DEF MCInit, Init, WholeInv, Pixels

\* Steps of the emulation thread that touch no pixel.
LEMMA EmuKeepsWhole ==
  ASSUME Inv, WholeInv, EmuNext, ~slowed, NormalMode'
  PROVE  WholeInv'
<1> USE DEF WholeInv, Whole
<1>1. CASE BeginCycle
  BY <1>1 DEF BeginCycle
<1>2. CASE EndCycle
  BY <1>2 DEF EndCycle
<1>3. CASE BeginPixel
  BY <1>3 DEF BeginPixel
<1>4. CASE StorePixel
  <2>1. writeIndex \in 0..2 /\ readyIndex \in 0..2 /\ drawIndex \in 0..2
    BY DEF Inv, TypeOK
  <2>2. buffers'[readyIndex] = buffers[readyIndex] /\ buffers'[drawIndex] = buffers[drawIndex]
    BY <1>4, <2>1 DEF StorePixel, Inv, TypeOK, BuffersDistinct
  <2>3. ASSUME NEW p \in Pixels, p < emuPixel + 1
        PROVE  buffers'[writeIndex][p] = frame
    BY <1>4, <2>1, <2>3 DEF StorePixel, Inv, TypeOK, Pixels, Picture
  <2> QED
    BY <1>4, <2>2, <2>3 DEF StorePixel
<1>5. CASE CompleteFrame
  <2>1. Whole(buffers[writeIndex])
    BY <1>5 DEF CompleteFrame, Pixels
  <2>2. \A p \in Pixels : ~(p < 0)
    BY DEF Pixels
  <2> QED
    BY <1>5, <2>1, <2>2 DEF CompleteFrame, Publish
<1>6. CASE MarkFresh
  BY <1>6 DEF MarkFresh
<1> QED
  BY <1>1, <1>2, <1>3, <1>4, <1>5, <1>6 DEF EmuNext

\* The UI thread swaps two whole buffers, and draws from a buffer nobody writes.
LEMMA UiKeepsWhole ==
  ASSUME Inv, WholeInv, UiNext, ~slowed, NormalMode'
  PROVE  WholeInv'
<1> USE DEF WholeInv, Whole
<1>1. ASSUME NEW s \in Speeds, SetClockSpeed(s)
      PROVE  WholeInv'
  BY <1>1 DEF SetClockSpeed
<1>2. CASE Request
  BY <1>2 DEF Request
<1>3. CASE CheckStale
  BY <1>3 DEF CheckStale
<1>4. CASE TakeReady
  BY <1>4 DEF TakeReady
<1>5. CASE MarkStale
  BY <1>5 DEF MarkStale
<1>6. CASE LockForCopy
  BY <1>6 DEF LockForCopy
<1>7. CASE CopyPixel
  BY <1>7 DEF CopyPixel
<1>8. CASE EndCopy
  BY <1>8 DEF EndCopy
<1>9. CASE Decide
  <2>1. \A p \in Pixels : ~(p < 0)
    BY DEF Pixels
  <2> QED
    BY <1>9, <2>1 DEF Decide
<1>10. CASE DrawPixel
  <2>1. ASSUME NEW p \in Pixels, p < uiPixel + 1
        PROVE  texture'[p] = buffers[drawIndex][p]
    BY <1>10, <2>1 DEF DrawPixel, Inv, TypeOK, Pixels, Picture
  <2> QED
    BY <1>10, <2>1 DEF DrawPixel
<1>11. CASE Present
  <2>1. \A p \in Pixels : texture[p] = buffers[drawIndex][p]
    BY <1>11 DEF Present, Pixels
  <2> QED
    BY <1>11, <2>1 DEF Present
<1> QED
  BY <1>1, <1>2, <1>3, <1>4, <1>5, <1>6, <1>7, <1>8, <1>9, <1>10, <1>11 DEF UiNext

\* The history variable changes nothing: the specification with it implements the one
\* without.
LEMMA HistoryImplements == MCSpec => Spec
<1>1. MCInit => Init
  BY DEF MCInit
<1>2. [MCNext]_<<vars, slowed>> => [Next]_vars
  BY DEF MCNext
<1> QED
  BY <1>1, <1>2, PTL DEF MCSpec, Spec

(***************************************************************************)
(* In normal operation no mixture of two frames reaches the window,        *)
(* however the swaps, the pixels and the drawing interleave.               *)
(***************************************************************************)
THEOREM WholeFrames == MCSpec => []NormalFrameIsWhole
<1>1. Inv /\ WholeInv /\ [MCNext]_<<vars, slowed>> => WholeInv'
  <2> SUFFICES ASSUME Inv, WholeInv, [MCNext]_<<vars, slowed>> PROVE WholeInv'
    OBVIOUS
  <2>1. CASE slowed'
    BY <2>1 DEF WholeInv
  <2>2. CASE MCNext /\ ~slowed'
    BY <2>2, EmuKeepsWhole, UiKeepsWhole DEF MCNext, Next
  <2>3. CASE UNCHANGED <<vars, slowed>>
    BY <2>3 DEF vars, WholeInv, Whole
  <2> QED
    BY <2>1, <2>2, <2>3
<1>2. WholeInv => NormalFrameIsWhole
  BY DEF WholeInv, NormalFrameIsWhole, ShownFrameIsWhole, Whole
<1> QED
  BY <1>1, <1>2, InitWhole, HistoryImplements, Invariance, PTL DEF MCSpec

-----------------------------------------------------------------------------
(***************************************************************************)
(* A streamed frame is drawn.                                              *)
(***************************************************************************)

\* The UI thread took the debug path at a speed that was not above the boundary, and
\* only it can raise the speed.
StreamedInv ==
  /\ ui \in {"check", "swap", "mark"} => path = "normal"
  /\ ui \in {"lock", "copy", "decide"} /\ path = "debug" => speed <= Boundary

LEMMA StepKeepsStreamed ==
  ASSUME Inv, Inv', StreamedInv, [Next]_vars
  PROVE  StreamedInv'
<1> USE DEF StreamedInv, Inv, TypeOK
<1>1. CASE EmuNext
  BY <1>1 DEF EmuNext, BeginCycle, EndCycle, BeginPixel, StorePixel, CompleteFrame, MarkFresh
<1>2. ASSUME NEW s \in Speeds, SetClockSpeed(s)
      PROVE  StreamedInv'
  BY <1>2 DEF SetClockSpeed
<1>3. CASE Request \/ CheckStale \/ TakeReady \/ MarkStale
  BY <1>3 DEF Request, CheckStale, TakeReady, MarkStale
<1>4. CASE LockForCopy \/ CopyPixel \/ EndCopy \/ Decide \/ DrawPixel \/ Present
  BY <1>4 DEF LockForCopy, CopyPixel, EndCopy, Decide, DrawPixel, Present
<1>5. CASE UNCHANGED vars
  BY <1>5 DEF vars
<1> QED
  BY <1>1, <1>2, <1>3, <1>4, <1>5 DEF Next, UiNext

(***************************************************************************)
(* window_update draws every frame it has just streamed, but for one case: *)
(* at exactly the boundary speed, which lcd.c counts as slow and           *)
(* window_update as fast, a frame streamed into the buffer on screen.      *)
(***************************************************************************)
THEOREM StreamedIsDrawn == Spec => StreamedFrameIsDrawn
<1>1. Init => StreamedInv
  BY DEF Init, StreamedInv
<1>2. StreamedInv /\ Inv /\ [Next]_vars
        => [ui = "decide" /\ path = "debug" /\ ui' = "idle"
              => speed = Boundary /\ currentFrame = drawIndex]_vars
  <2> SUFFICES ASSUME StreamedInv, Inv, Next, ui = "decide", path = "debug", ui' = "idle"
               PROVE  speed = Boundary /\ currentFrame = drawIndex
    BY DEF vars
  <2>1. CASE Decide
    <3>1. ~Redraw
      BY <2>1 DEF Decide
    <3>2. speed \in Nat /\ Boundary \in Nat /\ speed <= Boundary
      BY SpeedsAssumption DEF StreamedInv, Inv, TypeOK
    <3> QED
      BY <3>1, <3>2 DEF Redraw
  <2>2. ~EmuNext
    BY DEF EmuNext, BeginCycle, EndCycle, BeginPixel, StorePixel, CompleteFrame, MarkFresh
  <2>3. CASE UiNext /\ ~Decide
    BY <2>3 DEF UiNext, SetClockSpeed, Request, CheckStale, TakeReady, MarkStale, LockForCopy,
                CopyPixel, EndCopy, DrawPixel, Present
  <2> QED
    BY <2>1, <2>2, <2>3 DEF Next
<1> QED
  BY <1>1, <1>2, StepKeepsStreamed, Invariance, PTL DEF Spec, StreamedFrameIsDrawn
=============================================================================
