-------------------------------- MODULE Lcd --------------------------------
(***************************************************************************)
(* The frame buffers of src/lcd.c between the emulation thread, which      *)
(* writes pixels and completes frames, and the UI thread, which requests a *)
(* buffer and draws it (window_update of src/gboy.c).                      *)
(*                                                                         *)
(* Above the boundary speed a frame is handed over by swapping indices     *)
(* through the atomic ready_index ("normal" path); otherwise the UI copies *)
(* the buffer that is being written under data_mutex ("debug" path).  The  *)
(* emulation thread holds emulation_mutex for a whole cycle, and every     *)
(* gboy_get_clock_speed of the UI thread waits for it.                     *)
(*                                                                         *)
(* A pixel holds the number of the frame that wrote it, so that what is on *)
(* screen tells which frames it comes from.                                *)
(***************************************************************************)
EXTENDS Integers

CONSTANTS
  NumPixels,    \* pixels of a frame, written in order
  MaxFrame,     \* bound: the emulator stops writing after this frame
  Speeds,       \* clock speeds the UI thread sets
  Boundary,     \* LCD_DEBUG_CLOCK_SPEED, and the 100000 of window_update
  NoFrame       \* the NULL frame pointer

ASSUME PixelsAssumption == NumPixels \in Nat \ {0} /\ MaxFrame \in Nat
ASSUME SpeedsAssumption == Speeds \subseteq Nat /\ 0 \in Speeds /\ Boundary \in Nat \ {0}
ASSUME NoFrameAssumption == NoFrame \notin 0..2

VARIABLES
  speed,        \* what gboy_get_clock_speed returns
  buffers,      \* m_ctx.frame_buffers
  readyIndex, writeIndex, drawIndex,
  readyStale,
  dataMutex,    \* holder of data_mutex
  emu,          \* where the emulation thread is in its cycle
  emuPixel,     \* next pixel of the frame being written
  frame,        \* number of the frame being written
  ui,           \* where the UI thread is in window_update
  uiPixel,      \* next pixel of its copy
  path,         \* the branch lcd_request_draw_buffer took
  currentFrame, \* m_ctx.current_frame of gboy.c
  texture,      \* pixels given to the texture so far
  shown         \* what the last window_present showed

indices == <<readyIndex, writeIndex, drawIndex>>
emuVars == <<emu, emuPixel, frame>>
uiVars == <<ui, uiPixel, path, currentFrame, texture, shown>>
vars == <<speed, buffers, indices, readyStale, dataMutex, emuVars, uiVars>>

Pixels == 0..(NumPixels - 1)
Frames == 0..(MaxFrame + 1)
Picture == [Pixels -> Frames]

\* free: outside the cycle, emulation_mutex released; write/locked: inside
\* lcd_write_pixel without and with data_mutex; swapped: in lcd_frame_complete
\* between its two atomic operations.
EmuPlaces == {"free", "step", "write", "locked", "swapped"}

\* check, swap, mark: the three operations of the normal path; lock, copy: the
\* debug path; decide, draw: the rest of window_update.
UiPlaces == {"idle", "check", "swap", "mark", "lock", "copy", "decide", "draw"}

TypeOK ==
  /\ speed \in Speeds
  /\ buffers \in [0..2 -> Picture]
  /\ readyIndex \in 0..2 /\ writeIndex \in 0..2 /\ drawIndex \in 0..2
  /\ readyStale \in BOOLEAN
  /\ dataMutex \in {"none", "emu", "ui"}
  /\ emu \in EmuPlaces /\ emuPixel \in 0..NumPixels /\ frame \in 1..(MaxFrame + 1)
  /\ ui \in UiPlaces /\ uiPixel \in 0..NumPixels /\ path \in {"normal", "debug"}
  /\ currentFrame \in 0..2 \cup {NoFrame}
  /\ texture \in Picture /\ shown \in Picture

\* lcd_init; ready_stale is static and starts as zero.  The emulator is powered
\* on at any speed.
Init ==
  /\ speed \in Speeds
  /\ buffers = [b \in 0..2 |-> [p \in Pixels |-> 0]]
  /\ readyIndex = 0 /\ writeIndex = 1 /\ drawIndex = 2
  /\ readyStale = FALSE
  /\ dataMutex = "none"
  /\ emu = "free" /\ emuPixel = 0 /\ frame = 1
  /\ ui = "idle" /\ uiPixel = 0 /\ path = "debug"
  /\ currentFrame = NoFrame
  /\ texture = [p \in Pixels |-> 0] /\ shown = texture

-----------------------------------------------------------------------------
(* The clock speed.  Both actions need emulation_mutex.                    *)

NormalMode == speed > Boundary

\* Mutant of SetClockSpeed: any thread changes the speed at any time.
MutSetClockSpeedAnyTime(s) ==
  /\ speed' = s
  /\ UNCHANGED <<buffers, indices, readyStale, dataMutex, emuVars, uiVars>>

SetClockSpeed(s) ==
  /\ ui = "idle"
  /\ emu = "free"
  /\ speed' = s
  /\ UNCHANGED <<buffers, indices, readyStale, dataMutex, emuVars, uiVars>>

\* A cycle begins with the CPU, whose error sets the speed to zero.
BeginCycle ==
  /\ emu = "free"
  /\ emu' = "step"
  /\ speed' \in {speed, 0}
  /\ UNCHANGED <<buffers, indices, readyStale, dataMutex, emuPixel, frame, uiVars>>

EndCycle ==
  /\ emu = "step"
  /\ emu' = "free"
  /\ UNCHANGED <<speed, buffers, indices, readyStale, dataMutex, emuPixel, frame,
                 uiVars>>

-----------------------------------------------------------------------------
(* lcd_write_pixel: choose the path, then store the pixel.                 *)

\* Mutant of BeginPixel: the debug path writes without data_mutex.
MutBeginPixelUnlocked ==
  /\ emu = "step"
  /\ emuPixel < NumPixels
  /\ frame <= MaxFrame
  /\ emu' = "write"
  /\ UNCHANGED <<speed, buffers, indices, readyStale, dataMutex, emuPixel, frame,
                 uiVars>>

BeginPixel ==
  /\ emu = "step"
  /\ emuPixel < NumPixels
  /\ frame <= MaxFrame
  /\ IF NormalMode
     THEN emu' = "write" /\ UNCHANGED dataMutex
     ELSE dataMutex = "none" /\ dataMutex' = "emu" /\ emu' = "locked"
  /\ UNCHANGED <<speed, buffers, indices, readyStale, emuPixel, frame, uiVars>>

StorePixel ==
  /\ emu \in {"write", "locked"}
  /\ buffers' = [buffers EXCEPT ![writeIndex][emuPixel] = frame]
  /\ emuPixel' = emuPixel + 1
  /\ dataMutex' = IF emu = "locked" THEN "none" ELSE dataMutex
  /\ emu' = "step"
  /\ UNCHANGED <<speed, indices, readyStale, frame, uiVars>>

(* lcd_frame_complete.  The old ready index returned by the atomic exchange *)
(* goes into write_index, which the UI thread does not read on this path.   *)

\* Mutant of Publish: the writer keeps its buffer after publishing it.
MutPublishKeep ==
  /\ readyIndex' = writeIndex
  /\ writeIndex' = writeIndex

Publish ==
  /\ readyIndex' = writeIndex
  /\ writeIndex' = readyIndex

\* Mutant of CompleteFrame: a frame is published one pixel early.
MutCompleteFrameEarly ==
  /\ emu = "step"
  /\ emuPixel = NumPixels - 1
  /\ emuPixel' = 0
  /\ frame' = frame + 1
  /\ IF NormalMode
     THEN Publish /\ emu' = "swapped"
     ELSE UNCHANGED <<readyIndex, writeIndex, emu>>
  /\ UNCHANGED <<speed, buffers, drawIndex, readyStale, dataMutex, uiVars>>

CompleteFrame ==
  /\ emu = "step"
  /\ emuPixel = NumPixels
  /\ emuPixel' = 0
  /\ frame' = frame + 1
  /\ IF NormalMode
     THEN Publish /\ emu' = "swapped"
     ELSE UNCHANGED <<readyIndex, writeIndex, emu>>
  /\ UNCHANGED <<speed, buffers, drawIndex, readyStale, dataMutex, uiVars>>

MarkFresh ==
  /\ emu = "swapped"
  /\ readyStale' = FALSE
  /\ emu' = "step"
  /\ UNCHANGED <<speed, buffers, indices, dataMutex, emuPixel, frame, uiVars>>

-----------------------------------------------------------------------------
(* lcd_request_draw_buffer.                                                *)

Request ==
  /\ ui = "idle"
  /\ emu = "free"
  /\ IF NormalMode
     THEN ui' = "check" /\ path' = "normal"
     ELSE ui' = "lock" /\ path' = "debug"
  /\ UNCHANGED <<speed, buffers, indices, readyStale, dataMutex, emuVars, uiPixel,
                 currentFrame, texture, shown>>

CheckStale ==
  /\ ui = "check"
  /\ ui' = IF readyStale THEN "decide" ELSE "swap"
  /\ UNCHANGED <<speed, buffers, indices, readyStale, dataMutex, emuVars, uiPixel,
                 path, currentFrame, texture, shown>>

TakeReady ==
  /\ ui = "swap"
  /\ drawIndex' = readyIndex
  /\ readyIndex' = drawIndex
  /\ ui' = "mark"
  /\ UNCHANGED <<speed, buffers, writeIndex, readyStale, dataMutex, emuVars, uiPixel,
                 path, currentFrame, texture, shown>>

MarkStale ==
  /\ ui = "mark"
  /\ readyStale' = TRUE
  /\ ui' = "decide"
  /\ UNCHANGED <<speed, buffers, indices, dataMutex, emuVars, uiPixel, path,
                 currentFrame, texture, shown>>

LockForCopy ==
  /\ ui = "lock"
  /\ dataMutex = "none"
  /\ dataMutex' = "ui"
  /\ ui' = "copy"
  /\ uiPixel' = 0
  /\ UNCHANGED <<speed, buffers, indices, readyStale, emuVars, path, currentFrame,
                 texture, shown>>

CopyPixel ==
  /\ ui = "copy"
  /\ uiPixel < NumPixels
  /\ buffers' = [buffers EXCEPT ![drawIndex][uiPixel] = buffers[writeIndex][uiPixel]]
  /\ uiPixel' = uiPixel + 1
  /\ UNCHANGED <<speed, indices, readyStale, dataMutex, emuVars, ui, path,
                 currentFrame, texture, shown>>

EndCopy ==
  /\ ui = "copy"
  /\ uiPixel = NumPixels
  /\ dataMutex' = "none"
  /\ ui' = "decide"
  /\ UNCHANGED <<speed, buffers, indices, readyStale, emuVars, uiPixel, path,
                 currentFrame, texture, shown>>

-----------------------------------------------------------------------------
(* The rest of window_update: redraw only a new frame, or when slow.       *)

\* Mutant of Redraw: only the pointer is compared.
MutRedrawPointer == currentFrame # drawIndex

Redraw == currentFrame # drawIndex \/ speed < Boundary

Decide ==
  /\ ui = "decide"
  /\ emu = "free"
  /\ ui' = IF Redraw THEN "draw" ELSE "idle"
  /\ uiPixel' = 0
  /\ UNCHANGED <<speed, buffers, indices, readyStale, dataMutex, emuVars, path,
                 currentFrame, texture, shown>>

DrawPixel ==
  /\ ui = "draw"
  /\ uiPixel < NumPixels
  /\ texture' = [texture EXCEPT ![uiPixel] = buffers[drawIndex][uiPixel]]
  /\ uiPixel' = uiPixel + 1
  /\ UNCHANGED <<speed, buffers, indices, readyStale, dataMutex, emuVars, ui, path,
                 currentFrame, shown>>

Present ==
  /\ ui = "draw"
  /\ uiPixel = NumPixels
  /\ shown' = texture
  /\ currentFrame' = drawIndex
  /\ ui' = "idle"
  /\ UNCHANGED <<speed, buffers, indices, readyStale, dataMutex, emuVars, uiPixel,
                 path, texture>>

-----------------------------------------------------------------------------
EmuNext ==
  BeginCycle \/ EndCycle \/ BeginPixel \/ StorePixel \/ CompleteFrame \/ MarkFresh

UiNext ==
  \/ \E s \in Speeds : SetClockSpeed(s)
  \/ Request \/ CheckStale \/ TakeReady \/ MarkStale
  \/ LockForCopy \/ CopyPixel \/ EndCopy
  \/ Decide \/ DrawPixel \/ Present

Next == EmuNext \/ UiNext

Spec == Init /\ [][Next]_vars

-----------------------------------------------------------------------------
(* Properties.                                                             *)

\* The three indices are a permutation of the buffers in every interleaving of
\* the two swaps: the writer never gets the buffer on screen, and no buffer is
\* lost.
BuffersDistinct ==
  readyIndex # writeIndex /\ readyIndex # drawIndex /\ writeIndex # drawIndex

\* While the emulation thread stores a pixel the UI thread does not read that
\* buffer: not in its copy, even when the speed crosses the boundary between
\* the two, and not when it draws.
NoDataRace ==
  emu \in {"write", "locked"} =>
    ui # "copy" /\ ~(ui = "draw" /\ drawIndex = writeIndex)

\* The two threads agree on the path: while the UI thread is on the debug path
\* the emulation thread cannot be on the normal one.
PathsAgree == ui \in {"lock", "copy"} => ~NormalMode

\* In normal operation only completed frames reach the window, never a mixture
\* of two frames.
ShownFrameIsWhole == \A p, q \in Pixels : shown[p] = shown[q]

\* A streamed frame goes undrawn in one case only: at exactly the boundary speed,
\* when it was copied into the buffer that is on screen already.  There lcd.c:73
\* compares with > and streams, and window_update compares with < and takes the
\* pointer it knows for a stale frame (gboy.c:423).
StreamedFrameIsDrawn ==
  [][ui = "decide" /\ path = "debug" /\ ui' = "idle"
       => speed = Boundary /\ currentFrame = drawIndex]_vars

\* The worst the race between the two threads does is to drop a frame (comment
\* in lcd_request_draw_buffer): the window never goes back to an older one.
FrameNeverRegresses == [][\A p \in Pixels : shown'[p] >= shown[p]]_vars
=============================================================================
