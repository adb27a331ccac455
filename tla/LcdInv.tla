------------------------------- MODULE LcdInv -------------------------------
(***************************************************************************)
(* The inductive invariant of Lcd.                                         *)
(***************************************************************************)
EXTENDS Lcd

\* data_mutex is held exactly inside the two sections it guards.
MutexInv ==
  /\ dataMutex = "emu" <=> emu = "locked"
  /\ dataMutex = "ui" <=> ui = "copy"

\* The speed cannot cross the boundary upwards under a thread that has chosen
\* its path, because raising it takes the UI thread between two requests and the
\* emulation thread between two cycles.
PathInv ==
  /\ PathsAgree
  /\ emu \in {"write", "swapped"} => NormalMode
  /\ emu = "locked" => ~NormalMode

\* The frame that is being written is within the bound.
FrameInv ==
  /\ emuPixel > 0 => frame <= MaxFrame
  /\ emu \in {"write", "locked"} => emuPixel < NumPixels /\ frame <= MaxFrame

Inv == TypeOK /\ BuffersDistinct /\ MutexInv /\ PathInv /\ FrameInv
=============================================================================
