-------------------------------- MODULE Ppu --------------------------------
(***************************************************************************)
(* The pixel processing unit, src/src/ppu/ppu.c with its fetcher           *)
(* (ppu/fetcher.c).  One call of ppu_execute is one dot.  The unit walks   *)
(* through the lines of a frame: on a visible line it scans the object     *)
(* memory (mode 2, "oam"), draws (mode 3, "draw") and waits for the end of *)
(* the line (mode 0, "hblank"); the lines below are the vertical blank     *)
(* (mode 1, "vblank").  Between two dots the CPU may write registers.      *)
(*                                                                         *)
(* The sizes of the hardware are constants.  Colours are left out: a pixel *)
(* of the background FIFO is named by its layer and its number in the      *)
(* tiles fetched for the line, and of a pixel in the object FIFO we keep   *)
(* whether it comes from an object at all.                                 *)
(***************************************************************************)
EXTENDS Integers, Sequences, FiniteSets, Functions

CONSTANTS
  Width,         \* LCD_WIDTH, pixels of a line
  VisibleLines,  \* PPU_VBLANK_START_SCANLINE
  LastLine,      \* PPU_FRAME_END_SCANLINE
  LineDots,      \* PPU_SCANLINE_END_DOT
  Tile,          \* pixels in a row of a tile, 8
  ReadyStep,     \* step at which a fetch is ready, 7
  OamSize,       \* objects in the object memory, 40
  MaxSelected,   \* objects on one line, 10
  PixelBytes,    \* sizeof(struct ppu_pixel), 3
  Oams,          \* contents of the object memory the CPU may write
  Values,        \* for each register (field of regs) the values the CPU may write
  MidLine,       \* the registers the CPU writes while a line is drawn
  MidLineBound   \* bound of the checks: the dot up to which it does so

ASSUME SizesAssumption ==
  /\ Width \in Nat \ {0} /\ VisibleLines \in Nat \ {0}
  /\ LastLine \in Nat /\ LastLine >= VisibleLines
  /\ LineDots \in Nat \ {0} /\ Tile \in Nat \ {0} /\ ReadyStep \in Nat /\ ReadyStep > 1
  /\ OamSize \in Nat \ {0} /\ MaxSelected \in Nat \ {0}
  /\ PixelBytes \in Nat \ {0}

Objects == [y : 0 .. 255, x : 0 .. 255, flip : BOOLEAN]
ASSUME OamsAssumption == Oams \subseteq [0 .. OamSize - 1 -> Objects]

Flags == {"on", "objOn", "big", "priority", "winOn"}
Bytes == {"wx", "wy", "lyc"}
ASSUME ValuesAssumption ==
  /\ DOMAIN Values \subseteq Flags \cup Bytes
  /\ \A r \in DOMAIN Values : Values[r] \subseteq IF r \in Flags THEN BOOLEAN ELSE 0 .. 255

VARIABLES
  regs,      \* the registers the CPU writes: bits of LCDC, and WX, WY, LYC
  mode,      \* mode bits of STAT
  lycEq,     \* the LYC == LY bit of STAT
  ly,        \* register LY
  dot,       \* dot_count
  oam,       \* the object memory
  scan,      \* m_ctx.oam: next object, selected objects, index
  draw,      \* m_ctx.draw with the fetcher and the two FIFOs; the field origin is
             \* history, the column at which the layer shown began
  winLine,   \* vblank.win_line_counter
  raster,    \* history: pixels written since the last complete frame
  firstFrame, \* history: no frame was completed yet
  elapsed    \* history: calls of ppu_execute since the line began

history == <<raster, firstFrame, elapsed>>
vars == <<regs, mode, lycEq, ly, dot, oam, scan, draw, winLine, history>>

Blank == [y |-> 0, x |-> 0, flip |-> FALSE]
Idle == [state |-> "idle", step |-> 0, layer |-> "none", n |-> 0, row |-> 0]

EmptyScan == [next |-> Blank, selected |-> <<>>, index |-> 0]
EmptyDraw ==
  [fetched |-> 0, lx |-> 0, fetcherX |-> 0, win |-> FALSE, stall |-> FALSE,
   fetcher |-> Idle, bkg |-> <<>>, obj |-> <<>>, origin |-> 0]

\* All memory is zero: the unit is off, in mode 0 on line 0, whose horizontal blank is
\* the first thing it does.
Init ==
  /\ regs = [on |-> FALSE, objOn |-> FALSE, big |-> FALSE, priority |-> FALSE,
             winOn |-> FALSE, wx |-> 0, wy |-> 0, lyc |-> 0]
  /\ mode = "hblank" /\ lycEq = FALSE /\ ly = 0 /\ dot = 0
  /\ oam = [i \in 0 .. OamSize - 1 |-> Blank]
  /\ scan = EmptyScan /\ draw = EmptyDraw /\ winLine = 0
  /\ raster = 0 /\ firstFrame = TRUE /\ elapsed = 0

(***************************************************************************)
(* The fetcher.                                                            *)
(***************************************************************************)

\* fetcher_step
FetcherStep(f) ==
  IF f.state # "fetching" THEN f
  ELSE [f EXCEPT !.step = @ + 1,
                 !.state = IF f.step + 1 = ReadyStep THEN "ready" ELSE @]

\* fetcher_set_fetch_address and the step that primes it
Fetch(layer, n, row) ==
  FetcherStep([state |-> "fetching", step |-> 0, layer |-> layer, n |-> n, row |-> row])

\* The row handed to the tile address, after its sanitation in calc_tile_data_addr.
TileRow(row) == IF row >= Tile THEN row % Tile ELSE row

\* The row of an object on this line, flipped, and moved into the lower tile of a big one.
ObjRow(o) ==
  LET row == ly - (o.y - 2 * Tile)
      height == IF regs.big THEN 2 * Tile ELSE Tile
      flipped == IF o.flip THEN height - 1 - row ELSE row
  IN  TileRow(IF regs.big /\ flipped >= Tile THEN flipped - Tile ELSE flipped)

(***************************************************************************)
(* The object scan.                                                        *)
(***************************************************************************)

\* object_is_visible: by the precedence of & and != the height depends on the
\* lowest bit of LCDC, not on the object size.
Visible(o) ==
  LET height == IF regs.priority THEN 2 * Tile ELSE Tile
  IN  ly + 2 * Tile >= o.y /\ ly + 2 * Tile < o.y + height

\* The loop of oam(): object o goes through the selected ones and changes places
\* with each that lies further right; Carried(selected, o)[i] is next_object after i
\* places.
Carried(selected, o) ==
  LET carry[i \in 0 .. Len(selected)] ==
        IF i = 0 THEN o
        ELSE IF carry[i - 1].x < selected[i].x THEN selected[i] ELSE carry[i - 1]
  IN  carry

MutInsertLast(selected, o) == Append(selected, o)

Insert(selected, o) ==
  LET n == Len(selected)
      carry == Carried(selected, o)
  IN  [i \in 1 .. n + 1 |->
         IF i = n + 1 THEN carry[n]
         ELSE IF carry[i - 1].x < selected[i].x THEN carry[i - 1] ELSE selected[i]]

\* An object is looked at while there is room; the index moves on in any case.
Select(s) ==
  IF Len(s.selected) < MaxSelected /\ Visible(s.next)
  THEN [next |-> Carried(s.selected, s.next)[Len(s.selected)],
        selected |-> Insert(s.selected, s.next),
        index |-> s.index + 1]
  ELSE [s EXCEPT !.index = @ + 1]

(***************************************************************************)
(* The stages of draw(), each a function of the drawing state.             *)
(***************************************************************************)

MutHasObjOnScreen(d) ==
  /\ regs.objOn
  /\ d.fetched < Len(scan.selected)
  /\ scan.selected[d.fetched + 1].x - Tile = d.lx

\* set_next_obj and position_has_obj
HasObj(d) ==
  /\ regs.objOn
  /\ d.fetched < Len(scan.selected)
  /\ LET x == scan.selected[d.fetched + 1].x
     IN  (x < Tile /\ d.lx = 0) \/ x - Tile = d.lx

FetchObj(d) ==
  [d EXCEPT !.stall = TRUE,
            !.fetcher = Fetch("obj", 0, ObjRow(scan.selected[d.fetched + 1]))]

\* OBJ-over-OBJ mixing.  fifo_pop_range is given the number of pixels where it
\* takes a number of bytes: a pixel that is not copied whole is mixed from
\* uninitialised memory.
Mix(fifo) ==
  [i \in 1 .. Tile |->
     i > Len(fifo) \/ (i <= Len(fifo) \div PixelBytes /\ fifo[i])]

\* obj_rendering with the stall around it
ObjStage(d) ==
  LET f == FetcherStep(IF d.stall THEN d.fetcher ELSE Idle)
      pushed == [d EXCEPT !.fetched = @ + 1, !.fetcher = Idle, !.obj = Mix(@),
                          !.stall = FALSE]
  IN  IF ~HasObj(d) THEN [d EXCEPT !.stall = FALSE]
      ELSE CASE f.state = "idle"     -> FetchObj(d)
             [] f.state = "fetching" -> [d EXCEPT !.stall = TRUE, !.fetcher = f]
             [] f.state = "ready"    -> IF HasObj(pushed) THEN FetchObj(pushed) ELSE pushed

\* window_is_active
WindowIsActive(d) == regs.winOn /\ ly = regs.wy /\ regs.wx <= d.lx

MutWindowStageKeepFifo(d) ==
  IF WindowIsActive(d) = d.win THEN d
  ELSE [d EXCEPT !.win = ~@, !.fetcher = Idle, !.fetcherX = 0, !.origin = d.lx]

MutWindowStageKeepColumn(d) ==
  IF WindowIsActive(d) = d.win THEN d
  ELSE [d EXCEPT !.win = ~@, !.fetcher = Idle, !.bkg = <<>>, !.origin = d.lx]

\* The change between background and window drops what was fetched.
WindowStage(d) ==
  IF WindowIsActive(d) = d.win THEN d
  ELSE [d EXCEPT !.win = ~@, !.fetcher = Idle, !.bkg = <<>>, !.fetcherX = 0,
                 !.origin = d.lx]

\* The stall for want of pixels: outside the window a whole tile must stay behind.
Underflow(d) == IF d.win THEN d.bkg = <<>> ELSE Len(d.bkg) <= Tile

\* One pixel leaves both FIFOs and is written to the LCD.
PixelStage(d) ==
  IF Underflow(d) THEN d
  ELSE [d EXCEPT !.bkg = Tail(@), !.obj = IF @ = <<>> THEN @ ELSE Tail(@), !.lx = @ + 1]

Layer(d) == IF d.win THEN "win" ELSE "bkg"

FetchTile(d) ==
  [d EXCEPT !.fetcher = Fetch(Layer(d), d.fetcherX * Tile, ly % Tile)]

\* The eight pixels of a fetch, as entries of the background FIFO.
Pixels(f) == [i \in 1 .. Tile |-> [layer |-> f.layer, n |-> f.n + i - 1]]

MutHasRoomAny(d) == Len(d.bkg) < 2 * Tile

HasRoom(d) == 2 * Tile - Len(d.bkg) >= Tile

\* bkg_rendering
BkgStage(d) ==
  LET f == FetcherStep(d.fetcher)
      pushed == [d EXCEPT !.bkg = @ \o Pixels(f), !.fetcherX = @ + 1]
  IN  CASE f.state = "idle"     -> FetchTile(d)
        [] f.state = "fetching" -> [d EXCEPT !.fetcher = f]
        [] f.state = "ready"    -> IF HasRoom(d) THEN FetchTile(pushed)
                                     ELSE [d EXCEPT !.fetcher = f]

\* draw(): objects at this position come first and may stall everything else.
Drawn(d) ==
  LET o == ObjStage(d)
  IN  IF o.stall THEN o ELSE BkgStage(PixelStage(WindowStage(o)))

MutLineDrawnLate(d) == d.lx > Width

\* A stalled dot returns before this test, with lx as it was.
LineDrawn(d) == d.lx >= Width

(***************************************************************************)
(* The dots.                                                               *)
(***************************************************************************)

\* What every dot of an enabled unit does before it looks at the mode.
Begin(m) ==
  /\ regs.on
  /\ mode = m
  /\ lycEq' = (ly = regs.lyc)
  /\ UNCHANGED <<regs, oam>>

\* The dot is counted after the mode's work, within a line or as the first one of a
\* line whose count was reset.
NextDot == dot' = dot + 1 /\ elapsed' = elapsed + 1
FirstDot == dot' = 1 /\ elapsed' = 1

MutLineEndedLate(d) == d > LineDots

LineEnded(d) == d >= LineDots

MutBelowScreenEarly(line) == line >= VisibleLines - 1
MutBelowScreenLate(line) == line > LastLine

BelowScreen(line) == line >= VisibleLines

\* switch_mode(PPU_MODE_OAM)
StartScan == mode' = "oam" /\ scan' = EmptyScan

HBlankWait ==
  /\ Begin("hblank") /\ ~LineEnded(dot)
  /\ NextDot
  /\ UNCHANGED <<mode, ly, scan, draw, winLine, raster, firstFrame>>

\* The line ends: the next one is scanned, or the vertical blank begins.
HBlankEnd ==
  /\ Begin("hblank") /\ LineEnded(dot)
  /\ FirstDot
  /\ ly' = ly + 1
  /\ IF BelowScreen(ly + 1)
       THEN mode' = "vblank" /\ winLine' = 0 /\ UNCHANGED scan
       ELSE StartScan /\ winLine' = IF draw.win THEN winLine + 1 ELSE winLine
  /\ UNCHANGED <<draw, raster, firstFrame>>

\* vblank() counts the dot as well.
VBlankWait ==
  /\ Begin("vblank") /\ ~LineEnded(dot + 1)
  /\ dot' = dot + 2 /\ elapsed' = elapsed + 1
  /\ UNCHANGED <<mode, ly, scan, draw, winLine, raster, firstFrame>>

VBlankLine ==
  /\ Begin("vblank") /\ LineEnded(dot + 1) /\ ly < LastLine
  /\ FirstDot
  /\ ly' = ly + 1
  /\ UNCHANGED <<mode, scan, draw, winLine, raster, firstFrame>>

\* lcd_frame_complete, and the scan of line 0
VBlankEnd ==
  /\ Begin("vblank") /\ LineEnded(dot + 1) /\ ly >= LastLine
  /\ FirstDot
  /\ ly' = 0 /\ StartScan
  /\ raster' = 0 /\ firstFrame' = FALSE
  /\ UNCHANGED <<draw, winLine>>

\* Even dots fetch an object ...
OamFetch ==
  /\ Begin("oam") /\ dot % 2 = 0
  /\ NextDot
  /\ scan' = [scan EXCEPT !.next = oam[scan.index]]
  /\ UNCHANGED <<mode, ly, draw, winLine, raster, firstFrame>>

\* ... and odd dots select it; the last index starts the drawing.
OamSelect ==
  /\ Begin("oam") /\ dot % 2 # 0
  /\ NextDot
  /\ scan' = Select(scan)
  /\ IF scan'.index >= OamSize
       THEN mode' = "draw" /\ draw' = EmptyDraw
       ELSE UNCHANGED <<mode, draw>>
  /\ UNCHANGED <<ly, winLine, raster, firstFrame>>

Draw ==
  /\ Begin("draw")
  /\ NextDot
  /\ draw' = Drawn(draw)
  /\ mode' = IF LineDrawn(draw') THEN "hblank" ELSE "draw"
  /\ raster' = raster + (draw'.lx - draw.lx)
  /\ UNCHANGED <<ly, scan, winLine, firstFrame>>

Dot ==
  \/ HBlankWait \/ HBlankEnd
  \/ VBlankWait \/ VBlankLine \/ VBlankEnd
  \/ OamFetch \/ OamSelect
  \/ Draw

\* The CPU writes a register; one bit of LCDC at a time is enough.
WriteRegister(r) ==
  /\ mode = "draw" => r \in MidLine /\ dot <= MidLineBound
  /\ \E v \in Values[r] \ {regs[r]} : regs' = [regs EXCEPT ![r] = v]
  /\ UNCHANGED <<mode, lycEq, ly, dot, oam, scan, draw, winLine, history>>

\* mmu_oam_blocked: object memory is closed to the CPU in modes 2 and 3.
WriteOam ==
  /\ mode \notin {"oam", "draw"}
  /\ oam' \in Oams \ {oam}
  /\ UNCHANGED <<regs, mode, lycEq, ly, dot, scan, draw, winLine, history>>

Next ==
  \/ Dot
  \/ \E r \in DOMAIN Values : WriteRegister(r)
  \/ WriteOam

Spec == Init /\ [][Next]_vars
FairSpec == Spec /\ WF_vars(Dot)

(***************************************************************************)
(* Properties.                                                             *)
(***************************************************************************)

Modes == {"hblank", "vblank", "oam", "draw"}

\* The unit starts in the horizontal blank of line 0, so that no dot draws this line of
\* the first frame.
Skipped == IF firstFrame THEN Width ELSE 0

\* lcd_write_pixel is called for the pixels of the screen in raster order, each one
\* once, whatever objects and window do to the pipeline; the first frame begins with
\* line 1.
PixelsInPlace ==
  [][draw'.lx > draw.lx =>
       /\ draw'.lx = draw.lx + 1
       /\ ly < VisibleLines /\ draw.lx < Width
       /\ raster + Skipped = ly * Width + draw.lx]_vars

\* lcd_frame_complete is called with every pixel of the screen written, but for the
\* first frame after the start: ppu.c:266 reports it complete, too, and exactly the
\* pixels of line 0 are missing in it.
FramesAreWhole ==
  [][mode = "vblank" /\ ly = LastLine /\ ly' = 0 =>
       raster = Width * (IF firstFrame THEN VisibleLines - 1 ELSE VisibleLines)]_vars

\* The entries of the object memory that lie on the line.
OnLine == {i \in 0 .. OamSize - 1 : Visible(oam[i])}

\* The selection consists of the first ones of these entries, up to the limit, from
\* left to right.
Selects(entries) ==
  LET chosen == {i \in entries : Cardinality({j \in entries : j < i}) < MaxSelected}
      places == 1 .. Len(scan.selected)
  IN  /\ \A i, j \in places : i < j => scan.selected[i].x <= scan.selected[j].x
      /\ \E pick \in Bijection(places, chosen) :
           \A k \in places : scan.selected[k] = oam[pick[k]]

\* "Repeat until all 40 objects have been processed" (ppu.c:276), "after all 40 objects
\* have been scanned" (ppu.c:324): that is so on the lines on which entry 0 does not lie.
\* Where it does, it is lost, and an entry that the limit would exclude takes its room,
\* because a line begins with dot one (ppu.c:277), which processes an object before one
\* was fetched.  No other entry is lost.
SelectionLacksEntryZero ==
  [][mode = "oam" /\ mode' = "draw" =>
       IF 0 \in OnLine' THEN Selects(OnLine \ {0})' ELSE Selects(OnLine)']_vars

\* "ALL OBJs FOR THE CURRENT SCANLINE POSITION HAVE BEEN FETCHED AND PUSHED TO THE
\* OBJ FIFO" (ppu.c:406) when a pixel is written.
AllObjsFetched ==
  [][draw'.lx > draw.lx /\ regs.objOn =>
       \A k \in 1 .. Len(scan.selected) :
         LET x == scan.selected[k].x
         IN  (x < Tile /\ draw.lx = 0) \/ x - Tile = draw.lx => k <= draw'.fetched]_vars

\* The background FIFO holds consecutive pixels of the layer that is shown, up to the
\* last tile fetched; an object fetch in between loses and adds none.
BkgFifoInOrder ==
  mode = "draw" =>
    \A i \in 1 .. Len(draw.bkg) :
      draw.bkg[i] = [layer |-> Layer(draw),
                     n |-> draw.fetcherX * Tile - Len(draw.bkg) + i - 1]

\* No pixel of a layer is skipped or shown twice: the layer's pixels fetched so far
\* are those shown since it began and those still in the FIFO.
LayerAligned ==
  mode = "draw" => draw.fetcherX * Tile = (draw.lx - draw.origin) + Len(draw.bkg)

\* A visible line takes the dots of a scanline, whatever has to be fetched for it.
LineTakesLineDots ==
  [][mode = "hblank" /\ mode' # "hblank" => elapsed = LineDots]_vars

\* Once the CPU leaves the enabled unit alone, frames are completed for ever: no stall
\* for an object, for the window or for a full or empty FIFO lasts.
CpuQuiet == <>[][UNCHANGED <<regs, oam>>]_vars /\ <>[](regs.on)
FramesComplete == CpuQuiet => []<>(mode = "vblank" /\ ly = LastLine)

=============================================================================
