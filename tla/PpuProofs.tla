----------------------------- MODULE PpuProofs -----------------------------
(***************************************************************************)
(* Proofs about Ppu: the screen is written in raster order and whole, and  *)
(* the drawing pipeline stays aligned, for every size of screen, tiles,    *)
(* FIFOs and object memory, and whatever the CPU writes to the registers   *)
(* of regs and to the object memory.  Then, under a condition on what the  *)
(* CPU writes in the middle of a line: the objects selected are the right  *)
(* ones, they are fetched before their pixels are written, the background  *)
(* loses no pixel to them, and the line takes its dots.                    *)
(***************************************************************************)
EXTENDS PpuInv, FiniteSetTheorems, FunctionTheorems, SequenceTheorems, WellFoundedInduction, TLAPS

USE SizesAssumption
USE DEF history

(***************************************************************************)
(* The stages of draw().                                                   *)
(***************************************************************************)

LEMMA StepOK ==
  ASSUME NEW f, FetcherOK(f)
  PROVE  FetcherOK(FetcherStep(f))
BY DEF FetcherOK, FetcherFields, FetcherStep

LEMMA IdleOK == FetcherOK(Idle)
BY DEF FetcherOK, FetcherFields, Idle, Layers

LEMMA FetchOK ==
  ASSUME NEW layer \in Layers, NEW n \in Nat, NEW row
  PROVE  FetcherOK(Fetch(layer, n, row))
<1> DEFINE f == [state |-> "fetching", step |-> 0, layer |-> layer, n |-> n, row |-> row]
<1>1. FetcherOK(f)
  BY DEF FetcherOK, FetcherFields
<1> QED
  BY <1>1, StepOK DEF Fetch

\* The object stage reads lx and leaves the alignment alone.
LEMMA ObjStageOK ==
  ASSUME NEW d, DrawOK(d), Len(scan.selected) \in 0 .. MaxSelected
  PROVE  DrawOK(ObjStage(d)) /\ ObjStage(d).lx = d.lx
<1> DEFINE f == FetcherStep(IF d.stall THEN d.fetcher ELSE Idle)
<1> DEFINE pushed == [d EXCEPT !.fetched = @ + 1, !.fetcher = Idle, !.obj = Mix(@),
                               !.stall = FALSE]
<1>1. FetcherOK(f)
  <2>1. FetcherOK(IF d.stall THEN d.fetcher ELSE Idle)
    BY IdleOK DEF DrawOK
  <2> QED
    BY <2>1, StepOK
<1>2. ASSUME NEW e, DrawOK(e)
      PROVE  DrawOK(FetchObj(e)) /\ FetchObj(e).lx = e.lx
  <2> DEFINE g == Fetch("obj", 0, ObjRow(scan.selected[e.fetched + 1]))
  <2>1. FetcherOK(g)
    BY FetchOK DEF Layers
  <2> HIDE DEF g
  <2>2. FetchObj(e) = [e EXCEPT !.stall = TRUE, !.fetcher = g]
    BY DEF FetchObj, g
  <2> QED
    BY <1>2, <2>1, <2>2 DEF DrawOK, DrawFields
<1>3. ASSUME HasObj(d)
      PROVE  DrawOK(pushed) /\ pushed.lx = d.lx
  <2>1. Mix(d.obj) \in Seq(BOOLEAN) /\ Len(Mix(d.obj)) = Tile
    <3> DEFINE value(i) ==
          i > Len(d.obj) \/ (i <= Len(d.obj) \div PixelBytes /\ d.obj[i])
    <3>1. \A i \in 1 .. Tile : value(i) \in BOOLEAN
      OBVIOUS
    <3>2. Mix(d.obj) = [i \in 1 .. Tile |-> value(i)]
      BY DEF Mix
    <3>3. Tile \in Nat
      BY SizesAssumption
    <3> HIDE DEF value
    <3> QED
      BY <3>1, <3>2, <3>3
  <2>2. d.fetched + 1 \in 0 .. MaxSelected
    BY <1>3 DEF HasObj, DrawOK
  <2> DEFINE mixed == Mix(d.obj)
  <2>3. pushed = [d EXCEPT !.fetched = @ + 1, !.fetcher = Idle, !.obj = mixed,
                           !.stall = FALSE]
    OBVIOUS
  <2> HIDE DEF mixed, pushed
  <2>4. /\ DOMAIN pushed = DrawFields /\ pushed.fetcher = Idle
        /\ pushed.fetched = d.fetched + 1 /\ pushed.obj = mixed /\ pushed.stall = FALSE
        /\ pushed.lx = d.lx /\ pushed.fetcherX = d.fetcherX /\ pushed.origin = d.origin
        /\ pushed.win = d.win /\ pushed.bkg = d.bkg
    BY <2>3 DEF DrawOK, DrawFields
  <2>5. mixed \in Seq(BOOLEAN) /\ Len(mixed) <= Tile
    BY <2>1, SizesAssumption DEF mixed
  <2> QED
    BY <2>2, <2>4, <2>5, IdleOK DEF DrawOK
<1>4. DrawOK([d EXCEPT !.stall = FALSE]) /\ [d EXCEPT !.stall = FALSE].lx = d.lx
  BY DEF DrawOK, DrawFields
<1> HIDE DEF f
<1>5. DrawOK([d EXCEPT !.stall = TRUE, !.fetcher = f])
      /\ [d EXCEPT !.stall = TRUE, !.fetcher = f].lx = d.lx
  BY <1>1 DEF DrawOK, DrawFields
<1> HIDE DEF pushed
<1>6. CASE ~HasObj(d)
  BY <1>4, <1>6 DEF ObjStage
<1>7. CASE HasObj(d)
  <2>1. f.state \in {"idle", "fetching", "ready"}
    BY <1>1 DEF FetcherOK
  <2>2. ObjStage(d) = CASE f.state = "idle"     -> FetchObj(d)
                        [] f.state = "fetching" -> [d EXCEPT !.stall = TRUE, !.fetcher = f]
                        [] f.state = "ready"    -> IF HasObj(pushed) THEN FetchObj(pushed)
                                                   ELSE pushed
    BY <1>7 DEF ObjStage, f, pushed
  <2>3. CASE f.state = "idle"
    BY <1>2, <2>2, <2>3
  <2>4. CASE f.state = "fetching"
    BY <1>5, <2>2, <2>4
  <2>5. CASE f.state = "ready"
    <3>1. ObjStage(d) = IF HasObj(pushed) THEN FetchObj(pushed) ELSE pushed
      BY <2>2, <2>5
    <3> QED
      BY <3>1, <1>2, <1>3, <1>7
  <2> QED
    BY <2>1, <2>3, <2>4, <2>5
<1> QED
  BY <1>6, <1>7

\* A change of the layer starts a new alignment at this column.
LEMMA WindowStageOK ==
  ASSUME NEW d, DrawOK(d)
  PROVE  DrawOK(WindowStage(d)) /\ WindowStage(d).lx = d.lx
<1>1. CASE WindowIsActive(d) = d.win
  BY <1>1 DEF WindowStage
<1>2. CASE WindowIsActive(d) # d.win
  <2>1. WindowStage(d) = [d EXCEPT !.win = ~@, !.fetcher = Idle, !.bkg = <<>>,
                                   !.fetcherX = 0, !.origin = d.lx]
    BY <1>2 DEF WindowStage
  <2>2. <<>> \in Seq(Entries) /\ Len(<<>>) = 0 /\ 0 * Tile = (d.lx - d.lx) + 0
    BY DEF DrawOK
  <2> DEFINE e == WindowStage(d)
  <2>3. /\ DOMAIN e = DrawFields /\ e.fetcher = Idle /\ e.fetched = d.fetched
        /\ e.lx = d.lx /\ e.fetcherX = 0 /\ e.origin = d.lx /\ e.win = ~d.win
        /\ e.stall = d.stall /\ e.bkg = <<>> /\ e.obj = d.obj
    BY <2>1 DEF DrawOK, DrawFields
  <2> HIDE DEF e
  <2> QED
    BY <2>2, <2>3, IdleOK DEF DrawOK, e
<1> QED
  BY <1>1, <1>2

\* Each pixel shown leaves the FIFO.
LEMMA PixelStageOK ==
  ASSUME NEW d, DrawOK(d)
  PROVE  /\ DrawOK(PixelStage(d))
         /\ PixelStage(d).lx \in {d.lx, d.lx + 1}
<1>1. CASE Underflow(d)
  BY <1>1 DEF PixelStage
<1>2. CASE ~Underflow(d)
  <2> DEFINE rest == IF d.obj = <<>> THEN d.obj ELSE Tail(d.obj)
  <2>1. PixelStage(d) = [d EXCEPT !.bkg = Tail(d.bkg), !.obj = rest, !.lx = d.lx + 1]
    BY <1>2 DEF PixelStage, DrawOK, DrawFields
  <2>2. d.bkg # <<>>
    BY <1>2 DEF Underflow, DrawOK
  <2>3. Tail(d.bkg) \in Seq(Entries) /\ Len(Tail(d.bkg)) = Len(d.bkg) - 1
    BY <2>2 DEF DrawOK
  <2>4. rest \in Seq(BOOLEAN) /\ Len(rest) <= Tile
    <3>1. d.obj \in Seq(BOOLEAN) /\ Len(d.obj) <= Tile
      BY DEF DrawOK
    <3>2. d.obj # <<>> => Tail(d.obj) \in Seq(BOOLEAN) /\ Len(Tail(d.obj)) = Len(d.obj) - 1
      BY <3>1, HeadTailProperties
    <3>3. Len(d.obj) \in Nat
      BY <3>1
    <3> QED
      BY <3>1, <3>2, <3>3
  <2> HIDE DEF rest
  <2>5. Len(d.bkg) \in Nat
    BY DEF DrawOK
  <2> DEFINE e == PixelStage(d)
  <2>6. /\ DOMAIN e = DrawFields /\ e.fetcher = d.fetcher /\ e.fetched = d.fetched
        /\ e.lx = d.lx + 1 /\ e.fetcherX = d.fetcherX /\ e.origin = d.origin
        /\ e.win = d.win /\ e.stall = d.stall /\ e.bkg = Tail(d.bkg) /\ e.obj = rest
    BY <2>1 DEF DrawOK, DrawFields
  <2> HIDE DEF e
  <2>7. /\ FetcherOK(d.fetcher) /\ d.fetched \in 0 .. MaxSelected
        /\ d.lx \in Nat /\ d.fetcherX \in Nat /\ d.origin \in Nat
        /\ d.win \in BOOLEAN /\ d.stall \in BOOLEAN /\ Len(d.bkg) <= 2 * Tile
        /\ d.fetcherX * Tile = (d.lx - d.origin) + Len(d.bkg)
    BY DEF DrawOK
  <2>8. e.fetcherX * Tile = (e.lx - e.origin) + Len(e.bkg) /\ Len(e.bkg) <= 2 * Tile
    <3>1. e.fetcherX = d.fetcherX /\ e.lx = d.lx + 1 /\ e.origin = d.origin
      BY <2>6, Zenon
    <3>2. Len(e.bkg) = Len(d.bkg) - 1
      BY <2>3, <2>6, Zenon
    <3>3. /\ d.lx \in Nat /\ d.origin \in Nat /\ Len(d.bkg) <= 2 * Tile
          /\ d.fetcherX * Tile = (d.lx - d.origin) + Len(d.bkg)
      BY <2>7, Zenon
    <3>4. d.fetcherX * Tile = ((d.lx + 1) - d.origin) + (Len(d.bkg) - 1)
      <4> DEFINE n == Len(d.bkg)
      <4>2. d.lx \in Nat /\ d.origin \in Nat /\ n \in Nat
        BY <2>5, <3>3
      <4>3. d.fetcherX * Tile = (d.lx - d.origin) + n
        BY <3>3
      <4> HIDE DEF n
      <4>4. (d.lx - d.origin) + n = ((d.lx + 1) - d.origin) + (n - 1)
        BY <4>2
      <4>5. d.fetcherX * Tile = ((d.lx + 1) - d.origin) + (n - 1)
        BY <4>3, <4>4, Zenon
      <4> QED
        BY <4>5 DEF n
    <3>5. Len(d.bkg) - 1 <= 2 * Tile
      BY <2>5, <3>3
    <3> QED
      BY <3>1, <3>2, <3>4, <3>5, Zenon
  <2>9. DrawOK(e) /\ e.lx \in {d.lx, d.lx + 1}
    <3>1. FetcherOK(e.fetcher) /\ e.win \in BOOLEAN /\ e.stall \in BOOLEAN
      BY <2>6, <2>7, Zenon
    <3>2. e.bkg \in Seq(Entries) /\ e.obj \in Seq(BOOLEAN) /\ Len(e.obj) <= Tile
      BY <2>3, <2>4, <2>6, Zenon
    <3>3. /\ e.fetched \in 0 .. MaxSelected /\ e.lx \in Nat /\ e.fetcherX \in Nat
          /\ e.origin \in Nat /\ e.lx \in {d.lx, d.lx + 1} /\ DOMAIN e = DrawFields
      BY <2>6, <2>7
    <3> QED
      BY <2>8, <3>1, <3>2, <3>3 DEF DrawOK
  <2> QED
    BY <2>9 DEF e
<1> QED
  BY <1>1, <1>2

\* Each tile pushed counts once.
LEMMA BkgStageOK ==
  ASSUME NEW d, DrawOK(d), ly \in Nat
  PROVE  DrawOK(BkgStage(d)) /\ BkgStage(d).lx = d.lx
<1> DEFINE f == FetcherStep(d.fetcher)
<1> DEFINE pushed == [d EXCEPT !.bkg = @ \o Pixels(f), !.fetcherX = @ + 1]
<1>1. FetcherOK(f)
  BY StepOK DEF DrawOK
<1>2. ASSUME NEW e, DrawOK(e)
      PROVE  DrawOK(FetchTile(e)) /\ FetchTile(e).lx = e.lx
  <2> DEFINE g == Fetch(Layer(e), e.fetcherX * Tile, ly % Tile)
  <2>1. e.fetcherX * Tile \in Nat /\ Layer(e) \in Layers
    <3>1. e.fetcherX \in Nat
      BY <1>2 DEF DrawOK
    <3>2. e.fetcherX * Tile \in Nat
      BY <3>1
    <3> QED
      BY <3>2 DEF Layer, Layers
  <2>2. FetcherOK(g)
    BY <2>1, FetchOK
  <2> HIDE DEF g
  <2>3. FetchTile(e) = [e EXCEPT !.fetcher = g]
    BY DEF FetchTile, g
  <2> QED
    BY <1>2, <2>2, <2>3 DEF DrawOK, DrawFields
<1> HIDE DEF f
<1>3. ASSUME HasRoom(d)
      PROVE  DrawOK(pushed) /\ pushed.lx = d.lx
  <2>1. Pixels(f) \in Seq(Entries) /\ Len(Pixels(f)) = Tile
    <3>1. \A i \in 1 .. Tile : [layer |-> f.layer, n |-> f.n + i - 1] \in Entries
      BY <1>1 DEF FetcherOK, Entries
    <3> QED
      BY <3>1 DEF Pixels
  <2> DEFINE longer == d.bkg \o Pixels(f)
  <2>2. longer \in Seq(Entries) /\ Len(longer) = Len(d.bkg) + Tile
    <3>1. d.bkg \in Seq(Entries)
      BY DEF DrawOK
    <3> QED
      BY <2>1, <3>1
  <2>3. pushed = [d EXCEPT !.bkg = longer, !.fetcherX = d.fetcherX + 1]
    BY DEF DrawOK, DrawFields
  <2>4. Len(longer) <= 2 * Tile
    BY <1>3, <2>2 DEF HasRoom, DrawOK
  <2>5. (d.fetcherX + 1) * Tile = d.fetcherX * Tile + Tile
    BY DEF DrawOK
  <2> HIDE DEF longer, pushed
  <2>6. (d.fetcherX + 1) * Tile = (d.lx - d.origin) + Len(longer)
    <3>1. d.fetcherX * Tile = (d.lx - d.origin) + Len(d.bkg)
      BY DEF DrawOK
    <3>2. d.lx \in Nat /\ d.origin \in Nat /\ Len(d.bkg) \in Nat /\ Tile \in Nat
      BY SizesAssumption DEF DrawOK
    <3> DEFINE n == Len(d.bkg)
    <3> HIDE DEF n
    <3>3. (d.fetcherX + 1) * Tile = ((d.lx - d.origin) + n) + Tile
      BY <2>5, <3>1 DEF n
    <3>4. Len(longer) = n + Tile
      BY <2>2 DEF n
    <3>5. n \in Nat
      BY <3>2 DEF n
    <3>6. ((d.lx - d.origin) + n) + Tile = (d.lx - d.origin) + (n + Tile)
      BY <3>2, <3>5
    <3> QED
      BY <3>3, <3>4, <3>6, Zenon
  <2>7. /\ DOMAIN pushed = DrawFields /\ pushed.fetcher = d.fetcher
        /\ pushed.fetched = d.fetched /\ pushed.lx = d.lx
        /\ pushed.fetcherX = d.fetcherX + 1 /\ pushed.origin = d.origin
        /\ pushed.win = d.win /\ pushed.stall = d.stall
        /\ pushed.bkg = longer /\ pushed.obj = d.obj
    BY <2>3 DEF DrawOK, DrawFields
  <2>8. /\ FetcherOK(d.fetcher) /\ d.fetched \in 0 .. MaxSelected
        /\ d.lx \in Nat /\ d.fetcherX \in Nat /\ d.origin \in Nat
        /\ d.win \in BOOLEAN /\ d.stall \in BOOLEAN
        /\ d.obj \in Seq(BOOLEAN) /\ Len(d.obj) <= Tile
    BY DEF DrawOK
  <2>9. pushed.fetcherX * Tile = (pushed.lx - pushed.origin) + Len(pushed.bkg)
    BY <2>6, <2>7
  <2>10. FetcherOK(pushed.fetcher) /\ pushed.win \in BOOLEAN /\ pushed.stall \in BOOLEAN
    BY <2>7, <2>8, Zenon
  <2>11. /\ pushed.bkg \in Seq(Entries) /\ pushed.obj \in Seq(BOOLEAN)
         /\ Len(pushed.obj) <= Tile /\ Len(pushed.bkg) <= 2 * Tile
    BY <2>2, <2>4, <2>7, <2>8, Zenon
  <2>12. /\ pushed.fetched \in 0 .. MaxSelected /\ pushed.lx \in Nat
         /\ pushed.fetcherX \in Nat /\ pushed.origin \in Nat
    BY <2>7, <2>8
  <2> QED
    BY <2>7, <2>9, <2>10, <2>11, <2>12 DEF DrawOK
<1>4. DrawOK([d EXCEPT !.fetcher = f]) /\ [d EXCEPT !.fetcher = f].lx = d.lx
  BY <1>1 DEF DrawOK, DrawFields
<1> HIDE DEF pushed
<1>5. BkgStage(d) = CASE f.state = "idle"     -> FetchTile(d)
                      [] f.state = "fetching" -> [d EXCEPT !.fetcher = f]
                      [] f.state = "ready"    -> IF HasRoom(d) THEN FetchTile(pushed)
                                                 ELSE [d EXCEPT !.fetcher = f]
  BY DEF BkgStage, f, pushed
<1>6. CASE f.state = "idle"
  BY <1>2, <1>5, <1>6
<1>7. CASE f.state = "fetching"
  BY <1>4, <1>5, <1>7
<1>8. CASE f.state = "ready"
  <2>1. BkgStage(d) = IF HasRoom(d) THEN FetchTile(pushed) ELSE [d EXCEPT !.fetcher = f]
    BY <1>5, <1>8
  <2> QED
    BY <2>1, <1>2, <1>3, <1>4
<1> QED
  BY <1>1, <1>6, <1>7, <1>8 DEF FetcherOK

\* One dot of drawing moves at most one pixel on.
LEMMA DrawnOK ==
  ASSUME NEW d, DrawOK(d), Len(scan.selected) \in 0 .. MaxSelected, ly \in Nat
  PROVE  DrawOK(Drawn(d)) /\ Drawn(d).lx \in {d.lx, d.lx + 1}
<1> DEFINE o == ObjStage(d)
<1>1. DrawOK(o) /\ o.lx = d.lx
  BY ObjStageOK
<1> HIDE DEF o
<1>2. DrawOK(WindowStage(o)) /\ WindowStage(o).lx = d.lx
  BY <1>1, WindowStageOK
<1>3. DrawOK(PixelStage(WindowStage(o))) /\ PixelStage(WindowStage(o)).lx \in {d.lx, d.lx + 1}
  BY <1>2, PixelStageOK
<1>4. /\ DrawOK(BkgStage(PixelStage(WindowStage(o))))
      /\ BkgStage(PixelStage(WindowStage(o))).lx \in {d.lx, d.lx + 1}
  BY <1>3, BkgStageOK
<1> QED
  BY <1>1, <1>4 DEF Drawn, o

(***************************************************************************)
(* The invariant.                                                          *)
(***************************************************************************)

LEMMA EmptyDrawOK == DrawOK(EmptyDraw)
<1>1. <<>> \in Seq(Entries) /\ <<>> \in Seq(BOOLEAN) /\ Len(<<>>) = 0
  OBVIOUS
<1> QED
  BY <1>1, IdleOK DEF DrawOK, DrawFields, EmptyDraw

\* One object more is selected, and only below the limit.
LEMMA SelectOK ==
  ASSUME NEW s, DOMAIN s = {"next", "selected", "index"},
         Len(s.selected) \in 0 .. MaxSelected, s.index \in Nat
  PROVE  /\ DOMAIN Select(s) = {"next", "selected", "index"}
         /\ Len(Select(s).selected) \in 0 .. MaxSelected
         /\ Select(s).index = s.index + 1
<1> DEFINE sel == Insert(s.selected, s.next)
<1> DEFINE nxt == Carried(s.selected, s.next)[Len(s.selected)]
<1>1. Len(sel) = Len(s.selected) + 1
  BY DEF Insert
<1>2. Select(s) = IF Len(s.selected) < MaxSelected /\ Visible(s.next)
                  THEN [next |-> nxt, selected |-> sel, index |-> s.index + 1]
                  ELSE [s EXCEPT !.index = s.index + 1]
  BY DEF Select
<1> HIDE DEF sel, nxt
<1> QED
  BY <1>1, <1>2

\* The count of the pixels written and of those skipped in the first frame.
LEMMA SkippedNat == Skipped \in Nat
BY SizesAssumption DEF Skipped

LEMMA SkippedKept ==
  ASSUME firstFrame' = firstFrame
  PROVE  Skipped' = Skipped
BY DEF Skipped

LEMMA InitInv == Init => Inv
<1> SUFFICES ASSUME Init PROVE Inv
  OBVIOUS
<1>1. RasterInv
  <2>1. Skipped = Width /\ raster = 0 /\ ly = 0 /\ mode = "hblank"
    BY DEF Init, Skipped
  <2>2. raster + Skipped = (ly + 1) * Width /\ ly < VisibleLines
    BY <2>1, SizesAssumption
  <2> QED
    BY <2>1, <2>2 DEF RasterInv
<1>2. Len(scan.selected) = 0
  BY DEF Init, EmptyScan
<1> QED
  BY <1>1, <1>2, EmptyDrawOK DEF Init, Inv, Modes, EmptyScan

\* A line below is one row of the screen further.
LEMMA RowBelow ==
  ASSUME NEW l \in Nat
  PROVE  (l + 1) * Width = l * Width + Width /\ l * Width \in Nat
OBVIOUS

LEMMA EmptyScanOK ==
  /\ DOMAIN EmptyScan = {"next", "selected", "index"}
  /\ EmptyScan.index = 0 /\ Len(EmptyScan.selected) = 0
BY DEF EmptyScan

\* The parts of the invariant that a step leaves alone.
LEMMA Kept ==
  /\ DrawOK(draw') => DrawOK(draw)'
  /\ DrawOK(draw) /\ draw' = draw => DrawOK(draw)'
BY DEF DrawOK, FetcherOK

LEMMA DotKeepsInv ==
  ASSUME Inv, Dot
  PROVE  Inv'
<1> USE DEF Inv, Begin
<1>0. Skipped \in Nat
  BY SkippedNat
<1>1. CASE HBlankWait
  BY <1>1, SkippedKept DEF HBlankWait, RasterInv, DrawOK, FetcherOK
<1>2. CASE HBlankEnd
  <2>1. CASE BelowScreen(ly + 1)
    <3>1. ly + 1 = VisibleLines /\ raster' + Skipped' = (ly + 1) * Width
      BY <1>2, <2>1, SkippedKept DEF HBlankEnd, BelowScreen, RasterInv
    <3> QED
      BY <1>2, <2>1, <3>1, Kept DEF HBlankEnd, RasterInv, Modes
  <2>2. CASE ~BelowScreen(ly + 1)
    <3>1. /\ ly + 1 < VisibleLines /\ ly' = ly + 1 /\ mode' = "oam" /\ scan' = EmptyScan
          /\ raster' = raster /\ firstFrame' = firstFrame /\ raster' + Skipped' = (ly + 1) * Width
          /\ draw' = draw
      BY <1>2, <2>2, SkippedKept DEF HBlankEnd, BelowScreen, StartScan, RasterInv
    <3>2. RasterInv'
      BY <3>1 DEF RasterInv
    <3> QED
      BY <3>1, <3>2, EmptyScanOK, Kept DEF Modes
  <2> QED
    BY <2>1, <2>2
<1>3. CASE VBlankWait
  BY <1>3, SkippedKept DEF VBlankWait, RasterInv, DrawOK, FetcherOK
<1>4. CASE VBlankLine
  <2>1. RasterInv'
    BY <1>4, SkippedKept DEF VBlankLine, RasterInv
  <2> QED
    BY <1>4, <2>1, Kept DEF VBlankLine
<1>5. CASE VBlankEnd
  <2>1. 0 * Width = 0
    OBVIOUS
  <2>2. /\ ly' = 0 /\ mode' = "oam" /\ scan' = EmptyScan /\ raster' = 0 /\ draw' = draw
        /\ firstFrame' = FALSE /\ Skipped' = 0
    BY <1>5 DEF VBlankEnd, StartScan, Skipped
  <2>3. RasterInv'
    BY <2>1, <2>2, SizesAssumption DEF RasterInv
  <2>4. raster' \in Nat /\ ly' \in 0 .. LastLine
    BY <2>2, SizesAssumption
  <2>6. firstFrame' \in BOOLEAN
    BY <2>2
  <2>5. DrawOK(draw)'
    BY <2>2, Kept
  <2> QED
    BY <2>2, <2>3, <2>4, <2>5, <2>6, EmptyScanOK, SizesAssumption DEF Modes
<1>6. CASE OamFetch
  BY <1>6, SkippedKept DEF OamFetch, RasterInv, DrawOK, FetcherOK
<1>7. CASE OamSelect
  <2>1. /\ DOMAIN scan' = {"next", "selected", "index"}
        /\ Len(scan'.selected) \in 0 .. MaxSelected
        /\ scan'.index = scan.index + 1
    BY <1>7, SelectOK DEF OamSelect
  <2>2. scan.index + 1 \in 0 .. OamSize
    BY <1>7 DEF OamSelect
  <2>3. CASE scan'.index >= OamSize
    <3>0. draw' = EmptyDraw /\ mode' = "draw" /\ EmptyDraw.lx = 0
      BY <1>7, <2>3 DEF OamSelect, EmptyDraw
    <3>1. DrawOK(draw') /\ draw'.lx = 0 /\ mode' = "draw"
      BY <3>0, EmptyDrawOK
    <3>2. DrawOK(draw)'
      BY <3>1, Kept
    <3>3. RasterInv'
      <4>1. /\ ly < VisibleLines /\ raster + Skipped = ly * Width
            /\ ly' = ly /\ raster' = raster /\ Skipped' = Skipped /\ ly \in Nat
        BY <1>7, SkippedKept DEF OamSelect, RasterInv
      <4>2. raster' + Skipped' = ly' * Width + draw'.lx /\ draw'.lx < Width
        BY <3>1, <4>1, RowBelow, SizesAssumption
      <4> QED
        BY <3>1, <4>1, <4>2 DEF RasterInv
    <3> QED
      BY <1>7, <2>1, <2>2, <3>1, <3>2, <3>3 DEF OamSelect, Modes
  <2>4. CASE scan'.index < OamSize
    <3>1. /\ ~(scan'.index >= OamSize)
          /\ mode = "oam" /\ mode' = "oam" /\ draw' = draw /\ ly' = ly /\ raster' = raster
          /\ firstFrame' = firstFrame /\ Skipped' = Skipped
      BY <1>7, <2>1, <2>2, <2>4, SkippedKept DEF OamSelect
    <3>2. RasterInv'
      BY <1>7, <3>1 DEF RasterInv
    <3> QED
      BY <2>1, <2>2, <2>4, <3>1, <3>2, Kept DEF Modes
  <2> QED
    BY <2>1, <2>2, <2>3, <2>4
<1>8. CASE Draw
  <2>1. DrawOK(draw') /\ draw'.lx \in {draw.lx, draw.lx + 1}
    BY <1>8, DrawnOK DEF Draw
  <2>2. draw.lx \in Nat /\ draw.lx < Width /\ raster + Skipped = ly * Width + draw.lx
    BY <1>8 DEF Draw, RasterInv, DrawOK
  <2>0. firstFrame' = firstFrame /\ Skipped' = Skipped
    BY <1>8, SkippedKept DEF Draw
  <2>3. raster' + Skipped' = ly * Width + draw'.lx
    <3>1. raster' = raster + (draw'.lx - draw.lx) /\ raster \in Nat
      BY <1>8 DEF Draw
    <3>2. ly * Width \in Nat
      BY <1>8, RowBelow
    <3>3. draw'.lx \in Nat
      BY <2>1, <2>2
    <3> HIDE DEF Inv
    <3> QED
      BY <1>0, <2>0, <2>2, <3>1, <3>2, <3>3
  <2>4. RasterInv' /\ mode' \in {"hblank", "draw"}
    <3>1. CASE LineDrawn(draw')
      <4>1. draw'.lx = Width
        BY <2>1, <2>2, <3>1 DEF LineDrawn
      <4> QED
        BY <1>8, <2>3, <3>1, <4>1, RowBelow DEF Draw, RasterInv
    <3>2. CASE ~LineDrawn(draw')
      <4>1. draw'.lx < Width /\ mode' = "draw" /\ ly' = ly /\ ly < VisibleLines
        BY <1>8, <2>1, <2>2, <3>2 DEF Draw, RasterInv, LineDrawn
      <4> QED
        BY <2>3, <4>1 DEF RasterInv
    <3> QED
      BY <3>1, <3>2
  <2>5. raster' \in Nat
    BY <1>8, <2>1, <2>2 DEF Draw
  <2>6. DrawOK(draw)'
    BY <2>1, Kept
  <2> QED
    BY <1>8, <2>0, <2>4, <2>5, <2>6 DEF Draw, Modes
<1> QED
  BY <1>1, <1>2, <1>3, <1>4, <1>5, <1>6, <1>7, <1>8 DEF Dot

LEMMA NextKeepsInv == Inv /\ [Next]_vars => Inv'
<1> SUFFICES ASSUME Inv, [Next]_vars PROVE Inv'
  OBVIOUS
<1>1. CASE Dot
  BY <1>1, DotKeepsInv
<1>2. ASSUME NEW r \in DOMAIN Values, WriteRegister(r) PROVE Inv'
  BY <1>2, SkippedKept DEF WriteRegister, Inv, RasterInv, DrawOK, FetcherOK, history
<1>3. CASE WriteOam
  BY <1>3, SkippedKept DEF WriteOam, Inv, RasterInv, DrawOK, FetcherOK, history
<1>4. CASE UNCHANGED vars
  BY <1>4, SkippedKept DEF vars, Inv, RasterInv, DrawOK, FetcherOK, history
<1> QED
  BY <1>1, <1>2, <1>3, <1>4 DEF Next

\* In every state the counters are in range, the pipeline is aligned, and the screen is
\* written as far as mode, line and column say.
THEOREM Invariance == Spec => []Inv
<1> QED
  BY InitInv, NextKeepsInv, PTL DEF Spec

\* lcd_write_pixel is called in raster order, inside the screen, once for each pixel; the
\* first frame begins with line 1.
THEOREM RasterOrder == Spec => PixelsInPlace
<1>1. ASSUME Inv, [Next]_vars, draw'.lx > draw.lx
      PROVE  /\ draw'.lx = draw.lx + 1
             /\ ly < VisibleLines /\ draw.lx < Width
             /\ raster + Skipped = ly * Width + draw.lx
  <2>1. draw.lx \in Nat
    BY <1>1 DEF Inv, DrawOK
  <2>2. CASE Draw
    <3>1. draw'.lx \in {draw.lx, draw.lx + 1}
      BY <1>1, <2>2, DrawnOK DEF Draw, Inv
    <3> QED
      BY <1>1, <2>1, <2>2, <3>1 DEF Draw, Begin, Inv, RasterInv
  <2>3. CASE OamSelect
    <3>1. draw' = draw \/ draw'.lx = 0
      BY <2>3 DEF OamSelect, EmptyDraw
    <3> QED
      BY <1>1, <2>1, <3>1
  <2>4. CASE draw' = draw
    BY <1>1, <2>1, <2>4
  <2> QED
    BY <1>1, <2>2, <2>3, <2>4
       DEF Next, Dot, HBlankWait, HBlankEnd, VBlankWait, VBlankLine, VBlankEnd, OamFetch,
           WriteRegister, WriteOam, vars
<1> QED
  BY <1>1, Invariance, PTL DEF Spec, PixelsInPlace

\* Every complete frame holds a pixel for every place of the screen, but for the first
\* one, in which exactly line 0 is missing.
THEOREM WholeFrames == Spec => FramesAreWhole
<1>1. ASSUME Inv, mode = "vblank"
      PROVE  raster = Width * (IF firstFrame THEN VisibleLines - 1 ELSE VisibleLines)
  <2>1. raster + Skipped = VisibleLines * Width /\ raster \in Nat /\ firstFrame \in BOOLEAN
    BY <1>1 DEF Inv, RasterInv
  <2>2. CASE firstFrame
    <3>1. raster + Width = VisibleLines * Width
      BY <2>1, <2>2 DEF Skipped
    <3>2. Width * (VisibleLines - 1) = VisibleLines * Width - Width
      BY SizesAssumption
    <3> QED
      BY <2>1, <2>2, <3>1, <3>2, SizesAssumption
  <2>3. CASE ~firstFrame
    <3>1. raster = VisibleLines * Width
      BY <2>1, <2>3, SizesAssumption DEF Skipped
    <3> QED
      BY <2>3, <3>1, SizesAssumption
  <2> QED
    BY <2>1, <2>2, <2>3
<1>2. Inv => (mode = "vblank" /\ ly = LastLine /\ ly' = 0 =>
                raster = Width * (IF firstFrame THEN VisibleLines - 1 ELSE VisibleLines))
  BY <1>1
<1> QED
  BY <1>2, Invariance, PTL DEF FramesAreWhole

\* No pixel of a layer is skipped or shown twice.
THEOREM Aligned == Spec => []LayerAligned
<1>1. Inv => LayerAligned
  BY DEF Inv, DrawOK, LayerAligned
<1> QED
  BY <1>1, Invariance, PTL

(***************************************************************************)
(* Induction over an initial segment of the natural numbers, as a fact     *)
(* about sets: the library's rules take a predicate.                       *)
(***************************************************************************)
LEMMA Least ==
  ASSUME NEW S \in SUBSET Nat, S # {}
  PROVE  \E n \in S : \A m \in S : n <= m
<1> DEFINE R == OpToRel(<, Nat)
<1>1. IsWellFoundedOn(R, Nat)
  BY NatLessThanWellFounded
<1>2. R = {ss \in Nat \X Nat : ss[1] < ss[2]}
  BY Zenon DEF OpToRel
<1> HIDE DEF R
<1>3. PICK n \in S : \A m \in S : ~ (<<m, n>> \in R)
  BY <1>1, WFMin
<1>4. \A m \in Nat, k \in Nat : <<m, k>> \in R <=> m < k
  BY <1>2
<1>5. \A m \in S : ~(m < n)
  BY <1>3, <1>4
<1>6. \A m \in S : n <= m
  BY <1>5
<1> QED
  BY <1>6

LEMMA SegmentInduction ==
  ASSUME NEW n \in Nat, NEW S, 0 \in S,
         \A k \in 0 .. n : k \in S /\ k < n => k + 1 \in S
  PROVE  0 .. n \subseteq S
<1> SUFFICES ASSUME NEW k \in 0 .. n, k \notin S PROVE FALSE
  OBVIOUS
<1> DEFINE T == {i \in 0 .. n : i \notin S}
<1>1. T \in SUBSET Nat /\ T # {}
  OBVIOUS
<1> HIDE DEF T
<1>2. PICK m \in T : \A i \in T : m <= i
  BY <1>1, Least
<1>3. m \in 0 .. n /\ m \notin S
  BY <1>2 DEF T
<1>4. m # 0 /\ m - 1 \in 0 .. n /\ m - 1 < n
  BY <1>3
<1>5. m - 1 \in S
  BY <1>2, <1>3, <1>4 DEF T
<1>6. (m - 1) + 1 = m
  BY <1>3
<1> QED
  BY <1>3, <1>4, <1>5, <1>6

(***************************************************************************)
(* The insertion of an object into the selected ones.                      *)
(***************************************************************************)

\* The recursive definition has a solution, built place by place.
LEMMA CarriedUnfolds ==
  ASSUME NEW selected \in Seq(Objects), NEW o \in Objects
  PROVE  LET n == Len(selected)
             c == Carried(selected, o)
         IN  c = [i \in 0 .. n |->
                    IF i = 0 THEN o
                    ELSE IF c[i - 1].x < selected[i].x THEN selected[i] ELSE c[i - 1]]
<1> DEFINE n == Len(selected)
<1> DEFINE rule(c, i) ==
      IF i = 0 THEN o ELSE IF c[i - 1].x < selected[i].x THEN selected[i] ELSE c[i - 1]
<1> DEFINE good == {k \in 0 .. n : \E c : c = [i \in 0 .. k |-> rule(c, i)]}
<1>1. n \in Nat
  OBVIOUS
<1>2. 0 \in good
  <2> DEFINE c == [i \in 0 .. 0 |-> o]
  <2>1. c = [i \in 0 .. 0 |-> rule(c, i)]
    OBVIOUS
  <2> HIDE DEF c, rule
  <2>2. \E e : e = [i \in 0 .. 0 |-> rule(e, i)]
    BY <2>1
  <2> QED
    BY <1>1, <2>2
<1>3. ASSUME NEW k \in 0 .. n, k \in good, k < n
      PROVE  k + 1 \in good
  <2>1. PICK c : c = [i \in 0 .. k |-> rule(c, i)]
    BY <1>3
  <2> DEFINE d == [i \in 0 .. k + 1 |-> IF i = k + 1 THEN rule(c, k + 1) ELSE c[i]]
  <2>2. \A i \in 0 .. k : d[i] = c[i] /\ c[i] = rule(c, i)
    BY <2>1
  <2>3. d[k + 1] = rule(c, k + 1)
    OBVIOUS
  <2>4. \A i \in 0 .. k + 1 : d[i] = rule(d, i)
    <3> SUFFICES ASSUME NEW i \in 0 .. k + 1 PROVE d[i] = rule(d, i)
      OBVIOUS
    <3>1. i # 0 => i - 1 \in 0 .. k
      OBVIOUS
    <3>2. i # 0 => d[i - 1] = c[i - 1]
      BY <2>2, <3>1
    <3>3. rule(d, i) = rule(c, i)
      BY <3>2
    <3>4. CASE i = k + 1
      BY <3>3, <3>4, <2>3
    <3>5. CASE i # k + 1
      BY <3>3, <3>5, <2>2
    <3> QED
      BY <3>4, <3>5
  <2> HIDE DEF rule
  <2>5. d = [i \in 0 .. k + 1 |-> rule(d, i)]
    BY <2>4
  <2> HIDE DEF d
  <2>6. \E e : e = [i \in 0 .. k + 1 |-> rule(e, i)]
    BY <2>5
  <2> QED
    BY <2>6, <1>3
<1> HIDE DEF good
<1>4. n \in good
  <2> HIDE DEF n
  <2>1. 0 .. n \subseteq good
    BY <1>1, <1>2, <1>3, SegmentInduction
  <2> QED
    BY <1>1, <2>1
<1>5. \E c : c = [i \in 0 .. n |-> rule(c, i)]
  BY <1>4 DEF good
<1>6. Carried(selected, o) = CHOOSE c : c = [i \in 0 .. n |-> rule(c, i)]
  BY DEF Carried
<1> QED
  BY <1>5, <1>6

LEMMA ObjectFields ==
  ASSUME NEW o \in Objects
  PROVE  o.x \in Nat /\ o.y \in Nat
BY DEF Objects

\* After every place the objects in the places behind and the one carried are those
\* there were, in another order, and the one carried is the furthest to the right.
LEMMA CarriedInvariant ==
  ASSUME NEW selected \in Seq(Objects), NEW o \in Objects
  PROVE  LET n == Len(selected)
             c == Carried(selected, o)
             r == Insert(selected, o)
             line == <<o>> \o selected
         IN  /\ c \in [0 .. n -> Objects]
             /\ r \in Seq(Objects) /\ Len(r) = n + 1 /\ r[n + 1] = c[n]
             /\ \A i \in 1 .. n :
                  IF c[i - 1].x < selected[i].x
                  THEN r[i] = c[i - 1] /\ c[i] = selected[i]
                  ELSE r[i] = selected[i] /\ c[i] = c[i - 1]
             /\ \A i, j \in 0 .. n : i <= j => c[i].x <= c[j].x
             /\ \E q \in Bijection(1 .. n + 1, 1 .. n + 1) :
                  \A i \in 1 .. n + 1 : r[i] = line[q[i]]
<1> DEFINE n == Len(selected)
<1> DEFINE c == Carried(selected, o)
<1> DEFINE r == Insert(selected, o)
<1> DEFINE line == <<o>> \o selected
<1>1. n \in Nat /\ \A i \in 1 .. n : selected[i] \in Objects /\ selected[i].x \in Nat
  <2>1. n \in Nat /\ \A i \in 1 .. n : selected[i] \in Objects
    OBVIOUS
  <2> QED
    BY <2>1, ObjectFields
<1>2. c = [i \in 0 .. n |->
            IF i = 0 THEN o
            ELSE IF c[i - 1].x < selected[i].x THEN selected[i] ELSE c[i - 1]]
  BY CarriedUnfolds
<1>3. r = [i \in 1 .. n + 1 |->
             IF i = n + 1 THEN c[n]
             ELSE IF c[i - 1].x < selected[i].x THEN c[i - 1] ELSE selected[i]]
  BY DEF Insert
<1>4. Len(line) = n + 1 /\ line[1] = o /\ \A i \in 1 .. n : line[i + 1] = selected[i]
  OBVIOUS
<1> HIDE DEF n, c, r, line
<1>5. c[0] = o /\ DOMAIN c = 0 .. n
  BY <1>1, <1>2
<1>6. \A i \in 1 .. n :
        c[i] = IF c[i - 1].x < selected[i].x THEN selected[i] ELSE c[i - 1]
  <2>1. \A i \in 0 .. n :
          c[i] = IF i = 0 THEN o
                 ELSE IF c[i - 1].x < selected[i].x THEN selected[i] ELSE c[i - 1]
    BY <1>2, Zenon
  <2>2. \A i \in 1 .. n : i \in 0 .. n /\ i # 0
    BY <1>1
  <2> QED
    BY <2>1, <2>2, Zenon
<1>7. \A i \in 0 .. n : c[i] \in Objects
  <2> DEFINE S == {i \in 0 .. n : c[i] \in Objects}
  <2>1. 0 \in S
    BY <1>1, <1>5
  <2>2. ASSUME NEW k \in 0 .. n, k \in S, k < n PROVE k + 1 \in S
    <3>1. k + 1 \in 1 .. n /\ (k + 1) - 1 = k /\ c[k] \in Objects
      BY <1>1, <2>2
    <3>2. c[k + 1] \in Objects
      BY <1>1, <1>6, <3>1
    <3> QED
      BY <3>1, <3>2
  <2> HIDE DEF S
  <2>3. 0 .. n \subseteq S
    BY <1>1, <2>1, <2>2, SegmentInduction
  <2> QED
    BY <2>3 DEF S
<1>8. \A i \in 0 .. n : c[i].x \in Nat
  BY <1>7, ObjectFields
<1>9. /\ r \in Seq(Objects) /\ Len(r) = n + 1 /\ r[n + 1] = c[n]
      /\ \A i \in 1 .. n : r[i] = IF c[i - 1].x < selected[i].x THEN c[i - 1] ELSE selected[i]
  <2>1. \A i \in 1 .. n : i - 1 \in 0 .. n /\ i # n + 1 /\ i \in 1 .. n + 1
    BY <1>1
  <2>2. \A i \in 1 .. n : r[i] = IF c[i - 1].x < selected[i].x THEN c[i - 1] ELSE selected[i]
    BY <1>3, <2>1
  <2>3. n + 1 \in 1 .. n + 1 /\ r[n + 1] = c[n] /\ n \in 0 .. n
    BY <1>1, <1>3
  <2>4. \A i \in 1 .. n + 1 : i = n + 1 \/ i \in 1 .. n
    BY <1>1
  <2>5. \A i \in 1 .. n + 1 : r[i] \in Objects
    BY <1>1, <1>7, <2>1, <2>2, <2>3, <2>4
  <2>6. r \in [1 .. n + 1 -> Objects]
    BY <1>3, <2>5
  <2> QED
    BY <1>1, <2>2, <2>3, <2>6
<1>10. \A j \in 0 .. n : \A i \in 0 .. j : c[i].x <= c[j].x
  <2> DEFINE S == {j \in 0 .. n : \A i \in 0 .. j : c[i].x <= c[j].x}
  <2>1. 0 \in S
    BY <1>1, <1>8
  <2>2. ASSUME NEW k \in 0 .. n, k \in S, k < n PROVE k + 1 \in S
    <3>1. k + 1 \in 1 .. n /\ (k + 1) - 1 = k /\ k + 1 \in 0 .. n
      BY <1>1, <2>2
    <3>2. c[k].x <= c[k + 1].x
      BY <1>1, <1>6, <1>8, <3>1
    <3>3. ASSUME NEW i \in 0 .. k + 1 PROVE c[i].x <= c[k + 1].x
      <4>1. CASE i = k + 1
        BY <1>8, <3>1, <4>1
      <4>2. CASE i \in 0 .. k
        <5>1. c[i].x <= c[k].x
          BY <2>2, <4>2
        <5>2. i \in 0 .. n
          BY <1>1, <4>2
        <5>3. c[i].x \in Nat /\ c[k].x \in Nat /\ c[k + 1].x \in Nat
          BY <1>8, <3>1, <5>2
        <5> QED
          BY <3>2, <5>1, <5>3
      <4> QED
        BY <4>1, <4>2
    <3> QED
      BY <3>1, <3>3
  <2> HIDE DEF S
  <2>3. 0 .. n \subseteq S
    BY <1>1, <2>1, <2>2, SegmentInduction
  <2> QED
    BY <2>3 DEF S
<1>11. \E q \in Bijection(1 .. n + 1, 1 .. n + 1) : \A i \in 1 .. n + 1 : r[i] = line[q[i]]
  <2> DEFINE Shuffled(k, q) ==
        /\ q \in [1 .. k + 1 -> 1 .. k + 1]
        /\ \A i, j \in 1 .. k + 1 : q[i] = q[j] => i = j
        /\ \A j \in 1 .. k + 1 : \E i \in 1 .. k + 1 : q[i] = j
        /\ \A i \in 1 .. k : r[i] = line[q[i]]
        /\ c[k] = line[q[k + 1]]
  <2> DEFINE S == {k \in 0 .. n : \E q : Shuffled(k, q)}
  <2>1. 0 \in S
    <3> DEFINE q == [i \in 1 .. 1 |-> 1]
    <3>1. Shuffled(0, q)
      BY <1>4, <1>5
    <3> HIDE DEF q, Shuffled
    <3> QED
      BY <1>1, <3>1
  <2>2. ASSUME NEW k \in 0 .. n, k \in S, k < n PROVE k + 1 \in S
    <3>1. PICK q : Shuffled(k, q)
      BY <2>2
    <3>2. k + 1 \in 1 .. n /\ (k + 1) - 1 = k /\ line[k + 2] = selected[k + 1]
      BY <1>1, <1>4, <2>2
    <3> DEFINE swap == c[k].x < selected[k + 1].x
    <3> DEFINE a == IF swap THEN q[k + 1] ELSE k + 2
    <3> DEFINE b == IF swap THEN k + 2 ELSE q[k + 1]
    <3> DEFINE p == [i \in 1 .. k + 2 |-> IF i <= k THEN q[i] ELSE IF i = k + 1 THEN a ELSE b]
    <3>9. (a = q[k + 1] /\ b = k + 2) \/ (a = k + 2 /\ b = q[k + 1])
      OBVIOUS
    <3>10. r[k + 1] = line[a] /\ c[k + 1] = line[b]
      <4>1. c[k] = line[q[k + 1]]
        BY <3>1
      <4>2. r[k + 1] = IF swap THEN c[k] ELSE selected[k + 1]
        BY <1>9, <3>2
      <4>3. c[k + 1] = IF swap THEN selected[k + 1] ELSE c[k]
        BY <1>6, <3>2
      <4> QED
        BY <3>2, <4>1, <4>2, <4>3
    <3> HIDE DEF swap, a, b
    <3>11. /\ k \in Nat /\ q \in [1 .. k + 1 -> 1 .. k + 1]
           /\ \A i, j \in 1 .. k + 1 : q[i] = q[j] => i = j
           /\ \A j \in 1 .. k + 1 : \E i \in 1 .. k + 1 : q[i] = j
           /\ \A i \in 1 .. k : r[i] = line[q[i]]
      <4>1. k \in Nat
        BY <1>1
      <4> QED
        BY <3>1, <4>1, Zenon
    <3>12. /\ DOMAIN p = 1 .. k + 2 /\ p[k + 1] = a /\ p[k + 2] = b
           /\ \A i \in 1 .. k : p[i] = q[i]
      BY <3>11
    <3> HIDE DEF p
    <3>13. \A i \in 1 .. k + 2 : i \in 1 .. k \/ i = k + 1 \/ i = k + 2
      BY <3>11
    <3>3. p \in [1 .. k + 2 -> 1 .. k + 2]
      <4>1. \A i \in 1 .. k + 2 : p[i] \in 1 .. k + 2
        <5>1. ASSUME NEW i \in 1 .. k PROVE p[i] \in 1 .. k + 2
          <6>1. i \in 1 .. k + 1
            BY <3>11
          <6>2. q[i] \in 1 .. k + 1
            BY <3>11, <6>1
          <6>3. k \in Nat
            BY <3>11
          <6>4. q[i] \in 1 .. k + 2
            BY <6>2, <6>3
          <6> QED
            BY <3>12, <6>4
        <5>2. a \in 1 .. k + 2 /\ b \in 1 .. k + 2
          <6>1. q[k + 1] \in 1 .. k + 1
            BY <3>11
          <6>2. q[k + 1] \in 1 .. k + 2 /\ k + 2 \in 1 .. k + 2
            BY <3>11, <6>1
          <6> QED
            BY <3>9, <6>2
        <5> QED
          BY <3>12, <3>13, <5>1, <5>2
      <4>2. p = [i \in 1 .. k + 2 |-> p[i]]
        BY DEF p
      <4> QED
        BY <4>1, <4>2
    <3>4. \A i, j \in 1 .. k + 2 : p[i] = p[j] => i = j
      <4>1. a # b
        <5>1. q[k + 1] \in 1 .. k + 1
          BY <3>11
        <5> QED
          BY <3>9, <3>11, <5>1
      <4>2. \A i \in 1 .. k : p[i] # a /\ p[i] # b
        <5>1. ASSUME NEW i \in 1 .. k PROVE q[i] # q[k + 1] /\ q[i] # k + 2
          <6>1. i \in 1 .. k + 1 /\ k + 1 \in 1 .. k + 1 /\ i # k + 1
            BY <3>11
          <6>2. q[i] \in 1 .. k + 1
            BY <3>11, <6>1
          <6>3. q[i] # k + 2
            BY <3>11, <6>2
          <6> QED
            BY <3>11, <6>1, <6>3
        <5> QED
          BY <3>9, <3>12, <5>1
      <4>3. \A i, j \in 1 .. k : p[i] = p[j] => i = j
        BY <3>11, <3>12
      <4> QED
        BY <3>12, <3>13, <4>1, <4>2, <4>3
    <3>5. \A j \in 1 .. k + 2 : \E i \in 1 .. k + 2 : p[i] = j
      <4>1. ASSUME NEW j \in 1 .. k + 1 PROVE \E i \in 1 .. k + 2 : p[i] = j
        <5>1. PICK i \in 1 .. k + 1 : q[i] = j
          BY <3>11
        <5>2. CASE i = k + 1
          <6>1. a = j \/ b = j
            BY <3>9, <5>1, <5>2
          <6>2. k + 1 \in 1 .. k + 2 /\ k + 2 \in 1 .. k + 2
            BY <3>11
          <6> QED
            BY <3>12, <6>1, <6>2
        <5>3. CASE i # k + 1
          BY <3>11, <3>12, <5>1, <5>3
        <5> QED
          BY <5>2, <5>3
      <4>2. \E i \in 1 .. k + 2 : p[i] = k + 2
        BY <3>9, <3>11, <3>12
      <4>3. \A j \in 1 .. k + 2 : j \in 1 .. k + 1 \/ j = k + 2
        BY <3>11
      <4> QED
        BY <4>1, <4>2, <4>3
    <3>6. \A i \in 1 .. k + 1 : r[i] = line[p[i]]
      <4>1. \A i \in 1 .. k + 1 : i \in 1 .. k \/ i = k + 1
        BY <3>11
      <4> QED
        BY <3>10, <3>11, <3>12, <4>1
    <3>7. c[k + 1] = line[p[k + 2]]
      BY <3>10, <3>12
    <3>8. Shuffled(k + 1, p)
      <4>1. (k + 1) + 1 = k + 2
        BY <3>11
      <4> QED
        BY <3>3, <3>4, <3>5, <3>6, <3>7, <4>1
    <3> HIDE DEF Shuffled
    <3> QED
      BY <3>2, <3>8
  <2> HIDE DEF S
  <2>3. 0 .. n \subseteq S
    BY <1>1, <2>1, <2>2, SegmentInduction
  <2>4. PICK q : Shuffled(n, q)
    <3>1. n \in 0 .. n
      BY <1>1
    <3> HIDE DEF Shuffled
    <3> QED
      BY <2>3, <3>1 DEF S
  <2>5. \A i \in 1 .. n + 1 : r[i] = line[q[i]]
    <3>1. \A i \in 1 .. n + 1 : i \in 1 .. n \/ i = n + 1
      BY <1>1
    <3>2. r[n + 1] = c[n]
      BY <1>9
    <3>3. c[n] = line[q[n + 1]] /\ \A i \in 1 .. n : r[i] = line[q[i]]
      BY <2>4
    <3> QED
      BY <3>1, <3>2, <3>3
  <2>6. q \in Bijection(1 .. n + 1, 1 .. n + 1)
    BY <2>4 DEF Bijection, Injection, Surjection, IsInjective
  <2> QED
    BY <2>5, <2>6
<1>12. c \in [0 .. n -> Objects]
  BY <1>2, <1>7
<1>13. \A i \in 1 .. n :
         IF c[i - 1].x < selected[i].x
         THEN r[i] = c[i - 1] /\ c[i] = selected[i]
         ELSE r[i] = selected[i] /\ c[i] = c[i - 1]
  BY <1>6, <1>9
<1>14. \A i, j \in 0 .. n : i <= j => c[i].x <= c[j].x
  BY <1>10
<1> QED
  BY <1>9, <1>11, <1>12, <1>13, <1>14 DEF n, c, r, line

\* Put where it belongs, an object leaves the row from left to right.
LEMMA InsertSorted ==
  ASSUME NEW selected \in Seq(Objects), NEW o \in Objects, Sorted(selected)
  PROVE  Sorted(Insert(selected, o))
<1> DEFINE n == Len(selected)
<1> DEFINE c == Carried(selected, o)
<1> DEFINE r == Insert(selected, o)
<1>1. /\ c \in [0 .. n -> Objects]
      /\ r \in Seq(Objects) /\ Len(r) = n + 1 /\ r[n + 1] = c[n]
      /\ \A i \in 1 .. n :
           IF c[i - 1].x < selected[i].x
           THEN r[i] = c[i - 1] /\ c[i] = selected[i]
           ELSE r[i] = selected[i] /\ c[i] = c[i - 1]
      /\ \A i, j \in 0 .. n : i <= j => c[i].x <= c[j].x
  BY CarriedInvariant
<1>2. n \in Nat /\ selected \in [1 .. n -> Objects]
  OBVIOUS
<1>3. \A i, j \in 1 .. n : i < j => selected[i].x <= selected[j].x
  BY DEF Sorted
<1> HIDE DEF n, c, r
<1>4. (\A i \in 1 .. n : selected[i].x \in Nat) /\ (\A i \in 0 .. n : c[i].x \in Nat)
  BY <1>1, <1>2, ObjectFields
<1>5. \A i \in 1 .. n : i - 1 \in 0 .. n /\ i \in 0 .. n
  BY <1>2
<1>6. \A i \in 1 .. n : r[i].x <= selected[i].x /\ r[i].x <= c[i].x /\ r[i].x \in Nat
  <2> SUFFICES ASSUME NEW i \in 1 .. n
               PROVE  r[i].x <= selected[i].x /\ r[i].x <= c[i].x /\ r[i].x \in Nat
    OBVIOUS
  <2>1. selected[i].x \in Nat /\ c[i].x \in Nat /\ c[i - 1].x \in Nat
    BY <1>4, <1>5
  <2>2. IF c[i - 1].x < selected[i].x
        THEN r[i] = c[i - 1] /\ c[i] = selected[i]
        ELSE r[i] = selected[i] /\ c[i] = c[i - 1]
    BY <1>1
  <2> QED
    BY <2>1, <2>2
<1>7. ASSUME NEW i \in 1 .. n, NEW j \in 1 .. n, i < j
      PROVE  r[i].x <= r[j].x
  <2>1. i <= j - 1 /\ j - 1 \in 0 .. n /\ i \in 0 .. n
    BY <1>2, <1>7
  <2>2. c[i].x <= c[j - 1].x
    BY <1>1, <2>1
  <2>3. selected[i].x <= selected[j].x
    BY <1>3, <1>7
  <2>4. r[j] = c[j - 1] \/ r[j] = selected[j]
    BY <1>1
  <2>5. r[i].x <= c[j - 1].x /\ r[i].x <= selected[j].x
    BY <1>4, <1>6, <2>1, <2>2, <2>3
  <2> QED
    BY <2>4, <2>5
<1>8. ASSUME NEW i \in 1 .. n
      PROVE  r[i].x <= r[n + 1].x
  <2>1. c[i].x <= c[n].x /\ n \in 0 .. n /\ i \in 0 .. n
    BY <1>1, <1>2, <1>5
  <2> QED
    BY <1>1, <1>4, <1>6, <2>1
<1>9. \A i, j \in 1 .. n + 1 : i < j => i \in 1 .. n /\ (j \in 1 .. n \/ j = n + 1)
  BY <1>2
<1>10. \A i, j \in 1 .. n + 1 : i < j => r[i].x <= r[j].x
  BY <1>7, <1>8, <1>9
<1> QED
  BY <1>1, <1>10 DEF Sorted, r

\* One entry more lies on the line, and there is room: it is picked as well.
LEMMA PickedGrows ==
  ASSUME NEW i \in Nat, NEW seen \in SUBSET (1 .. i - 1), NEW objects, objects[i] \in Objects,
         NEW selected \in Seq(Objects), Len(selected) < MaxSelected,
         NEW pick, PickedFrom(seen, objects, selected, pick)
  PROVE  \E p : PickedFrom(seen \cup {i}, objects, Insert(selected, objects[i]), p)
<1> DEFINE o == objects[i]
<1> DEFINE n == Len(selected)
<1> DEFINE r == Insert(selected, o)
<1> DEFINE line == <<o>> \o selected
<1>1. Len(r) = n + 1
  BY CarriedInvariant
<1>2. PICK q \in Bijection(1 .. n + 1, 1 .. n + 1) : \A k \in 1 .. n + 1 : r[k] = line[q[k]]
  BY CarriedInvariant
<1>3. /\ q \in [1 .. n + 1 -> 1 .. n + 1]
      /\ \A k, l \in 1 .. n + 1 : q[k] = q[l] => k = l
      /\ \A l \in 1 .. n + 1 : \E k \in 1 .. n + 1 : q[k] = l
  BY DEF Bijection, Injection, Surjection, IsInjective
<1>4. n \in Nat /\ line[1] = o /\ \A k \in 1 .. n : line[k + 1] = selected[k]
  OBVIOUS
<1>5. /\ pick \in [1 .. n -> seen]
      /\ \A k, l \in 1 .. n : pick[k] = pick[l] => k = l
      /\ \A k \in 1 .. n : selected[k] = objects[pick[k]]
      /\ \A j \in seen : \E k \in 1 .. n : pick[k] = j
  BY DEF PickedFrom
<1> HIDE DEF n, r, line
<1> DEFINE entry == [l \in 1 .. n + 1 |-> IF l = 1 THEN i ELSE pick[l - 1]]
<1>6. i \notin seen
  OBVIOUS
<1>7. entry[1] = i /\ \A k \in 1 .. n : entry[k + 1] = pick[k]
  BY <1>4
<1>8. \A l \in 1 .. n + 1 : l = 1 \/ (l - 1 \in 1 .. n /\ (l - 1) + 1 = l)
  BY <1>4
<1> HIDE DEF entry
<1>9. \A l \in 1 .. n + 1 : entry[l] \in seen \cup {i} /\ line[l] = objects[entry[l]]
  <2> SUFFICES ASSUME NEW l \in 1 .. n + 1
               PROVE  entry[l] \in seen \cup {i} /\ line[l] = objects[entry[l]]
    OBVIOUS
  <2>1. CASE l = 1
    BY <1>4, <1>7, <2>1
  <2>2. CASE l # 1
    <3>1. l - 1 \in 1 .. n /\ entry[l] = pick[l - 1] /\ line[l] = selected[l - 1]
      BY <1>4, <1>7, <1>8, <2>2
    <3> QED
      BY <1>5, <3>1
  <2> QED
    BY <2>1, <2>2
<1>10. \A l, m \in 1 .. n + 1 : entry[l] = entry[m] => l = m
  <2> SUFFICES ASSUME NEW l \in 1 .. n + 1, NEW m \in 1 .. n + 1, entry[l] = entry[m]
               PROVE  l = m
    OBVIOUS
  <2>1. ASSUME NEW k \in 1 .. n + 1, k # 1
        PROVE  k - 1 \in 1 .. n /\ entry[k] = pick[k - 1] /\ entry[k] \in seen
    BY <1>5, <1>7, <1>8, <2>1
  <2>2. CASE l = 1 \/ m = 1
    BY <1>6, <1>7, <2>1, <2>2
  <2>3. CASE l # 1 /\ m # 1
    <3>1. l - 1 = m - 1
      BY <1>5, <2>1, <2>3
    <3> QED
      BY <3>1
  <2> QED
    BY <2>2, <2>3
<1>11. \A j \in seen \cup {i} : \E l \in 1 .. n + 1 : entry[l] = j
  <2>1. \A k \in 1 .. n : k + 1 \in 1 .. n + 1
    BY <1>4
  <2>2. 1 \in 1 .. n + 1
    BY <1>4
  <2> QED
    BY <1>5, <1>7, <2>1, <2>2
<1> DEFINE p == [k \in 1 .. n + 1 |-> entry[q[k]]]
<1>12. p \in [1 .. n + 1 -> seen \cup {i}]
  BY <1>3, <1>9
<1>13. \A k \in 1 .. n + 1 : q[k] \in 1 .. n + 1 /\ p[k] = entry[q[k]]
  BY <1>3
<1> HIDE DEF p
<1>14. \A k, l \in 1 .. n + 1 : p[k] = p[l] => k = l
  <2> SUFFICES ASSUME NEW k \in 1 .. n + 1, NEW l \in 1 .. n + 1, p[k] = p[l]
               PROVE  k = l
    OBVIOUS
  <2>1. q[k] \in 1 .. n + 1 /\ q[l] \in 1 .. n + 1 /\ entry[q[k]] = entry[q[l]]
    BY <1>13
  <2>3. q[k] = q[l]
    BY <1>10, <2>1
  <2> QED
    BY <1>3, <2>3
<1>15. \A k \in 1 .. n + 1 : r[k] = objects[p[k]]
  BY <1>2, <1>9, <1>13
<1>16. \A j \in seen \cup {i} : \E k \in 1 .. n + 1 : p[k] = j
  <2> SUFFICES ASSUME NEW j \in seen \cup {i} PROVE \E k \in 1 .. n + 1 : p[k] = j
    OBVIOUS
  <2>1. PICK l \in 1 .. n + 1 : entry[l] = j
    BY <1>11
  <2>2. PICK k \in 1 .. n + 1 : q[k] = l
    BY <1>3
  <2> QED
    BY <1>13, <2>1, <2>2
<1>17. PickedFrom(seen \cup {i}, objects, r, p)
  BY <1>1, <1>12, <1>14, <1>15, <1>16 DEF PickedFrom
<1> QED
  BY <1>17 DEF r

\* One entry more lies on the line, and there is no room: those before it are picked.
LEMMA PickedFull ==
  ASSUME NEW i \in Nat, NEW seen \in SUBSET (1 .. i - 1), NEW objects,
         NEW selected \in Seq(Objects), Len(selected) = MaxSelected,
         NEW pick, PickedFrom(seen, objects, selected, pick)
  PROVE  PickedFrom(seen \cup {i}, objects, selected, pick)
<1> DEFINE places == 1 .. Len(selected)
<1>1. pick \in [places -> seen]
  BY DEF PickedFrom
<1>2. \A k \in places : pick[k] < i
  <2>1. \A j \in seen : j < i
    OBVIOUS
  <2> QED
    BY <1>1, <2>1
<1>3. /\ \A k, l \in places : pick[k] = pick[l] => k = l
      /\ \A k \in places : selected[k] = objects[pick[k]]
      /\ \A j \in seen : (\A k \in places : pick[k] # j) => \A k \in places : pick[k] < j
  BY DEF PickedFrom
<1>4. pick \in [places -> seen \cup {i}]
  BY <1>1
<1>5. \A j \in seen \cup {i} : (\A k \in places : pick[k] # j) => \A k \in places : pick[k] < j
  BY <1>2, <1>3
<1> QED
  BY <1>3, <1>4, <1>5 DEF PickedFrom

(***************************************************************************)
(* The scan of a line.                                                     *)
(***************************************************************************)

LEMMA BlankObject == Blank \in Objects
BY DEF Blank, Objects

\* The object of a line's first dot lies above the screen.
LEMMA BlankInvisible ==
  ASSUME ly \in Nat
  PROVE  ~Visible(Blank)
<1>1. Tile \in Nat /\ Tile > 0
  BY SizesAssumption
<1> QED
  BY <1>1 DEF Visible, Blank

\* What Select does to each field.
LEMMA SelectFields ==
  ASSUME NEW s, DOMAIN s = {"next", "selected", "index"}, s.index \in Nat,
         s.selected \in Seq(Objects), s.next \in Objects
  PROVE  /\ Select(s).index = s.index + 1
         /\ Select(s).next \in Objects
         /\ Select(s).selected =
              IF Len(s.selected) < MaxSelected /\ Visible(s.next)
              THEN Insert(s.selected, s.next) ELSE s.selected
<1> DEFINE sel == Insert(s.selected, s.next)
<1> DEFINE c == Carried(s.selected, s.next)
<1>1. c[Len(s.selected)] \in Objects
  <2>1. c \in [0 .. Len(s.selected) -> Objects]
    BY CarriedInvariant
  <2>2. Len(s.selected) \in 0 .. Len(s.selected)
    OBVIOUS
  <2> HIDE DEF c
  <2> QED
    BY <2>1, <2>2
<1> DEFINE nxt == c[Len(s.selected)]
<1>2. Select(s) = IF Len(s.selected) < MaxSelected /\ Visible(s.next)
                  THEN [next |-> nxt, selected |-> sel, index |-> s.index + 1]
                  ELSE [s EXCEPT !.index = s.index + 1]
  BY DEF Select
<1>3. nxt \in Objects
  BY <1>1
<1> HIDE DEF sel, nxt
<1>4. CASE Len(s.selected) < MaxSelected /\ Visible(s.next)
  <2>1. Select(s) = [next |-> nxt, selected |-> sel, index |-> s.index + 1]
    BY <1>2, <1>4
  <2> QED
    BY <1>3, <1>4, <2>1 DEF sel
<1>5. CASE ~(Len(s.selected) < MaxSelected /\ Visible(s.next))
  <2>1. Select(s) = [s EXCEPT !.index = s.index + 1]
    BY <1>2, <1>5
  <2> QED
    BY <1>5, <2>1
<1> QED
  BY <1>4, <1>5

LEMMA InitScan == Init => ScanInv
<1> SUFFICES ASSUME Init PROVE ScanInv
  OBVIOUS
<1>1. oam \in [0 .. OamSize - 1 -> Objects]
  BY BlankObject DEF Init
<1>2. scan.selected = <<>> /\ mode = "hblank"
  BY DEF Init, EmptyScan
<1> QED
  BY <1>1, <1>2 DEF ScanInv, Sorted

\* A new scan has selected nothing.
LEMMA StartScanOK ==
  ASSUME ScanInv, StartScan, dot' = 1, UNCHANGED oam
  PROVE  ScanInv'
<1>1. scan' = EmptyScan /\ EmptyScan.selected = <<>> /\ EmptyScan.index = 0 /\ EmptyScan.next = Blank
  BY DEF StartScan, EmptyScan
<1> QED
  BY <1>1, BlankObject DEF ScanInv, Sorted

LEMMA StepKeepsScan ==
  ASSUME Inv, ScanInv, [Next]_vars
  PROVE  ScanInv'
<1>1. CASE HBlankEnd
  <2>1. CASE BelowScreen(ly + 1)
    BY <1>1, <2>1 DEF HBlankEnd, Begin, ScanInv, Sorted
  <2>2. CASE ~BelowScreen(ly + 1)
    BY <1>1, <2>2, StartScanOK DEF HBlankEnd, Begin, FirstDot
  <2> QED
    BY <2>1, <2>2
<1>2. CASE VBlankEnd
  BY <1>2, StartScanOK DEF VBlankEnd, Begin, FirstDot
<1>3. CASE OamFetch
  <2>1. /\ scan.index \in 0 .. OamSize - 1 /\ DOMAIN scan = {"next", "selected", "index"}
        /\ dot \in {2 * scan.index, 2 * scan.index + 1} /\ dot > 0 /\ dot % 2 = 0 /\ dot' = dot + 1
        /\ mode = "oam" /\ mode' = "oam" /\ oam' = oam
    BY <1>3 DEF OamFetch, Begin, NextDot, Inv, ScanInv
  <2>2. dot = 2 * scan.index /\ scan.index # 0
    BY <2>1
  <2>3. scan' = [scan EXCEPT !.next = oam[scan.index]]
    BY <1>3 DEF OamFetch
  <2>4. /\ scan'.next = oam[scan.index] /\ scan'.index = scan.index
        /\ scan'.selected = scan.selected
    BY <2>1, <2>3
  <2>5. oam[scan.index] \in Objects
    BY <2>1 DEF ScanInv
  <2> QED
    BY <2>1, <2>2, <2>4, <2>5 DEF ScanInv, Sorted
<1>4. CASE OamSelect
  <2>1. /\ scan.index \in Nat /\ DOMAIN scan = {"next", "selected", "index"}
        /\ dot \in {2 * scan.index, 2 * scan.index + 1} /\ dot % 2 # 0 /\ dot' = dot + 1
        /\ scan.selected \in Seq(Objects) /\ scan.next \in Objects /\ Sorted(scan.selected)
        /\ scan' = Select(scan) /\ oam' = oam
    BY <1>4 DEF OamSelect, Begin, NextDot, Inv, ScanInv
  <2>2. dot = 2 * scan.index + 1
    BY <2>1
  <2>3. dot' = 2 * (scan.index + 1) /\ dot' > 0
    BY <2>1, <2>2
  <2>4. /\ scan'.index = scan.index + 1 /\ scan'.next \in Objects
        /\ scan'.selected \in {scan.selected, Insert(scan.selected, scan.next)}
    BY <2>1, SelectFields
  <2>5. /\ Insert(scan.selected, scan.next) \in Seq(Objects)
        /\ Sorted(Insert(scan.selected, scan.next))
    BY <2>1, CarriedInvariant, InsertSorted
  <2>6. scan'.selected \in Seq(Objects) /\ Sorted(scan'.selected)
    BY <2>1, <2>4, <2>5
  <2>7. dot' # 2 * scan'.index + 1
    BY <2>1, <2>3, <2>4
  <2> QED
    BY <2>1, <2>3, <2>4, <2>6, <2>7 DEF ScanInv, Sorted
<1>5. CASE HBlankWait \/ VBlankWait \/ VBlankLine \/ Draw
  BY <1>5 DEF HBlankWait, VBlankWait, VBlankLine, Draw, Begin, ScanInv, Sorted
<1>6. ASSUME NEW r \in DOMAIN Values, WriteRegister(r) PROVE ScanInv'
  BY <1>6 DEF WriteRegister, ScanInv, Sorted
<1>7. CASE WriteOam
  BY <1>7, OamsAssumption DEF WriteOam, ScanInv, Sorted
<1>8. CASE UNCHANGED vars
  BY <1>8 DEF vars, ScanInv, Sorted
<1> QED
  BY <1>1, <1>2, <1>3, <1>4, <1>5, <1>6, <1>7, <1>8 DEF Next, Dot

(***************************************************************************)
(* The selection of the objects.  object_is_visible depends on bit 0 of    *)
(* LCDC, which must not change between the entries of a scan.              *)
(***************************************************************************)

ScanUndisturbed == mode = "oam" => regs'.priority = regs.priority

LEMMA VisibleKept ==
  ASSUME ly' = ly, regs'.priority = regs.priority, NEW o
  PROVE  Visible(o)' <=> Visible(o)
BY DEF Visible

LEMMA SeenKept ==
  ASSUME ly' = ly, regs'.priority = regs.priority, oam' = oam, scan'.index = scan.index
  PROVE  Seen' = Seen
BY VisibleKept DEF Seen

\* Every entry processed so far that lies on the line was considered.
LEMMA SelectKeepsPicks ==
  ASSUME Inv, ScanInv, PickInv, OamSelect, ScanUndisturbed
  PROVE  \E pick \in [1 .. Len(scan'.selected) -> Seen'] :
           PickedFrom(Seen', oam, scan'.selected, pick)
<1>1. /\ mode = "oam" /\ DOMAIN scan = {"next", "selected", "index"}
      /\ scan.index \in 0 .. OamSize - 1 /\ ly \in Nat
      /\ scan.selected \in Seq(Objects) /\ Len(scan.selected) \in 0 .. MaxSelected
      /\ scan.next \in Objects
      /\ scan' = Select(scan) /\ oam' = oam /\ ly' = ly /\ regs'.priority = regs.priority
      /\ oam \in [0 .. OamSize - 1 -> Objects]
  <2>1. /\ mode = "oam" /\ scan' = Select(scan) /\ oam' = oam /\ ly' = ly
        /\ regs'.priority = regs.priority
    <3>1. mode = "oam" /\ UNCHANGED regs /\ UNCHANGED oam /\ scan' = Select(scan) /\ ly' = ly
      BY DEF OamSelect, Begin
    <3> QED
      BY <3>1
  <2>2. /\ DOMAIN scan = {"next", "selected", "index"} /\ ly \in 0 .. LastLine
        /\ scan.index \in 0 .. OamSize /\ scan.index < OamSize
        /\ Len(scan.selected) \in 0 .. MaxSelected
    BY <2>1 DEF Inv
  <2>3. ly \in Nat /\ scan.index \in 0 .. OamSize - 1
    BY <2>2, SizesAssumption
  <2>4. /\ scan.selected \in Seq(Objects) /\ scan.next \in Objects
        /\ oam \in [0 .. OamSize - 1 -> Objects]
    BY <2>1 DEF ScanInv
  <2> QED
    BY <2>1, <2>2, <2>3, <2>4
<1>2. scan.next = IF scan.index = 0 THEN Blank ELSE oam[scan.index]
  <2>1. dot \in {2 * scan.index, 2 * scan.index + 1} /\ dot % 2 # 0
    BY <1>1 DEF ScanInv, OamSelect
  <2>2. dot = 2 * scan.index + 1
    <3>1. scan.index \in Int
      BY <1>1, SizesAssumption
    <3>2. ASSUME NEW i \in Int, dot = 2 * i, dot % 2 # 0 PROVE FALSE
      BY <3>2
    <3> QED
      BY <2>1, <3>1, <3>2
  <2> QED
    BY <1>1, <2>2 DEF ScanInv
<1>3. /\ scan'.index = scan.index + 1
      /\ scan'.selected =
           IF Len(scan.selected) < MaxSelected /\ Visible(scan.next)
           THEN Insert(scan.selected, scan.next) ELSE scan.selected
  BY <1>1, SelectFields
<1>4. PICK pick \in [1 .. Len(scan.selected) -> Seen] : PickedFrom(Seen, oam, scan.selected, pick)
  BY <1>1 DEF PickInv
<1>5. Seen' = {i \in 1 .. scan.index : Visible(oam[i])}
  BY <1>1, <1>3, VisibleKept DEF Seen
<1>6. \A i \in 1 .. scan.index : i \in 1 .. scan.index - 1 \/ i = scan.index
  BY <1>1
<1> SUFFICES \E pick2 : PickedFrom(Seen', oam, scan'.selected, pick2)
  BY DEF PickedFrom
<1>7. CASE scan.index = 0 \/ ~Visible(scan.next)
  <2>1. ~Visible(scan.next)
    BY <1>1, <1>2, <1>7, BlankInvisible
  <2>2. scan'.selected = scan.selected
    BY <1>3, <2>1
  <2>3. scan.index # 0 => ~Visible(oam[scan.index])
    BY <1>2, <2>1
  <2>4. Seen' = Seen
    BY <1>1, <1>5, <1>6, <2>3 DEF Seen
  <2> QED
    BY <1>4, <2>2, <2>4
<1>8. CASE scan.index # 0 /\ Visible(scan.next)
  <2>1. scan.next = oam[scan.index] /\ scan.index \in Nat /\ oam[scan.index] \in Objects
    BY <1>1, <1>2, <1>8
  <2>2. Seen' = Seen \cup {scan.index}
    BY <1>1, <1>5, <1>6, <1>8, <2>1 DEF Seen
  <2>3. Seen \in SUBSET (1 .. scan.index - 1)
    BY DEF Seen
  <2>4. CASE Len(scan.selected) < MaxSelected
    <3>1. scan'.selected = Insert(scan.selected, oam[scan.index])
      BY <1>3, <1>8, <2>1, <2>4
    <3>2. \E p : PickedFrom(Seen \cup {scan.index}, oam, Insert(scan.selected, oam[scan.index]), p)
      <4> DEFINE i == scan.index
      <4> DEFINE selected == scan.selected
      <4>1. /\ i \in Nat /\ Seen \in SUBSET (1 .. i - 1) /\ oam[i] \in Objects
            /\ selected \in Seq(Objects) /\ Len(selected) < MaxSelected
            /\ PickedFrom(Seen, oam, selected, pick)
        BY <1>1, <1>4, <2>1, <2>3, <2>4
      <4> HIDE DEF i, selected
      <4>2. \E p : PickedFrom(Seen \cup {i}, oam, Insert(selected, oam[i]), p)
        BY <4>1, PickedGrows
      <4> QED
        BY <4>2 DEF i, selected
    <3> QED
      BY <2>2, <3>1, <3>2
  <2>5. CASE ~(Len(scan.selected) < MaxSelected)
    <3>1. scan'.selected = scan.selected /\ Len(scan.selected) = MaxSelected
      BY <1>1, <1>3, <2>5
    <3> QED
      BY <1>1, <1>4, <2>1, <2>2, <2>3, <3>1, PickedFull
  <2> QED
    BY <2>4, <2>5
<1> QED
  BY <1>7, <1>8

LEMMA StepKeepsPicks ==
  ASSUME Inv, ScanInv, PickInv, [Next]_vars, ScanUndisturbed
  PROVE  PickInv'
<1>1. CASE OamSelect
  <2>1. oam' = oam
    BY <1>1 DEF OamSelect, Begin
  <2> QED
    BY <1>1, <2>1, SelectKeepsPicks DEF PickInv
<1>2. ASSUME mode = "oam", mode' = "oam", scan'.selected = scan.selected, oam' = oam, ly' = ly,
             scan'.index = scan.index
      PROVE  PickInv'
  <2>1. Seen' = Seen
    BY <1>2, SeenKept DEF ScanUndisturbed
  <2> QED
    BY <1>2, <2>1 DEF PickInv
<1>3. ASSUME StartScan, UNCHANGED oam PROVE PickInv'
  <2>1. scan'.selected = <<>> /\ scan'.index = 0
    BY <1>3 DEF StartScan, EmptyScan
  <2>2. Seen' = {}
    BY <2>1 DEF Seen
  <2>3. Len(scan'.selected) = 0 /\ 1 .. 0 = {}
    BY <2>1
  <2> DEFINE pick == [k \in 1 .. 0 |-> 0]
  <2>4. pick \in [1 .. Len(scan'.selected) -> Seen']
    BY <2>3
  <2>5. PickedFrom(Seen', oam', scan'.selected, pick)
    BY <2>2, <2>3, <2>4 DEF PickedFrom
  <2> HIDE DEF pick
  <2> QED
    BY <2>4, <2>5 DEF PickInv
<1>4. CASE HBlankEnd
  <2>1. mode' = "vblank" \/ StartScan
    BY <1>4 DEF HBlankEnd
  <2>2. mode' = "vblank" => PickInv'
    BY DEF PickInv
  <2> QED
    BY <1>3, <1>4, <2>1, <2>2 DEF HBlankEnd, Begin
<1>5. CASE VBlankEnd
  BY <1>3, <1>5 DEF VBlankEnd, Begin
<1>6. CASE OamFetch
  <2>1. DOMAIN scan = {"next", "selected", "index"}
    BY DEF Inv
  <2>2. scan'.selected = scan.selected /\ scan'.index = scan.index
    BY <1>6, <2>1 DEF OamFetch
  <2> QED
    BY <1>2, <1>6, <2>2 DEF OamFetch, Begin
<1>7. CASE HBlankWait \/ VBlankWait \/ VBlankLine \/ Draw
  BY <1>7 DEF HBlankWait, VBlankWait, VBlankLine, Draw, Begin, PickInv
<1>8. ASSUME NEW r \in DOMAIN Values, WriteRegister(r) PROVE PickInv'
  BY <1>2, <1>8 DEF WriteRegister, PickInv
<1>9. CASE WriteOam
  BY <1>9 DEF WriteOam, PickInv
<1>10. CASE UNCHANGED vars
  BY <1>2, <1>10 DEF vars, PickInv
<1> QED
  BY <1>1, <1>4, <1>5, <1>6, <1>7, <1>8, <1>9, <1>10 DEF Next, Dot

\* What was picked from all entries on the line is the first of them, up to the limit.
LEMMA FirstOnesPicked ==
  ASSUME NEW onLine \in SUBSET (1 .. OamSize - 1), NEW objects, NEW selected,
         Len(selected) \in 0 .. MaxSelected,
         NEW pick, PickedFrom(onLine, objects, selected, pick)
  PROVE  pick \in Bijection(1 .. Len(selected),
                           {i \in onLine : Cardinality({j \in onLine : j < i}) < MaxSelected})
<1> DEFINE n == Len(selected)
<1> DEFINE places == 1 .. n
<1> DEFINE before(i) == {j \in onLine : j < i}
<1> DEFINE chosen == {i \in onLine : Cardinality(before(i)) < MaxSelected}
<1> DEFINE picked == Range(pick)
<1>1. /\ pick \in [places -> onLine]
      /\ \A k, l \in places : pick[k] = pick[l] => k = l
      /\ \/ \A i \in onLine : \E k \in places : pick[k] = i
         \/ /\ n = MaxSelected
            /\ \A i \in onLine : (\A k \in places : pick[k] # i) => \A k \in places : pick[k] < i
  BY DEF PickedFrom
<1>2. n \in Nat /\ n <= MaxSelected /\ MaxSelected \in Nat
  BY SizesAssumption
<1> HIDE DEF n
<1>3. onLine \subseteq Nat /\ IsFiniteSet(onLine)
  <2>1. 1 \in Int /\ OamSize - 1 \in Int
    BY SizesAssumption
  <2>2. IsFiniteSet(1 .. OamSize - 1)
    BY <2>1, FS_Interval
  <2>3. onLine \in SUBSET (1 .. OamSize - 1)
    OBVIOUS
  <2>4. IsFiniteSet(onLine)
    BY <2>2, <2>3, FS_Subset
  <2>5. 1 .. OamSize - 1 \subseteq Nat
    BY <2>1
  <2> QED
    BY <2>3, <2>4, <2>5
<1>4. IsFiniteSet(places) /\ Cardinality(places) = n
  <2>1. 1 \in Int /\ n \in Int
    BY <1>2
  <2>2. IsFiniteSet(1 .. n) /\ Cardinality(1 .. n) = IF 1 > n THEN 0 ELSE n - 1 + 1
    BY <2>1, FS_Interval
  <2> QED
    BY <1>2, <2>2
<1>5. picked \subseteq onLine /\ (\A i \in picked : \E k \in places : pick[k] = i)
      /\ \A k \in places : pick[k] \in picked
  BY <1>1, Fun_RangeProperties DEF Range
<1>6. IsFiniteSet(picked) /\ Cardinality(picked) = n
  <2> HIDE DEF places, picked
  <2>1. pick \in Injection(places, onLine)
    BY <1>1, Fun_IsInj
  <2>2. pick \in Bijection(places, Range(pick))
    BY <2>1, Fun_InjMeansBijImage
  <2>3. ExistsBijection(places, picked)
    BY <2>2 DEF ExistsBijection, picked
  <2> QED
    BY <1>4, <2>3, FS_Bijection
<1> HIDE DEF places, picked
<1>7. ASSUME NEW i \in onLine PROVE IsFiniteSet(before(i)) /\ Cardinality(before(i)) \in Nat
  BY <1>3, FS_Subset, FS_CardinalityType
<1>8. ASSUME NEW i \in picked PROVE i \in chosen
  <2>1. \A j \in before(i) : j \in picked /\ j # i
    <3> SUFFICES ASSUME NEW j \in before(i), j \notin picked PROVE FALSE
      BY <1>3, <1>5
    <3>1. j \in onLine /\ j < i /\ j \in Nat /\ i \in Nat /\ i \in onLine
      BY <1>3, <1>5
    <3>2. \A k \in places : pick[k] # j
      BY <1>5
    <3>3. PICK k \in places : pick[k] = i
      BY <1>5
    <3>4. i < j
      BY <1>1, <3>1, <3>2, <3>3
    <3> QED
      BY <3>1, <3>4
  <2>2. IsFiniteSet(picked \ {i}) /\ Cardinality(picked \ {i}) = n - 1
    BY <1>6, FS_RemoveElement
  <2>3. before(i) \in SUBSET (picked \ {i})
    BY <2>1
  <2>4. i \in onLine
    BY <1>5
  <2> HIDE DEF before
  <2>5. Cardinality(before(i)) <= n - 1
    BY <2>2, <2>3, FS_Subset
  <2>6. Cardinality(before(i)) < MaxSelected
    BY <1>2, <1>7, <2>4, <2>5
  <2> QED
    BY <2>4, <2>6
<1>9. ASSUME NEW i \in chosen PROVE i \in picked
  <2> SUFFICES ASSUME i \notin picked PROVE FALSE
    OBVIOUS
  <2>1. i \in onLine /\ Cardinality(before(i)) < MaxSelected
    <3> HIDE DEF before
    <3> QED
      BY <1>9
  <2>2. n = MaxSelected /\ \A k \in places : pick[k] < i
    BY <1>1, <1>5, <2>1
  <2>3. picked \in SUBSET before(i)
    <3>1. ASSUME NEW j \in picked PROVE j \in onLine /\ j < i
      BY <1>5, <2>2
    <3> QED
      BY <3>1
  <2> HIDE DEF before
  <2>4. n <= Cardinality(before(i))
    BY <1>6, <1>7, <2>1, <2>3, FS_Subset
  <2> QED
    BY <1>2, <1>7, <2>1, <2>2, <2>4
<1> HIDE DEF before, chosen
<1>10. picked = chosen
  BY <1>8, <1>9
<1>11. pick \in [places -> chosen]
  BY <1>1, <1>5, <1>10
<1>12. \A i \in chosen : \E k \in places : pick[k] = i
  BY <1>5, <1>10
<1>13. pick \in Bijection(places, chosen)
  BY <1>1, <1>11, <1>12, Fun_IsBij
<1> QED
  BY <1>13 DEF places, chosen, before, n

\* The objects of a line are the first ones of the object memory that lie on it, from left
\* to right (oam() and object_is_visible, ppu.c), entry 0 being lost where it lies on the
\* line, provided that bit 0 of LCDC is left alone during the scan.
THEOREM SelectionRight ==
  Spec /\ [][mode = "oam" => regs'.priority = regs.priority]_vars => SelectionLacksEntryZero
<1>1. ASSUME Inv, ScanInv, PickInv, [Next]_vars, ScanUndisturbed, mode = "oam", mode' = "draw"
      PROVE  IF 0 \in OnLine' THEN Selects(OnLine \ {0})' ELSE Selects(OnLine)'
  <2>1. OamSelect
    BY <1>1 DEF Next, Dot, HBlankWait, HBlankEnd, VBlankWait, VBlankLine, VBlankEnd, OamFetch,
                Draw, Begin, WriteRegister, WriteOam, vars
  <2>2. oam' = oam /\ scan' = Select(scan) /\ scan'.index >= OamSize
    BY <1>1, <2>1 DEF OamSelect, Begin
  <2>3. Inv' /\ Sorted(scan'.selected)
    BY <1>1, NextKeepsInv, StepKeepsScan DEF ScanInv
  <2>4. scan'.index = OamSize /\ Len(scan'.selected) \in 0 .. MaxSelected
    BY <2>2, <2>3, SizesAssumption DEF Inv
  <2>5. PICK pick \in [1 .. Len(scan'.selected) -> Seen'] :
          PickedFrom(Seen', oam, scan'.selected, pick)
    BY <1>1, <2>1, SelectKeepsPicks
  <2> DEFINE onLine == {i \in 1 .. OamSize - 1 : Visible(oam[i])'}
  <2> DEFINE chosen == {i \in onLine : Cardinality({j \in onLine : j < i}) < MaxSelected}
  <2>6. Seen' = onLine
    BY <2>4 DEF Seen
  <2>7. onLine \in SUBSET (1 .. OamSize - 1)
    OBVIOUS
  <2>8. PickedFrom(onLine, oam', scan'.selected, pick)
    BY <2>2, <2>5, <2>6
  <2> HIDE DEF onLine
  <2>9. pick \in Bijection(1 .. Len(scan'.selected), chosen)
    BY <2>4, <2>7, <2>8, FirstOnesPicked
  <2>10. \A k \in 1 .. Len(scan'.selected) : scan'.selected[k] = oam'[pick[k]]
    BY <2>8 DEF PickedFrom
  <2>11. \E p \in Bijection(1 .. Len(scan'.selected), chosen) :
           \A k \in 1 .. Len(scan'.selected) : scan'.selected[k] = oam'[p[k]]
    BY <2>9, <2>10
  <2>12. \A i, j \in 1 .. Len(scan'.selected) :
           i < j => scan'.selected[i].x <= scan'.selected[j].x
    BY <2>3 DEF Sorted
  <2>13. OnLine' \ {0} = onLine /\ (0 \notin OnLine' => OnLine' = onLine)
    BY DEF OnLine, onLine
  <2> HIDE DEF chosen
  <2>15. CASE 0 \in OnLine'
    <3>1. Selects(OnLine \ {0})'
      BY <2>11, <2>12, <2>13 DEF Selects, chosen
    <3> QED
      BY <2>15, <3>1
  <2>16. CASE 0 \notin OnLine'
    <3>1. Selects(OnLine)'
      BY <2>11, <2>12, <2>13, <2>16 DEF Selects, chosen
    <3> QED
      BY <2>16, <3>1
  <2> QED
    BY <2>15, <2>16
<1>2. Inv /\ ScanInv /\ [Next]_vars => ScanInv'
  BY StepKeepsScan
<1>3. Init => PickInv
  BY DEF Init, PickInv
<1>4. Inv /\ ScanInv /\ PickInv /\ [Next]_vars /\ ScanUndisturbed => PickInv'
  BY StepKeepsPicks
<1>5. UNCHANGED vars => ScanUndisturbed
  BY DEF vars, ScanUndisturbed
<1>6. Inv /\ ScanInv /\ PickInv /\ [Next]_vars /\ ScanUndisturbed =>
        (mode = "oam" /\ mode' = "draw" =>
           IF 0 \in OnLine' THEN Selects(OnLine \ {0})' ELSE Selects(OnLine)')
  BY <1>1
<1>7. ScanUndisturbed <=> (mode = "oam" => regs'.priority = regs.priority)
  BY DEF ScanUndisturbed
<1> QED
  BY Invariance, InitScan, <1>2, <1>3, <1>4, <1>5, <1>6, <1>7, PTL DEF Spec, SelectionLacksEntryZero

(***************************************************************************)
(* The pipeline of a line on which the objects are not switched on or off: *)
(* the fetcher serves objects and background in turn, and what it fetched  *)
(* for one never reaches the FIFO of the other.                            *)
(***************************************************************************)

LEMMA StepKeepsFetch ==
  ASSUME NEW f, FetcherOK(f)
  PROVE  /\ FetcherStep(f).layer = f.layer /\ FetcherStep(f).n = f.n
         /\ f.state = "idle" => FetcherStep(f).state = "idle"
BY DEF FetcherOK, FetcherFields, FetcherStep

LEMMA FetchFields ==
  ASSUME NEW layer \in Layers, NEW n \in Nat, NEW row
  PROVE  Fetch(layer, n, row).layer = layer /\ Fetch(layer, n, row).n = n
<1> DEFINE f == [state |-> "fetching", step |-> 0, layer |-> layer, n |-> n, row |-> row]
<1>1. FetcherOK(f) /\ f.layer = layer /\ f.n = n
  BY DEF FetcherOK, FetcherFields
<1> HIDE DEF f
<1>2. FetcherStep(f).layer = layer /\ FetcherStep(f).n = n
  BY <1>1, StepKeepsFetch
<1> QED
  BY <1>2 DEF Fetch, f

\* HasObj looks at two fields of the drawing state.
LEMMA HasObjSame ==
  ASSUME NEW d, NEW e, e.fetched = d.fetched, e.lx = d.lx
  PROVE  HasObj(e) <=> HasObj(d)
BY DEF HasObj

\* What the stage does to each field: it either stalls for an object that is there, or
\* leaves no object to be fetched here.
LEMMA ObjStageFields ==
  ASSUME NEW d, DrawOK(d), PipeOK(d)
  PROVE  LET o == ObjStage(d)
         IN  /\ o.win = d.win /\ o.bkg = d.bkg /\ o.fetcherX = d.fetcherX
             /\ o.lx = d.lx
             /\ o.fetched \in {d.fetched, d.fetched + 1}
             /\ IF o.stall THEN HasObj(o)
                ELSE ~HasObj(o) /\ (o.fetcher = Idle \/ (~d.stall /\ o.fetcher = d.fetcher))
<1> DEFINE f == FetcherStep(IF d.stall THEN d.fetcher ELSE Idle)
<1> DEFINE mixed == Mix(d.obj)
<1> DEFINE pushed == [d EXCEPT !.fetched = @ + 1, !.fetcher = Idle, !.obj = mixed,
                               !.stall = FALSE]
<1> DEFINE good(o) ==
             /\ o.win = d.win /\ o.bkg = d.bkg /\ o.fetcherX = d.fetcherX
             /\ o.lx = d.lx
             /\ o.fetched \in {d.fetched, d.fetched + 1}
             /\ IF o.stall THEN HasObj(o)
                ELSE ~HasObj(o) /\ (o.fetcher = Idle \/ (~d.stall /\ o.fetcher = d.fetcher))
<1>1. f.state \in {"idle", "fetching", "ready"}
  <2>1. FetcherOK(IF d.stall THEN d.fetcher ELSE Idle)
    BY IdleOK DEF DrawOK
  <2> QED
    BY <2>1, StepOK DEF FetcherOK
<1>2. ASSUME NEW e, DOMAIN e = DrawFields, HasObj(e),
             e.win = d.win, e.bkg = d.bkg, e.fetcherX = d.fetcherX,
             e.lx = d.lx, e.fetched \in {d.fetched, d.fetched + 1}, NEW g
      PROVE  good([e EXCEPT !.stall = TRUE, !.fetcher = g])
  <2> DEFINE o == [e EXCEPT !.stall = TRUE, !.fetcher = g]
  <2>1. /\ o.win = e.win /\ o.bkg = e.bkg /\ o.fetcherX = e.fetcherX /\ o.lx = e.lx
        /\ o.fetched = e.fetched /\ o.stall = TRUE
    BY <1>2 DEF DrawFields
  <2> HIDE DEF o
  <2>2. HasObj(o)
    BY <1>2, <2>1, HasObjSame
  <2>3. good(o)
    BY <1>2, <2>1, <2>2
  <2> QED
    BY <2>3 DEF o
<1>3. DOMAIN d = DrawFields /\ (d.stall => HasObj(d))
  BY DEF DrawOK, PipeOK
<1>4. /\ DOMAIN pushed = DrawFields /\ pushed.fetcher = Idle
      /\ pushed.fetched = d.fetched + 1 /\ pushed.stall = FALSE
      /\ pushed.lx = d.lx /\ pushed.fetcherX = d.fetcherX
      /\ pushed.win = d.win /\ pushed.bkg = d.bkg
  <2> HIDE DEF mixed
  <2> QED
    BY <1>3 DEF DrawFields
<1> HIDE DEF f, pushed, mixed
<1> SUFFICES good(ObjStage(d))
  OBVIOUS
<1>5. CASE ~HasObj(d)
  <2> DEFINE o == [d EXCEPT !.stall = FALSE]
  <2>1. /\ o.win = d.win /\ o.bkg = d.bkg /\ o.fetcherX = d.fetcherX /\ o.lx = d.lx
        /\ o.fetched = d.fetched /\ o.stall = FALSE /\ o.fetcher = d.fetcher
    BY <1>3 DEF DrawFields
  <2>2. ObjStage(d) = o
    BY <1>5 DEF ObjStage
  <2> HIDE DEF o
  <2>3. ~HasObj(o) /\ ~d.stall
    BY <1>3, <1>5, <2>1, HasObjSame
  <2> QED
    BY <2>1, <2>2, <2>3
<1>6. CASE HasObj(d)
  <2>1. ObjStage(d) = CASE f.state = "idle"     -> FetchObj(d)
                        [] f.state = "fetching" -> [d EXCEPT !.stall = TRUE, !.fetcher = f]
                        [] f.state = "ready"    -> IF HasObj(pushed) THEN FetchObj(pushed)
                                                   ELSE pushed
    BY <1>6 DEF ObjStage, f, pushed, mixed
  <2>2. good(FetchObj(d)) /\ good([d EXCEPT !.stall = TRUE, !.fetcher = f])
    <3> HIDE DEF good
    <3> QED
      BY <1>2, <1>3, <1>6 DEF FetchObj
  <2>3. HasObj(pushed) => good(FetchObj(pushed))
    <3> HIDE DEF good
    <3> QED
      BY <1>2, <1>4 DEF FetchObj
  <2>4. ~HasObj(pushed) => good(pushed)
    BY <1>4
  <2> HIDE DEF good
  <2>5. CASE f.state = "idle"
    BY <2>1, <2>2, <2>5
  <2>6. CASE f.state = "fetching"
    BY <2>1, <2>2, <2>6
  <2>7. CASE f.state = "ready"
    <3>1. ObjStage(d) = IF HasObj(pushed) THEN FetchObj(pushed) ELSE pushed
      BY <2>1, <2>7
    <3> QED
      BY <3>1, <2>3, <2>4
  <2> QED
    BY <1>1, <2>5, <2>6, <2>7
<1> QED
  BY <1>5, <1>6

LEMMA ObjStagePipe ==
  ASSUME NEW d, DrawOK(d), PipeOK(d)
  PROVE  PipeOK(ObjStage(d))
<1> DEFINE o == ObjStage(d)
<1>1. /\ o.win = d.win /\ o.bkg = d.bkg /\ o.fetcherX = d.fetcherX
      /\ IF o.stall THEN HasObj(o)
         ELSE ~HasObj(o) /\ (o.fetcher = Idle \/ (~d.stall /\ o.fetcher = d.fetcher))
  BY ObjStageFields
<1> HIDE DEF o
<1>2. Layer(o) = Layer(d)
  BY <1>1 DEF Layer
<1>3. Idle.state = "idle"
  BY DEF Idle
<1>4. ~o.stall /\ o.fetcher.state # "idle" =>
        o.fetcher.layer = Layer(o) /\ o.fetcher.n = o.fetcherX * Tile
  BY <1>1, <1>2, <1>3 DEF PipeOK
<1>5. \A i \in 1 .. Len(o.bkg) :
        o.bkg[i] = [layer |-> Layer(o), n |-> o.fetcherX * Tile - Len(o.bkg) + i - 1]
  BY <1>1, <1>2 DEF PipeOK
<1>6. PipeOK(o)
  BY <1>1, <1>4, <1>5 DEF PipeOK
<1> QED
  BY <1>6 DEF o

\* The objects are sorted: when the next one is not here, none of the rest is.
LEMMA NoneHere ==
  ASSUME NEW d, DrawOK(d), AheadOK(d), ~HasObj(d), regs.objOn,
         scan.selected \in Seq(Objects), Sorted(scan.selected)
  PROVE  \A k \in 1 .. Len(scan.selected) :
           k > d.fetched => scan.selected[k].x - Tile > d.lx
<1> SUFFICES ASSUME NEW k \in 1 .. Len(scan.selected), k > d.fetched
             PROVE  scan.selected[k].x - Tile > d.lx
  OBVIOUS
<1> DEFINE m == d.fetched + 1
<1>1. d.fetched \in Nat /\ d.lx \in Nat /\ Tile \in Nat
  BY SizesAssumption DEF DrawOK
<1>2. m \in 1 .. Len(scan.selected) /\ m <= k /\ d.fetched < Len(scan.selected)
  BY <1>1
<1>3. scan.selected[m] \in Objects /\ scan.selected[k] \in Objects
  BY <1>2
<1>4. scan.selected[m].x \in Nat /\ scan.selected[k].x \in Nat
  BY <1>3, ObjectFields
<1>5. scan.selected[m].x <= scan.selected[k].x
  <2>1. CASE m = k
    BY <1>4, <2>1
  <2>2. CASE m # k
    <3>1. m < k
      BY <1>1, <1>2, <2>2
    <3> QED
      BY <1>2, <3>1 DEF Sorted
  <2> QED
    BY <2>1, <2>2
<1>6. ~((scan.selected[m].x < Tile /\ d.lx = 0) \/ scan.selected[m].x - Tile = d.lx)
  BY <1>2 DEF HasObj
<1>7. m > d.fetched
  BY <1>1
<1>8. \/ scan.selected[m].x - Tile >= d.lx
      \/ scan.selected[m].x < Tile /\ d.lx = 0
  BY <1>2, <1>7 DEF AheadOK
<1> DEFINE first == scan.selected[m].x
<1> DEFINE other == scan.selected[k].x
<1>9. /\ first \in Nat /\ other \in Nat /\ first <= other
      /\ ~((first < Tile /\ d.lx = 0) \/ first - Tile = d.lx)
      /\ first - Tile >= d.lx \/ (first < Tile /\ d.lx = 0)
  BY <1>4, <1>5, <1>6, <1>8
<1> HIDE DEF first, other
<1>10. other - Tile > d.lx
  BY <1>1, <1>9
<1> QED
  BY <1>10 DEF other

LEMMA WindowStagePipe ==
  ASSUME NEW d, DrawOK(d), PipeOK(d), ~d.stall
  PROVE  /\ PipeOK(WindowStage(d)) /\ ~WindowStage(d).stall
         /\ WindowStage(d).fetched = d.fetched
<1>1. CASE WindowIsActive(d) = d.win
  BY <1>1 DEF WindowStage
<1>2. CASE WindowIsActive(d) # d.win
  <2> DEFINE e == WindowStage(d)
  <2>1. e = [d EXCEPT !.win = ~@, !.fetcher = Idle, !.bkg = <<>>, !.fetcherX = 0,
                      !.origin = d.lx]
    BY <1>2 DEF WindowStage
  <2> HIDE DEF e
  <2>2. /\ e.fetcher = Idle /\ e.fetched = d.fetched /\ e.stall = d.stall /\ e.bkg = <<>>
    BY <2>1 DEF DrawOK, DrawFields
  <2>3. Idle.state = "idle" /\ Len(<<>>) = 0 /\ 1 .. 0 = {}
    BY DEF Idle
  <2>4. PipeOK(e)
    BY <2>2, <2>3 DEF PipeOK
  <2> QED
    BY <2>2, <2>4 DEF e
<1> QED
  BY <1>1, <1>2

LEMMA PixelStagePipe ==
  ASSUME NEW d, DrawOK(d), PipeOK(d), ~d.stall
  PROVE  /\ PipeOK(PixelStage(d)) /\ ~PixelStage(d).stall
         /\ PixelStage(d).fetched = d.fetched
<1>1. CASE Underflow(d)
  BY <1>1 DEF PixelStage
<1>2. CASE ~Underflow(d)
  <2> DEFINE e == PixelStage(d)
  <2> DEFINE rest == IF d.obj = <<>> THEN d.obj ELSE Tail(d.obj)
  <2>1. e = [d EXCEPT !.bkg = Tail(d.bkg), !.obj = rest, !.lx = d.lx + 1]
    BY <1>2 DEF PixelStage, DrawOK, DrawFields
  <2> HIDE DEF e, rest
  <2>2. /\ e.fetcher = d.fetcher /\ e.fetched = d.fetched /\ e.fetcherX = d.fetcherX
        /\ e.win = d.win /\ e.stall = d.stall /\ e.bkg = Tail(d.bkg)
    BY <2>1 DEF DrawOK, DrawFields
  <2>3. Layer(e) = Layer(d)
    BY <2>2 DEF Layer
  <2>4. d.bkg # <<>> /\ d.bkg \in Seq(Entries)
    BY <1>2 DEF Underflow, DrawOK
  <2> DEFINE n == Len(d.bkg)
  <2> DEFINE total == d.fetcherX * Tile
  <2>5. n \in Nat /\ n > 0 /\ Len(e.bkg) = n - 1
        /\ \A i \in 1 .. n - 1 : e.bkg[i] = d.bkg[i + 1]
    BY <2>2, <2>4
  <2>6. total \in Int
    BY DEF DrawOK
  <2>7. \A i \in 1 .. n : d.bkg[i] = [layer |-> Layer(d), n |-> total - n + i - 1]
    BY DEF PipeOK
  <2> HIDE DEF n, total
  <2>8. \A i \in 1 .. n - 1 :
          e.bkg[i] = [layer |-> Layer(e), n |-> total - (n - 1) + i - 1]
    <3> SUFFICES ASSUME NEW i \in 1 .. n - 1
                 PROVE  e.bkg[i] = [layer |-> Layer(e), n |-> total - (n - 1) + i - 1]
      OBVIOUS
    <3>1. i + 1 \in 1 .. n /\ total - n + (i + 1) - 1 = total - (n - 1) + i - 1
      BY <2>5, <2>6
    <3>2. e.bkg[i] = [layer |-> Layer(d), n |-> total - n + (i + 1) - 1]
      BY <2>5, <2>7, <3>1
    <3> QED
      BY <2>3, <3>1, <3>2
  <2>9. ~e.stall /\ (e.fetcher.state # "idle" =>
          e.fetcher.layer = Layer(e) /\ e.fetcher.n = e.fetcherX * Tile)
    BY <2>2, <2>3 DEF PipeOK
  <2>10. \A i \in 1 .. Len(e.bkg) :
           e.bkg[i] = [layer |-> Layer(e), n |-> e.fetcherX * Tile - Len(e.bkg) + i - 1]
    <3>1. Len(e.bkg) = n - 1 /\ e.fetcherX * Tile = total
      BY <2>2, <2>5 DEF total
    <3> QED
      BY <2>8, <3>1
  <2>11. PipeOK(e)
    BY <2>9, <2>10 DEF PipeOK
  <2> QED
    BY <2>2, <2>9, <2>11 DEF e
<1> QED
  BY <1>1, <1>2

\* The eight pixels pushed are those that come next behind the FIFO.
LEMMA BkgStagePipe ==
  ASSUME NEW d, DrawOK(d), PipeOK(d), ~d.stall, ly \in Nat
  PROVE  /\ PipeOK(BkgStage(d)) /\ ~BkgStage(d).stall
         /\ BkgStage(d).fetched = d.fetched
<1> DEFINE f == FetcherStep(d.fetcher)
<1> DEFINE longer == d.bkg \o Pixels(f)
<1> DEFINE pushed == [d EXCEPT !.bkg = longer, !.fetcherX = d.fetcherX + 1]
<1> DEFINE good(e) == PipeOK(e) /\ ~e.stall /\ e.fetched = d.fetched
<1> DEFINE inOrder(e) ==
      \A i \in 1 .. Len(e.bkg) :
        e.bkg[i] = [layer |-> Layer(e), n |-> e.fetcherX * Tile - Len(e.bkg) + i - 1]
<1>1. /\ FetcherOK(d.fetcher) /\ FetcherOK(f)
      /\ d.fetcher.state # "idle" =>
           d.fetcher.layer = Layer(d) /\ d.fetcher.n = d.fetcherX * Tile
  BY StepOK DEF DrawOK, PipeOK
<1>2. f.state # "idle" => f.layer = Layer(d) /\ f.n = d.fetcherX * Tile
  <2>1. /\ f.layer = d.fetcher.layer /\ f.n = d.fetcher.n
        /\ d.fetcher.state = "idle" => f.state = "idle"
    BY <1>1, StepKeepsFetch
  <2> HIDE DEF f
  <2> QED
    BY <1>1, <2>1
<1>3. DOMAIN d = DrawFields /\ d.fetcherX \in Nat /\ d.bkg \in Seq(Entries)
  BY DEF DrawOK
<1>4. inOrder(d)
  BY DEF PipeOK
<1>5. ASSUME NEW e, DOMAIN e = DrawFields, e.fetcherX \in Nat, ~e.stall, e.fetched = d.fetched,
             inOrder(e), NEW g, g.state # "idle" => g.layer = Layer(e) /\ g.n = e.fetcherX * Tile
      PROVE  good([e EXCEPT !.fetcher = g])
  <2> DEFINE h == [e EXCEPT !.fetcher = g]
  <2>1. /\ h.fetcher = g /\ h.fetcherX = e.fetcherX /\ h.bkg = e.bkg /\ h.win = e.win
        /\ h.stall = e.stall /\ h.fetched = e.fetched
    BY <1>5 DEF DrawFields
  <2> HIDE DEF h
  <2>2. Layer(h) = Layer(e)
    BY <2>1 DEF Layer
  <2>3. inOrder(h)
    BY <1>5, <2>1, <2>2
  <2>4. h.fetcher.state # "idle" => h.fetcher.layer = Layer(h) /\ h.fetcher.n = h.fetcherX * Tile
    BY <1>5, <2>1, <2>2
  <2>5. ~h.stall /\ h.fetched = d.fetched
    BY <1>5, <2>1
  <2>6. good(h)
    BY <2>3, <2>4, <2>5 DEF PipeOK
  <2> QED
    BY <2>6 DEF h
<1>6. ASSUME NEW e, DOMAIN e = DrawFields, e.fetcherX \in Nat, ~e.stall, e.fetched = d.fetched,
             inOrder(e)
      PROVE  good(FetchTile(e))
  <2> DEFINE g == Fetch(Layer(e), e.fetcherX * Tile, ly % Tile)
  <2>1. Layer(e) \in Layers
    BY DEF Layer, Layers
  <2>2. e.fetcherX * Tile \in Nat
    BY <1>6
  <2>3. g.layer = Layer(e) /\ g.n = e.fetcherX * Tile
    BY <2>1, <2>2, FetchFields
  <2> HIDE DEF g, good, inOrder
  <2>4. good([e EXCEPT !.fetcher = g])
    BY <1>5, <1>6, <2>3
  <2> QED
    BY <2>4 DEF FetchTile, g
<1>7. ASSUME f.state # "idle"
      PROVE  /\ DOMAIN pushed = DrawFields /\ pushed.fetcherX \in Nat
             /\ ~pushed.stall /\ pushed.fetched = d.fetched /\ inOrder(pushed)
  <2>1. /\ DOMAIN pushed = DrawFields /\ pushed.fetcherX = d.fetcherX + 1
        /\ pushed.bkg = longer /\ pushed.win = d.win /\ pushed.stall = d.stall
        /\ pushed.fetched = d.fetched
    <3> HIDE DEF longer
    <3> QED
      BY <1>3 DEF DrawFields
  <2> HIDE DEF pushed
  <2>2. Layer(pushed) = Layer(d)
    BY <2>1 DEF Layer
  <2> DEFINE n == Len(d.bkg)
  <2> DEFINE total == d.fetcherX * Tile
  <2>3. n \in Nat /\ total \in Nat /\ Tile \in Nat
    BY <1>3, SizesAssumption
  <2>4. /\ Pixels(f) \in Seq(Entries) /\ Len(Pixels(f)) = Tile
        /\ \A i \in 1 .. Tile : Pixels(f)[i] = [layer |-> f.layer, n |-> f.n + i - 1]
    <3>1. \A i \in 1 .. Tile : [layer |-> f.layer, n |-> f.n + i - 1] \in Entries
      BY <1>1 DEF FetcherOK, Entries
    <3> HIDE DEF f
    <3> QED
      BY <3>1 DEF Pixels
  <2>5. /\ Len(longer) = n + Tile
        /\ \A i \in 1 .. n : longer[i] = d.bkg[i]
        /\ \A i \in 1 .. Tile : longer[n + i] = Pixels(f)[i]
    <3> DEFINE px == Pixels(f)
    <3>1. px \in Seq(Entries) /\ Len(px) = Tile /\ d.bkg \in Seq(Entries)
      BY <1>3, <2>4
    <3> HIDE DEF px, f
    <3>2. /\ Len(d.bkg \o px) = n + Tile
          /\ \A i \in 1 .. n : (d.bkg \o px)[i] = d.bkg[i]
          /\ \A i \in 1 .. Tile : (d.bkg \o px)[n + i] = px[i]
      BY <3>1
    <3> QED
      BY <3>2 DEF px
  <2>6. (d.fetcherX + 1) * Tile = total + Tile
    BY <1>3, <2>3
  <2>7. \A i \in 1 .. n : d.bkg[i] = [layer |-> Layer(d), n |-> total - n + i - 1]
    BY <1>4
  <2>8. f.layer = Layer(d) /\ f.n = total
    BY <1>2, <1>7
  <2> HIDE DEF n, total, longer, f
  <2>9. \A i \in 1 .. n + Tile :
          longer[i] = [layer |-> Layer(d), n |-> (total + Tile) - (n + Tile) + i - 1]
    <3> SUFFICES ASSUME NEW i \in 1 .. n + Tile
                 PROVE  longer[i] = [layer |-> Layer(d),
                                     n |-> (total + Tile) - (n + Tile) + i - 1]
      OBVIOUS
    <3>1. CASE i <= n
      <4>1. i \in 1 .. n /\ (total + Tile) - (n + Tile) + i - 1 = total - n + i - 1
        BY <2>3, <3>1
      <4> QED
        BY <2>5, <2>7, <4>1
    <3>2. CASE i > n
      <4> DEFINE j == i - n
      <4>1. j \in 1 .. Tile /\ n + j = i
            /\ (total + Tile) - (n + Tile) + i - 1 = total + j - 1
        BY <2>3, <3>2
      <4> HIDE DEF j
      <4>2. longer[i] = [layer |-> f.layer, n |-> f.n + j - 1]
        BY <2>4, <2>5, <4>1
      <4> QED
        BY <2>8, <4>1, <4>2
    <3> QED
      BY <2>3, <3>1, <3>2
  <2>10. pushed.fetcherX * Tile = total + Tile /\ Len(pushed.bkg) = n + Tile
    BY <2>1, <2>5, <2>6
  <2>11. inOrder(pushed)
    BY <2>1, <2>2, <2>9, <2>10
  <2>12. pushed.fetcherX \in Nat
    BY <1>3, <2>1
  <2> HIDE DEF inOrder
  <2> QED
    BY <2>1, <2>11, <2>12
<1>8. BkgStage(d) = CASE f.state = "idle"     -> FetchTile(d)
                      [] f.state = "fetching" -> [d EXCEPT !.fetcher = f]
                      [] f.state = "ready"    -> IF HasRoom(d) THEN FetchTile(pushed)
                                                 ELSE [d EXCEPT !.fetcher = f]
  <2>1. pushed = [d EXCEPT !.bkg = @ \o Pixels(f), !.fetcherX = @ + 1]
    BY <1>3 DEF DrawFields
  <2> HIDE DEF pushed
  <2> QED
    BY <2>1 DEF BkgStage
<1>9. f.state \in {"idle", "fetching", "ready"}
  BY <1>1 DEF FetcherOK
<1> SUFFICES good(BkgStage(d))
  OBVIOUS
<1> HIDE DEF f, pushed, longer, good, inOrder
<1>10. good(FetchTile(d))
  BY <1>3, <1>4, <1>6
<1>11. good([d EXCEPT !.fetcher = f])
  BY <1>2, <1>3, <1>4, <1>5
<1>12. CASE f.state = "idle"
  BY <1>8, <1>10, <1>12
<1>13. CASE f.state = "fetching"
  BY <1>8, <1>11, <1>13
<1>14. CASE f.state = "ready"
  <2>1. BkgStage(d) = IF HasRoom(d) THEN FetchTile(pushed) ELSE [d EXCEPT !.fetcher = f]
    BY <1>8, <1>14
  <2>2. good(FetchTile(pushed))
    BY <1>6, <1>7, <1>14
  <2> QED
    BY <1>11, <2>1, <2>2
<1> QED
  BY <1>9, <1>12, <1>13, <1>14

\* One dot of drawing: the pipeline stays in order, and a pixel is written only when
\* no object at its column is left to be fetched.
LEMMA DrawnPipe ==
  ASSUME NEW d, DrawOK(d), PipeOK(d), Len(scan.selected) \in 0 .. MaxSelected, ly \in Nat
  PROVE  /\ PipeOK(Drawn(d))
         /\ LET o == ObjStage(d)
            IN  \/ Drawn(d) = o /\ o.stall
                \/ /\ ~o.stall
                   /\ Drawn(d).fetched = o.fetched /\ Drawn(d).lx \in {d.lx, d.lx + 1}
<1> DEFINE o == ObjStage(d)
<1> DEFINE w == WindowStage(o)
<1> DEFINE p == PixelStage(w)
<1>1. DrawOK(o) /\ PipeOK(o) /\ o.lx = d.lx
  BY ObjStageOK, ObjStagePipe
<1>2. Drawn(d) = IF o.stall THEN o ELSE BkgStage(p)
  BY DEF Drawn
<1>3. Drawn(d).lx \in {d.lx, d.lx + 1}
  BY DrawnOK
<1> HIDE DEF o
<1>4. CASE o.stall
  BY <1>1, <1>2, <1>4 DEF o
<1>5. CASE ~o.stall
  <2>1. DrawOK(w) /\ PipeOK(w) /\ ~w.stall /\ w.fetched = o.fetched
    BY <1>1, <1>5, WindowStageOK, WindowStagePipe
  <2> HIDE DEF w
  <2>2. DrawOK(p) /\ PipeOK(p) /\ ~p.stall /\ p.fetched = o.fetched
    BY <2>1, PixelStageOK, PixelStagePipe
  <2> HIDE DEF p
  <2>3. PipeOK(BkgStage(p)) /\ BkgStage(p).fetched = o.fetched
    BY <2>2, BkgStagePipe
  <2> QED
    BY <1>2, <1>3, <1>5, <2>3 DEF o
<1> QED
  BY <1>4, <1>5

\* No object is left behind: those not fetched lie ahead of the column drawn next.
LEMMA DrawnAhead ==
  ASSUME NEW d, DrawOK(d), PipeOK(d), AheadOK(d), Len(scan.selected) \in 0 .. MaxSelected,
         ly \in Nat, scan.selected \in Seq(Objects), Sorted(scan.selected)
  PROVE  /\ AheadOK(Drawn(d))
         /\ Drawn(d).lx > d.lx /\ regs.objOn =>
              \A k \in 1 .. Len(scan.selected) :
                k > Drawn(d).fetched => scan.selected[k].x - Tile > d.lx
<1> DEFINE o == ObjStage(d)
<1> DEFINE e == Drawn(d)
<1>1. /\ DrawOK(o) /\ o.lx = d.lx /\ o.fetched \in {d.fetched, d.fetched + 1}
      /\ ~o.stall => ~HasObj(o)
  BY ObjStageOK, ObjStageFields
<1>2. \/ e = o /\ o.stall
      \/ ~o.stall /\ e.fetched = o.fetched /\ e.lx \in {d.lx, d.lx + 1}
  BY DrawnPipe
<1>3. d.fetched \in Nat /\ d.lx \in Nat /\ Tile \in Nat
  BY SizesAssumption DEF DrawOK
<1> HIDE DEF o, e
<1>4. AheadOK(o)
  <2>1. \A k \in 1 .. Len(scan.selected) : k > o.fetched => k > d.fetched
    BY <1>1, <1>3
  <2> QED
    BY <1>1, <2>1 DEF AheadOK
<1>5. CASE o.stall
  <2>1. e = o
    BY <1>2, <1>5
  <2>2. ~(e.lx > d.lx)
    BY <1>1, <1>3, <2>1
  <2> QED
    BY <1>4, <2>1, <2>2 DEF e
<1>6. CASE ~o.stall
  <2>1. e.fetched = o.fetched /\ e.lx \in {d.lx, d.lx + 1} /\ ~HasObj(o)
    BY <1>1, <1>2, <1>6
  <2>2. regs.objOn => \A k \in 1 .. Len(scan.selected) :
          k > e.fetched => scan.selected[k].x - Tile > d.lx
    BY <1>1, <1>4, <2>1, NoneHere
  <2>3. \A k \in 1 .. Len(scan.selected) : scan.selected[k].x \in Nat
    <3>1. \A k \in 1 .. Len(scan.selected) : scan.selected[k] \in Objects
      OBVIOUS
    <3> QED
      BY <3>1, ObjectFields
  <2>4. AheadOK(e)
    <3> SUFFICES ASSUME regs.objOn, NEW k \in 1 .. Len(scan.selected), k > e.fetched
                 PROVE  scan.selected[k].x - Tile >= e.lx
      BY DEF AheadOK
    <3>1. scan.selected[k].x - Tile > d.lx /\ scan.selected[k].x \in Nat
      BY <2>2, <2>3
    <3> QED
      BY <1>3, <2>1, <3>1
  <2> QED
    BY <2>2, <2>4 DEF e
<1> QED
  BY <1>5, <1>6

PipeUndisturbed == mode = "draw" => regs'.objOn = regs.objOn

\* The predicates look at one bit of LCDC and at the selected objects.
LEMMA PipeKept ==
  ASSUME regs'.objOn = regs.objOn, scan'.selected = scan.selected
  PROVE  /\ PipeOK(draw') => PipeOK(draw)'
         /\ AheadOK(draw') => AheadOK(draw)'
BY DEF PipeOK, AheadOK, HasObj, Layer

LEMMA StepKeepsPipe ==
  ASSUME Inv, ScanInv, PipeInv, [Next]_vars, PipeUndisturbed
  PROVE  PipeInv'
<1>1. CASE OamSelect
  <2>1. draw' = EmptyDraw \/ mode' # "draw"
    BY <1>1 DEF OamSelect, Begin
  <2>2. scan'.selected \in Seq(Objects)
    BY StepKeepsScan DEF ScanInv
  <2>3. ASSUME draw' = EmptyDraw PROVE (PipeOK(draw) /\ AheadOK(draw))'
    <3>1. /\ draw'.stall = FALSE /\ draw'.fetcher.state = "idle" /\ draw'.bkg = <<>>
          /\ draw'.lx = 0
      BY <2>3 DEF EmptyDraw, Idle
    <3>2. Len(draw'.bkg) = 0 /\ 1 .. 0 = {}
      BY <3>1
    <3>3. PipeOK(draw)'
      BY <3>1, <3>2 DEF PipeOK
    <3>4. \A k \in 1 .. Len(scan'.selected) : scan'.selected[k].x \in Nat
      <4>1. \A k \in 1 .. Len(scan'.selected) : scan'.selected[k] \in Objects
        BY <2>2
      <4> QED
        BY <4>1, ObjectFields
    <3>5. \A k \in 1 .. Len(scan'.selected) :
            scan'.selected[k].x - Tile >= 0 \/ scan'.selected[k].x < Tile
      BY <3>4, SizesAssumption
    <3>6. AheadOK(draw)'
      BY <3>1, <3>5 DEF AheadOK
    <3> QED
      BY <3>3, <3>6
  <2> QED
    BY <2>1, <2>3 DEF PipeInv
<1>2. CASE Draw
  <2>1. /\ mode = "draw" /\ draw' = Drawn(draw) /\ UNCHANGED <<regs, scan>>
        /\ PipeOK(draw) /\ AheadOK(draw)
    BY <1>2 DEF Draw, Begin, PipeInv
  <2>2. DrawOK(draw) /\ Len(scan.selected) \in 0 .. MaxSelected /\ ly \in Nat
    BY DEF Inv
  <2>3. scan.selected \in Seq(Objects) /\ Sorted(scan.selected)
    BY DEF ScanInv
  <2>4. PipeOK(draw') /\ AheadOK(draw')
    BY <2>1, <2>2, <2>3, DrawnPipe, DrawnAhead
  <2> QED
    BY <2>1, <2>4, PipeKept DEF PipeInv
<1>3. CASE HBlankWait \/ HBlankEnd \/ VBlankWait \/ VBlankLine \/ VBlankEnd \/ OamFetch
  BY <1>3 DEF HBlankWait, HBlankEnd, VBlankWait, VBlankLine, VBlankEnd, OamFetch, StartScan,
              Begin, PipeInv
<1>4. ASSUME mode' = mode, draw' = draw, scan' = scan PROVE PipeInv'
  BY <1>4, PipeKept DEF PipeInv, PipeUndisturbed
<1>5. ASSUME NEW r \in DOMAIN Values, WriteRegister(r) PROVE PipeInv'
  BY <1>4, <1>5 DEF WriteRegister
<1>6. CASE WriteOam
  BY <1>4, <1>6 DEF WriteOam
<1>7. CASE UNCHANGED vars
  BY <1>4, <1>7 DEF vars
<1> QED
  BY <1>1, <1>2, <1>3, <1>5, <1>6, <1>7 DEF Next, Dot

LEMMA PipeAlways ==
  Spec /\ [][mode = "draw" => regs'.objOn = regs.objOn]_vars => [](Inv /\ ScanInv /\ PipeInv)
<1>1. Init => PipeInv
  BY DEF Init, PipeInv
<1>2. Inv /\ ScanInv /\ [Next]_vars => ScanInv'
  BY StepKeepsScan
<1>3. Inv /\ ScanInv /\ PipeInv /\ [Next]_vars /\ PipeUndisturbed => PipeInv'
  BY StepKeepsPipe
<1>4. UNCHANGED vars => PipeUndisturbed
  BY DEF vars, PipeUndisturbed
<1>5. PipeUndisturbed <=> (mode = "draw" => regs'.objOn = regs.objOn)
  BY DEF PipeUndisturbed
<1> QED
  BY Invariance, InitScan, <1>1, <1>2, <1>3, <1>4, <1>5, PTL DEF Spec

\* Object fetches and changes of the layer lose no pixel of the background FIFO and add
\* none (bkg_rendering, obj_rendering and fetcher_reset, ppu.c), provided that the
\* objects are not switched on or off while the line is drawn.
THEOREM BkgInOrder ==
  Spec /\ [][mode = "draw" => regs'.objOn = regs.objOn]_vars => []BkgFifoInOrder
<1>1. PipeInv => BkgFifoInOrder
  BY DEF PipeInv, PipeOK, BkgFifoInOrder
<1> QED
  BY <1>1, PipeAlways, PTL

\* Under the same condition no pixel is written before the objects at its column are
\* fetched and mixed (draw(), ppu.c:406).
THEOREM ObjsFetched ==
  Spec /\ [][mode = "draw" => regs'.objOn = regs.objOn]_vars => AllObjsFetched
<1>1. ASSUME Inv, ScanInv, PipeInv, [Next]_vars, draw'.lx > draw.lx, regs.objOn,
             NEW k \in 1 .. Len(scan.selected),
             LET x == scan.selected[k].x
             IN  (x < Tile /\ draw.lx = 0) \/ x - Tile = draw.lx
      PROVE  k <= draw'.fetched
  <2>1. draw.lx \in Nat /\ DrawOK(draw)
    BY <1>1 DEF Inv, DrawOK
  <2>2. CASE Draw
    <3>1. /\ draw' = Drawn(draw) /\ PipeOK(draw) /\ AheadOK(draw)
          /\ Len(scan.selected) \in 0 .. MaxSelected /\ ly \in Nat
          /\ scan.selected \in Seq(Objects) /\ Sorted(scan.selected)
      BY <1>1, <2>2 DEF Draw, Begin, PipeInv, Inv, ScanInv
    <3>2. k > draw'.fetched => scan.selected[k].x - Tile > draw.lx
      BY <1>1, <2>1, <3>1, DrawnAhead
    <3>3. scan.selected[k] \in Objects
      BY <3>1
    <3>4. scan.selected[k].x \in Nat
      BY <3>3, ObjectFields
    <3>5. draw'.fetched \in Nat
      <4>1. DrawOK(draw')
        BY <2>1, <3>1, DrawnOK
      <4>2. draw'.fetched \in 0 .. MaxSelected
        BY <4>1 DEF DrawOK
      <4> QED
        BY <4>2
    <3>6. ~(scan.selected[k].x - Tile > draw.lx)
      BY <1>1, <2>1, <3>4, SizesAssumption
    <3> QED
      BY <3>2, <3>5, <3>6
  <2>3. CASE OamSelect
    <3>1. draw' = draw \/ draw'.lx = 0
      BY <2>3 DEF OamSelect, EmptyDraw
    <3> QED
      BY <1>1, <2>1, <3>1
  <2>4. CASE draw' = draw
    BY <1>1, <2>1, <2>4
  <2> QED
    BY <1>1, <2>2, <2>3, <2>4
       DEF Next, Dot, HBlankWait, HBlankEnd, VBlankWait, VBlankLine, VBlankEnd, OamFetch,
           WriteRegister, WriteOam, vars
<1>2. Inv /\ ScanInv /\ PipeInv /\ [Next]_vars =>
        (draw'.lx > draw.lx /\ regs.objOn =>
           \A k \in 1 .. Len(scan.selected) :
             LET x == scan.selected[k].x
             IN  (x < Tile /\ draw.lx = 0) \/ x - Tile = draw.lx => k <= draw'.fetched)
  BY <1>1
<1> QED
  BY <1>2, PipeAlways, PTL DEF Spec, AllObjsFetched

(***************************************************************************)
(* The time a line takes.                                                  *)
(***************************************************************************)

LEMMA StepRest ==
  ASSUME NEW f, FetcherOK(f), FetchRuns(f)
  PROVE  LET g == FetcherStep(f)
         IN  /\ FetchRuns(g)
             /\ Rest(f) \in 1 .. ReadyStep
             /\ g.state = "idle" => Rest(f) = ReadyStep
             /\ g.state = "fetching" => Rest(g) = Rest(f) - 1
             /\ g.state = "ready" => Rest(f) = 1 /\ Rest(g) = 1
<1> DEFINE g == FetcherStep(f)
<1>1. ReadyStep \in Nat /\ ReadyStep > 1
  BY SizesAssumption
<1>2. CASE f.state = "fetching"
  <2>1. f.step \in 1 .. ReadyStep - 1 /\ Rest(f) = ReadyStep - f.step
    BY <1>2 DEF FetchRuns, Rest
  <2>2. g = [f EXCEPT !.step = @ + 1,
                      !.state = IF f.step + 1 = ReadyStep THEN "ready" ELSE @]
    BY <1>2 DEF FetcherStep
  <2> HIDE DEF g
  <2>3. g.step = f.step + 1 /\ g.state = IF f.step + 1 = ReadyStep THEN "ready" ELSE "fetching"
    BY <1>2, <2>2 DEF FetcherOK, FetcherFields
  <2>4. CASE f.step + 1 = ReadyStep
    BY <1>1, <2>1, <2>3, <2>4 DEF FetchRuns, Rest, g
  <2>5. CASE f.step + 1 # ReadyStep
    <3>1. g.state = "fetching" /\ g.step = f.step + 1 /\ g.step \in 1 .. ReadyStep - 1
      BY <1>1, <2>1, <2>3, <2>5
    <3>2. Rest(g) = ReadyStep - g.step
      BY <3>1 DEF Rest
    <3>3. Rest(g) = Rest(f) - 1 /\ Rest(f) \in 1 .. ReadyStep
      BY <1>1, <2>1, <3>1, <3>2
    <3> QED
      BY <3>1, <3>3 DEF FetchRuns, g
  <2> QED
    BY <2>4, <2>5
<1>3. CASE f.state # "fetching"
  <2>1. g = f /\ f.state \in {"idle", "ready"}
    BY <1>3 DEF FetcherStep, FetcherOK
  <2> QED
    BY <1>1, <2>1 DEF FetchRuns, Rest
<1> QED
  BY <1>2, <1>3

LEMMA FetchRest ==
  ASSUME NEW layer \in Layers, NEW n \in Nat, NEW row
  PROVE  LET g == Fetch(layer, n, row)
         IN  FetchRuns(g) /\ Rest(g) = ReadyStep - 1
<1> DEFINE f == [state |-> "fetching", step |-> 0, layer |-> layer, n |-> n, row |-> row]
<1>1. FetcherOK(f) /\ f.state = "fetching" /\ f.step = 0
  BY DEF FetcherOK, FetcherFields
<1> HIDE DEF f
<1> DEFINE g == FetcherStep(f)
<1>2. g = [f EXCEPT !.step = @ + 1,
                    !.state = IF f.step + 1 = ReadyStep THEN "ready" ELSE @]
  BY <1>1 DEF FetcherStep
<1> HIDE DEF g
<1>3. g.step = f.step + 1 /\ g.state = IF f.step + 1 = ReadyStep THEN "ready" ELSE "fetching"
  BY <1>1, <1>2 DEF FetcherOK, FetcherFields
<1>4. g.step = 1 /\ g.state = "fetching"
  BY <1>1, <1>3, SizesAssumption
<1>5. FetchRuns(g) /\ Rest(g) = ReadyStep - 1
  BY <1>4, SizesAssumption DEF FetchRuns, Rest
<1> QED
  BY <1>5 DEF Fetch, f, g

LEMMA IdleRest == FetchRuns(Idle) /\ Rest(Idle) = ReadyStep
BY DEF FetchRuns, Rest, Idle

\* The stage of the background: the fetch goes on, or is pushed, or waits for room.
LEMMA BkgStageFields ==
  ASSUME NEW d, DrawOK(d), FetchRuns(d.fetcher), ly \in Nat
  PROVE  LET e == BkgStage(d)
         IN  /\ e.win = d.win /\ e.lx = d.lx /\ e.stall = d.stall /\ e.fetched = d.fetched
             /\ FetchRuns(e.fetcher)
             /\ Rest(d.fetcher) \in 1 .. ReadyStep
             /\ \/ Len(e.bkg) = Len(d.bkg) /\ Rest(e.fetcher) = Rest(d.fetcher) - 1
                \/ /\ Rest(d.fetcher) = 1 /\ Rest(e.fetcher) = ReadyStep - 1
                   /\ Len(e.bkg) = Len(d.bkg) + Tile
                \/ /\ Rest(d.fetcher) = 1 /\ Rest(e.fetcher) = 1
                   /\ Len(e.bkg) = Len(d.bkg) /\ Len(d.bkg) > Tile
<1> DEFINE f == FetcherStep(d.fetcher)
<1> DEFINE longer == d.bkg \o Pixels(f)
<1> DEFINE pushed == [d EXCEPT !.bkg = longer, !.fetcherX = d.fetcherX + 1]
<1> DEFINE good(e) ==
      /\ e.win = d.win /\ e.lx = d.lx /\ e.stall = d.stall /\ e.fetched = d.fetched
      /\ FetchRuns(e.fetcher)
      /\ \/ Len(e.bkg) = Len(d.bkg) /\ Rest(e.fetcher) = Rest(d.fetcher) - 1
         \/ /\ Rest(d.fetcher) = 1 /\ Rest(e.fetcher) = ReadyStep - 1
            /\ Len(e.bkg) = Len(d.bkg) + Tile
         \/ /\ Rest(d.fetcher) = 1 /\ Rest(e.fetcher) = 1
            /\ Len(e.bkg) = Len(d.bkg) /\ Len(d.bkg) > Tile
<1>1. DOMAIN d = DrawFields /\ d.fetcherX \in Nat /\ d.bkg \in Seq(Entries)
      /\ FetcherOK(d.fetcher)
  BY DEF DrawOK
<1>2. FetcherOK(f)
  BY <1>1, StepOK
<1>3. /\ FetchRuns(f) /\ Rest(d.fetcher) \in 1 .. ReadyStep
      /\ f.state = "idle" => Rest(d.fetcher) = ReadyStep
      /\ f.state = "fetching" => Rest(f) = Rest(d.fetcher) - 1
      /\ f.state = "ready" => Rest(d.fetcher) = 1 /\ Rest(f) = 1
  BY <1>1, StepRest
<1>4. ASSUME NEW e, DOMAIN e = DrawFields, NEW g
      PROVE  LET h == [e EXCEPT !.fetcher = g]
             IN  /\ h.win = e.win /\ h.lx = e.lx /\ h.stall = e.stall
                 /\ h.fetched = e.fetched /\ h.bkg = e.bkg /\ h.fetcher = g
  BY <1>4 DEF DrawFields
<1>5. ASSUME NEW e, DOMAIN e = DrawFields, e.fetcherX \in Nat
      PROVE  LET h == FetchTile(e)
             IN  /\ h.win = e.win /\ h.lx = e.lx /\ h.stall = e.stall
                 /\ h.fetched = e.fetched /\ h.bkg = e.bkg
                 /\ FetchRuns(h.fetcher) /\ Rest(h.fetcher) = ReadyStep - 1
  <2> DEFINE g == Fetch(Layer(e), e.fetcherX * Tile, ly % Tile)
  <2>1. Layer(e) \in Layers /\ e.fetcherX * Tile \in Nat
    BY <1>5 DEF Layer, Layers
  <2>2. FetchRuns(g) /\ Rest(g) = ReadyStep - 1
    BY <2>1, FetchRest
  <2> HIDE DEF g
  <2>3. FetchTile(e) = [e EXCEPT !.fetcher = g]
    BY DEF FetchTile, g
  <2> QED
    BY <1>4, <1>5, <2>2, <2>3
<1>6. BkgStage(d) = CASE f.state = "idle"     -> FetchTile(d)
                      [] f.state = "fetching" -> [d EXCEPT !.fetcher = f]
                      [] f.state = "ready"    -> IF HasRoom(d) THEN FetchTile(pushed)
                                                 ELSE [d EXCEPT !.fetcher = f]
  <2>1. pushed = [d EXCEPT !.bkg = @ \o Pixels(f), !.fetcherX = @ + 1]
    BY <1>1 DEF DrawFields
  <2> HIDE DEF pushed
  <2> QED
    BY <2>1 DEF BkgStage
<1>7. f.state \in {"idle", "fetching", "ready"}
  BY <1>2 DEF FetcherOK
<1> SUFFICES good(BkgStage(d))
  BY <1>3
<1>8. /\ DOMAIN pushed = DrawFields /\ pushed.fetcherX \in Nat
      /\ pushed.win = d.win /\ pushed.lx = d.lx /\ pushed.stall = d.stall
      /\ pushed.fetched = d.fetched /\ Len(pushed.bkg) = Len(d.bkg) + Tile
  <2>1. /\ DOMAIN pushed = DrawFields /\ pushed.fetcherX = d.fetcherX + 1
        /\ pushed.win = d.win /\ pushed.lx = d.lx /\ pushed.stall = d.stall
        /\ pushed.fetched = d.fetched /\ pushed.bkg = longer
    <3> HIDE DEF longer
    <3> QED
      BY <1>1 DEF DrawFields
  <2>2. Len(longer) = Len(d.bkg) + Tile
    <3> DEFINE px == Pixels(f)
    <3>1. px \in Seq(Entries) /\ Len(px) = Tile
      <4>1. \A i \in 1 .. Tile : [layer |-> f.layer, n |-> f.n + i - 1] \in Entries
        BY <1>2 DEF FetcherOK, Entries
      <4>2. Tile \in Nat
        BY SizesAssumption
      <4> HIDE DEF f
      <4> QED
        BY <4>1, <4>2 DEF Pixels
    <3> HIDE DEF px
    <3>2. Len(d.bkg \o px) = Len(d.bkg) + Tile
      BY <1>1, <3>1
    <3> QED
      BY <3>2 DEF px
  <2> HIDE DEF pushed, longer
  <2> QED
    BY <1>1, <2>1, <2>2
<1> HIDE DEF f, pushed, longer
<1>9. CASE f.state = "idle"
  <2>1. BkgStage(d) = FetchTile(d)
    BY <1>6, <1>9
  <2> QED
    BY <1>1, <1>3, <1>5, <1>9, <2>1
<1>10. CASE f.state = "fetching"
  <2>1. BkgStage(d) = [d EXCEPT !.fetcher = f]
    BY <1>6, <1>10
  <2> QED
    BY <1>1, <1>3, <1>4, <1>10, <2>1
<1>11. CASE f.state = "ready"
  <2>1. BkgStage(d) = IF HasRoom(d) THEN FetchTile(pushed) ELSE [d EXCEPT !.fetcher = f]
    BY <1>6, <1>11
  <2>2. CASE HasRoom(d)
    <3>1. BkgStage(d) = FetchTile(pushed)
      BY <2>1, <2>2
    <3> QED
      BY <1>3, <1>5, <1>8, <1>11, <3>1
  <2>3. CASE ~HasRoom(d)
    <3>1. BkgStage(d) = [d EXCEPT !.fetcher = f]
      BY <2>1, <2>3
    <3>2. Len(d.bkg) > Tile
      BY <1>1, <2>3, SizesAssumption DEF HasRoom
    <3> QED
      BY <1>1, <1>3, <1>4, <1>11, <3>1, <3>2
  <2> QED
    BY <2>2, <2>3
<1> QED
  BY <1>7, <1>9, <1>10, <1>11

LEMMA PixelStageFields ==
  ASSUME NEW d, DrawOK(d)
  PROVE  LET e == PixelStage(d)
             behind == Behind(d)
         IN  /\ e.win = d.win /\ e.stall = d.stall /\ e.fetched = d.fetched
             /\ e.fetcher = d.fetcher
             /\ \/ Len(d.bkg) <= behind /\ e.lx = d.lx /\ Len(e.bkg) = Len(d.bkg)
                \/ Len(d.bkg) > behind /\ e.lx = d.lx + 1 /\ Len(e.bkg) = Len(d.bkg) - 1
<1>1. CASE Underflow(d)
  <2>1. PixelStage(d) = d
    BY <1>1 DEF PixelStage
  <2>2. Len(d.bkg) <= IF d.win THEN 0 ELSE Tile
    BY <1>1 DEF Underflow
  <2> QED
    BY <2>1, <2>2 DEF Behind
<1>2. CASE ~Underflow(d)
  <2> DEFINE e == PixelStage(d)
  <2> DEFINE rest == IF d.obj = <<>> THEN d.obj ELSE Tail(d.obj)
  <2>1. e = [d EXCEPT !.bkg = Tail(d.bkg), !.obj = rest, !.lx = d.lx + 1]
    BY <1>2 DEF PixelStage, DrawOK, DrawFields
  <2> HIDE DEF e, rest
  <2>2. /\ e.fetcher = d.fetcher /\ e.fetched = d.fetched /\ e.lx = d.lx + 1
        /\ e.win = d.win /\ e.stall = d.stall /\ e.bkg = Tail(d.bkg)
    BY <2>1 DEF DrawOK, DrawFields
  <2>3. d.bkg \in Seq(Entries) /\ Tile \in Nat
    BY SizesAssumption DEF DrawOK
  <2>4. d.bkg # <<>> /\ Len(d.bkg) > IF d.win THEN 0 ELSE Tile
    <3>1. CASE d.win
      BY <1>2, <2>3, <3>1 DEF Underflow
    <3>2. CASE ~d.win
      <4>1. ~(Len(d.bkg) <= Tile)
        BY <1>2, <3>2 DEF Underflow
      <4> QED
        BY <2>3, <3>2, <4>1
    <3> QED
      BY <3>1, <3>2
  <2>5. Len(Tail(d.bkg)) = Len(d.bkg) - 1
    BY <2>3, <2>4
  <2> QED
    BY <2>2, <2>4, <2>5 DEF e, Behind
<1> QED
  BY <1>1, <1>2

\* Showing a pixel pays for itself, and so does waiting for one: what a fetch brings
\* lasts for the next one.
LEMMA ShownPays ==
  ASSUME NEW w, DrawOK(w), FetchRuns(w.fetcher), ~w.stall, ly \in Nat, ReadyStep <= Tile + 1
  PROVE  LET e == BkgStage(PixelStage(w))
         IN  /\ FetchRuns(e.fetcher) /\ e.win = w.win /\ e.lx \in {w.lx, w.lx + 1}
             /\ DotsLeft(e) <= DotsLeft(w) - 1
<1> DEFINE p == PixelStage(w)
<1> DEFINE e == BkgStage(p)
<1> DEFINE behind == Behind(w)
<1> DEFINE objects == Len(scan.selected) - w.fetched
<1> DEFINE paid == ObjDots * objects
<1>1. /\ p.win = w.win /\ p.stall = w.stall /\ p.fetched = w.fetched /\ p.fetcher = w.fetcher
      /\ \/ Len(w.bkg) <= behind /\ p.lx = w.lx /\ Len(p.bkg) = Len(w.bkg)
         \/ Len(w.bkg) > behind /\ p.lx = w.lx + 1 /\ Len(p.bkg) = Len(w.bkg) - 1
  BY PixelStageFields
<1>2. DrawOK(p)
  BY PixelStageOK
<1> HIDE DEF p
<1>3. /\ e.win = p.win /\ e.lx = p.lx /\ e.stall = p.stall /\ e.fetched = p.fetched
      /\ FetchRuns(e.fetcher)
      /\ Rest(p.fetcher) \in 1 .. ReadyStep
      /\ \/ Len(e.bkg) = Len(p.bkg) /\ Rest(e.fetcher) = Rest(p.fetcher) - 1
         \/ /\ Rest(p.fetcher) = 1 /\ Rest(e.fetcher) = ReadyStep - 1
            /\ Len(e.bkg) = Len(p.bkg) + Tile
         \/ /\ Rest(p.fetcher) = 1 /\ Rest(e.fetcher) = 1
            /\ Len(e.bkg) = Len(p.bkg) /\ Len(p.bkg) > Tile
  BY <1>1, <1>2, BkgStageFields
<1> HIDE DEF e
<1> DEFINE late == IF w.win THEN 0 ELSE ReadyStep
<1>4. DotsLeft(w) = (Width - w.lx) + late + (paid + Wasted(w, Rest(w.fetcher)))
  BY DEF DotsLeft
<1>5. DotsLeft(e) = (Width - e.lx) + late + (paid + Wasted(e, Rest(e.fetcher)))
  BY <1>1, <1>3 DEF DotsLeft
<1> DEFINE L == Len(w.bkg)
<1> DEFINE M == Len(e.bkg)
<1> DEFINE r == Rest(w.fetcher)
<1> DEFINE s == Rest(e.fetcher)
<1>6. Wasted(w, r) = IF r + behind > L THEN r + behind - L ELSE 0
  BY DEF Wasted
<1>7. Wasted(e, s) = IF s + behind > M THEN s + behind - M ELSE 0
  <2>1. Behind(e) = behind
    BY <1>1, <1>3 DEF Behind
  <2> HIDE DEF behind, s
  <2> QED
    BY <2>1 DEF Wasted
<1>8. /\ L \in Nat /\ w.lx \in Nat /\ Tile \in Nat /\ Tile > 0 /\ ReadyStep \in Nat
      /\ ReadyStep > 1 /\ behind \in {0, Tile} /\ late \in Nat /\ Width \in Nat
  BY SizesAssumption DEF DrawOK, Behind
<1>9. paid \in Int
  <2>1. objects \in Int /\ ObjDots \in Int
    BY <1>8 DEF DrawOK, ObjDots
  <2> HIDE DEF objects
  <2> QED
    BY <2>1
<1>10. /\ r \in 1 .. ReadyStep
       /\ \/ L <= behind /\ e.lx = w.lx
             /\ \/ M = L /\ s = r - 1
                \/ r = 1 /\ s = ReadyStep - 1 /\ M = L + Tile
                \/ r = 1 /\ s = 1 /\ M = L /\ L > Tile
          \/ L > behind /\ e.lx = w.lx + 1
             /\ \/ M = L - 1 /\ s = r - 1
                \/ r = 1 /\ s = ReadyStep - 1 /\ M = L - 1 + Tile
                \/ r = 1 /\ s = 1 /\ M = L - 1 /\ L - 1 > Tile
  <2>1. Rest(p.fetcher) = r
    BY <1>1
  <2>2. CASE Len(w.bkg) <= behind /\ p.lx = w.lx /\ Len(p.bkg) = Len(w.bkg)
    BY <1>3, <2>1, <2>2
  <2>3. CASE Len(w.bkg) > behind /\ p.lx = w.lx + 1 /\ Len(p.bkg) = Len(w.bkg) - 1
    BY <1>3, <2>1, <2>3
  <2> QED
    BY <1>1, <2>2, <2>3
<1> HIDE DEF behind, paid, late, L, M, r, s
<1>11. /\ e.lx = w.lx => Wasted(e, s) <= Wasted(w, r) - 1
       /\ e.lx = w.lx + 1 => Wasted(e, s) <= Wasted(w, r)
       /\ Wasted(e, s) \in Nat /\ Wasted(w, r) \in Nat
  BY <1>6, <1>7, <1>8, <1>10
<1>12. e.lx \in {w.lx, w.lx + 1}
  BY <1>10
<1> DEFINE u == Wasted(w, r)
<1> DEFINE v == Wasted(e, s)
<1>13. DotsLeft(w) = (Width - w.lx) + late + (paid + u)
  BY <1>4 DEF r
<1>14. DotsLeft(e) = (Width - e.lx) + late + (paid + v)
  BY <1>5 DEF s
<1> HIDE DEF u, v
<1>15. /\ e.lx = w.lx => v <= u - 1
       /\ e.lx = w.lx + 1 => v <= u
       /\ u \in Nat /\ v \in Nat
  BY <1>11 DEF u, v
<1>16. DotsLeft(e) <= DotsLeft(w) - 1
  BY <1>8, <1>9, <1>12, <1>13, <1>14, <1>15
<1>17. e.win = w.win
  BY <1>1, <1>3
<1> QED
  BY <1>3, <1>12, <1>16, <1>17 DEF e, p

LEMMA DotsLeftInt ==
  ASSUME NEW d, DrawOK(d), FetchRuns(d.fetcher), Len(scan.selected) \in Nat
  PROVE  DotsLeft(d) \in Int
<1> DEFINE objects == Len(scan.selected) - d.fetched
<1>1. /\ d.lx \in Nat /\ d.fetched \in Nat /\ Len(d.bkg) \in Nat /\ Width \in Nat
      /\ ReadyStep \in Nat /\ Tile \in Nat /\ FetcherOK(d.fetcher)
  BY SizesAssumption DEF DrawOK
<1>2. Rest(d.fetcher) \in Nat
  <2>1. Rest(d.fetcher) \in 1 .. ReadyStep
    BY <1>1, StepRest
  <2> QED
    BY <1>1, <2>1
<1>3. \A r \in Nat : Wasted(d, r) \in Nat
  BY <1>1 DEF Wasted, Behind
<1>4. objects \in Int /\ ObjDots \in Int
  BY <1>1 DEF ObjDots
<1>5. DotsLeft(d) = (Width - d.lx) + (IF d.win THEN 0 ELSE ReadyStep)
        + IF d.stall
          THEN ObjDots * (objects - 1) + Rest(d.fetcher) + Wasted(d, ReadyStep)
          ELSE ObjDots * objects + Wasted(d, Rest(d.fetcher))
  BY DEF DotsLeft
<1> DEFINE rest == Rest(d.fetcher)
<1> DEFINE u == Wasted(d, ReadyStep)
<1> DEFINE v == Wasted(d, rest)
<1> DEFINE p == ObjDots * (objects - 1)
<1> DEFINE q == ObjDots * objects
<1>6. u \in Nat /\ v \in Nat /\ rest \in Nat
  BY <1>1, <1>2, <1>3
<1>7. p \in Int /\ q \in Int
  <2> HIDE DEF objects
  <2> QED
    BY <1>4
<1>8. DotsLeft(d) = (Width - d.lx) + (IF d.win THEN 0 ELSE ReadyStep)
        + IF d.stall THEN p + rest + u ELSE q + v
  BY <1>5
<1> HIDE DEF objects, rest, u, v, p, q
<1> QED
  BY <1>1, <1>6, <1>7, <1>8

\* The window begins once in a line: that is paid for.
LEMMA WindowPays ==
  ASSUME NEW d, DrawOK(d), FetchRuns(d.fetcher), ~d.stall, d.win => WindowIsActive(d),
         Len(scan.selected) \in Nat
  PROVE  LET w == WindowStage(d)
         IN  /\ FetchRuns(w.fetcher) /\ (w.win => WindowIsActive(w)) /\ ~w.stall
             /\ w.lx = d.lx /\ DotsLeft(w) <= DotsLeft(d)
<1> DEFINE w == WindowStage(d)
<1>1. CASE WindowIsActive(d) = d.win
  <2>1. w = d
    BY <1>1 DEF WindowStage
  <2>2. DotsLeft(d) \in Int
    BY DotsLeftInt
  <2> QED
    BY <2>1, <2>2
<1>2. CASE WindowIsActive(d) # d.win
  <2>1. d.win = FALSE /\ WindowIsActive(d)
    BY <1>2 DEF DrawOK, WindowIsActive
  <2>2. w = [d EXCEPT !.win = ~@, !.fetcher = Idle, !.bkg = <<>>, !.fetcherX = 0,
                      !.origin = d.lx]
    BY <1>2 DEF WindowStage
  <2> HIDE DEF w
  <2>3. /\ w.win = TRUE /\ w.fetcher = Idle /\ w.bkg = <<>> /\ w.lx = d.lx
        /\ w.stall = d.stall /\ w.fetched = d.fetched
    BY <2>1, <2>2 DEF DrawOK, DrawFields
  <2>4. WindowIsActive(w)
    BY <2>1, <2>3 DEF WindowIsActive
  <2> DEFINE paid == ObjDots * (Len(scan.selected) - d.fetched)
  <2> DEFINE u == Wasted(d, Rest(d.fetcher))
  <2>5. DotsLeft(d) = (Width - d.lx) + ReadyStep + (paid + u)
    BY <2>1 DEF DotsLeft
  <2>6. DotsLeft(w) = (Width - d.lx) + 0 + (paid + Wasted(w, ReadyStep))
    BY <2>3, IdleRest DEF DotsLeft
  <2>7. Wasted(w, ReadyStep) = ReadyStep
    <3>1. Len(w.bkg) = 0 /\ Behind(w) = 0
      BY <2>3 DEF Behind
    <3> QED
      BY <3>1, SizesAssumption DEF Wasted
  <2>8. /\ d.lx \in Nat /\ d.fetched \in Nat /\ Width \in Nat /\ ReadyStep \in Nat
        /\ Len(d.bkg) \in Nat /\ Tile \in Nat /\ FetcherOK(d.fetcher)
    BY SizesAssumption DEF DrawOK
  <2>9. u \in Nat
    <3>1. Rest(d.fetcher) \in 1 .. ReadyStep
      BY <2>8, StepRest
    <3> DEFINE r == Rest(d.fetcher)
    <3>2. r \in Nat
      BY <2>8, <3>1
    <3> HIDE DEF r
    <3>3. Wasted(d, r) \in Nat
      BY <2>8, <3>2 DEF Wasted, Behind
    <3> QED
      BY <3>3 DEF r
  <2>10. paid \in Int
    BY <2>8 DEF ObjDots
  <2> HIDE DEF paid, u
  <2>11. DotsLeft(w) <= DotsLeft(d)
    BY <2>5, <2>6, <2>7, <2>8, <2>9, <2>10
  <2> QED
    BY <2>3, <2>4, <2>11, IdleRest DEF w
<1> QED
  BY <1>1, <1>2

\* A stall for an object is paid for, and so is the fetch of the background that it
\* interrupts.
LEMMA ObjectPays ==
  ASSUME NEW d, DrawOK(d), PipeOK(d), FetchRuns(d.fetcher),
         Len(scan.selected) \in 0 .. MaxSelected
  PROVE  LET o == ObjStage(d)
         IN  /\ FetchRuns(o.fetcher)
             /\ DotsLeft(o) <= DotsLeft(d) - IF o.stall THEN 1 ELSE 0
<1> DEFINE f == FetcherStep(IF d.stall THEN d.fetcher ELSE Idle)
<1> DEFINE mixed == Mix(d.obj)
<1> DEFINE pushed == [d EXCEPT !.fetched = @ + 1, !.fetcher = Idle, !.obj = mixed,
                               !.stall = FALSE]
<1> DEFINE selected == Len(scan.selected)
<1> DEFINE u == Wasted(d, ReadyStep)
<1> DEFINE rest == Rest(d.fetcher)
<1> DEFINE late == IF d.win THEN 0 ELSE ReadyStep
<1> DEFINE paid(n) == ObjDots * n
<1>1. /\ DOMAIN d = DrawFields /\ d.stall \in BOOLEAN /\ d.win \in BOOLEAN
      /\ d.lx \in Nat /\ d.fetched \in Nat /\ Len(d.bkg) \in Nat /\ Width \in Nat
      /\ ReadyStep \in Nat /\ ReadyStep > 1 /\ Tile \in Nat /\ FetcherOK(d.fetcher)
      /\ selected \in Nat /\ (d.stall => HasObj(d))
  BY SizesAssumption DEF DrawOK, PipeOK
<1>2. rest \in 1 .. ReadyStep
  BY <1>1, StepRest
<1>3. /\ u \in Nat
      /\ Wasted(d, rest) \in Nat /\ u <= Wasted(d, rest) + (ReadyStep - 1)
  <2> DEFINE behind == Behind(d)
  <2> DEFINE held == Len(d.bkg)
  <2>1. behind \in Nat /\ held \in Nat
    BY <1>1 DEF Behind
  <2>2. /\ u = IF ReadyStep + behind > held THEN ReadyStep + behind - held ELSE 0
        /\ Wasted(d, rest) = IF rest + behind > held THEN rest + behind - held ELSE 0
    BY DEF Wasted
  <2> DEFINE w == Wasted(d, rest)
  <2> HIDE DEF rest, behind, held, u, w
  <2>3. w = IF rest + behind > held THEN rest + behind - held ELSE 0
    BY <2>2 DEF w
  <2>4. u \in Nat /\ w \in Nat /\ u <= w + (ReadyStep - 1)
    BY <1>1, <1>2, <2>1, <2>2, <2>3
  <2> QED
    BY <2>4 DEF w
<1>4. \A n \in Int : paid(n) \in Int /\ paid(n - 1) = paid(n) - ObjDots
  BY <1>1 DEF ObjDots
<1>5. ObjDots = 2 * ReadyStep - 1
  BY DEF ObjDots
<1> DEFINE before == IF d.stall THEN paid((selected - d.fetched) - 1) + rest + u
                     ELSE paid(selected - d.fetched) + Wasted(d, rest)
<1>6. DotsLeft(d) = (Width - d.lx) + late + before
  BY DEF DotsLeft
<1>7. ASSUME NEW e, e.win = d.win, e.bkg = d.bkg, e.lx = d.lx
      PROVE  /\ \A r : Wasted(e, r) = Wasted(d, r)
             /\ DotsLeft(e) = (Width - d.lx) + late
                  + IF e.stall
                    THEN paid((selected - e.fetched) - 1) + Rest(e.fetcher) + u
                    ELSE paid(selected - e.fetched) + Wasted(d, Rest(e.fetcher))
  <2>1. \A r : Wasted(e, r) = Wasted(d, r)
    BY <1>7 DEF Wasted, Behind
  <2> QED
    BY <1>7, <2>1 DEF DotsLeft
<1>8. ASSUME NEW e, DOMAIN e = DrawFields, e.win = d.win, e.bkg = d.bkg, e.lx = d.lx
      PROVE  LET o == FetchObj(e)
             IN  /\ FetchRuns(o.fetcher) /\ o.stall
                 /\ DotsLeft(o) = (Width - d.lx) + late
                      + (paid((selected - e.fetched) - 1) + (ReadyStep - 1) + u)
  <2> DEFINE g == Fetch("obj", 0, ObjRow(scan.selected[e.fetched + 1]))
  <2>1. FetchRuns(g) /\ Rest(g) = ReadyStep - 1
    BY FetchRest DEF Layers
  <2> HIDE DEF g
  <2> DEFINE o == FetchObj(e)
  <2>2. o = [e EXCEPT !.stall = TRUE, !.fetcher = g]
    BY DEF FetchObj, g
  <2> HIDE DEF o
  <2>3. /\ o.win = d.win /\ o.bkg = d.bkg /\ o.lx = d.lx /\ o.fetched = e.fetched
        /\ o.stall = TRUE /\ o.fetcher = g
    BY <1>8, <2>2 DEF DrawFields
  <2> HIDE DEF paid, u, late, selected
  <2>4. DotsLeft(o) = (Width - d.lx) + late
          + (paid((selected - e.fetched) - 1) + (ReadyStep - 1) + u)
    BY <1>7, <2>1, <2>3
  <2> QED
    BY <2>1, <2>3, <2>4 DEF o
<1>9. /\ FetchRuns(f) /\ f.state \in {"idle", "fetching", "ready"}
      /\ d.stall => /\ f.state = "idle" => rest = ReadyStep
                    /\ f.state = "fetching" => Rest(f) = rest - 1
                    /\ f.state = "ready" => rest = 1
      /\ ~d.stall => f.state = "idle"
  <2>1. CASE d.stall
    <3>1. f = FetcherStep(d.fetcher)
      BY <2>1
    <3>2. FetcherOK(f)
      BY <1>1, <3>1, StepOK
    <3> HIDE DEF f
    <3> QED
      BY <1>1, <2>1, <3>1, <3>2, StepRest DEF FetcherOK
  <2>2. CASE ~d.stall
    <3>1. f = Idle
      BY <2>2 DEF FetcherStep, Idle
    <3> QED
      BY <2>2, <3>1, IdleRest DEF Idle
  <2> QED
    BY <2>1, <2>2
<1>10. /\ DOMAIN pushed = DrawFields /\ pushed.fetcher = Idle
       /\ pushed.fetched = d.fetched + 1 /\ pushed.stall = FALSE
       /\ pushed.lx = d.lx /\ pushed.win = d.win /\ pushed.bkg = d.bkg
  <2> HIDE DEF mixed
  <2> QED
    BY <1>1 DEF DrawFields
<1> DEFINE good(o) ==
      FetchRuns(o.fetcher) /\ DotsLeft(o) <= DotsLeft(d) - IF o.stall THEN 1 ELSE 0
<1> SUFFICES good(ObjStage(d))
  OBVIOUS
<1> HIDE DEF f, pushed, mixed
<1>11. ASSUME NEW e, NEW after, FetchRuns(e.fetcher), e.stall \in BOOLEAN,
              DotsLeft(e) = (Width - d.lx) + late + after,
              before \in Int, after \in Int, after <= before - IF e.stall THEN 1 ELSE 0
       PROVE  good(e)
  <2> HIDE DEF before
  <2>1. late \in Nat
    BY <1>1
  <2> HIDE DEF late
  <2> QED
    BY <1>1, <1>6, <1>11, <2>1
<1> DEFINE n == selected - d.fetched
<1> DEFINE wasted == Wasted(d, rest)
<1>12. /\ paid(n) \in Int /\ paid(n - 1) \in Int /\ paid((n - 1) - 1) \in Int
       /\ paid(n - 1) = paid(n) - ObjDots /\ paid((n - 1) - 1) = paid(n - 1) - ObjDots
       /\ selected - (d.fetched + 1) = n - 1
  <2> HIDE DEF selected
  <2>1. n \in Int /\ selected - (d.fetched + 1) = n - 1
    BY <1>1
  <2> HIDE DEF n, paid
  <2>2. paid(n) \in Int /\ paid(n - 1) = paid(n) - ObjDots /\ paid(n - 1) \in Int
    <3>1. n - 1 \in Int
      BY <2>1
    <3> QED
      BY <1>4, <2>1, <3>1
  <2> DEFINE m == n - 1
  <2>3. m \in Int /\ m - 1 \in Int
    BY <2>1
  <2> HIDE DEF m
  <2>4. paid(m - 1) = paid(m) - ObjDots /\ paid(m - 1) \in Int
    BY <1>4, <2>3
  <2> QED
    BY <2>1, <2>2, <2>4 DEF m
<1>13. /\ d.stall => before = paid(n - 1) + rest + u
       /\ ~d.stall => before = paid(n) + wasted
  OBVIOUS
<1>14. /\ u \in Nat /\ wasted \in Nat /\ u <= wasted + (ReadyStep - 1) /\ rest \in Nat
  BY <1>2, <1>3
<1> HIDE DEF good, before, late, u, wasted, rest, paid, n, selected
<1>15. before \in Int /\ ObjDots \in Int
  <2>1. ObjDots \in Int
    BY <1>1, <1>5
  <2>2. CASE d.stall
    BY <1>12, <1>13, <1>14, <2>1, <2>2
  <2>3. CASE ~d.stall
    BY <1>12, <1>13, <1>14, <2>1, <2>3
  <2> QED
    BY <2>1, <2>2, <2>3
<1>16. CASE ~HasObj(d)
  <2> DEFINE o == [d EXCEPT !.stall = FALSE]
  <2>1. ObjStage(d) = o
    BY <1>16 DEF ObjStage
  <2>2. /\ o.win = d.win /\ o.bkg = d.bkg /\ o.lx = d.lx /\ o.fetched = d.fetched
        /\ o.stall = FALSE /\ o.fetcher = d.fetcher
    BY <1>1 DEF DrawFields
  <2> HIDE DEF o
  <2>3. d.stall = FALSE
    BY <1>1, <1>16
  <2>4. DotsLeft(o) = (Width - d.lx) + late + (paid(n) + wasted)
    BY <1>7, <2>2 DEF n, wasted, rest
  <2>5. before = paid(n) + wasted
    BY <1>13, <2>3
  <2>6. good(o)
    <3> DEFINE after == paid(n) + wasted
    <3>1. after \in Int /\ before = after
      BY <1>12, <1>14, <2>5
    <3>2. DotsLeft(o) = (Width - d.lx) + late + after
      BY <2>4
    <3> HIDE DEF after
    <3>3. FetchRuns(o.fetcher) /\ o.stall \in BOOLEAN /\ ~o.stall
      BY <2>2
    <3>4. after <= before - IF o.stall THEN 1 ELSE 0
      BY <1>15, <3>1, <3>3
    <3> QED
      BY <1>11, <1>15, <3>1, <3>2, <3>3, <3>4
  <2> QED
    BY <2>1, <2>6
<1>17. CASE HasObj(d)
  <2>1. ObjStage(d) = CASE f.state = "idle"     -> FetchObj(d)
                        [] f.state = "fetching" -> [d EXCEPT !.stall = TRUE, !.fetcher = f]
                        [] f.state = "ready"    -> IF HasObj(pushed) THEN FetchObj(pushed)
                                                   ELSE pushed
    BY <1>17 DEF ObjStage, f, pushed, mixed
  <2>2. CASE f.state = "idle"
    <3> DEFINE o == FetchObj(d)
    <3> DEFINE after == paid(n - 1) + (ReadyStep - 1) + u
    <3>1. ObjStage(d) = o
      BY <2>1, <2>2
    <3>2. FetchRuns(o.fetcher) /\ o.stall /\ DotsLeft(o) = (Width - d.lx) + late + after
      BY <1>1, <1>8 DEF n
    <3>3. after \in Int /\ after <= before - 1
      <4>1. CASE d.stall
        <5> DEFINE a == paid(n - 1)
        <5>1. a \in Int /\ before = a + rest + u /\ rest = ReadyStep
          BY <1>9, <1>12, <1>13, <2>2, <4>1
        <5> HIDE DEF a
        <5>2. a + (ReadyStep - 1) + u \in Int /\ a + (ReadyStep - 1) + u <= before - 1
          BY <1>14, <1>15, <5>1
        <5> QED
          BY <5>2 DEF a
      <4>2. CASE ~d.stall
        <5>1. before = paid(n) + wasted /\ paid(n) = paid(n - 1) + (2 * ReadyStep - 1)
          BY <1>1, <1>5, <1>12, <1>13, <4>2
        <5> DEFINE a == paid(n)
        <5> DEFINE b == paid(n - 1)
        <5>2. a \in Int /\ b \in Int /\ ReadyStep \in Nat
          BY <1>1, <1>12
        <5>3. before = a + wasted /\ a = b + (2 * ReadyStep - 1)
          BY <5>1
        <5> HIDE DEF a, b
        <5>4. b + (ReadyStep - 1) + u \in Int /\ b + (ReadyStep - 1) + u <= before - 1
          BY <1>14, <1>15, <5>2, <5>3
        <5> QED
          BY <5>4 DEF b
      <4> QED
        BY <1>1, <4>1, <4>2
    <3>4. o.stall \in BOOLEAN
      BY <1>1 DEF FetchObj, DrawFields
    <3> HIDE DEF o, after
    <3>5. good(o)
      BY <1>11, <1>15, <3>2, <3>3, <3>4
    <3> QED
      BY <3>1, <3>5
  <2>3. CASE f.state = "fetching"
    <3> DEFINE o == [d EXCEPT !.stall = TRUE, !.fetcher = f]
    <3> DEFINE after == paid(n - 1) + Rest(f) + u
    <3>1. ObjStage(d) = o
      BY <2>1, <2>3
    <3>2. /\ o.win = d.win /\ o.bkg = d.bkg /\ o.lx = d.lx /\ o.fetched = d.fetched
          /\ o.stall = TRUE /\ o.fetcher = f
      BY <1>1 DEF DrawFields
    <3> HIDE DEF o
    <3>3. DotsLeft(o) = (Width - d.lx) + late + after
      BY <1>7, <3>2 DEF n
    <3>4. d.stall /\ Rest(f) = rest - 1
      BY <1>1, <1>9, <2>3
    <3>5. after \in Int /\ after <= before - 1
      <4> DEFINE a == paid(n - 1)
      <4> DEFINE b == Rest(f)
      <4>1. a \in Int /\ before = a + rest + u /\ b = rest - 1
        BY <1>12, <1>13, <3>4
      <4> HIDE DEF a, b
      <4>2. a + b + u \in Int /\ a + b + u <= before - 1
        BY <1>14, <1>15, <4>1
      <4> QED
        BY <4>2 DEF a, b
    <3> HIDE DEF after
    <3>6. good(o)
      BY <1>9, <1>11, <1>15, <3>2, <3>3, <3>5
    <3> QED
      BY <3>1, <3>6
  <2>4. CASE f.state = "ready"
    <3>1. d.stall /\ rest = 1 /\ before = paid(n - 1) + 1 + u
      BY <1>1, <1>9, <1>13, <2>4
    <3>2. selected - pushed.fetched = n - 1
      BY <1>10, <1>12
    <3>3. CASE HasObj(pushed)
      <4> DEFINE o == FetchObj(pushed)
      <4> DEFINE after == paid((n - 1) - 1) + (ReadyStep - 1) + u
      <4>1. ObjStage(d) = o
        BY <2>1, <2>4, <3>3
      <4>2. FetchRuns(o.fetcher) /\ o.stall /\ DotsLeft(o) = (Width - d.lx) + late + after
        BY <1>8, <1>10, <3>2
      <4>3. after \in Int /\ after <= before - 1
        <5>1. paid(n - 1) = paid((n - 1) - 1) + (2 * ReadyStep - 1)
          BY <1>1, <1>5, <1>12
        <5> DEFINE a == paid(n - 1)
        <5> DEFINE b == paid((n - 1) - 1)
        <5>2. a \in Int /\ b \in Int /\ ReadyStep \in Nat
          BY <1>1, <1>12
        <5>3. before = a + 1 + u /\ a = b + (2 * ReadyStep - 1)
          BY <3>1, <5>1
        <5> HIDE DEF a, b
        <5>4. b + (ReadyStep - 1) + u \in Int /\ b + (ReadyStep - 1) + u <= before - 1
          BY <1>1, <1>14, <1>15, <5>2, <5>3
        <5> QED
          BY <5>4 DEF b
      <4>4. o.stall \in BOOLEAN
        BY <1>10 DEF FetchObj, DrawFields
      <4> HIDE DEF o, after
      <4>5. good(o)
        BY <1>11, <1>15, <4>2, <4>3, <4>4
      <4> QED
        BY <4>1, <4>5
    <3>4. CASE ~HasObj(pushed)
      <4> DEFINE after == paid(n - 1) + u
      <4>1. ObjStage(d) = pushed
        BY <2>1, <2>4, <3>4
      <4>2. DotsLeft(pushed) = (Width - d.lx) + late + after
        BY <1>7, <1>10, <3>2, IdleRest DEF u
      <4>3. after \in Int /\ after <= before
        BY <1>12, <1>14, <1>15, <3>1
      <4> HIDE DEF after
      <4>4. good(pushed)
        <5>1. FetchRuns(pushed.fetcher) /\ pushed.stall \in BOOLEAN /\ ~pushed.stall
          BY <1>10, IdleRest
        <5>2. after <= before - IF pushed.stall THEN 1 ELSE 0
          BY <1>15, <4>3, <5>1
        <5> QED
          BY <1>11, <1>15, <4>2, <4>3, <5>1, <5>2
      <4> QED
        BY <4>1, <4>4
    <3> QED
      BY <3>3, <3>4
  <2> QED
    BY <1>9, <2>2, <2>3, <2>4
<1> QED
  BY <1>16, <1>17

\* No object is counted twice.
LEMMA ObjectCounted ==
  ASSUME NEW d, DrawOK(d), PipeOK(d), Len(scan.selected) \in Nat,
         d.fetched <= Len(scan.selected)
  PROVE  ObjStage(d).fetched <= Len(scan.selected)
<1>1. d.fetched \in Nat /\ ObjStage(d).fetched \in {d.fetched, d.fetched + 1}
  <2>1. d.fetched \in Nat
    BY DEF DrawOK
  <2> QED
    BY <2>1, ObjStageFields
<1>2. CASE HasObj(d)
  <2>1. d.fetched < Len(scan.selected)
    BY <1>2 DEF HasObj
  <2> QED
    BY <1>1, <2>1
<1>3. CASE ~HasObj(d)
  <2> DEFINE o == [d EXCEPT !.stall = FALSE]
  <2>1. ObjStage(d) = o
    BY <1>3 DEF ObjStage
  <2>2. o.fetched = d.fetched
    BY DEF DrawOK, DrawFields
  <2> QED
    BY <2>1, <2>2
<1> QED
  BY <1>2, <1>3

\* Every dot of drawing brings the end of the line nearer by one dot, at least.
LEMMA DrawnPays ==
  ASSUME NEW d, DrawOK(d), PipeOK(d), PaceOK(d), Len(scan.selected) \in 0 .. MaxSelected,
         ly \in Nat, regs.wx \in Nat, ReadyStep <= Tile + 1
  PROVE  PaceOK(Drawn(d)) /\ DotsLeft(Drawn(d)) <= DotsLeft(d) - 1
<1> DEFINE o == ObjStage(d)
<1> DEFINE w == WindowStage(o)
<1> DEFINE e == BkgStage(PixelStage(w))
<1>1. FetchRuns(d.fetcher) /\ (d.win => WindowIsActive(d)) /\ d.fetched <= Len(scan.selected)
  BY DEF PaceOK
<1>2. DrawOK(o) /\ PipeOK(o) /\ o.lx = d.lx /\ o.win = d.win
  BY ObjStageOK, ObjStagePipe, ObjStageFields
<1>3. Len(scan.selected) \in Nat /\ o.fetched <= Len(scan.selected)
  BY <1>1, ObjectCounted
<1>4. FetchRuns(o.fetcher) /\ DotsLeft(o) <= DotsLeft(d) - IF o.stall THEN 1 ELSE 0
  BY <1>1, ObjectPays
<1>5. o.win => WindowIsActive(o)
  BY <1>1, <1>2 DEF WindowIsActive
<1>6. Drawn(d) = IF o.stall THEN o ELSE e
  BY DEF Drawn
<1>7. DotsLeft(o) \in Int /\ DotsLeft(d) \in Int
  BY <1>1, <1>2, <1>3, <1>4, DotsLeftInt
<1> HIDE DEF o
<1>8. CASE o.stall
  <2>1. Drawn(d) = o /\ DotsLeft(o) <= DotsLeft(d) - 1
    BY <1>4, <1>6, <1>8
  <2> QED
    BY <1>3, <1>4, <1>5, <2>1 DEF PaceOK
<1>9. CASE ~o.stall
  <2>1. /\ DrawOK(w) /\ FetchRuns(w.fetcher) /\ (w.win => WindowIsActive(w)) /\ ~w.stall
        /\ DotsLeft(w) <= DotsLeft(o) /\ w.fetched = o.fetched
    <3>1. DrawOK(w) /\ w.fetched = o.fetched
      BY <1>2, <1>9, WindowStageOK, WindowStagePipe
    <3> QED
      BY <1>2, <1>3, <1>4, <1>5, <1>9, <3>1, WindowPays
  <2> HIDE DEF w
  <2>2. /\ FetchRuns(e.fetcher) /\ e.win = w.win /\ e.lx \in {w.lx, w.lx + 1}
        /\ DotsLeft(e) <= DotsLeft(w) - 1
    BY <2>1, ShownPays
  <2>3. e.fetched = w.fetched /\ DrawOK(e)
    <3> DEFINE p == PixelStage(w)
    <3>1. DrawOK(p) /\ p.fetched = w.fetched /\ p.fetcher = w.fetcher
      BY <2>1, PixelStageOK, PixelStageFields
    <3> HIDE DEF p
    <3>2. BkgStage(p).fetched = p.fetched /\ DrawOK(BkgStage(p))
      BY <2>1, <3>1, BkgStageOK, BkgStageFields
    <3> QED
      BY <3>1, <3>2 DEF p
  <2>4. Drawn(d) = e
    BY <1>6, <1>9
  <2> HIDE DEF e
  <2>5. DotsLeft(w) \in Int /\ DotsLeft(e) \in Int
    BY <1>3, <2>1, <2>2, <2>3, DotsLeftInt
  <2>6. DotsLeft(o) <= DotsLeft(d)
    BY <1>4, <1>7, <1>9
  <2>7. DotsLeft(e) <= DotsLeft(d) - 1
    BY <1>7, <2>1, <2>2, <2>5, <2>6
  <2>8. e.win => WindowIsActive(e)
    <3>1. w.lx \in Nat
      BY <2>1 DEF DrawOK
    <3> QED
      <4>1. e.win => regs.winOn /\ ly = regs.wy /\ regs.wx <= w.lx
        BY <2>1, <2>2 DEF WindowIsActive
      <4> DEFINE wx == regs.wx
      <4> DEFINE lx == w.lx
      <4>2. wx \in Nat /\ lx \in Nat /\ e.lx \in {lx, lx + 1}
        BY <2>2, <3>1
      <4> HIDE DEF wx, lx
      <4>3. wx <= lx => wx <= e.lx
        BY <4>2
      <4> QED
        <5>1. e.win => regs.winOn /\ ly = regs.wy /\ regs.wx <= e.lx
          BY <4>1, <4>3 DEF wx, lx
        <5> QED
          BY <5>1 DEF WindowIsActive
  <2> QED
    BY <1>3, <2>1, <2>2, <2>3, <2>4, <2>7, <2>8 DEF PaceOK
<1> QED
  BY <1>8, <1>9

\* As long as a pixel of the line is missing the bound is positive.
LEMMA DotLeft ==
  ASSUME NEW d, DrawOK(d), PipeOK(d), PaceOK(d), Len(scan.selected) \in Nat, d.lx < Width
  PROVE  DotsLeft(d) \in Int /\ DotsLeft(d) >= 1
<1> DEFINE objects == Len(scan.selected) - d.fetched
<1> DEFINE rest == Rest(d.fetcher)
<1> DEFINE u == Wasted(d, ReadyStep)
<1> DEFINE v == Wasted(d, rest)
<1> DEFINE late == IF d.win THEN 0 ELSE ReadyStep
<1>1. /\ d.lx \in Nat /\ d.fetched \in Nat /\ Len(d.bkg) \in Nat /\ Width \in Nat
      /\ ReadyStep \in Nat /\ Tile \in Nat /\ FetcherOK(d.fetcher) /\ FetchRuns(d.fetcher)
      /\ d.fetched <= Len(scan.selected)
  BY SizesAssumption DEF DrawOK, PaceOK
<1>2. rest \in Nat
  <2>1. rest \in 1 .. ReadyStep
    BY <1>1, StepRest
  <2> QED
    BY <1>1, <2>1
<1>3. \A r \in Nat : Wasted(d, r) \in Nat
  BY <1>1 DEF Wasted, Behind
<1>4. u \in Nat /\ v \in Nat /\ late \in Nat
  BY <1>1, <1>2, <1>3
<1>5. objects \in Nat /\ (d.stall => objects - 1 \in Nat)
  <2>1. d.stall => d.fetched < Len(scan.selected)
    BY DEF PipeOK, HasObj
  <2> QED
    BY <1>1, <2>1
<1>6. ObjDots \in Nat
  BY SizesAssumption DEF ObjDots
<1> DEFINE p == ObjDots * (objects - 1)
<1> DEFINE q == ObjDots * objects
<1>7. q \in Nat /\ (d.stall => p \in Nat)
  <2> HIDE DEF objects
  <2>1. \A k \in Nat : ObjDots * k \in Nat
    BY <1>6
  <2> QED
    BY <1>5, <2>1
<1>8. DotsLeft(d) = (Width - d.lx) + late + IF d.stall THEN p + rest + u ELSE q + v
  BY DEF DotsLeft
<1>9. DotsLeft(d) \in Int
  BY <1>1, DotsLeftInt
<1> HIDE DEF objects, rest, u, v, late, p, q
<1>10. CASE d.stall
  BY <1>1, <1>2, <1>4, <1>7, <1>8, <1>9, <1>10
<1>11. CASE ~d.stall
  BY <1>1, <1>2, <1>4, <1>7, <1>8, <1>9, <1>11
<1> QED
  BY <1>10, <1>11

LEMMA StepKeepsRegs ==
  ASSUME RegsInv, [Next]_vars
  PROVE  RegsInv'
<1>1. ASSUME NEW r \in DOMAIN Values, WriteRegister(r) PROVE RegsInv'
  <2>1. PICK v \in Values[r] : regs' = [regs EXCEPT ![r] = v]
    BY <1>1 DEF WriteRegister
  <2>2. r = "wx" => v \in Nat
    <3>1. r \in Bytes => Values[r] \subseteq Nat
      <4>1. r \in Bytes => r \notin Flags
        BY DEF Flags, Bytes
      <4>2. r \in Bytes => Values[r] \subseteq 0 .. 255
        BY <4>1, ValuesAssumption
      <4>3. 0 .. 255 \subseteq Nat
        OBVIOUS
      <4> QED
        BY <4>2, <4>3
    <3> QED
      BY <3>1 DEF Bytes
  <2>3. regs'.wx = IF r = "wx" THEN v ELSE regs.wx
    BY <2>1 DEF RegsInv, Bytes
  <2> QED
    BY <2>1, <2>2, <2>3 DEF RegsInv
<1>2. CASE UNCHANGED regs
  BY <1>2 DEF RegsInv
<1> QED
  BY <1>1, <1>2 DEF Next, Dot, HBlankWait, HBlankEnd, VBlankWait, VBlankLine, VBlankEnd,
     OamFetch, OamSelect, Draw, Begin, WriteOam, vars

\* A line begins with everything still to be done.
LEMMA EmptyPace ==
  ASSUME draw' = EmptyDraw, Len(scan'.selected) \in 0 .. MaxSelected
  PROVE  PaceOK(draw)' /\ 2 * OamSize + DotsLeft(draw)' <= DrawnBy
<1> DEFINE n == Len(scan'.selected)
<1>1. /\ draw'.fetched = 0 /\ draw'.lx = 0 /\ draw'.win = FALSE /\ draw'.stall = FALSE
      /\ draw'.fetcher = Idle /\ draw'.bkg = <<>>
  BY DEF EmptyDraw
<1>2. n \in Nat /\ n <= MaxSelected
  OBVIOUS
<1>3. PaceOK(draw)'
  <2> HIDE DEF n
  <2>1. draw'.fetched <= n
    BY <1>1, <1>2
  <2> QED
    BY <1>1, <2>1, IdleRest DEF PaceOK, FetchRuns, Idle, n
<1>4. Wasted(draw', ReadyStep) = ReadyStep + Tile
  <2>1. Behind(draw') = Tile /\ Len(draw'.bkg) = 0
    BY <1>1 DEF Behind
  <2> QED
    BY <2>1, SizesAssumption DEF Wasted
<1>5. DotsLeft(draw)' = (Width - 0) + ReadyStep + (ObjDots * (n - 0) + Wasted(draw', ReadyStep))
  BY <1>1, IdleRest DEF DotsLeft
<1> DEFINE p == ObjDots * n
<1> DEFINE q == ObjDots * MaxSelected
<1>6. ObjDots \in Nat /\ MaxSelected \in Nat
  BY SizesAssumption DEF ObjDots
<1> HIDE DEF n
<1>7. n - 0 = n /\ p \in Int /\ q \in Int /\ p <= q
  <2>1. \A a, b, c \in Nat : b <= c => a * b <= a * c /\ a * b \in Int /\ a * c \in Int
    OBVIOUS
  <2> QED
    BY <1>2, <1>6, <2>1
<1>8. DotsLeft(draw)' = Width + ReadyStep + (p + (ReadyStep + Tile))
  BY <1>4, <1>5, <1>7, SizesAssumption
<1>9. DrawnBy = 2 * OamSize + Width + Tile + 2 * ReadyStep + q
  BY DEF DrawnBy
<1> HIDE DEF p, q
<1> QED
  BY <1>3, <1>7, <1>8, <1>9, SizesAssumption

LEMMA DrawnByInt == DrawnBy \in Int
<1>1. ObjDots \in Int /\ MaxSelected \in Int
  BY SizesAssumption DEF ObjDots
<1>2. ObjDots * MaxSelected \in Int
  BY <1>1
<1> QED
  BY <1>2, SizesAssumption DEF DrawnBy

LineUndisturbed == mode = "draw" => regs' = regs

\* What the pace is made of besides the drawing state.
LEMMA PaceKept ==
  ASSUME regs' = regs, ly' = ly, scan'.selected = scan.selected
  PROVE  /\ PaceOK(draw') => PaceOK(draw)'
         /\ DotsLeft(draw)' = DotsLeft(draw')
<1>1. PaceOK(draw') => PaceOK(draw)'
  BY DEF PaceOK, FetchRuns, WindowIsActive
<1>2. DotsLeft(draw)' = DotsLeft(draw')
  BY DEF DotsLeft, Rest, Wasted, Behind
<1> QED
  BY <1>1, <1>2

LEMMA StepKeepsPace ==
  ASSUME Inv, ScanInv, PipeInv, RegsInv, PaceInv, TimeInv, ReadyStep <= Tile + 1,
         [Next]_vars, LineUndisturbed
  PROVE  PaceInv'
<1>1. CASE OamSelect
  <2>1. CASE mode' = "draw"
    <3>1. draw' = EmptyDraw /\ scan'.index >= OamSize /\ dot' = dot + 1 /\ mode = "oam"
      BY <1>1, <2>1 DEF OamSelect, Begin, NextDot
    <3>2. Inv' /\ ScanInv'
      BY NextKeepsInv, StepKeepsScan
    <3>3. dot' = 2 * OamSize
      <4>1. /\ scan.index \in Nat /\ dot \in {2 * scan.index, 2 * scan.index + 1}
            /\ dot % 2 # 0 /\ scan'.index = scan.index + 1
            /\ scan.index < OamSize
        <5>1. DOMAIN scan = {"next", "selected", "index"} /\ scan.index \in Nat
              /\ Len(scan.selected) \in 0 .. MaxSelected /\ scan.index < OamSize
          BY <3>1 DEF Inv
        <5>2. scan'.index = scan.index + 1
          BY <1>1, <5>1, SelectOK DEF OamSelect
        <5>3. dot \in {2 * scan.index, 2 * scan.index + 1}
          BY <3>1 DEF ScanInv
        <5> QED
          BY <1>1, <5>1, <5>2, <5>3 DEF OamSelect
      <4>2. dot = 2 * scan.index + 1
        BY <4>1
      <4> QED
        BY <3>1, <4>1, <4>2, SizesAssumption
    <3>4. draw' = EmptyDraw /\ Len(scan'.selected) \in 0 .. MaxSelected
      BY <3>1, <3>2 DEF Inv
    <3>5. PaceOK(draw)' /\ 2 * OamSize + DotsLeft(draw)' <= DrawnBy
      BY <3>4, EmptyPace
    <3> QED
      BY <3>3, <3>5 DEF PaceInv
  <2> QED
    BY <2>1 DEF PaceInv
<1>2. CASE Draw
  <2>1. /\ mode = "draw" /\ draw' = Drawn(draw) /\ UNCHANGED <<regs, scan, ly>>
        /\ dot' = dot + 1 /\ PipeOK(draw) /\ PaceOK(draw) /\ dot + DotsLeft(draw) <= DrawnBy
    BY <1>2 DEF Draw, Begin, NextDot, PipeInv, PaceInv
  <2>2. DrawOK(draw) /\ Len(scan.selected) \in 0 .. MaxSelected /\ ly \in Nat
    BY DEF Inv
  <2>3. PaceOK(draw') /\ DotsLeft(draw') <= DotsLeft(draw) - 1
    BY <2>1, <2>2, DrawnPays DEF RegsInv
  <2>4. PaceOK(draw)' /\ DotsLeft(draw)' = DotsLeft(draw')
    BY <2>1, <2>3, PaceKept
  <2>5. DotsLeft(draw) \in Int /\ DotsLeft(draw') \in Int
    <3>1. DrawOK(draw')
      BY <2>1, <2>2, DrawnOK
    <3> QED
      BY <2>1, <2>2, <2>3, <3>1, DotsLeftInt DEF PaceOK
  <2>6. dot \in Nat /\ DrawnBy \in Int
    BY DrawnByInt DEF TimeInv
  <2> DEFINE before == DotsLeft(draw)
  <2> DEFINE after == DotsLeft(draw')
  <2> HIDE DEF before, after
  <2>7. (dot + 1) + after <= DrawnBy
    <3>1. before \in Int /\ after \in Int /\ after <= before - 1 /\ dot + before <= DrawnBy
      BY <2>1, <2>3, <2>5 DEF before, after
    <3> QED
      BY <2>6, <3>1
  <2> QED
    BY <2>1, <2>4, <2>7 DEF PaceInv, after
<1>3. CASE HBlankWait \/ HBlankEnd \/ VBlankWait \/ VBlankLine \/ VBlankEnd \/ OamFetch
  BY <1>3 DEF HBlankWait, HBlankEnd, VBlankWait, VBlankLine, VBlankEnd, OamFetch, StartScan,
              Begin, PaceInv
<1>4. ASSUME UNCHANGED <<mode, draw, scan, ly, dot>> PROVE PaceInv'
  <2> SUFFICES ASSUME mode' = "draw" PROVE (PaceOK(draw) /\ dot + DotsLeft(draw) <= DrawnBy)'
    BY DEF PaceInv
  <2>1. regs' = regs /\ PaceOK(draw) /\ dot + DotsLeft(draw) <= DrawnBy
    BY <1>4 DEF LineUndisturbed, PaceInv
  <2> QED
    BY <1>4, <2>1, PaceKept
<1>5. ASSUME NEW r \in DOMAIN Values, WriteRegister(r) PROVE PaceInv'
  BY <1>4, <1>5 DEF WriteRegister
<1>6. CASE WriteOam
  BY <1>4, <1>6 DEF WriteOam
<1>7. CASE UNCHANGED vars
  BY <1>4, <1>7 DEF vars
<1> QED
  BY <1>1, <1>2, <1>3, <1>5, <1>6, <1>7 DEF Next, Dot

\* The drawing of a line ends before the line does.
LEMMA StepKeepsTime ==
  ASSUME Inv, PipeInv, PaceInv, TimeInv, DrawnBy <= LineDots, [Next]_vars
  PROVE  TimeInv'
<1>1. CASE Draw
  <2>1. /\ mode = "draw" /\ dot' = dot + 1 /\ elapsed' = elapsed + 1
        /\ PipeOK(draw) /\ PaceOK(draw) /\ dot + DotsLeft(draw) <= DrawnBy
        /\ mode' \in {"draw", "hblank"}
    BY <1>1 DEF Draw, Begin, NextDot, PipeInv, PaceInv
  <2>2. DrawOK(draw) /\ Len(scan.selected) \in Nat /\ draw.lx < Width
    BY <2>1 DEF Inv, RasterInv
  <2>3. DotsLeft(draw) \in Int /\ DotsLeft(draw) >= 1
    BY <2>1, <2>2, DotLeft
  <2>4. DrawnBy \in Int /\ LineDots \in Nat
    BY DrawnByInt, SizesAssumption
  <2>5. dot \in Nat /\ elapsed = dot
    BY <2>1 DEF TimeInv
  <2>6. dot' <= LineDots
    BY <2>1, <2>3, <2>4, <2>5
  <2> QED
    BY <2>1, <2>5, <2>6 DEF TimeInv
<1>2. CASE HBlankWait
  BY <1>2, SizesAssumption DEF HBlankWait, Begin, NextDot, LineEnded, TimeInv
<1>3. CASE HBlankEnd
  BY <1>3 DEF HBlankEnd, Begin, FirstDot, StartScan, TimeInv
<1>4. CASE VBlankWait \/ VBlankLine \/ VBlankEnd
  BY <1>4 DEF VBlankWait, VBlankLine, VBlankEnd, Begin, FirstDot, StartScan, TimeInv
<1>5. CASE OamFetch \/ OamSelect
  BY <1>5 DEF OamFetch, OamSelect, Begin, NextDot, TimeInv
<1>6. ASSUME NEW r \in DOMAIN Values, WriteRegister(r) PROVE TimeInv'
  BY <1>6 DEF WriteRegister, TimeInv
<1>7. CASE WriteOam \/ UNCHANGED vars
  BY <1>7 DEF WriteOam, vars, TimeInv
<1> QED
  BY <1>1, <1>2, <1>3, <1>4, <1>5, <1>6, <1>7 DEF Next, Dot

\* Every visible line takes the dots of a scanline (ppu_hblank_handler), if the sizes
\* leave time for the object fetches (they do on the hardware: 392 dots of 456) and the
\* CPU does not write the registers while the line is drawn.
THEOREM LineInTime ==
  ASSUME DotsSuffice
  PROVE  Spec /\ [][mode = "draw" => regs' = regs]_vars => LineTakesLineDots
<1>1. Init => RegsInv /\ PaceInv /\ TimeInv
  <2> SUFFICES ASSUME Init PROVE RegsInv /\ PaceInv /\ TimeInv
    OBVIOUS
  <2>1. RegsInv
    BY DEF Init, RegsInv, Flags, Bytes
  <2>2. PaceInv /\ TimeInv
    BY SizesAssumption DEF Init, PaceInv, TimeInv
  <2> QED
    BY <2>1, <2>2
<1>2. RegsInv /\ [Next]_vars => RegsInv'
  BY StepKeepsRegs
<1>3. Inv /\ ScanInv /\ PipeInv /\ RegsInv /\ PaceInv /\ TimeInv /\ [Next]_vars /\ LineUndisturbed
        => PaceInv'
  BY StepKeepsPace DEF DotsSuffice
<1>4. Inv /\ PipeInv /\ PaceInv /\ TimeInv /\ [Next]_vars => TimeInv'
  BY StepKeepsTime DEF DotsSuffice
<1>5. /\ LineUndisturbed <=> (mode = "draw" => regs' = regs)
      /\ LineUndisturbed => (mode = "draw" => regs'.objOn = regs.objOn)
      /\ UNCHANGED vars => LineUndisturbed /\ (mode = "draw" => regs'.objOn = regs.objOn)
  BY DEF LineUndisturbed, vars
<1>6. TimeInv /\ [Next]_vars =>
        (mode = "hblank" /\ mode' # "hblank" => elapsed = LineDots)
  <2> SUFFICES ASSUME TimeInv, [Next]_vars, mode = "hblank", mode' # "hblank"
               PROVE  elapsed = LineDots
    OBVIOUS
  <2>1. HBlankEnd
    BY DEF Next, Dot, HBlankWait, HBlankEnd, VBlankWait, VBlankLine, VBlankEnd, OamFetch,
           OamSelect, Draw, Begin, WriteRegister, WriteOam, vars
  <2> QED
    BY <2>1, SizesAssumption DEF HBlankEnd, LineEnded, TimeInv
<1> QED
  BY PipeAlways, <1>1, <1>2, <1>3, <1>4, <1>5, <1>6, PTL DEF Spec, LineTakesLineDots

=============================================================================
