------------------------------- MODULE PpuInv -------------------------------
(* The inductive invariant of Ppu. *)
EXTENDS Ppu

DrawFields ==
  {"fetched", "lx", "fetcherX", "win", "stall", "fetcher", "bkg", "obj", "origin"}
FetcherFields == {"state", "step", "layer", "n", "row"}
Layers == {"none", "obj", "bkg", "win"}
Entries == [layer : Layers, n : Nat]

FetcherOK(f) ==
  /\ DOMAIN f = FetcherFields
  /\ f.state \in {"idle", "fetching", "ready"}
  /\ f.step \in Nat
  /\ f.layer \in Layers
  /\ f.n \in Nat

\* What every stage of draw() keeps.
DrawOK(d) ==
  /\ DOMAIN d = DrawFields
  /\ FetcherOK(d.fetcher)
  /\ d.fetched \in 0 .. MaxSelected
  /\ d.lx \in Nat /\ d.fetcherX \in Nat /\ d.origin \in Nat
  /\ d.win \in BOOLEAN /\ d.stall \in BOOLEAN
  /\ d.bkg \in Seq(Entries) /\ Len(d.bkg) <= 2 * Tile
  /\ d.obj \in Seq(BOOLEAN) /\ Len(d.obj) <= Tile
  /\ d.fetcherX * Tile = (d.lx - d.origin) + Len(d.bkg)

\* Which lines belong to which mode, and how far the screen is written there, line 0 of
\* the first frame counted in.
RasterInv ==
  CASE mode = "oam"    -> ly < VisibleLines /\ raster + Skipped = ly * Width
    [] mode = "draw"   -> /\ ly < VisibleLines /\ draw.lx < Width
                         /\ raster + Skipped = ly * Width + draw.lx
    [] mode = "hblank" -> ly < VisibleLines /\ raster + Skipped = (ly + 1) * Width
    [] mode = "vblank" -> ly >= VisibleLines /\ raster + Skipped = VisibleLines * Width

\* The inductive invariant: the ranges of the counters, the alignment of the pipeline,
\* and the progress of the raster in every mode.
Inv ==
  /\ mode \in Modes
  /\ ly \in 0 .. LastLine
  /\ DOMAIN scan = {"next", "selected", "index"}
  /\ scan.index \in 0 .. OamSize /\ (mode = "oam" => scan.index < OamSize)
  /\ Len(scan.selected) \in 0 .. MaxSelected
  /\ DrawOK(draw)
  /\ raster \in Nat /\ firstFrame \in BOOLEAN
  /\ RasterInv

(***************************************************************************)
(* The scan of the object memory.                                          *)
(***************************************************************************)

Sorted(selected) ==
  \A i, j \in 1 .. Len(selected) : i < j => selected[i].x <= selected[j].x

\* Even dots fetch the entry that the next dot processes, except that the first dot of
\* a line processes entry 0 without a fetch.
ScanInv ==
  /\ oam \in [0 .. OamSize - 1 -> Objects]
  /\ scan.selected \in Seq(Objects) /\ Sorted(scan.selected)
  /\ mode = "oam" =>
       /\ scan.next \in Objects
       /\ dot \in {2 * scan.index, 2 * scan.index + 1} /\ dot > 0
       /\ dot = 2 * scan.index + 1 =>
            scan.next = IF scan.index = 0 THEN Blank ELSE oam[scan.index]

\* The entries processed so far that lie on the line.
Seen == {i \in 1 .. scan.index - 1 : Visible(oam[i])}

\* The selected objects are different entries of those, all of them as long as there is
\* room, and the first ones when there is not.
PickedFrom(seen, objects, selected, pick) ==
  LET places == 1 .. Len(selected)
  IN  /\ pick \in [places -> seen]
      /\ \A k, l \in places : pick[k] = pick[l] => k = l
      /\ \A k \in places : selected[k] = objects[pick[k]]
      /\ \/ \A i \in seen : \E k \in places : pick[k] = i
         \/ /\ Len(selected) = MaxSelected
            /\ \A i \in seen : (\A k \in places : pick[k] # i) => \A k \in places : pick[k] < i

PickInv ==
  mode = "oam" =>
    \E pick \in [1 .. Len(scan.selected) -> Seen] : PickedFrom(Seen, oam, scan.selected, pick)

(***************************************************************************)
(* The pipeline of a line on which the objects are not switched on or off. *)
(***************************************************************************)

\* A fetch that is not for an object is of the tile that comes next behind the FIFO; a
\* stall is for an object that is there.
PipeOK(d) ==
  /\ d.stall => HasObj(d)
  /\ ~d.stall /\ d.fetcher.state # "idle" =>
       d.fetcher.layer = Layer(d) /\ d.fetcher.n = d.fetcherX * Tile
  /\ \A i \in 1 .. Len(d.bkg) :
       d.bkg[i] = [layer |-> Layer(d), n |-> d.fetcherX * Tile - Len(d.bkg) + i - 1]

\* No object that was not fetched lies behind the current column.
AheadOK(d) ==
  regs.objOn =>
    \A k \in 1 .. Len(scan.selected) :
      k > d.fetched =>
        \/ scan.selected[k].x - Tile >= d.lx
        \/ scan.selected[k].x < Tile /\ d.lx = 0

PipeInv == mode = "draw" => PipeOK(draw) /\ AheadOK(draw)

(***************************************************************************)
(* The time a line takes when the CPU leaves the registers alone while it  *)
(* is drawn.                                                               *)
(***************************************************************************)

\* The dots until the fetch is pushed, if there is room.
Rest(f) ==
  IF f.state = "fetching" THEN ReadyStep - f.step
  ELSE IF f.state = "ready" THEN 1
  ELSE ReadyStep

\* The dots without a pixel that a fetch costs that is pushed after that many dots: those
\* for which the pixels in the FIFO, but for those that must stay behind, do not suffice.
Behind(d) == IF d.win THEN 0 ELSE Tile
Wasted(d, rest) ==
  IF rest + Behind(d) > Len(d.bkg) THEN rest + Behind(d) - Len(d.bkg) ELSE 0

\* An object costs its own fetch and the one of the background that it interrupts.
ObjDots == 2 * ReadyStep - 1

\* A bound of the dots that the rest of the line takes: its pixels, the window that may
\* still begin, and what the fetches cost.  A stall has paid for its object.
DotsLeft(d) ==
  LET objects == Len(scan.selected) - d.fetched
  IN  (Width - d.lx) + (IF d.win THEN 0 ELSE ReadyStep)
        + IF d.stall
          THEN ObjDots * (objects - 1) + Rest(d.fetcher) + Wasted(d, ReadyStep)
          ELSE ObjDots * objects + Wasted(d, Rest(d.fetcher))

\* Dots of a line until its drawing ends, at most.
DrawnBy == 2 * OamSize + Width + Tile + 2 * ReadyStep + ObjDots * MaxSelected

FetchRuns(f) == f.state = "fetching" => f.step \in 1 .. ReadyStep - 1

PaceOK(d) ==
  /\ FetchRuns(d.fetcher)
  /\ d.win => WindowIsActive(d)
  /\ d.fetched <= Len(scan.selected)

RegsInv == DOMAIN regs = Flags \cup Bytes /\ regs.wx \in Nat

PaceInv ==
  mode = "draw" => PaceOK(draw) /\ dot + DotsLeft(draw) <= DrawnBy

\* The calls of ppu_execute are counted by dot, but for the vertical blank.
TimeInv ==
  /\ dot \in Nat
  /\ mode # "vblank" => elapsed = dot
  /\ mode = "hblank" => dot <= LineDots

\* The sizes leave the horizontal blank some dots, and a fetch is not longer than its
\* pixels last.
DotsSuffice == DrawnBy <= LineDots /\ ReadyStep <= Tile + 1
=============================================================================
