SPECIFICATION FairSpec
CONSTANTS
  Width = 5
  VisibleLines = 2
  LastLine = 3
  LineDots = 32
  Tile = 2
  ReadyStep = 2
  OamSize = 4
  MaxSelected = 2
  PixelBytes = 3
  Oams <- MCOams
  Values <- MCValues
  MidLine = {"winOn", "wx"}
  MidLineBound = 16
INVARIANTS
  Inv
  BkgFifoInOrder
  LayerAligned
PROPERTIES
  PixelsInPlace
  FramesAreWhole
  SelectionLacksEntryZero
  AllObjsFetched
  LineTakesLineDots
  FramesComplete
