\* Are the objects of a column fetched when the CPU switches objects off and on again?
SPECIFICATION Spec
CONSTANTS
  Width = 5
  VisibleLines = 2
  LastLine = 3
  LineDots = 32
  Tile = 2
  ReadyStep = 2
  OamSize = 4
  MaxSelected = 2
  PixelBytes = 3
  Oams <- MCOams
  Values <- MCValues
  MidLine = {"objOn"}
  MidLineBound = 16
PROPERTY AllObjsFetched
