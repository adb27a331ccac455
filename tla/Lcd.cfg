\* Both paths, and every change between them.
SPECIFICATION MCSpec
CONSTANTS
  NumPixels = 2
  MaxFrame = 3
  Speeds <- SpeedsAround
  Boundary = 2
  NoFrame = NoFrame
INVARIANTS BuffersDistinct NoDataRace Inv NormalFrameIsWhole
PROPERTY StreamedFrameIsDrawn
