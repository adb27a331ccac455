\* The normal path alone: does the race in lcd_request_draw_buffer only drop frames?
SPECIFICATION SpecNormal
CONSTANTS
  NumPixels = 2
  MaxFrame = 3
  Speeds <- SpeedsAround
  Boundary = 2
  NoFrame = NoFrame
PROPERTY FrameNeverRegresses
