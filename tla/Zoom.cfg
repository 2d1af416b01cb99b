CONSTANTS
  Views = {v1}
  NoView = NoView
  Points = {0}
  Far = 0
  ZoomLimits <- MCZooms
  Interval = 1
  ImageWidth <- MCImageWidth
  Loads = {1, 2, 3}
  Captures = {TRUE}
SPECIFICATION Spec
INVARIANTS
  SizeFromZoomOnly
  ZoomReturns
  SizeOfClicks
