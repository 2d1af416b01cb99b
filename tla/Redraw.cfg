CONSTANTS
  Views = {v1}
  NoView = NoView
  Points = {0, 1}
  Far = 1
  ZoomLimits = {9, 10}
  Interval = 2
  ImageWidth <- MCImageWidth
  Loads = {1}
  Captures = {TRUE, FALSE}
SPECIFICATION FairSpec
INVARIANTS
  FlagsAgree
  StaleIsRestored
PROPERTY ShownCatchesUp
PROPERTY Carousel
