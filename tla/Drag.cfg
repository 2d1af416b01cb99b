CONSTANTS
  Views = {v1, v2}
  NoView = NoView
  Points = {0, 1}
  Far = 1
  ZoomLimits = {10}
  Interval = 1
  ImageWidth <- MCImageWidth
  Loads = {1}
  Captures = {TRUE}
SPECIFICATION Spec
INVARIANTS
  ViewTypeOK
  GrabbedPoint
PROPERTY DragsAsOneHand
SYMMETRY Symmetries
