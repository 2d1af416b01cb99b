CONSTANTS
  Null = Null
  Absent = Absent
  Arrays = {a1}
  Frames = {f1, f2}
  MaxInits = 2
  Places = {0}
  Origin = 0
  NoReading <- MCNoReading
  Fixes = {}
  Positions = {0}
  MaxPos = 50
  Decoration = 0
  ZeroPos = 0
  DefaultPos = 0
  WindowSizes = {3}
  InitSize = 2
  DefaultSize = 3
  Border = 1
  Win32 = FALSE
  HasConfig = TRUE
  StoredConfigs = {Absent}
  Permits = {"reinit"}
SPECIFICATION Spec
INVARIANTS
  OneTogglePerKey
