CONSTANTS
  Null = Null
  Absent = Absent
  Arrays = {}
  Frames = {f1}
  MaxInits = 1
  Places = {0}
  Origin = 0
  NoReading <- MCNoReading
  Fixes = {}
  Positions <- MCPositions
  MaxPos = 50
  Decoration = 0
  ZeroPos = 0
  DefaultPos = 50
  WindowSizes = {3, 4}
  InitSize = 2
  DefaultSize = 3
  Border = 1
  Win32 = FALSE
  HasConfig = TRUE
  StoredConfigs <- MCConfigs
  Permits = {"preferences", "lateEvents"}
SPECIFICATION SessionsSpec
PROPERTY KeepsWindowDurably
