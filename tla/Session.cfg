CONSTANTS
  Null = Null
  Absent = Absent
  Arrays = {}
  Frames = {f1, f2}
  MaxInits = 1
  Places = {0}
  Origin = 0
  NoReading <- MCNoReading
  Fixes = {}
  Positions = {0, 1}
  MaxPos = 2
  Decoration = 1
  ZeroPos = 0
  DefaultPos = 1
  WindowSizes = {3}
  InitSize = 2
  DefaultSize = 3
  Border = 1
  Win32 = TRUE
  HasConfig = TRUE
  StoredConfigs <- MCConfigs
  Permits = {"preferences"}
SPECIFICATION Spec
INVARIANTS
  SingleWindow
  NorthUpAgrees
  SettingsDurable
  ToolMatchesIcon
PROPERTY KeepsWindow
SYMMETRY Symmetries
