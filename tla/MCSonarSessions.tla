--------------------------- MODULE MCSonarSessions --------------------------
(* A small instance of SonarSessions for TLC.                              *)
EXTENDS SonarSessions

MCPositions == {0, 50}
MCConfigs ==
  {Absent,
   [icon |-> FALSE, use |-> TRUE, north |-> TRUE, pos |-> 0, size |-> 4]}
MCNoReading == -1
=============================================================================
