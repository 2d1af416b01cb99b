---------------------------- MODULE MCSonarPlugin ---------------------------
(***************************************************************************)
(* Small instances of SonarPlugin for TLC.  The window sizes are small     *)
(* numbers in the order of the real ones: the 200 of Init, the default     *)
(* 300, and one more that the user can choose.                             *)
(***************************************************************************)
EXTENDS SonarPlugin, TLC

MCPositions == {0, 50}

\* A fix with all data, one without course, one elsewhere.
MCFixes ==
  {[place |-> 0, cog |-> 0, sog |-> 1, sats |-> 4],
   [place |-> 0, cog |-> -1, sog |-> 1, sats |-> 4],
   [place |-> 1, cog |-> 2, sog |-> -1, sats |-> 4]}
MCNoReading == -1

\* No configuration yet, or one with the window moved and north up.
MCConfigs ==
  {Absent,
   [icon |-> FALSE, use |-> TRUE, north |-> TRUE, pos |-> 0, size |-> 4]}

\* Frames and arrays are interchangeable.
Symmetries == Permutations(Frames) \cup Permutations(Arrays)

Everything == {"reinit", "unload", "preferences", "createFails", "lateEvents"}
=============================================================================
