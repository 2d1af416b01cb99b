----------------------------- MODULE MCSonarView ----------------------------
(***************************************************************************)
(* Small instances of SonarView for TLC.  The widths are those of the      *)
(* three image files.                                                      *)
(***************************************************************************)
EXTENDS SonarView, TLC

MCImageWidth == <<700, 980, 1080>>

\* From three times the original size down to as much below nothing.
MCZooms == -31 .. 31

Symmetries == Permutations(Views)
=============================================================================
