------------------------- MODULE MCWindowRefinement -------------------------
(* A small instance of WindowRefinement for TLC.                           *)
EXTENDS WindowRefinement, TLC

MCConfigs ==
  {Absent,
   [icon |-> FALSE, use |-> TRUE, north |-> TRUE, pos |-> 0, size |-> 4]}
MCNoReading == -1

\* Frames are interchangeable.
Symmetries == Permutations(Frames)
=============================================================================
