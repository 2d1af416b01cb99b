---------------------------- MODULE DurableMemory ---------------------------
(***************************************************************************)
(* What WindowMemory promises once processes end and others begin.  The    *)
(* memory is written to the disk now and then; a new process, however the  *)
(* last one ended, shows nothing and remembers what was last written: a    *)
(* whole look that once was remembered, never a part of one.               *)
(***************************************************************************)
EXTENDS WindowMemory

VARIABLE
  stored  (* What the disk remembers.                                      *)

durableVars == <<memoryVars, stored>>

DurableInit == MemoryInit /\ stored = memory

Write ==
  /\ stored' = memory
  /\ UNCHANGED memoryVars

Restart ==
  /\ shown' = FALSE
  /\ memory' = stored /\ look' = stored /\ recall' = stored
  /\ UNCHANGED stored

DurableNext == (MemoryNext /\ UNCHANGED stored) \/ Write \/ Restart

DurableSpec == DurableInit /\ [][DurableNext]_durableVars
=============================================================================
