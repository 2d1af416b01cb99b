---------------------------- MODULE WindowMemory ----------------------------
(***************************************************************************)
(* What the plugin promises about its window, without saying how: there is *)
(* at most one; it appears looking exactly as it was remembered, however   *)
(* the toolkit placed it in between; the user may change its look; and     *)
(* when it goes, by whatever way, what it recalls of its look is what is   *)
(* remembered for the next time.  A look has a position, a size and the    *)
(* north-up choice.                                                        *)
(*                                                                         *)
(* What a window recalls is its look, but for two things that platforms    *)
(* add: a size may be recalled one change late, and a position may be      *)
(* recalled with an offset.  Without them it goes and comes back unchanged.*)
(***************************************************************************)
EXTENDS Integers

CONSTANTS
  Looks,  (* The looks [pos, size, north] a window can have.               *)
  Lags,   (* The size recalled is the one before the last change.          *)
  Offset  (* How far beside its place a window is recalled.                *)

VARIABLES
  shown,  (* The window is on the screen.                                  *)
  look,   (* How it looks; what is remembered while it is not there.       *)
  recall, (* What it recalls of its look; likewise.                        *)
  memory  (* What the configuration remembers.                             *)

memoryVars == <<shown, look, recall, memory>>

MemoryInit ==
  /\ shown = FALSE
  /\ memory \in Looks
  /\ look = memory /\ recall = memory

\* The window recalls where it was told to be, or where it finds itself.
Show ==
  /\ ~shown
  /\ shown' = TRUE
  /\ \E d \in {0, Offset} : recall' = [memory EXCEPT !.pos = @ + d]
  /\ UNCHANGED <<look, memory>>

Move(p) ==
  /\ look' = [look EXCEPT !.pos = p]
  /\ recall' = [recall EXCEPT !.pos = p + Offset]

Resize(s) ==
  /\ look' = [look EXCEPT !.size = s]
  /\ recall' = [recall EXCEPT !.size = IF Lags THEN look.size ELSE s]

Turn(n) ==
  /\ look' = [look EXCEPT !.north = n]
  /\ recall' = [recall EXCEPT !.north = n]

\* The user changes one thing of the look.
Adjust ==
  /\ shown
  /\ look' \in Looks
  /\ Move(look'.pos) \/ Resize(look'.size) \/ Turn(look'.north)
  /\ UNCHANGED <<shown, memory>>

\* The preferences save all settings, and the north-up choice with them.
Keep ==
  /\ shown
  /\ memory' = [memory EXCEPT !.north = look.north]
  /\ UNCHANGED <<shown, look, recall>>

Hide ==
  /\ shown
  /\ shown' = FALSE
  /\ memory' = recall /\ look' = recall
  /\ UNCHANGED recall

MemoryNext == Show \/ Adjust \/ Keep \/ Hide

MemorySpec == MemoryInit /\ [][MemoryNext]_memoryVars
=============================================================================
