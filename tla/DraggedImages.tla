---------------------------- MODULE DraggedImages ---------------------------
(***************************************************************************)
(* What dragging promises, without saying how: one hand, which holds at    *)
(* most one window's image, and every motion of the hand moves the held    *)
(* image by exactly as much and no other image at all.  There are no flags *)
(* and no last position: the two places of the hand are enough.            *)
(***************************************************************************)
EXTENDS Integers

CONSTANTS
  Windows,  (* The windows there can be, each with an image.               *)
  None,     (* No window.                                                  *)
  Places    (* Where the hand can be.                                      *)

VARIABLES
  open,   (* The windows on the screen.                                    *)
  place,  (* Per window: where its image is.                               *)
  hand,   (* Where the hand is,                                            *)
  held    (* and the window whose image it holds, or None.                 *)

dragVars == <<open, place, hand, held>>

DragInit ==
  /\ open = {}
  /\ place = [w \in Windows |-> 0]
  /\ hand \in Places
  /\ held = None

Appear(w) ==
  /\ w \notin open
  /\ open' = open \cup {w}
  /\ UNCHANGED <<place, hand, held>>

\* A window may go while its image is held.  Its next image is at 0 again.
Vanish(w) ==
  /\ w \in open
  /\ open' = open \ {w}
  /\ place' = [place EXCEPT ![w] = 0]
  /\ held' = IF held = w THEN None ELSE held
  /\ UNCHANGED hand

Grab(w) ==
  /\ w \in open /\ held = None
  /\ held' = w
  /\ UNCHANGED <<open, place, hand>>

LetGo ==
  /\ held # None
  /\ held' = None
  /\ UNCHANGED <<open, place, hand>>

PutBack(w) ==
  /\ w \in open
  /\ place' = [place EXCEPT ![w] = 0]
  /\ UNCHANGED <<open, hand, held>>

Reach(p) ==
  /\ hand' = p
  /\ place' = IF held = None THEN place
              ELSE [place EXCEPT ![held] = @ + (p - hand)]
  /\ UNCHANGED <<open, held>>

DragNext ==
  \/ \E w \in Windows : Appear(w) \/ Vanish(w) \/ Grab(w) \/ PutBack(w)
  \/ LetGo
  \/ \E p \in Places : Reach(p)

DragSpec == DragInit /\ [][DragNext]_dragVars
=============================================================================
