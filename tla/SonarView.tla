------------------------------ MODULE SonarView -----------------------------
(***************************************************************************)
(* What a sonar window shows, and the mouse, wheel, keys, timer and paint  *)
(* events that change it: the canvas passes mouse events on to SonarFrame, *)
(* which drags and scales the image, and render() loads, scales and draws  *)
(* the next of three image files.                                          *)
(*                                                                         *)
(* Four things are shared by all windows of the process, as they are       *)
(* `static': the last mouse position of a drag, the number of the next     *)
(* image, and the width and height of the image rendered first.  Places on *)
(* the canvas are one number, and so is a size: x and y are treated alike. *)
(* FloatZoom counts img_data_size.                                         *)
(***************************************************************************)
EXTENDS Integers, FloatZoom

CONSTANTS
  Views,       (* Sonar windows.                                           *)
  NoView,      (* No sonar window.                                         *)
  Points,      (* Places of the pointer.                                   *)
  Far,         (* Bound: an image is not dragged further away than this.   *)
  ZoomLimits,  (* Bound: the tenths the user enlarges the image to.        *)
  Interval,    (* Ticks between two timer events (2000 ms).                *)
  ImageWidth,  (* The width of each of the three images.                   *)
  Loads,       (* The images the toolkit can load as PNG: two of the files *)
               (* hold JPEG data.                                          *)
  Captures     (* The kinds of toolkit: whether one sends the motion and   *)
               (* the release of a press to the window that was pressed    *)
               (* (not so on Windows).                                     *)

Images == 1 .. 3

ASSUME ViewAssumption ==
  /\ NoView \notin Views
  /\ Points \subseteq Int
  /\ Far \in Nat
  /\ ZoomLimits \subseteq Int /\ 10 \in ZoomLimits
  /\ Interval \in Nat \ {0}
  /\ ImageWidth \in [Images -> Nat \ {0}]
  /\ Loads \subseteq Images
  /\ Captures \subseteq BOOLEAN

VARIABLES
  up,              (* Per view: the window is on the screen.               *)
  MouseDown,       (* Per view: Canvas::MouseDown.                         *)
  m_isDragging,    (* Per view: SonarFrame::m_isDragging.                  *)
  img_position,    (* Per view: where the image is drawn,                  *)
  img_data_size,   (*           and how large.                             *)
  dirty,           (* Per view: a repaint is pending.                      *)
  left,            (* Per view: ticks until m_Timer fires.                 *)
  shown,           (* Per view: what the last render() drew.               *)
  m_lastMousePos,  (* The three statics.                                   *)
  img_num,
  Width,
  pointer,         (* Where the pointer is,                                *)
  holder,          (* and the window its button went down in, if it is.    *)
  captured,        (* The toolkit's kind, which never changes.             *)
  grab,            (* Per view: image position minus pointer, when the     *)
                   (* button went down or the image was put back,          *)
  clicks           (*           and the tenths the user has chosen.        *)

dragVars  == <<MouseDown, m_isDragging, m_lastMousePos>>
imageVars == <<img_position, img_data_size>>
drawVars  == <<left, shown, img_num, Width>>
userVars  == <<pointer, holder, captured, grab, clicks>>
vars == <<up, dragVars, imageVars, dirty, drawVars, userVars>>

-----------------------------------------------------------------------------
(* Drawing.                                                                *)

Unset == -1

\* Mutants: no image 1 after image 3; image 1 after image 2; a width that is
\* not static.
NeverWraps(k) == k + 1
SkipThird(k) == IF k >= 2 THEN 1 ELSE k + 1
WidthOfThis(w) == w

NextImage(k) == IF k = 3 THEN 1 ELSE k + 1

\* GetWidth of a bitmap that could not be loaded is 0.
LoadedWidth(k) == IF k \in Loads THEN ImageWidth[k] ELSE 0

\* `static int Width = img.GetWidth()': the first call decides.
Latched(w) == IF Width = Unset THEN w ELSE Width

\* The width DrawBitmap draws; a size that is not positive draws nothing.
Drawn(k, size, w) == IF k \in Loads THEN Pixels(w, size) ELSE 0

Nothing == [img |-> 0, pos |-> 0, size |-> Original, width |-> 0]

\* render() and the functions it calls.  It restarts the timer.
Render(v) ==
  LET w == Latched(LoadedWidth(img_num))
  IN  /\ left' = [left EXCEPT ![v] = Interval]
      /\ Width' = w
      /\ img_num' = NextImage(img_num)
      /\ shown' = [shown EXCEPT ![v] =
           [img |-> img_num, pos |-> img_position[v], size |-> img_data_size[v],
            width |-> Drawn(img_num, img_data_size[v], w)]]

\* Mutant: no Refresh().
NotRefreshed(v) == dirty

Refreshed(v) == [dirty EXCEPT ![v] = TRUE]

-----------------------------------------------------------------------------
Init ==
  /\ up = [v \in Views |-> FALSE]
  /\ MouseDown = [v \in Views |-> FALSE]
  /\ m_isDragging = [v \in Views |-> FALSE]
  /\ img_position = [v \in Views |-> 0]
  /\ img_data_size = [v \in Views |-> Original]
  /\ dirty = [v \in Views |-> FALSE]
  /\ left = [v \in Views |-> Interval]
  /\ shown = [v \in Views |-> Nothing]
  /\ m_lastMousePos = 0 /\ img_num = 1 /\ Width = Unset
  /\ pointer \in Points
  /\ holder = NoView
  /\ captured \in Captures
  /\ grab = [v \in Views |-> 0]
  /\ clicks = [v \in Views |-> 10]

\* The constructors of SonarFrame and Canvas, Create and Show.
Open(v) ==
  /\ ~up[v]
  /\ up' = [up EXCEPT ![v] = TRUE]
  /\ dirty' = Refreshed(v)
  /\ UNCHANGED <<dragVars, imageVars, drawVars, userVars>>

\* OnClose and Destroy, in the middle of a drag or not.  The next window has
\* members of its own; the statics stay.
Close(v) ==
  /\ up[v]
  /\ up' = [up EXCEPT ![v] = FALSE]
  /\ MouseDown' = [MouseDown EXCEPT ![v] = FALSE]
  /\ m_isDragging' = [m_isDragging EXCEPT ![v] = FALSE]
  /\ img_position' = [img_position EXCEPT ![v] = 0]
  /\ img_data_size' = [img_data_size EXCEPT ![v] = Original]
  /\ left' = [left EXCEPT ![v] = Interval]
  /\ shown' = [shown EXCEPT ![v] = Nothing]
  /\ dirty' = [dirty EXCEPT ![v] = FALSE]
  /\ holder' = IF holder = v THEN NoView ELSE holder
  /\ grab' = [grab EXCEPT ![v] = 0]
  /\ clicks' = [clicks EXCEPT ![v] = 10]
  /\ UNCHANGED <<m_lastMousePos, img_num, Width, pointer, captured>>

-----------------------------------------------------------------------------
(* The mouse.                                                              *)

\* The toolkit sends a mouse event to v.
Reaches(v) == up[v] /\ (captured => holder \in {NoView, v})

\* Mutant: a press goes on from where the last drag ended.
LastDragsEnd == m_lastMousePos

PressedAt == pointer

\* Canvas::mouseDown and OnLeftMouse.  There is no handler for the second
\* press of a double click.
Press(v) ==
  /\ Reaches(v) /\ holder = NoView
  /\ holder' = v
  /\ MouseDown' = [MouseDown EXCEPT ![v] = TRUE]
  /\ m_lastMousePos' = PressedAt
  /\ m_isDragging' = [m_isDragging EXCEPT ![v] = TRUE]
  /\ dirty' = IF m_isDragging[v] THEN dirty ELSE Refreshed(v)
  /\ grab' = [grab EXCEPT ![v] = img_position[v] - pointer]
  /\ UNCHANGED <<up, imageVars, drawVars, pointer, captured, clicks>>

DoubleClick(v) ==
  /\ Reaches(v) /\ holder = NoView
  /\ holder' = v
  /\ UNCHANGED <<up, dragVars, imageVars, dirty, drawVars, pointer, captured,
                 grab, clicks>>

\* Mutant: the last position is not brought up to date.
FirstMousePos(p) == m_lastMousePos

LastMousePos(p) == p

\* Canvas::mouseMoved and OnLeftMouseMove.
Move(v, p) ==
  /\ Reaches(v)
  /\ pointer' = p
  /\ IF MouseDown[v] /\ m_isDragging[v]
     THEN /\ img_position' = [img_position EXCEPT ![v] = @ + p - m_lastMousePos]
          /\ img_position'[v] \in -Far .. Far
          /\ m_lastMousePos' = LastMousePos(p)
          /\ dirty' = Refreshed(v)
     ELSE UNCHANGED <<img_position, m_lastMousePos, dirty>>
  /\ UNCHANGED <<up, MouseDown, m_isDragging, img_data_size, drawVars, holder,
                 captured, grab, clicks>>

\* Motion that no sonar window gets.
MoveElsewhere(p) ==
  /\ captured => holder = NoView
  /\ pointer' = p
  /\ UNCHANGED <<up, dragVars, imageVars, dirty, drawVars, holder, captured,
                 grab, clicks>>

\* Mutant: OnLeftMouseRelease forgets m_isDragging.
StillDragging(v) == m_isDragging

NotDragging(v) == [m_isDragging EXCEPT ![v] = FALSE]

\* Canvas::mouseReleased and OnLeftMouseRelease.
Release(v) ==
  /\ Reaches(v) /\ holder # NoView
  /\ holder' = NoView
  /\ MouseDown' = [MouseDown EXCEPT ![v] = FALSE]
  /\ m_isDragging' = NotDragging(v)
  /\ UNCHANGED <<up, m_lastMousePos, imageVars, dirty, drawVars, pointer,
                 captured, grab, clicks>>

\* The button is released over another window.
ReleaseElsewhere ==
  /\ ~captured /\ holder # NoView
  /\ holder' = NoView
  /\ UNCHANGED <<up, dragVars, imageVars, dirty, drawVars, pointer, captured,
                 grab, clicks>>

-----------------------------------------------------------------------------
(* Size, restoration, refreshing and drawing.                              *)

\* Mutant: everything that does not enlarge makes smaller.
ElseSmaller(x, rotation) == IF rotation > 0 THEN Larger(x) ELSE Smaller(x)

Turned(x, rotation) ==
  CASE rotation > 0 -> Larger(x)
    [] rotation < 0 -> Smaller(x)
    [] OTHER -> x

\* The wheel, and the keys Up and Down; a wheel event may have no rotation.
Zoom(v, rotation) ==
  /\ up[v]
  /\ clicks[v] + rotation \in ZoomLimits
  /\ clicks' = [clicks EXCEPT ![v] = @ + rotation]
  /\ img_data_size' = [img_data_size EXCEPT ![v] = Turned(@, rotation)]
  /\ dirty' = Refreshed(v)
  /\ UNCHANGED <<up, dragVars, img_position, drawVars, pointer, holder,
                 captured, grab>>

\* OnRestorationButtonClick does not refresh.  The keyboard reaches the
\* button during a drag.
Restore(v) ==
  /\ up[v]
  /\ img_position' = [img_position EXCEPT ![v] = 0]
  /\ img_data_size' = [img_data_size EXCEPT ![v] = Original]
  /\ grab' = [grab EXCEPT ![v] = -pointer]
  /\ clicks' = [clicks EXCEPT ![v] = 10]
  /\ UNCHANGED <<up, dragVars, dirty, drawVars, pointer, holder, captured>>

\* Refresh() for an AIS sentence, a fix, new colours or the north-up box.
Refresh(v) ==
  /\ up[v]
  /\ dirty' = Refreshed(v)
  /\ UNCHANGED <<up, dragVars, imageVars, drawVars, userVars>>

Tick(v) ==
  /\ up[v] /\ left[v] > 0
  /\ left' = [left EXCEPT ![v] = @ - 1]
  /\ UNCHANGED <<up, dragVars, imageVars, dirty, shown, img_num, Width, userVars>>

RefreshedByTimer(v) == Refreshed(v)

OnTimer(v) ==
  /\ up[v] /\ left[v] = 0
  /\ left' = [left EXCEPT ![v] = Interval]
  /\ dirty' = RefreshedByTimer(v)
  /\ UNCHANGED <<up, dragVars, imageVars, shown, img_num, Width, userVars>>

PaintEvent(v) ==
  /\ up[v] /\ dirty[v]
  /\ Render(v)
  /\ dirty' = [dirty EXCEPT ![v] = FALSE]
  /\ UNCHANGED <<up, dragVars, imageVars, userVars>>

\* OnSize draws at once.
OnSize(v) ==
  /\ up[v]
  /\ Render(v)
  /\ UNCHANGED <<up, dragVars, imageVars, dirty, userVars>>

-----------------------------------------------------------------------------
ViewStep(v) ==
  \/ Open(v) \/ Close(v)
  \/ Press(v) \/ DoubleClick(v) \/ Release(v)
  \/ \E p \in Points : Move(v, p)
  \/ \E rotation \in -1 .. 1 : Zoom(v, rotation)
  \/ Restore(v) \/ Refresh(v)
  \/ Tick(v) \/ OnTimer(v) \/ PaintEvent(v) \/ OnSize(v)

Next ==
  \/ \E v \in Views : ViewStep(v)
  \/ ReleaseElsewhere
  \/ \E p \in Points : MoveElsewhere(p)

Spec == Init /\ [][Next]_vars

\* Time passes, and the event loop gets round to the timer and to painting;
\* nothing makes the user do anything.
Fairness ==
  \A v \in Views :
    WF_vars(Tick(v)) /\ WF_vars(OnTimer(v)) /\ WF_vars(PaintEvent(v))

FairSpec == Spec /\ Fairness

-----------------------------------------------------------------------------
(* Properties.                                                             *)

ViewTypeOK ==
  /\ up \in [Views -> BOOLEAN]
  /\ MouseDown \in [Views -> BOOLEAN]
  /\ m_isDragging \in [Views -> BOOLEAN]
  /\ img_position \in [Views -> -Far .. Far]
  /\ img_data_size \in [Views -> Int]
  /\ dirty \in [Views -> BOOLEAN]
  /\ left \in [Views -> 0 .. Interval]
  /\ shown \in [Views -> [img : 0 .. 3, pos : -Far .. Far, size : Int,
                          width : Nat]]
  /\ m_lastMousePos \in Int
  /\ img_num \in Images
  /\ Width \in Nat \cup {Unset}
  /\ pointer \in Points
  /\ holder \in Views \cup {NoView}
  /\ captured \in Captures
  /\ grab \in [Views -> Int]
  /\ clicks \in [Views -> ZoomLimits]

\* The two flags that say a drag is going on, one in Canvas and one in
\* SonarFrame, agree however presses and releases are lost or come twice.
FlagsAgree == \A v \in Views : up[v] => MouseDown[v] = m_isDragging[v]

\* With a toolkit that captures the pointer: only the window whose button is
\* held is dragged, and its image stays under the pointer at the very point
\* where it was grabbed, though the last position is shared by all windows,
\* windows open and close in mid-drag and the image is put back in mid-drag.
GrabbedPoint ==
  captured =>
    \A v \in Views : up[v] /\ MouseDown[v] =>
      holder = v /\ img_position[v] - pointer = grab[v]

\* If the first image can be loaded, the size of what is drawn depends on
\* the zoom and on nothing else: not on which image it is, nor on what was
\* drawn before, in this window or another.
SizeFromZoomOnly ==
  1 \in Loads =>
    \A v \in Views : shown[v].img \in Loads =>
      shown[v].width = Pixels(ImageWidth[1], shown[v].size)

\* However the user turns the wheel to and fro, through the original size and
\* through nothing, the rounding of the float steps never adds up to more than
\* one pixel of the width of the first image, and the image is never nothing
\* when it should be something, nor something when it should be nothing.
ZoomReturns ==
  \A v \in Views :
    LET wanted == IF clicks[v] > 0 THEN (ImageWidth[1] * clicks[v]) \div 10
                                   ELSE 0
        got == Pixels(ImageWidth[1], img_data_size[v])
    IN  got = wanted \/ (wanted > 1 /\ got = wanted - 1)

\* However many steps there were, and over whichever powers of two they led,
\* their rounding has added up to one of the few errors that IsDrift allows.
SizeOfClicks ==
  \A v \in Views :
    IsDrift(clicks[v], img_data_size[v] - clicks[v] * Tenth)

\* Only a restoration can leave an old picture on the screen: a window that
\* shows its image elsewhere or in another size than it has, with no repaint
\* pending, was just put back, as all else that changes the two refreshes.
StaleIsRestored ==
  \A v \in Views : up[v] /\ ~dirty[v] =>
    \/ shown[v].pos = img_position[v] /\ shown[v].size = img_data_size[v]
    \/ img_position[v] = 0 /\ img_data_size[v] = Original

\* What is on the screen catches up with the image's position and size
\* again and again, also after a restoration, which does not refresh: either
\* something else refreshes or the timer does, however often render()
\* restarts it.
ShownCatchesUp ==
  \A v \in Views :
    []<>(up[v] => /\ shown[v].pos = img_position[v]
                  /\ shown[v].size = img_data_size[v])

\* A window that stays open by itself shows each of the three images again
\* and again, even if nothing ever happens to it.
Carousel ==
  \A v \in Views : \A k \in Images :
    <>[](up = [w \in Views |-> w = v]) => []<>(shown[v].img = k)
-----------------------------------------------------------------------------
(* SonarView implements DraggedImages.                                     *)

\* The window that is dragged.
Dragged ==
  IF \E v \in Views : MouseDown[v] THEN CHOOSE v \in Views : MouseDown[v]
  ELSE NoView

Hand == INSTANCE DraggedImages WITH
          Windows <- Views, None <- NoView, Places <- Points,
          open <- {v \in Views : up[v]}, place <- img_position,
          hand <- pointer, held <- Dragged

\* With a toolkit that captures the pointer, the two flags of each window and
\* the last position all windows share amount to one hand: a drag moves the
\* image of the window that was pressed, by what the pointer moved, whatever
\* closes, opens, is double-clicked or put back in between.
DragsAsOneHand == Hand!DragSpec

-----------------------------------------------------------------------------
(* The inductive invariants behind the properties.                         *)

\* In a drag the static last position is the pointer's, whichever window
\* stored it last, and closed windows take no part.
DragInv ==
  /\ \A v \in Views : MouseDown[v] = m_isDragging[v]
  /\ captured =>
       \A v \in Views : MouseDown[v] =>
         /\ holder = v
         /\ m_lastMousePos = pointer
         /\ img_position[v] - pointer = grab[v]

\* The first width is latched together with the step to the second image.
SizeInv ==
  /\ 1 \in Loads =>
       IF Width = Unset THEN img_num = 1 ELSE Width = ImageWidth[1]
  /\ SizeFromZoomOnly
=============================================================================
