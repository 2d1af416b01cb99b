--------------------------- MODULE SonarViewProofs --------------------------
(***************************************************************************)
(* Theorems about SonarView: for any number of windows, any places of the  *)
(* pointer, any image widths and any toolkit.                              *)
(***************************************************************************)
EXTENDS SonarView, FloatZoomProofs, TLAPS

-----------------------------------------------------------------------------
(* Types.                                                                  *)

\* A step of the wheel leads from a size to a size.
LEMMA TurnedType ==
  ASSUME NEW x \in Int, NEW rotation \in -1 .. 1
  PROVE  Turned(x, rotation) \in Int
<1>1. ASSUME NEW y \in Int PROVE Rounded(y) \in Int
  <2>1. ASSUME NEW u \in {1, 5, 10, 20, 40, 80, 160}
        PROVE  ((y + u \div 2) \div u) * u \in Int
    OBVIOUS
  <2>. QED  BY <2>1, SpacingValues DEF Rounded
<1>2. Larger(x) \in Int /\ Smaller(x) \in Int
  BY <1>1 DEF Larger, Smaller, Tenth
<1>. QED  BY <1>2 DEF Turned

LEMMA LatchedType ==
  ASSUME ViewTypeOK
  PROVE  Latched(LoadedWidth(img_num)) \in Nat
<1>1. LoadedWidth(img_num) \in Nat
  BY ViewAssumption DEF ViewAssumption, LoadedWidth, ViewTypeOK
<1>. QED  BY <1>1 DEF Latched, ViewTypeOK

\* render() keeps the types of what it changes.
LEMMA RenderType ==
  ASSUME ViewTypeOK, NEW v \in Views, Render(v)
  PROVE  /\ left' \in [Views -> 0 .. Interval]
         /\ Width' \in Nat \cup {Unset}
         /\ img_num' \in Images
         /\ shown' \in [Views -> [img : 0 .. 3, pos : -Far .. Far, size : Int,
                                  width : Nat]]
<1> DEFINE w == Latched(LoadedWidth(img_num))
           what == [img |-> img_num, pos |-> img_position[v],
                    size |-> img_data_size[v],
                    width |-> Drawn(img_num, img_data_size[v], w)]
<1>1. w \in Nat
  BY LatchedType
<1>2. img_num \in 1 .. 3 /\ img_position[v] \in -Far .. Far
      /\ img_data_size[v] \in Int
  BY DEF ViewTypeOK, Images
<1>3. Drawn(img_num, img_data_size[v], w) \in Nat
  <2>. HIDE DEF w
  <2>. QED  BY <1>1, <1>2, PixelsType DEF Drawn
<1>4. what \in [img : 0 .. 3, pos : -Far .. Far, size : Int, width : Nat]
  <2>. HIDE DEF w
  <2>. QED  BY <1>2, <1>3
<1>5. left' \in [Views -> 0 .. Interval]
  BY ViewAssumption DEF ViewAssumption, Render, ViewTypeOK
<1>6. Width' \in Nat \cup {Unset}
  BY <1>1 DEF Render
<1>7. img_num' \in Images
  BY <1>2 DEF Render, NextImage, Images
<1>8. shown' = [shown EXCEPT ![v] = what]
  BY DEF Render
<1>9. shown' \in [Views -> [img : 0 .. 3, pos : -Far .. Far, size : Int,
                            width : Nat]]
  <2>. HIDE DEF what
  <2>. QED  BY <1>4, <1>8 DEF ViewTypeOK
<1>. QED  BY <1>5, <1>6, <1>7, <1>9

LEMMA InitViewType == Init => ViewTypeOK
<1>. SUFFICES ASSUME Init PROVE ViewTypeOK
  OBVIOUS
<1>. USE ViewAssumption DEF ViewAssumption, Init
<1>1. 0 \in -Far .. Far
  OBVIOUS
<1>2. Nothing \in [img : 0 .. 3, pos : -Far .. Far, size : Int, width : Nat]
  BY <1>1 DEF Nothing, Original, Tenth
<1>3. Original \in Int
  BY DEF Original, Tenth
<1>4. pointer \in Points /\ m_lastMousePos \in Int /\ img_num \in Images
  BY DEF Images
<1>. QED  BY <1>1, <1>2, <1>3, <1>4 DEF ViewTypeOK

LEMMA ViewStepType ==
  ASSUME ViewTypeOK, NEW v \in Views, ViewStep(v)
  PROVE  ViewTypeOK'
<1>. USE DEF dragVars, imageVars, drawVars, userVars
<1>1. /\ pointer \in Int /\ 0 \in -Far .. Far /\ 10 \in ZoomLimits
      /\ Interval \in Nat
  BY ViewAssumption DEF ViewAssumption, ViewTypeOK
<1>2. Original \in Int
  BY DEF Original, Tenth
<1>3. CASE Open(v)
  BY <1>3 DEF Open, Refreshed, ViewTypeOK
<1>4. CASE Close(v)
  <2>1. Nothing \in [img : 0 .. 3, pos : -Far .. Far, size : Int, width : Nat]
    BY <1>1, <1>2 DEF Nothing
  <2>2. /\ shown' \in [Views -> [img : 0 .. 3, pos : -Far .. Far, size : Int,
                                 width : Nat]]
        /\ left' \in [Views -> 0 .. Interval]
    <3>. HIDE DEF Nothing
    <3>. QED  BY <1>1, <1>4, <2>1 DEF Close, ViewTypeOK
  <2>3. /\ img_position' \in [Views -> -Far .. Far]
        /\ img_data_size' \in [Views -> Int]
        /\ grab' \in [Views -> Int] /\ clicks' \in [Views -> ZoomLimits]
    BY <1>1, <1>2, <1>4 DEF Close, ViewTypeOK
  <2>. QED  BY <1>4, <2>2, <2>3 DEF Close, ViewTypeOK
<1>5. CASE Press(v)
  <2>1. grab' \in [Views -> Int]
    BY <1>1, <1>5 DEF Press, ViewTypeOK
  <2>. QED  BY <1>1, <1>5, <2>1 DEF Press, PressedAt, Refreshed, ViewTypeOK
<1>6. CASE DoubleClick(v)
  BY <1>6 DEF DoubleClick, ViewTypeOK
<1>7. CASE Release(v)
  BY <1>7 DEF Release, NotDragging, ViewTypeOK
<1>8. ASSUME NEW p \in Points, Move(v, p) PROVE ViewTypeOK'
  <2>1. img_position' \in [Views -> -Far .. Far]
    BY <1>8 DEF Move, ViewTypeOK
  <2>2. m_lastMousePos' \in Int /\ dirty' \in [Views -> BOOLEAN]
    BY <1>8, ViewAssumption
    DEF Move, LastMousePos, Refreshed, ViewTypeOK, ViewAssumption
  <2>. QED  BY <1>8, <2>1, <2>2 DEF Move, ViewTypeOK
<1>9. ASSUME NEW rotation \in -1 .. 1, Zoom(v, rotation) PROVE ViewTypeOK'
  <2>1. img_data_size' \in [Views -> Int]
    BY <1>9, TurnedType DEF Zoom, ViewTypeOK
  <2>2. clicks' \in [Views -> ZoomLimits]
    BY <1>9 DEF Zoom, ViewTypeOK
  <2>. QED  BY <1>9, <2>1, <2>2 DEF Zoom, Refreshed, ViewTypeOK
<1>10. CASE Restore(v)
  BY <1>1, <1>2, <1>10 DEF Restore, ViewTypeOK
<1>11. CASE Refresh(v)
  BY <1>11 DEF Refresh, Refreshed, ViewTypeOK
<1>12. CASE Tick(v)
  BY <1>1, <1>12 DEF Tick, ViewTypeOK
<1>13. CASE OnTimer(v)
  BY <1>1, <1>13 DEF OnTimer, RefreshedByTimer, Refreshed, ViewTypeOK
<1>14. CASE PaintEvent(v)
  <2>1. Render(v) /\ dirty' = [dirty EXCEPT ![v] = FALSE]
        /\ UNCHANGED <<up, dragVars, imageVars, userVars>>
    BY <1>14 DEF PaintEvent
  <2>. QED  BY <2>1, RenderType DEF ViewTypeOK
<1>15. CASE OnSize(v)
  <2>1. Render(v) /\ UNCHANGED <<up, dragVars, imageVars, dirty, userVars>>
    BY <1>15 DEF OnSize
  <2>. QED  BY <2>1, RenderType DEF ViewTypeOK
<1>. QED
  BY <1>3, <1>4, <1>5, <1>6, <1>7, <1>8, <1>9, <1>10, <1>11, <1>12, <1>13,
     <1>14, <1>15
  DEF ViewStep

LEMMA NextViewType ==
  ASSUME ViewTypeOK, [Next]_vars
  PROVE  ViewTypeOK'
<1>. USE DEF dragVars, imageVars, drawVars, userVars
<1>1. ASSUME NEW v \in Views, ViewStep(v) PROVE ViewTypeOK'
  BY <1>1, ViewStepType
<1>2. CASE ReleaseElsewhere
  BY <1>2 DEF ReleaseElsewhere, ViewTypeOK
<1>3. ASSUME NEW p \in Points, MoveElsewhere(p) PROVE ViewTypeOK'
  BY <1>3 DEF MoveElsewhere, ViewTypeOK
<1>4. CASE UNCHANGED vars
  BY <1>4 DEF vars, ViewTypeOK
<1>. QED  BY <1>1, <1>2, <1>3, <1>4 DEF Next

\* Every variable keeps its type: no image number but 1, 2 and 3, whatever
\* windows render, no width below nothing.
THEOREM ViewTypeCorrect == Spec => []ViewTypeOK
<1>. QED  BY InitViewType, NextViewType, PTL DEF Spec

-----------------------------------------------------------------------------
(* Dragging.                                                               *)

LEMMA InitDrag == Init => DragInv
  BY ViewAssumption DEF ViewAssumption, Init, DragInv

LEMMA ViewStepDrag ==
  ASSUME ViewTypeOK, DragInv, NEW v \in Views, ViewStep(v)
  PROVE  DragInv'
<1>. USE DEF dragVars, imageVars, drawVars, userVars
<1>1. /\ pointer \in Int /\ m_lastMousePos \in Int
      /\ \A w \in Views : img_position[w] \in Int /\ grab[w] \in Int
      /\ Points \subseteq Int
  BY ViewAssumption DEF ViewAssumption, ViewTypeOK
<1>2. /\ MouseDown \in [Views -> BOOLEAN] /\ m_isDragging \in [Views -> BOOLEAN]
      /\ img_position \in [Views -> -Far .. Far] /\ grab \in [Views -> Int]
  BY DEF ViewTypeOK
<1>3. NoView \notin Views
  BY ViewAssumption DEF ViewAssumption
<1>4. CASE Open(v)
  BY <1>4 DEF Open, DragInv
<1>5. CASE Close(v)
  <2>1. /\ MouseDown' = [MouseDown EXCEPT ![v] = FALSE]
        /\ m_isDragging' = [m_isDragging EXCEPT ![v] = FALSE]
        /\ img_position' = [img_position EXCEPT ![v] = 0]
        /\ grab' = [grab EXCEPT ![v] = 0]
        /\ holder' = IF holder = v THEN NoView ELSE holder
        /\ UNCHANGED <<m_lastMousePos, pointer, captured>>
    BY <1>5 DEF Close
  <2>2. ASSUME NEW w \in Views, w # v, MouseDown[w], captured
        PROVE  holder' = w
    BY <2>1, <2>2 DEF DragInv
  <2>. QED  BY <1>2, <2>1, <2>2 DEF DragInv
<1>6. CASE Press(v)
  <2>1. captured => \A w \in Views : ~MouseDown[w]
    BY <1>3, <1>6 DEF Press, PressedAt, DragInv
  <2>. QED  BY <1>1, <1>2, <1>6, <2>1 DEF Press, PressedAt, DragInv
<1>7. CASE DoubleClick(v)
  <2>1. captured => \A w \in Views : ~MouseDown[w]
    BY <1>3, <1>7 DEF DoubleClick, DragInv
  <2>. QED  BY <1>7, <2>1 DEF DoubleClick, DragInv
<1>8. CASE Release(v)
  <2>1. captured => \A w \in Views : MouseDown[w] => w = v
    BY <1>8 DEF Release, Reaches, DragInv
  <2>. QED  BY <1>2, <1>8, <2>1 DEF Release, NotDragging, DragInv
<1>9. ASSUME NEW p \in Points, Move(v, p) PROVE DragInv'
  <2>1. captured => \A w \in Views : MouseDown[w] => w = v
    BY <1>3, <1>9 DEF Move, Reaches, DragInv
  <2>2. CASE MouseDown[v]
    <3>1. m_isDragging[v]
      BY <2>2 DEF DragInv
    <3>2. /\ img_position' =
               [img_position EXCEPT ![v] = @ + p - m_lastMousePos]
          /\ m_lastMousePos' = p /\ pointer' = p
          /\ UNCHANGED <<MouseDown, m_isDragging, holder, captured, grab>>
      BY <1>9, <2>2, <3>1 DEF Move, LastMousePos
    <3>3. img_position'[v] = img_position[v] + p - m_lastMousePos
      BY <1>2, <3>2
    <3>4. captured => img_position'[v] - p = grab[v]
      BY <1>1, <2>2, <3>3 DEF DragInv
    <3>. QED  BY <2>1, <3>2, <3>4 DEF DragInv
  <2>3. CASE ~MouseDown[v]
    <3>1. captured => \A w \in Views : ~MouseDown[w]
      BY <2>1, <2>3
    <3>. QED  BY <1>9, <3>1 DEF Move, DragInv
  <2>. QED  BY <2>2, <2>3
<1>10. ASSUME NEW rotation \in -1 .. 1, Zoom(v, rotation) PROVE DragInv'
  BY <1>10 DEF Zoom, DragInv
<1>11. CASE Restore(v)
  <2>1. 0 - pointer = -pointer
    BY <1>1
  <2>. QED  BY <1>2, <1>11, <2>1 DEF Restore, DragInv
<1>12. CASE Refresh(v) \/ Tick(v) \/ OnTimer(v) \/ PaintEvent(v) \/ OnSize(v)
  <2>1. UNCHANGED <<dragVars, imageVars, userVars>>
    BY <1>12 DEF Refresh, Tick, OnTimer, PaintEvent, OnSize
  <2>. QED  BY <2>1 DEF DragInv
<1>. QED
  BY <1>4, <1>5, <1>6, <1>7, <1>8, <1>9, <1>10, <1>11, <1>12 DEF ViewStep

LEMMA NextDrag ==
  ASSUME ViewTypeOK, DragInv, [Next]_vars
  PROVE  DragInv'
<1>. USE DEF dragVars, imageVars, drawVars, userVars
<1>1. ASSUME NEW v \in Views, ViewStep(v) PROVE DragInv'
  BY <1>1, ViewStepDrag
<1>2. CASE ReleaseElsewhere
  BY <1>2 DEF ReleaseElsewhere, DragInv
<1>3. ASSUME NEW p \in Points, MoveElsewhere(p) PROVE DragInv'
  <2>1. captured => \A w \in Views : ~MouseDown[w]
    BY <1>3, ViewAssumption DEF ViewAssumption, MoveElsewhere, DragInv
  <2>. QED  BY <1>3, <2>1 DEF MoveElsewhere, DragInv
<1>4. CASE UNCHANGED vars
  BY <1>4 DEF vars, DragInv
<1>. QED  BY <1>1, <1>2, <1>3, <1>4 DEF Next

LEMMA DragInvariant == Spec => []DragInv
<1>. QED
  BY InitDrag, InitViewType, NextViewType, NextDrag, PTL DEF Spec

\* The flags of Canvas and SonarFrame agree, with every toolkit.
THEOREM FlagsNeverDiffer == Spec => []FlagsAgree
<1>1. DragInv => FlagsAgree
  BY DEF DragInv, FlagsAgree
<1>. QED  BY <1>1, DragInvariant, PTL

\* With a toolkit that captures the pointer, a dragged image stays where it
\* was grabbed, for any number of windows that share the last position.
THEOREM ImageStaysGrabbed == Spec => []GrabbedPoint
<1>1. DragInv => GrabbedPoint
  BY DEF DragInv, GrabbedPoint
<1>. QED  BY <1>1, DragInvariant, PTL

\* If one window is dragged and no other, Dragged is that window; if none is,
\* it is NoView.  `down' stands for MouseDown before and after a step.
LEMMA TheDragged ==
  ASSUME NEW down,
         \A w, x \in Views : down[w] /\ down[x] => w = x
  PROVE  LET dragged == IF \E v \in Views : down[v]
                        THEN CHOOSE v \in Views : down[v] ELSE NoView
         IN  /\ \A v \in Views : down[v] => dragged = v
             /\ (\A v \in Views : ~down[v]) => dragged = NoView
<1>. DEFINE chosen == CHOOSE v \in Views : down[v]
<1>1. ASSUME NEW v \in Views, down[v] PROVE chosen = v
  <2>1. chosen \in Views /\ down[chosen]
    BY <1>1
  <2>. HIDE DEF chosen
  <2>. QED  BY <1>1, <2>1
<1>. QED  BY <1>1

\* A step of a window is a step of the one hand, or no step of it.
LEMMA ViewStepHand ==
  ASSUME ViewTypeOK, DragInv, DragInv', captured, captured',
         NEW v \in Views, ViewStep(v)
  PROVE  [Hand!DragNext]_(Hand!dragVars)
<1>. USE DEF dragVars, imageVars, drawVars, userVars
<1>1. /\ pointer \in Int /\ Points \subseteq Int
      /\ \A w \in Views : img_position[w] \in Int
      /\ NoView \notin Views
  BY ViewAssumption DEF ViewAssumption, ViewTypeOK
<1>2. /\ up \in [Views -> BOOLEAN] /\ MouseDown \in [Views -> BOOLEAN]
      /\ img_position \in [Views -> -Far .. Far]
  BY DEF ViewTypeOK
<1>3. \A w \in Views : MouseDown[w] =>
        holder = w /\ m_lastMousePos = pointer /\ m_isDragging[w]
  BY DEF DragInv
<1>4. /\ \A w \in Views : MouseDown[w] => Dragged = w
      /\ (\A w \in Views : ~MouseDown[w]) => Dragged = NoView
  BY <1>3, TheDragged DEF Dragged
<1>5. /\ \A w \in Views : MouseDown'[w] => Dragged' = w
      /\ (\A w \in Views : ~MouseDown'[w]) => Dragged' = NoView
  <2>1. \A w, x \in Views : MouseDown'[w] /\ MouseDown'[x] => w = x
    BY DEF DragInv
  <2>. QED  BY <2>1, TheDragged DEF Dragged
<1>. DEFINE Screen == {w \in Views : up[w]}
<1>6. ASSUME UNCHANGED MouseDown PROVE Dragged' = Dragged
  BY <1>6 DEF Dragged
<1>7. CASE Open(v)
  <2>1. /\ v \notin Screen /\ Screen' = Screen \cup {v}
        /\ UNCHANGED <<img_position, pointer, MouseDown>>
    BY <1>2, <1>7 DEF Open
  <2>2. Hand!Appear(v)
    BY <1>6, <2>1 DEF Hand!Appear
  <2>. QED  BY <2>2 DEF Hand!DragNext
<1>8. CASE Close(v)
  <2>1. /\ v \in Screen /\ Screen' = Screen \ {v}
        /\ MouseDown' = [MouseDown EXCEPT ![v] = FALSE]
        /\ img_position' = [img_position EXCEPT ![v] = 0]
        /\ UNCHANGED pointer
    BY <1>2, <1>8 DEF Close
  <2>2. Dragged' = IF Dragged = v THEN NoView ELSE Dragged
    <3>1. CASE MouseDown[v]
      <4>1. Dragged = v
        BY <1>4, <3>1
      <4>2. \A w \in Views : ~MouseDown'[w]
        BY <1>2, <1>3, <2>1, <3>1
      <4>. QED  BY <1>5, <4>1, <4>2
    <3>2. CASE ~MouseDown[v]
      <4>1. MouseDown' = MouseDown
        BY <1>2, <2>1, <3>2
      <4>2. Dragged # v
        BY <1>1, <1>4, <3>2
      <4>. QED  BY <1>6, <4>1, <4>2
    <3>. QED  BY <3>1, <3>2
  <2>3. Hand!Vanish(v)
    BY <2>1, <2>2 DEF Hand!Vanish
  <2>. QED  BY <2>3 DEF Hand!DragNext
<1>9. CASE Press(v)
  <2>1. /\ v \in Screen /\ Screen' = Screen /\ holder = NoView
        /\ MouseDown' = [MouseDown EXCEPT ![v] = TRUE]
        /\ UNCHANGED <<img_position, pointer>>
    BY <1>9 DEF Press, Reaches
  <2>2. Dragged = NoView
    BY <1>1, <1>3, <1>4, <2>1
  <2>3. Dragged' = v
    BY <1>2, <1>5, <2>1
  <2>4. Hand!Grab(v)
    BY <2>1, <2>2, <2>3 DEF Hand!Grab
  <2>. QED  BY <2>4 DEF Hand!DragNext
<1>10. CASE Release(v)
  <2>1. /\ Screen' = Screen /\ holder = v
        /\ MouseDown' = [MouseDown EXCEPT ![v] = FALSE]
        /\ UNCHANGED <<img_position, pointer>>
    BY <1>10 DEF Release, Reaches
  <2>2. \A w \in Views : ~MouseDown'[w]
    BY <1>2, <1>3, <2>1
  <2>3. Dragged' = NoView
    BY <1>5, <2>2
  <2>4. CASE Dragged = NoView
    BY <2>1, <2>3, <2>4 DEF Hand!dragVars
  <2>5. CASE Dragged # NoView
    <3>1. Hand!LetGo
      BY <2>1, <2>3, <2>5 DEF Hand!LetGo
    <3>. QED  BY <3>1 DEF Hand!DragNext
  <2>. QED  BY <2>4, <2>5
<1>11. ASSUME NEW p \in Points, Move(v, p) PROVE Hand!Reach(p)
  <2>1. /\ Screen' = Screen /\ pointer' = p /\ UNCHANGED MouseDown
        /\ \A w \in Views : MouseDown[w] => w = v
    BY <1>1, <1>3, <1>11 DEF Move, Reaches
  <2>2. CASE MouseDown[v]
    <3>1. Dragged = v
      BY <1>4, <2>2
    <3>2. img_position' = [img_position EXCEPT ![v] = @ + p - m_lastMousePos]
      BY <1>3, <1>11, <2>2 DEF Move
    <3>3. img_position[v] + p - m_lastMousePos
            = img_position[v] + (p - pointer)
      BY <1>1, <1>3, <2>2
    <3>4. img_position' = [img_position EXCEPT ![v] = @ + (p - pointer)]
      BY <3>2, <3>3
    <3>. QED  BY <1>1, <1>6, <2>1, <3>1, <3>4 DEF Hand!Reach
  <2>3. CASE ~MouseDown[v]
    <3>1. Dragged = NoView
      BY <1>4, <2>1, <2>3
    <3>2. UNCHANGED img_position
      BY <1>11, <2>3 DEF Move
    <3>. QED  BY <1>6, <2>1, <3>1, <3>2 DEF Hand!Reach
  <2>. QED  BY <2>2, <2>3
<1>12. CASE Restore(v)
  <2>1. /\ v \in Screen /\ Screen' = Screen
        /\ img_position' = [img_position EXCEPT ![v] = 0]
        /\ UNCHANGED <<pointer, MouseDown>>
    BY <1>12 DEF Restore
  <2>2. Hand!PutBack(v)
    BY <1>6, <2>1 DEF Hand!PutBack
  <2>. QED  BY <2>2 DEF Hand!DragNext
<1>13. ASSUME \/ DoubleClick(v) \/ \E rotation \in -1 .. 1 : Zoom(v, rotation)
              \/ Refresh(v) \/ Tick(v) \/ OnTimer(v)
              \/ PaintEvent(v) \/ OnSize(v)
       PROVE  UNCHANGED Hand!dragVars
  <2>1. UNCHANGED <<up, img_position, pointer, MouseDown>>
    BY <1>13
    DEF DoubleClick, Zoom, Refresh, Tick, OnTimer, PaintEvent, OnSize
  <2>. QED  BY <1>6, <2>1 DEF Hand!dragVars
<1>14. ASSUME NEW p \in Points, Move(v, p) PROVE Hand!DragNext
  BY <1>11, <1>14 DEF Hand!DragNext
<1>. QED
  BY <1>7, <1>8, <1>9, <1>10, <1>12, <1>13, <1>14 DEF ViewStep

\* SonarView implements DraggedImages, on toolkits that send the motion and
\* the release of a press to the window that was pressed: two flags per window
\* and one last position for all windows drag like a single hand, whichever
\* windows come, go, are double-clicked or put back meanwhile.
THEOREM DraggingIsOneHand ==
  ASSUME Captures \subseteq {TRUE}
  PROVE  Spec => DragsAsOneHand
<1>1. Init => Hand!DragInit
  <2>. SUFFICES ASSUME Init PROVE Hand!DragInit
    OBVIOUS
  <2>1. {v \in Views : up[v]} = {}
    BY DEF Init
  <2>2. Dragged = NoView
    BY DEF Init, Dragged
  <2>. QED  BY <2>1, <2>2 DEF Init, Hand!DragInit
<1>2. ASSUME ViewTypeOK, ViewTypeOK', DragInv, DragInv', [Next]_vars
      PROVE  [Hand!DragNext]_(Hand!dragVars)
  <2>. USE DEF dragVars, imageVars, drawVars, userVars
  <2>1. captured /\ captured'
    BY <1>2 DEF ViewTypeOK
  <2>2. ASSUME NEW v \in Views, ViewStep(v)
        PROVE  [Hand!DragNext]_(Hand!dragVars)
    BY <1>2, <2>1, <2>2, ViewStepHand
  <2>3. CASE ReleaseElsewhere
    BY <2>1, <2>3 DEF ReleaseElsewhere
  <2>4. ASSUME NEW p \in Points, MoveElsewhere(p) PROVE Hand!DragNext
    <3>1. \A v \in Views : ~MouseDown[v]
      BY <1>2, <2>1, <2>4, ViewAssumption
      DEF ViewAssumption, MoveElsewhere, DragInv
    <3>2. Dragged = NoView /\ Dragged' = NoView
      BY <2>4, <3>1 DEF MoveElsewhere, Dragged
    <3>3. Hand!Reach(p)
      BY <2>4, <3>2 DEF MoveElsewhere, Hand!Reach
    <3>. QED  BY <3>3 DEF Hand!DragNext
  <2>5. CASE UNCHANGED vars
    BY <2>5 DEF vars, Dragged, Hand!dragVars
  <2>. QED  BY <1>2, <2>2, <2>3, <2>4, <2>5 DEF Next
<1>. QED
  BY <1>1, <1>2, ViewTypeCorrect, DragInvariant, PTL
  DEF Spec, DragsAsOneHand, Hand!DragSpec

-----------------------------------------------------------------------------
(* The drawn size.                                                         *)

LEMMA InitSizes == Init => SizeInv
<1>. SUFFICES ASSUME Init PROVE SizeInv
  OBVIOUS
<1>1. 0 \notin Loads
  BY ViewAssumption DEF ViewAssumption, Images
<1>. QED  BY <1>1 DEF Init, Nothing, SizeInv, SizeFromZoomOnly

\* The first image that is rendered is image 1, and its width stays.
LEMMA RenderSizes ==
  ASSUME ViewTypeOK, SizeInv, NEW v \in Views, Render(v)
  PROVE  SizeInv'
<1> DEFINE w == Latched(LoadedWidth(img_num))
<1>1. Width' = w
      /\ shown' = [shown EXCEPT ![v] =
           [img |-> img_num, pos |-> img_position[v], size |-> img_data_size[v],
            width |-> Drawn(img_num, img_data_size[v], w)]]
  BY DEF Render
<1>2. 1 \in Loads => w = ImageWidth[1] /\ w # Unset
  <2>1. ImageWidth[1] \in Nat
    BY ViewAssumption DEF ViewAssumption, Images
  <2>. QED  BY <2>1 DEF SizeInv, Latched, LoadedWidth, Unset
<1>. HIDE DEF w
<1>3. 1 \in Loads =>
        \A u \in Views : shown'[u].img \in Loads =>
          shown'[u].width = Pixels(ImageWidth[1], shown'[u].size)
  <2>. SUFFICES ASSUME 1 \in Loads, NEW u \in Views, shown'[u].img \in Loads
                PROVE  shown'[u].width = Pixels(ImageWidth[1], shown'[u].size)
    OBVIOUS
  <2>1. CASE u = v
    <3>1. shown'[u] = [img |-> img_num, pos |-> img_position[v],
                       size |-> img_data_size[v],
                       width |-> Drawn(img_num, img_data_size[v], w)]
      BY <1>1, <2>1 DEF ViewTypeOK
    <3>2. img_num \in Loads
      BY <3>1
    <3>. QED  BY <1>2, <3>1, <3>2 DEF Drawn
  <2>2. CASE u # v
    <3>1. shown'[u] = shown[u]
      BY <1>1, <2>2 DEF ViewTypeOK
    <3>. QED  BY <3>1 DEF SizeInv, SizeFromZoomOnly
  <2>. QED  BY <2>1, <2>2
<1>. QED  BY <1>1, <1>2, <1>3 DEF SizeInv, SizeFromZoomOnly

LEMMA NextSizes ==
  ASSUME ViewTypeOK, SizeInv, [Next]_vars
  PROVE  SizeInv'
<1>. USE DEF dragVars, imageVars, drawVars, userVars
<1>1. ASSUME UNCHANGED <<shown, img_num, Width>> PROVE SizeInv'
  BY <1>1 DEF SizeInv, SizeFromZoomOnly
<1>2. ASSUME NEW v \in Views, ViewStep(v) PROVE SizeInv'
  <2>1. CASE Close(v)
    <3>1. /\ UNCHANGED <<img_num, Width>>
          /\ shown' = [shown EXCEPT ![v] = Nothing]
      BY <2>1 DEF Close
    <3>2. 0 \notin Loads /\ Nothing.img = 0
      BY ViewAssumption DEF ViewAssumption, Images, Nothing
    <3>3. \A u \in Views : shown'[u] = IF u = v THEN Nothing ELSE shown[u]
      BY <3>1 DEF ViewTypeOK
    <3>. QED  BY <3>1, <3>2, <3>3 DEF SizeInv, SizeFromZoomOnly
  <2>2. CASE PaintEvent(v) \/ OnSize(v)
    BY <2>2, RenderSizes DEF PaintEvent, OnSize
  <2>3. CASE ~(Close(v) \/ PaintEvent(v) \/ OnSize(v))
    <3>1. UNCHANGED <<shown, img_num, Width>>
      BY <1>2, <2>3
      DEF ViewStep, Open, Press, DoubleClick, Release, Move, Zoom, Restore,
          Refresh, Tick, OnTimer
    <3>. QED  BY <1>1, <3>1
  <2>. QED  BY <2>1, <2>2, <2>3
<1>3. ASSUME ReleaseElsewhere \/ (\E p \in Points : MoveElsewhere(p))
             \/ UNCHANGED vars
      PROVE  SizeInv'
  BY <1>1, <1>3 DEF ReleaseElsewhere, MoveElsewhere, vars
<1>. QED  BY <1>2, <1>3 DEF Next

\* What is drawn is as large as the zoom and the first image say, whatever
\* images and windows were drawn before.
THEOREM SizeIsZoomed == Spec => []SizeFromZoomOnly
<1>1. SizeInv => SizeFromZoomOnly
  BY DEF SizeInv
<1>2. Spec => []SizeInv
  BY InitSizes, InitViewType, NextViewType, NextSizes, PTL DEF Spec
<1>. QED  BY <1>1, <1>2, PTL

-----------------------------------------------------------------------------
(* The wheel.                                                              *)

\* How far the theorems about the wheel follow the user: sizes below 4, on
\* both sides of zero, which is where DriftAbove ends.
SmallZooms == ZoomLimits \subseteq -39 .. 39

\* One step of the wheel or a key, in the code's floats.
LEMMA TurnedDrift ==
  ASSUME NEW t \in -39 .. 39, NEW x \in Int, IsDrift(t, x - t * Tenth),
         NEW rotation \in -1 .. 1, t + rotation \in -39 .. 39
  PROVE  IsDrift(t + rotation,
                 Turned(x, rotation) - (t + rotation) * Tenth)
<1>1. CASE rotation = 1
  <2>1. t < 39 /\ Turned(x, rotation) = Larger(x)
    BY <1>1 DEF Turned
  <2>. QED  BY <1>1, <2>1, StepDrift
<1>2. CASE rotation = -1
  <2>1. /\ t > -39 /\ Turned(x, rotation) = Smaller(x)
        /\ t + rotation = t - 1
    BY <1>2 DEF Turned
  <2>. QED  BY <2>1, StepDrift
<1>3. CASE rotation = 0
  <2>1. Turned(x, rotation) = x /\ t + rotation = t
    BY <1>3 DEF Turned
  <2>. QED  BY <2>1
<1>. QED  BY <1>1, <1>2, <1>3

LEMMA OriginalDrift == IsDrift(10, Original - 10 * Tenth)
  BY SMT DEF IsDrift, DriftAbove, Original, Tenth

LEMMA NextClicks ==
  ASSUME SmallZooms, ViewTypeOK, SizeOfClicks, [Next]_vars
  PROVE  SizeOfClicks'
<1>. USE DEF dragVars, imageVars, drawVars, userVars
<1>1. clicks \in [Views -> -39 .. 39] /\ img_data_size \in [Views -> Int]
  BY DEF ViewTypeOK, SmallZooms
<1>2. ASSUME UNCHANGED <<img_data_size, clicks>> PROVE SizeOfClicks'
  BY <1>2 DEF SizeOfClicks
<1>3. ASSUME NEW v \in Views,
             img_data_size' = [img_data_size EXCEPT ![v] = Original],
             clicks' = [clicks EXCEPT ![v] = 10]
      PROVE  SizeOfClicks'
  BY <1>1, <1>3, OriginalDrift DEF SizeOfClicks
<1>4. ASSUME NEW v \in Views, NEW rotation \in -1 .. 1, Zoom(v, rotation)
      PROVE  SizeOfClicks'
  <2>1. /\ clicks[v] + rotation \in -39 .. 39
        /\ clicks' = [clicks EXCEPT ![v] = @ + rotation]
        /\ img_data_size' = [img_data_size EXCEPT ![v] = Turned(@, rotation)]
    BY <1>4 DEF Zoom, SmallZooms
  <2>2. IsDrift(clicks[v] + rotation,
                Turned(img_data_size[v], rotation)
                  - (clicks[v] + rotation) * Tenth)
    BY <1>1, <2>1, TurnedDrift DEF SizeOfClicks
  <2>. QED  BY <1>1, <2>1, <2>2 DEF SizeOfClicks
<1>5. ASSUME NEW v \in Views, ViewStep(v) PROVE SizeOfClicks'
  <2>1. CASE Close(v) \/ Restore(v)
    BY <1>3, <2>1 DEF Close, Restore
  <2>2. CASE \E rotation \in -1 .. 1 : Zoom(v, rotation)
    BY <1>4, <2>2
  <2>3. CASE ~(Close(v) \/ Restore(v))
             /\ ~\E rotation \in -1 .. 1 : Zoom(v, rotation)
    <3>1. UNCHANGED <<img_data_size, clicks>>
      BY <1>5, <2>3
      DEF ViewStep, Open, Press, DoubleClick, Release, Move, Refresh, Tick,
          OnTimer, PaintEvent, OnSize
    <3>. QED  BY <1>2, <3>1
  <2>. QED  BY <2>1, <2>2, <2>3
<1>6. ASSUME ReleaseElsewhere \/ (\E p \in Points : MoveElsewhere(p))
             \/ UNCHANGED vars
      PROVE  SizeOfClicks'
  BY <1>2, <1>6 DEF ReleaseElsewhere, MoveElsewhere, vars
<1>. QED  BY <1>5, <1>6 DEF Next

\* Whatever path the wheel and the keys took, with restorations and new
\* windows in between, the size is one of the few its number of tenths has.
THEOREM RoundingNeverAddsUp ==
  ASSUME SmallZooms
  PROVE  Spec => []SizeOfClicks
<1>1. Init => SizeOfClicks
  BY OriginalDrift DEF Init, SizeOfClicks
<1>2. ViewTypeOK /\ SizeOfClicks /\ [Next]_vars => SizeOfClicks'
  BY NextClicks
<1>. QED  BY <1>1, <1>2, InitViewType, NextViewType, PTL DEF Spec

\* The width that is drawn is the one the user asked for or a pixel less, and
\* nothing exactly when nothing is wanted.  Only of a width of ten pixels or
\* less could that pixel be all there is.
THEOREM ZoomAlwaysReturns ==
  ASSUME SmallZooms, ImageWidth[1] > 10
  PROVE  Spec => []ZoomReturns
<1>1. ViewTypeOK /\ SizeOfClicks => ZoomReturns
  <2>. SUFFICES ASSUME ViewTypeOK, SizeOfClicks, NEW v \in Views
                PROVE  LET wanted == IF clicks[v] > 0
                                     THEN (ImageWidth[1] * clicks[v]) \div 10
                                     ELSE 0
                           got == Pixels(ImageWidth[1], img_data_size[v])
                       IN  got = wanted \/ (wanted > 1 /\ got = wanted - 1)
    BY DEF ZoomReturns
  <2>1. clicks[v] \in -39 .. 39 /\ img_data_size[v] \in Int
    BY DEF ViewTypeOK, SmallZooms
  <2>2. ImageWidth[1] \in Nat
    BY ViewAssumption DEF ViewAssumption, Images
  <2>3. IsDrift(clicks[v], img_data_size[v] - clicks[v] * Tenth)
    BY DEF SizeOfClicks
  <2>. QED  BY <2>1, <2>2, <2>3, PixelsWanted
<1>. QED  BY <1>1, ViewTypeCorrect, RoundingNeverAddsUp, PTL

-----------------------------------------------------------------------------
(* The picture on the screen.                                              *)

LEMMA NextStale ==
  ASSUME ViewTypeOK, StaleIsRestored, [Next]_vars
  PROVE  StaleIsRestored'
<1>. USE DEF dragVars, imageVars, drawVars, userVars
<1>1. ASSUME UNCHANGED <<up, dirty, shown, imageVars>> PROVE StaleIsRestored'
  BY <1>1 DEF StaleIsRestored
<1>2. ASSUME NEW v \in Views, dirty' = Refreshed(v),
             \A w \in Views \ {v} :
               /\ up'[w] = up[w] /\ shown'[w] = shown[w]
               /\ img_position'[w] = img_position[w]
               /\ img_data_size'[w] = img_data_size[w]
      PROVE  StaleIsRestored'
  BY <1>2 DEF StaleIsRestored, Refreshed, ViewTypeOK
<1>3. ASSUME NEW v \in Views, Render(v), UNCHANGED <<up, imageVars>>,
             \A w \in Views \ {v} : dirty'[w] = dirty[w]
      PROVE  StaleIsRestored'
  <2>1. /\ shown'[v].pos = img_position[v]
        /\ shown'[v].size = img_data_size[v]
        /\ \A w \in Views \ {v} : shown'[w] = shown[w]
    BY <1>3 DEF Render, ViewTypeOK
  <2>. QED  BY <1>3, <2>1 DEF StaleIsRestored
<1>4. ASSUME NEW v \in Views, ViewStep(v) PROVE StaleIsRestored'
  <2>1. CASE Open(v)
    BY <1>2, <2>1 DEF Open, ViewTypeOK
  <2>2. CASE Close(v)
    BY <2>2 DEF Close, StaleIsRestored, ViewTypeOK
  <2>3. CASE Press(v)
    <3>1. CASE m_isDragging[v]
      BY <1>1, <2>3, <3>1 DEF Press
    <3>2. CASE ~m_isDragging[v]
      BY <1>2, <2>3, <3>2 DEF Press
    <3>. QED  BY <3>1, <3>2
  <2>4. ASSUME NEW p \in Points, Move(v, p) PROVE StaleIsRestored'
    <3>1. CASE MouseDown[v] /\ m_isDragging[v]
      BY <1>2, <2>4, <3>1 DEF Move, ViewTypeOK
    <3>2. CASE ~(MouseDown[v] /\ m_isDragging[v])
      BY <1>1, <2>4, <3>2 DEF Move
    <3>. QED  BY <3>1, <3>2
  <2>5. ASSUME NEW rotation \in -1 .. 1, Zoom(v, rotation)
        PROVE  StaleIsRestored'
    BY <1>2, <2>5 DEF Zoom, ViewTypeOK
  <2>6. CASE Restore(v)
    BY <2>6 DEF Restore, StaleIsRestored, ViewTypeOK
  <2>7. CASE OnTimer(v)
    BY <1>2, <2>7 DEF OnTimer, RefreshedByTimer
  <2>8. CASE Refresh(v)
    BY <1>2, <2>8 DEF Refresh
  <2>9. CASE PaintEvent(v)
    BY <1>3, <2>9 DEF PaintEvent, ViewTypeOK
  <2>10. CASE OnSize(v)
    BY <1>3, <2>10 DEF OnSize
  <2>11. CASE DoubleClick(v) \/ Release(v) \/ Tick(v)
    BY <1>1, <2>11 DEF DoubleClick, Release, Tick
  <2>. QED
    BY <1>4, <2>1, <2>2, <2>3, <2>4, <2>5, <2>6, <2>7, <2>8, <2>9, <2>10,
       <2>11
    DEF ViewStep
<1>5. ASSUME ReleaseElsewhere \/ (\E p \in Points : MoveElsewhere(p))
             \/ UNCHANGED vars
      PROVE  StaleIsRestored'
  BY <1>1, <1>5 DEF ReleaseElsewhere, MoveElsewhere, vars
<1>. QED  BY <1>4, <1>5 DEF Next

\* Every handler but the restoration leaves a repaint pending for what it
\* changes, with any number of windows and any toolkit.
THEOREM OnlyRestorationIsStale == Spec => []StaleIsRestored
<1>1. Init => StaleIsRestored
  BY DEF Init, StaleIsRestored
<1>. QED  BY <1>1, InitViewType, NextViewType, NextStale, PTL DEF Spec
=============================================================================
