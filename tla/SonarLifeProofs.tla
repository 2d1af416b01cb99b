--------------------------- MODULE SonarLifeProofs --------------------------
(***************************************************************************)
(* Theorems about the life of the windows in SonarPlugin.  LifeInv is      *)
(* inductive relative to TypeOK; FaultNeedsCause and PointerLive alone are *)
(* not, as they say nothing of the timers and canvases of other windows.   *)
(***************************************************************************)
EXTENDS SonarPluginProofs

\* A handler starts only as long as no handler has used a bad pointer.
LEMMA NoStepAfterFault ==
  ASSUME Next
  PROVE  fault = "none"
<1>1. ASSUME HostStep PROVE fault = "none"
  BY <1>1
  DEF HostStep, PluginInit, PluginDeInit, DestroyPi, OnToolbarToolCallback,
      OnKeyPress, SetAISSentence, SetColorScheme, SetPositionFix,
      ShowPreferencesDialog, CancelPreferences, AcceptPreferences, UserTurn,
      LoopTurn
<1>2. ASSUME NEW f \in Frames, FrameStep(f) PROVE fault = "none"
  BY <1>2
  DEF FrameStep, ToggleOpen, ToggleTurn, CreateFails, LayOut, ShowFrame, OnMove,
      OnSize, PaintEvent, OnTimer, OnNorthUp, OnKeyDown, CloseBox,
      DeletePending, UserTurn, LateEvent, LoopTurn
<1>3. ASSUME ToggleClose PROVE fault = "none"
  BY <1>3 DEF ToggleClose, ToggleTurn
<1>. QED  BY <1>1, <1>2, <1>3 DEF Next

LEMMA FreshLife == Fresh => LifeInv
<1>. SUFFICES ASSUME Fresh PROVE LifeInv
  OBVIOUS
<1>. USE DEF Fresh
<1>1. FrameShape /\ BuildingIsKnown /\ NotStartedYet
  BY DEF FrameShape, BuildingIsKnown, Building, NotStartedYet
<1>2. PointerLive /\ FaultNeedsCause /\ SingleWindow
  BY DEF PointerLive, FaultNeedsCause, SingleWindow, Live
<1>. QED  BY <1>1, <1>2 DEF LifeInv

\* Closing a window that stands on the screen, or should: either everything
\* goes well, or it was never created, or the plugin is gone.
LEMMA OnCloseLife ==
  ASSUME TypeOK, LifeInv, fault = "none", Building = {},
         NEW f \in Frames, stage[f] \in {"open", "broken"}, OnClose(f),
         plugin' # "created", plugin = "destroyed" => plugin' = "destroyed",
         work' \in Nat, bound' = bound
  PROVE  LifeInv'
<1>. USE DEF LifeInv
<1>1. stage \in [Frames -> Stages] /\ timer \in [Frames -> {"null", "running", "deleted"}]
  BY DEF TypeOK, FramesTypeOK
<1>2. NotStartedYet'
  BY DEF NotStartedYet
<1>3. CASE stage[f] = "open" /\ plugin # "destroyed"
  <2>1. CloseFault(f) = "none"
    BY <1>3 DEF FrameShape, CloseFault
  <2>2. /\ fault' = "none" /\ m_pSonarFrame' = Null /\ UNCHANGED canvas
        /\ timer' = [timer EXCEPT ![f] = "deleted"]
        /\ stage' = [stage EXCEPT ![f] = "closing"]
    BY <2>1 DEF OnClose, OnSonarFrameClose
  <2>3. FrameShape'
    BY <1>1, <2>2 DEF FrameShape
  <2>4. BuildingIsKnown'
    BY <1>1, <2>2 DEF BuildingIsKnown, Building
  <2>5. PointerLive' /\ FaultNeedsCause'
    BY <2>2 DEF PointerLive, FaultNeedsCause
  <2>6. SingleWindow'
    BY <1>1, <1>3, <2>2 DEF SingleWindow, Live
  <2>. QED  BY <1>2, <2>3, <2>4, <2>5, <2>6
<1>4. CASE stage[f] = "broken" \/ plugin = "destroyed"
  <2>1. \/ CloseFault(f) = "nullTimer" /\ stage[f] = "broken"
        \/ CloseFault(f) = "deadPlugin" /\ plugin = "destroyed"
    BY <1>4 DEF FrameShape, CloseFault
  <2>2. /\ fault' = CloseFault(f)
        /\ UNCHANGED <<stage, timer, canvas, m_pSonarFrame>>
    BY <2>1 DEF OnClose
  <2>3. FrameShape' /\ BuildingIsKnown' /\ PointerLive' /\ SingleWindow'
    BY <2>2 DEF FrameShape, BuildingIsKnown, Building, PointerLive, SingleWindow,
                Live
  <2>4. FaultNeedsCause'
    BY <2>1, <2>2 DEF FaultNeedsCause
  <2>. QED  BY <1>2, <2>3, <2>4
<1>. QED  BY <1>3, <1>4

\* A step that leaves the windows and the pointer alone.
LEMMA QuietStepLife ==
  ASSUME LifeInv, UNCHANGED <<frameVars, m_pSonarFrame, fault>>,
         plugin' = plugin,
         plugin # "created" \/ UNCHANGED <<bound, work>>
  PROVE  LifeInv'
<1>. USE DEF LifeInv, frameVars
<1>1. FrameShape' /\ BuildingIsKnown' /\ PointerLive' /\ SingleWindow'
  BY DEF FrameShape, BuildingIsKnown, Building, PointerLive, SingleWindow, Live
<1>2. NotStartedYet'
  BY DEF NotStartedYet
<1>3. FaultNeedsCause'
  BY DEF FaultNeedsCause
<1>. QED  BY <1>1, <1>2, <1>3

\* The handlers of the plugin object.  Only Init and DeInit touch a window.
LEMMA HostStepLife ==
  ASSUME TypeOK, LifeInv, HostStep
  PROVE  LifeInv'
<1>. USE DEF hostVars, dataVars
<1>1. CASE PluginInit
  <2>1. /\ UNCHANGED frameVars /\ m_pSonarFrame' = Null /\ plugin' = "active"
        /\ fault' = "none" /\ Building = {}
        /\ plugin = "created" \/ "reinit" \in Permits
    BY <1>1 DEF PluginInit, UserTurn, LoopTurn
  <2>2. FrameShape' /\ BuildingIsKnown' /\ PointerLive' /\ FaultNeedsCause'
    BY <2>1 DEF LifeInv, frameVars, FrameShape, BuildingIsKnown, Building,
                PointerLive, FaultNeedsCause
  <2>3. SingleWindow'
    BY <2>1 DEF LifeInv, NotStartedYet, SingleWindow, Live, frameVars
  <2>. QED  BY <2>1, <2>2, <2>3 DEF LifeInv, NotStartedYet
<1>2. CASE PluginDeInit
  <2>1. CASE m_pSonarFrame # Null
    <3>1. m_pSonarFrame \in Frames
      BY <2>1 DEF TypeOK, HostTypeOK
    <3>2. fault = "none" /\ Building = {} /\ OnClose(m_pSonarFrame)
      BY <1>2, <2>1 DEF PluginDeInit, UserTurn, LoopTurn
    <3>3. stage[m_pSonarFrame] \in {"open", "broken"}
      BY <2>1, <3>1, <3>2 DEF LifeInv, PointerLive, Live, Building
    <3>4. /\ plugin' = "stopped" /\ plugin = "active"
          /\ work' \in Nat /\ bound' = bound
      BY <1>2 DEF PluginDeInit, TypeOK, HostTypeOK
    <3>. QED  BY <3>1, <3>2, <3>3, <3>4, OnCloseLife
  <2>2. CASE m_pSonarFrame = Null
    <3>1. /\ UNCHANGED <<frameVars, m_pSonarFrame, fault>> /\ fault = "none"
          /\ plugin' = "stopped"
      BY <1>2, <2>2 DEF PluginDeInit, UserTurn, LoopTurn
    <3>. QED
      BY <3>1 DEF LifeInv, frameVars, FrameShape, BuildingIsKnown, Building,
                  PointerLive, SingleWindow, Live, NotStartedYet, FaultNeedsCause
  <2>. QED  BY <2>1, <2>2
<1>3. CASE DestroyPi
  <2>1. /\ UNCHANGED <<frameVars, m_pSonarFrame, fault>>
        /\ plugin' = "destroyed" /\ fault = "none"
    BY <1>3 DEF DestroyPi, UserTurn, LoopTurn
  <2>. QED
    BY <2>1 DEF LifeInv, frameVars, FrameShape, BuildingIsKnown, Building,
                PointerLive, SingleWindow, Live, NotStartedYet, FaultNeedsCause
<1>4. CASE OnToolbarToolCallback
  BY <1>4, QuietStepLife DEF OnToolbarToolCallback
<1>5. CASE OnKeyPress
  <2>1. plugin # "created"
    BY <1>5 DEF OnKeyPress, LifeInv, NotStartedYet
  <2>2. CASE plugin = "destroyed"
    <3>1. /\ UNCHANGED <<frameVars, m_pSonarFrame, plugin, work, bound>>
          /\ fault' = "staleHandler"
      BY <1>5, <2>2 DEF OnKeyPress
    <3>. QED
      BY <2>2, <3>1 DEF LifeInv, frameVars, FrameShape, BuildingIsKnown, Building,
                        PointerLive, SingleWindow, Live, NotStartedYet,
                        FaultNeedsCause
  <2>3. CASE plugin # "destroyed"
    BY <1>5, <2>1, <2>3, QuietStepLife DEF OnKeyPress
  <2>. QED  BY <2>2, <2>3
<1>6. CASE SetAISSentence
  BY <1>6, QuietStepLife DEF SetAISSentence
<1>7. CASE SetColorScheme
  BY <1>7, QuietStepLife DEF SetColorScheme
<1>8. ASSUME NEW fix \in Fixes, SetPositionFix(fix)
      PROVE  LifeInv'
  BY <1>8, QuietStepLife DEF SetPositionFix
<1>9. CASE ShowPreferencesDialog
  BY <1>9, QuietStepLife DEF ShowPreferencesDialog
<1>10. CASE CancelPreferences
  BY <1>10, QuietStepLife DEF CancelPreferences
<1>11. ASSUME NEW icon \in BOOLEAN, NEW use \in BOOLEAN,
              AcceptPreferences(icon, use)
       PROVE  LifeInv'
  BY <1>11, QuietStepLife DEF AcceptPreferences
<1>. QED
  BY <1>1, <1>2, <1>3, <1>4, <1>5, <1>6, <1>7, <1>8, <1>9, <1>10, <1>11
  DEF HostStep

\* The handlers of a window and the two halves of ToggleSonarFrame.
LEMMA FrameStepLife ==
  ASSUME TypeOK, LifeInv, NEW f \in Frames, FrameStep(f)
  PROVE  LifeInv'
<1>. USE DEF hostVars, dataVars
<1>1. /\ stage \in [Frames -> Stages] /\ canvas \in [Frames -> BOOLEAN]
      /\ timer \in [Frames -> {"null", "running", "deleted"}]
  BY DEF TypeOK, FramesTypeOK
<1>2. fault = "none"
  BY NoStepAfterFault DEF Next
<1>3. stage[f] # "unused" => plugin # "created"
  BY DEF LifeInv, NotStartedYet
<1>4. CASE ToggleOpen(f)
  <2>1. /\ stage[f] = "unused" /\ stage' = [stage EXCEPT ![f] = "dialog"]
        /\ m_pSonarFrame = Null /\ m_pSonarFrame' = f /\ Building = {}
        /\ UNCHANGED <<timer, canvas, fault, plugin>> /\ work > 0
    BY <1>4 DEF ToggleOpen, ToggleTurn, NoWindow
  <2>2. plugin # "created"
    BY <2>1 DEF LifeInv, NotStartedYet
  <2>3. FrameShape' /\ BuildingIsKnown' /\ NotStartedYet'
    BY <1>1, <2>1, <2>2 DEF LifeInv, FrameShape, BuildingIsKnown, Building,
                            NotStartedYet
  <2>4. PointerLive' /\ FaultNeedsCause'
    BY <1>1, <1>2, <2>1 DEF PointerLive, Live, FaultNeedsCause
  <2>5. SingleWindow'
    BY <1>1, <2>1, PluginAssumption
    DEF LifeInv, SingleWindow, Live, PluginAssumption
  <2>. QED  BY <2>3, <2>4, <2>5 DEF LifeInv
<1>5. CASE CreateFails(f) \/ LayOut(f) \/ ShowFrame(f)
  <2>1. /\ UNCHANGED <<m_pSonarFrame, fault, plugin>>
        /\ stage[f] \in {"dialog", "laidout"}
        /\ \/ /\ stage' = [stage EXCEPT ![f] = "broken"]
              /\ stage[f] = "dialog" /\ UNCHANGED <<timer, canvas>>
           \/ /\ stage' = [stage EXCEPT ![f] = "laidout"]
              /\ timer' = [timer EXCEPT ![f] = "running"]
              /\ canvas' = [canvas EXCEPT ![f] = TRUE]
           \/ /\ stage' = [stage EXCEPT ![f] = "open"]
              /\ stage[f] = "laidout" /\ UNCHANGED <<timer, canvas>>
    BY <1>5 DEF CreateFails, LayOut, ShowFrame
  <2>2. FrameShape'
    BY <1>1, <2>1 DEF LifeInv, FrameShape
  <2>3. BuildingIsKnown' /\ NotStartedYet'
    BY <1>1, <1>3, <2>1 DEF LifeInv, BuildingIsKnown, Building, NotStartedYet
  <2>4. PointerLive' /\ SingleWindow'
    BY <1>1, <2>1 DEF LifeInv, PointerLive, SingleWindow, Live
  <2>5. FaultNeedsCause'
    BY <1>2, <2>1 DEF FaultNeedsCause
  <2>. QED  BY <2>2, <2>3, <2>4, <2>5 DEF LifeInv
<1>6. CASE (\E p \in Positions : OnMove(f, p)) \/ OnTimer(f)
  BY <1>6, QuietStepLife DEF OnMove, OnTimer, LifeInv, FrameShape,
     BuildingIsKnown, Building, PointerLive, SingleWindow, Live, NotStartedYet,
     FaultNeedsCause
<1>7. ASSUME \/ \E w \in WindowSizes \cup {winSize[f]} : OnSize(f, w)
             \/ PaintEvent(f)
      PROVE  LifeInv'
  <2>1. UNCHANGED <<stage, timer, canvas, m_pSonarFrame, plugin, bound, work>>
    BY <1>7 DEF OnSize, PaintEvent, frameVars
  <2>2. \/ fault' = "none"
        \/ /\ fault' = RenderFault(f)
           /\ \/ canvas[f] /\ stage[f] \in {"dialog", "laidout"}
              \/ stage[f] = "open"
              \/ stage[f] = "closing" /\ "lateEvents" \in Permits
    BY <1>2, <1>7 DEF OnSize, HasCanvas, PaintEvent, LateEvent, UserTurn, Building
  <2>3. FaultNeedsCause'
    <3>1. CASE stage[f] = "closing"
      BY <2>1, <2>2, <3>1 DEF LifeInv, FrameShape, RenderFault, FaultNeedsCause
    <3>2. CASE stage[f] # "closing"
      BY <2>1, <2>2, <3>2 DEF LifeInv, FrameShape, RenderFault, FaultNeedsCause
    <3>. QED  BY <3>1, <3>2
  <2>4. FrameShape' /\ BuildingIsKnown' /\ PointerLive' /\ SingleWindow'
    BY <2>1 DEF LifeInv, FrameShape, BuildingIsKnown, Building, PointerLive,
                SingleWindow, Live
  <2>5. NotStartedYet'
    BY <2>1 DEF LifeInv, NotStartedYet
  <2>. QED  BY <2>3, <2>4, <2>5 DEF LifeInv
<1>8. CASE OnNorthUp(f) \/ OnKeyDown(f)
  <2>1. /\ UNCHANGED <<stage, timer, canvas, m_pSonarFrame, plugin, bound>>
        /\ stage[f] = "open"
        /\ \/ fault' = "none"
           \/ fault' = "deadPlugin" /\ plugin = "destroyed"
    <3>1. CASE OnNorthUp(f)
      BY <1>2, <3>1 DEF OnNorthUp
    <3>2. CASE OnKeyDown(f)
      BY <1>2, <3>2 DEF OnKeyDown, frameVars
    <3>. QED  BY <1>8, <3>1, <3>2
  <2>2. FrameShape' /\ BuildingIsKnown' /\ PointerLive' /\ SingleWindow'
    BY <2>1 DEF LifeInv, FrameShape, BuildingIsKnown, Building, PointerLive,
                SingleWindow, Live
  <2>3. NotStartedYet' /\ FaultNeedsCause'
    BY <1>3, <2>1 DEF NotStartedYet, FaultNeedsCause
  <2>. QED  BY <2>2, <2>3 DEF LifeInv
<1>9. CASE CloseBox(f)
  <2>1. /\ stage[f] = "open" /\ Building = {} /\ OnClose(f)
    BY <1>9 DEF CloseBox, UserTurn, LoopTurn
  <2>2. plugin' = plugin /\ work' = work /\ bound' = bound
    BY <1>9 DEF CloseBox
  <2>3. work' \in Nat
    BY <2>2 DEF TypeOK, HostTypeOK
  <2>4. plugin # "created"
    BY <1>3, <2>1
  <2>. QED  BY <1>2, <2>1, <2>2, <2>3, <2>4, OnCloseLife
<1>10. CASE DeletePending(f)
  <2>1. /\ stage[f] = "closing" /\ stage' = [stage EXCEPT ![f] = "unused"]
        /\ timer' = [timer EXCEPT ![f] = "null"]
        /\ canvas' = [canvas EXCEPT ![f] = FALSE]
        /\ UNCHANGED <<m_pSonarFrame, fault, plugin>>
    BY <1>10 DEF DeletePending
  <2>2. FrameShape' /\ BuildingIsKnown' /\ NotStartedYet'
    BY <1>1, <1>3, <2>1 DEF LifeInv, FrameShape, BuildingIsKnown, Building,
                            NotStartedYet
  <2>3. PointerLive' /\ SingleWindow' /\ FaultNeedsCause'
    BY <1>1, <1>2, <2>1 DEF LifeInv, PointerLive, SingleWindow, Live,
                            FaultNeedsCause
  <2>. QED  BY <2>2, <2>3 DEF LifeInv
<1>. QED
  BY <1>4, <1>5, <1>6, <1>7, <1>8, <1>9, <1>10 DEF FrameStep

LEMMA NextLife ==
  ASSUME TypeOK, LifeInv, [Next]_vars
  PROVE  LifeInv'
<1>1. CASE HostStep
  BY <1>1, HostStepLife
<1>2. CASE ToggleClose
  <2>1. /\ m_pSonarFrame \in Frames /\ OnClose(m_pSonarFrame)
        /\ fault = "none" /\ Building = {}
        /\ plugin' = plugin /\ bound' = bound /\ work' \in Nat
    BY <1>2 DEF ToggleClose, ToggleTurn, TypeOK, HostTypeOK, hostVars
  <2>2. stage[m_pSonarFrame] \in {"open", "broken"}
    BY <1>2, <2>1 DEF ToggleClose, LifeInv, PointerLive, Live, Building
  <2>3. plugin # "created"
    BY <2>1, <2>2 DEF LifeInv, NotStartedYet
  <2>. QED  BY <2>1, <2>2, <2>3, OnCloseLife
<1>3. ASSUME NEW f \in Frames, FrameStep(f)
      PROVE  LifeInv'
  BY <1>3, FrameStepLife
<1>4. CASE UNCHANGED vars
  BY <1>4, QuietStepLife DEF vars, hostVars, frameVars
<1>. QED  BY <1>1, <1>2, <1>3, <1>4 DEF Next

THEOREM LifeInvariant == Spec => []LifeInv
<1>. QED  BY InitType, NextType, FreshLife, NextLife, PTL DEF Spec, Init

\* Whatever the host, the user and the toolkit do, a handler meets a null or
\* freed pointer only for the reasons FaultNeedsCause names.
THEOREM FaultsHaveCauses == Spec => []FaultNeedsCause
<1>1. LifeInv => FaultNeedsCause
  BY DEF LifeInv
<1>. QED  BY <1>1, LifeInvariant, PTL

\* The plugin's pointer never dangles.
THEOREM PointerNeverDangles == Spec => []PointerLive
<1>1. LifeInv => PointerLive
  BY DEF LifeInv
<1>. QED  BY <1>1, LifeInvariant, PTL

\* A plugin that is started once knows every window it has.
THEOREM OneKnownWindow == Spec => []SingleWindow
<1>1. LifeInv => SingleWindow
  BY DEF LifeInv
<1>. QED  BY <1>1, LifeInvariant, PTL
=============================================================================
