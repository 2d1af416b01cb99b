--------------------------- MODULE SonarLookProofs --------------------------
(***************************************************************************)
(* Theorems about the look of the window in SonarPlugin: its size, its     *)
(* place, its "North Up" box, and the settings and the configuration that  *)
(* remember them.  LookInv is inductive relative to TypeOK and LifeInv.    *)
(* NorthUpAgrees and SettingsDurable alone are not: between ToggleOpen and *)
(* ShowFrame no window is open, and what Create has built so far must      *)
(* already be what the settings say.                                       *)
(***************************************************************************)
EXTENDS SonarLifeProofs

\* What was saved is what is loaded.
LEMMA SavedIsLoaded ==
  ASSUME NEW s \in Settings
  PROVE  /\ Loaded(s) = s
         /\ [s EXCEPT !.north = Loaded(s).north] = Loaded(s)
<1>1. Loaded(s) = s
  BY PluginAssumption DEF PluginAssumption, Loaded
<1>2. [s EXCEPT !.north = s.north] = s
  BY DEF Settings
<1>. QED  BY <1>1, <1>2

LEMMA FreshLook == Fresh => LookInv
<1>. SUFFICES ASSUME Fresh PROVE LookInv
  OBVIOUS
<1>. USE DEF Fresh
<1>1. BuiltAsSet
  BY DEF BuiltAsSet, Building
<1>2. OnlyPermitted /\ DialogOfActive
  BY DEF OnlyPermitted, DialogOfActive
<1>3. NorthUpAgrees /\ SettingsDurable
  BY DEF NorthUpAgrees, SettingsDurable
<1>. QED  BY <1>1, <1>2, <1>3 DEF LookInv

\* A step that leaves the windows and what is remembered of them alone.
LEMMA QuietStepLook ==
  ASSUME LookInv, fault = "none", plugin' = plugin,
         UNCHANGED <<frameVars, settings, config>>,
         modal' => modal \/ plugin = "active"
  PROVE  LookInv'
<1>. USE DEF LookInv, frameVars
<1>1. BuiltAsSet'
  BY DEF BuiltAsSet, Building
<1>2. OnlyPermitted' /\ DialogOfActive'
  BY DEF OnlyPermitted, DialogOfActive
<1>3. NorthUpAgrees' /\ SettingsDurable'
  BY DEF NorthUpAgrees, SettingsDurable
<1>. QED  BY <1>1, <1>2, <1>3

\* Closing a window saves its look, unless the program breaks down over it.
LEMMA OnCloseLook ==
  ASSUME TypeOK, LifeInv, LookInv, fault = "none", Building = {},
         NEW f \in Frames, stage[f] \in {"open", "broken"}, OnClose(f),
         plugin' = "destroyed" <=> plugin = "destroyed", DialogOfActive'
  PROVE  LookInv'
<1>. USE DEF LookInv
<1>1. stage \in [Frames -> Stages]
  BY DEF TypeOK, FramesTypeOK
<1>2. DialogOfActive'
  OBVIOUS
<1>3. CASE CloseFault(f) = "none"
  <2>1. /\ stage' = [stage EXCEPT ![f] = "closing"]
        /\ UNCHANGED <<viewPos, viewSize, winPos, winSize, northUp>>
        /\ settings' = [settings EXCEPT !.pos = viewPos[f], !.size = viewSize[f]]
        /\ SaveConfig(settings')
    BY <1>3 DEF OnClose, OnSonarFrameClose
  <2>2. BuiltAsSet'
    BY <1>1, <2>1 DEF BuiltAsSet, Building
  <2>3. OnlyPermitted'
    BY <1>1, <2>1 DEF OnlyPermitted
  <2>4. NorthUpAgrees'
    BY <1>1, <2>1 DEF LifeInv, SingleWindow, Live, NorthUpAgrees
  <2>5. SettingsDurable'
    <3>1. viewPos[f] \in Int /\ viewSize[f] \in Int /\ settings \in Settings
      BY DEF TypeOK, FramesTypeOK, SettingsTypeOK
    <3>2. settings' \in Settings
      BY <2>1, <3>1, ChangedSettings
    <3>3. HasConfig => config' = settings'
      BY <2>1 DEF SaveConfig
    <3>. QED  BY <3>2, <3>3, SavedIsLoaded DEF SettingsDurable
  <2>. QED  BY <1>2, <2>2, <2>3, <2>4, <2>5
<1>4. CASE CloseFault(f) # "none"
  <2>1. /\ UNCHANGED <<stage, viewPos, viewSize, winPos, winSize, northUp, settings, config>>
        /\ fault' # "none"
    BY <1>4 DEF OnClose
  <2>2. BuiltAsSet' /\ OnlyPermitted'
    BY <2>1 DEF BuiltAsSet, Building, OnlyPermitted
  <2>3. NorthUpAgrees' /\ SettingsDurable'
    BY <2>1 DEF NorthUpAgrees, SettingsDurable
  <2>. QED  BY <1>2, <2>2, <2>3
<1>. QED  BY <1>3, <1>4

\* m_pSonarFrame points to a window that OnClose can be called for.
LEMMA KnownWindow ==
  ASSUME TypeOK, LifeInv, Building = {}, m_pSonarFrame # Null
  PROVE  m_pSonarFrame \in Frames /\ stage[m_pSonarFrame] \in {"open", "broken"}
BY DEF TypeOK, HostTypeOK, LifeInv, PointerLive, Live, Building

\* The handlers of the plugin object.
LEMMA HostStepLook ==
  ASSUME TypeOK, LifeInv, LookInv, HostStep
  PROVE  LookInv'
<1>. USE DEF hostVars, dataVars
<1>1. fault = "none"
  BY NoStepAfterFault DEF Next
<1>2. CASE PluginInit
  <2>1. /\ UNCHANGED <<frameVars, config>> /\ ~modal' /\ plugin' = "active"
        /\ settings' = InitialSettings /\ Building = {} /\ plugin # "destroyed"
        /\ plugin = "created" \/ "reinit" \in Permits
    BY <1>2 DEF PluginInit, UserTurn, LoopTurn
  <2>2. BuiltAsSet'
    BY <2>1 DEF LookInv, BuiltAsSet, Building, frameVars
  <2>3. OnlyPermitted' /\ DialogOfActive'
    BY <2>1 DEF LookInv, OnlyPermitted, DialogOfActive, frameVars
  <2>4. NorthUpAgrees'
    BY <2>1 DEF LifeInv, NotStartedYet, NorthUpAgrees, frameVars
  <2>5. SettingsDurable'
    <3>1. HasConfig => settings' = Loaded(config)
      BY <2>1 DEF InitialSettings
    <3>2. settings' \in Settings
      BY <2>1, InitialSettingsType DEF TypeOK
    <3>3. HasConfig => [settings' EXCEPT !.north = settings'.north] = settings'
      BY <3>2 DEF Settings
    <3>. QED  BY <2>1, <3>1, <3>3 DEF SettingsDurable, Loaded
  <2>. QED  BY <2>2, <2>3, <2>4, <2>5 DEF LookInv
<1>3. CASE PluginDeInit
  <2>1. plugin = "active" /\ plugin' = "stopped" /\ Building = {} /\ ~modal'
    BY <1>3 DEF PluginDeInit, UserTurn, LoopTurn
  <2>2. CASE m_pSonarFrame # Null
    <3>1. OnClose(m_pSonarFrame)
      BY <1>3, <2>2 DEF PluginDeInit
    <3>2. DialogOfActive'
      BY <2>1 DEF DialogOfActive
    <3>. QED  BY <1>1, <2>1, <2>2, <3>1, <3>2, KnownWindow, OnCloseLook
  <2>3. CASE m_pSonarFrame = Null
    <3>1. UNCHANGED <<frameVars, settings, config, fault>>
      BY <1>3, <2>3 DEF PluginDeInit
    <3>2. BuiltAsSet' /\ OnlyPermitted' /\ DialogOfActive'
      BY <2>1, <3>1 DEF LookInv, BuiltAsSet, Building, OnlyPermitted,
                        DialogOfActive, frameVars
    <3>3. NorthUpAgrees' /\ SettingsDurable'
      BY <2>1, <3>1 DEF LookInv, NorthUpAgrees, SettingsDurable, frameVars
    <3>. QED  BY <3>2, <3>3 DEF LookInv
  <2>. QED  BY <2>2, <2>3
<1>4. CASE DestroyPi
  <2>1. /\ UNCHANGED <<frameVars, settings, config>> /\ ~modal'
        /\ plugin' = "destroyed" /\ "unload" \in Permits
    BY <1>4 DEF DestroyPi, UserTurn
  <2>2. BuiltAsSet' /\ OnlyPermitted' /\ DialogOfActive'
    BY <2>1 DEF LookInv, BuiltAsSet, Building, OnlyPermitted,
                DialogOfActive, frameVars
  <2>3. NorthUpAgrees' /\ SettingsDurable'
    BY <2>1 DEF NorthUpAgrees, SettingsDurable
  <2>. QED  BY <2>2, <2>3 DEF LookInv
<1>5. CASE OnToolbarToolCallback
  BY <1>1, <1>5, QuietStepLook DEF OnToolbarToolCallback
<1>6. CASE OnKeyPress
  BY <1>1, <1>6, QuietStepLook DEF OnKeyPress
<1>7. CASE SetAISSentence
  BY <1>1, <1>7, QuietStepLook DEF SetAISSentence
<1>8. CASE SetColorScheme
  BY <1>1, <1>8, QuietStepLook DEF SetColorScheme
<1>9. ASSUME NEW fix \in Fixes, SetPositionFix(fix)
      PROVE  LookInv'
  BY <1>1, <1>9, QuietStepLook DEF SetPositionFix
<1>10. CASE ShowPreferencesDialog
  BY <1>1, <1>10, QuietStepLook DEF ShowPreferencesDialog
<1>11. CASE CancelPreferences
  BY <1>1, <1>11, QuietStepLook DEF CancelPreferences
<1>12. ASSUME NEW icon \in BOOLEAN, NEW use \in BOOLEAN,
              AcceptPreferences(icon, use)
       PROVE  LookInv'
  <2>1. /\ settings' = [settings EXCEPT !.icon = icon, !.use = use]
        /\ SaveConfig(settings') /\ UNCHANGED <<frameVars, plugin, fault>>
        /\ ~modal' /\ Building = {}
    BY <1>12 DEF AcceptPreferences, LoopTurn
  <2>2. BuiltAsSet' /\ OnlyPermitted' /\ DialogOfActive'
    BY <2>1 DEF LookInv, BuiltAsSet, Building, OnlyPermitted,
                DialogOfActive, frameVars
  <2>3. settings' \in Settings /\ settings'.north = settings.north
    BY <2>1, ChangedSettings DEF TypeOK, SettingsTypeOK, Settings
  <2>4. NorthUpAgrees'
    BY <2>1, <2>3 DEF LookInv, NorthUpAgrees, frameVars
  <2>5. SettingsDurable'
    BY <2>1, <2>3, SavedIsLoaded DEF SettingsDurable, SaveConfig
  <2>. QED  BY <2>2, <2>4, <2>5 DEF LookInv
<1>. QED
  BY <1>2, <1>3, <1>4, <1>5, <1>6, <1>7, <1>8, <1>9, <1>10, <1>11, <1>12
  DEF HostStep

\* ToggleSonarFrame and SonarFrame::Create.
LEMMA CreateStepLook ==
  ASSUME TypeOK, LifeInv, LookInv, NEW f \in Frames,
         ToggleOpen(f) \/ CreateFails(f) \/ LayOut(f) \/ ShowFrame(f)
  PROVE  LookInv'
<1>. USE DEF hostVars, dataVars
<1>1. /\ stage \in [Frames -> Stages] /\ viewPos \in [Frames -> Int]
      /\ viewSize \in [Frames -> Int] /\ winSize \in [Frames -> Int]
      /\ winPos \in [Frames -> Int]
      /\ northUp \in [Frames -> BOOLEAN]
  BY DEF TypeOK, FramesTypeOK
<1>2. UNCHANGED <<settings, config, plugin, modal>> /\ fault = "none"
  BY DEF ToggleOpen, CreateFails, LayOut, ShowFrame, ToggleTurn
<1>3. DialogOfActive'
  BY <1>2 DEF LookInv, DialogOfActive
<1>4. CASE ToggleOpen(f)
  <2>1. /\ stage[f] = "unused" /\ stage' = [stage EXCEPT ![f] = "dialog"]
        /\ viewPos' = [viewPos EXCEPT ![f] = settings.pos]
        /\ viewSize' = [viewSize EXCEPT ![f] = settings.size]
        /\ winPos' = [winPos EXCEPT ![f] = settings.pos]
        /\ winSize' = [winSize EXCEPT ![f] = WindowFor(settings.size)]
        /\ UNCHANGED northUp /\ Building = {}
    BY <1>4 DEF ToggleOpen, ToggleTurn
  <2>5. BuiltAsSet'
    BY <1>1, <1>2, <2>1 DEF BuiltAsSet, Building, WindowFor
  <2>6. OnlyPermitted'
    BY <1>1, <1>2, <2>1 DEF LookInv, OnlyPermitted
  <2>7. NorthUpAgrees' /\ SettingsDurable'
    BY <1>1, <1>2, <2>1 DEF LookInv, NorthUpAgrees, SettingsDurable
  <2>. QED  BY <1>3, <2>5, <2>6, <2>7 DEF LookInv
<1>5. CASE CreateFails(f)
  <2>1. /\ stage[f] = "dialog" /\ stage' = [stage EXCEPT ![f] = "broken"]
        /\ UNCHANGED <<viewPos, viewSize, winPos, winSize, northUp>>
        /\ "createFails" \in Permits
    BY <1>5 DEF CreateFails
  <2>2. BuiltAsSet' /\ OnlyPermitted'
    BY <1>1, <1>2, <2>1 DEF LookInv, BuiltAsSet, Building, OnlyPermitted
  <2>3. NorthUpAgrees' /\ SettingsDurable'
    BY <1>1, <1>2, <2>1 DEF LookInv, NorthUpAgrees, SettingsDurable
  <2>. QED  BY <1>3, <2>2, <2>3 DEF LookInv
<1>6. CASE LayOut(f)
  <2>1. /\ stage[f] = "dialog" /\ stage' = [stage EXCEPT ![f] = "laidout"]
        /\ viewPos' = [viewPos EXCEPT ![f] =
              IF winPos[f] = settings.pos THEN viewPos[f]
              ELSE Reported(settings.pos)]
        /\ winPos' = [winPos EXCEPT ![f] = settings.pos]
        /\ northUp' = [northUp EXCEPT ![f] = settings.north]
        /\ UNCHANGED <<viewSize, winSize>>
    BY <1>6 DEF LayOut, MovedTo, InitialBox
  <2>2. OnlyPermitted'
    BY <1>1, <1>2, <2>1 DEF LookInv, OnlyPermitted
  <2>3. BuiltAsSet'
    BY <1>1, <1>2, <2>1 DEF LookInv, BuiltAsSet, Building, WindowFor, Reported
  <2>4. NorthUpAgrees' /\ SettingsDurable'
    BY <1>1, <1>2, <2>1 DEF LookInv, NorthUpAgrees, SettingsDurable
  <2>. QED  BY <1>3, <2>2, <2>3, <2>4 DEF LookInv
<1>7. CASE ShowFrame(f)
  <2>1. /\ stage[f] = "laidout" /\ stage' = [stage EXCEPT ![f] = "open"]
        /\ UNCHANGED <<viewPos, viewSize, winPos, winSize, northUp>>
    BY <1>7 DEF ShowFrame
  <2>2. BuiltAsSet' /\ OnlyPermitted'
    BY <1>1, <1>2, <2>1 DEF LookInv, BuiltAsSet, Building, OnlyPermitted
  <2>3. northUp[f] = settings.north
    BY <2>1 DEF LookInv, BuiltAsSet, Building
  <2>4. NorthUpAgrees' /\ SettingsDurable'
    BY <1>1, <1>2, <2>1, <2>3 DEF LookInv, NorthUpAgrees, SettingsDurable
  <2>. QED  BY <1>3, <2>2, <2>4 DEF LookInv
<1>. QED  BY <1>4, <1>5, <1>6, <1>7

\* The events of a window.
LEMMA EventStepLook ==
  ASSUME TypeOK, LifeInv, LookInv, NEW f \in Frames,
         \/ \E p \in Positions : OnMove(f, p)
         \/ \E w \in WindowSizes \cup {winSize[f]} : OnSize(f, w)
         \/ PaintEvent(f) \/ OnTimer(f) \/ OnNorthUp(f) \/ OnKeyDown(f)
         \/ CloseBox(f) \/ DeletePending(f)
  PROVE  LookInv'
<1>. USE DEF hostVars, dataVars
<1>1. /\ stage \in [Frames -> Stages] /\ viewPos \in [Frames -> Int]
      /\ viewSize \in [Frames -> Int] /\ winSize \in [Frames -> Int]
      /\ winPos \in [Frames -> Int]
      /\ northUp \in [Frames -> BOOLEAN] /\ settings \in Settings
  BY DEF TypeOK, FramesTypeOK, SettingsTypeOK
<1>2. UNCHANGED <<plugin, modal>> /\ fault = "none"
  BY NoStepAfterFault
  DEF Next, FrameStep, OnMove, OnSize, PaintEvent, OnTimer, OnNorthUp, OnKeyDown,
      CloseBox, DeletePending
<1>3. DialogOfActive'
  BY <1>2 DEF LookInv, DialogOfActive
<1>4. ASSUME NEW p \in Positions, OnMove(f, p) PROVE LookInv'
  <2>1. /\ stage[f] # "laidout" /\ winPos' = [winPos EXCEPT ![f] = p]
        /\ viewPos' = [viewPos EXCEPT ![f] = Reported(p)]
        /\ UNCHANGED <<stage, viewSize, winSize, northUp, settings, config>>
    BY <1>4 DEF OnMove, LateEvent
  <2>2. BuiltAsSet' /\ OnlyPermitted'
    BY <1>1, <1>2, <2>1
    DEF LookInv, BuiltAsSet, Building, OnlyPermitted, WindowFor, Reported
  <2>3. NorthUpAgrees' /\ SettingsDurable'
    BY <1>2, <2>1 DEF LookInv, NorthUpAgrees, SettingsDurable
  <2>. QED  BY <1>3, <2>2, <2>3 DEF LookInv
<1>5. ASSUME NEW w \in WindowSizes \cup {winSize[f]}, OnSize(f, w) PROVE LookInv'
  <2>1. /\ winSize' = [winSize EXCEPT ![f] = w]
        /\ UNCHANGED <<stage, viewPos, winPos, northUp, settings, config>>
        /\ \/ viewSize' = [viewSize EXCEPT ![f] = StoredSize(f, w)]
           \/ UNCHANGED viewSize
        /\ f \in Building => w = winSize[f]
    BY <1>5 DEF OnSize, Building, LateEvent
  <2>2. f \in Building => StoredSize(f, w) = settings.size
    <3>1. f \in Building => w = WindowFor(settings.size) /\ w = winSize[f]
      BY <2>1 DEF LookInv, BuiltAsSet
    <3>2. settings.size \in Int
      BY <1>1 DEF Settings
    <3>. QED
      BY <3>1, <3>2, PluginAssumption
      DEF StoredSize, WindowFor, PluginAssumption
  <2>3. viewSize'[f] \in {viewSize[f], StoredSize(f, w)}
        /\ \A g \in Frames \ {f} : viewSize'[g] = viewSize[g]
    BY <1>1, <2>1
  <2>4. BuiltAsSet'
    <3>1. Building' = Building
      BY <2>1 DEF Building
    <3>2. \A g \in Building : winSize'[g] = winSize[g]
      BY <1>1, <2>1 DEF Building
    <3>3. \A g \in Building : viewSize'[g] = settings.size
      BY <2>2, <2>3 DEF LookInv, BuiltAsSet, Building
    <3>. QED
      BY <2>1, <3>1, <3>2, <3>3
      DEF LookInv, BuiltAsSet, WindowFor, Reported
  <2>5. OnlyPermitted' /\ NorthUpAgrees' /\ SettingsDurable'
    BY <1>2, <2>1 DEF LookInv, OnlyPermitted, NorthUpAgrees, SettingsDurable
  <2>. QED  BY <1>3, <2>4, <2>5 DEF LookInv
<1>6. CASE PaintEvent(f)
  BY <1>2, <1>6, QuietStepLook DEF PaintEvent
<1>7. CASE OnTimer(f)
  BY <1>2, <1>7, QuietStepLook DEF OnTimer
<1>8. CASE OnNorthUp(f)
  <2>1. /\ stage[f] = "open" /\ northUp' = [northUp EXCEPT ![f] = ~northUp[f]]
        /\ UNCHANGED <<stage, viewPos, viewSize, winPos, winSize, config>>
        /\ Building = {}
    BY <1>8 DEF OnNorthUp, UserTurn, LoopTurn
  <2>2. BuiltAsSet' /\ OnlyPermitted'
    BY <1>2, <2>1 DEF LookInv, BuiltAsSet, Building, OnlyPermitted
  <2>3. plugin # "destroyed" =>
          settings' = [settings EXCEPT !.north = ~northUp[f]]
    BY <1>8 DEF OnNorthUp
  <2>4. NorthUpAgrees'
    <3>1. \A g \in Frames : stage[g] = "open" /\ "reinit" \notin Permits => g = f
      BY <2>1 DEF LifeInv, SingleWindow, Live
    <3>2. plugin # "destroyed" => settings'.north = northUp'[f]
      BY <1>1, <2>1, <2>3 DEF Settings
    <3>. QED  BY <1>2, <2>1, <3>1, <3>2 DEF NorthUpAgrees
  <2>5. SettingsDurable'
    <3>1. plugin # "destroyed" =>
            \A b \in BOOLEAN : [settings' EXCEPT !.north = b]
                               = [settings EXCEPT !.north = b]
      BY <1>1, <2>3 DEF Settings
    <3>2. HasConfig /\ plugin \in {"active", "stopped"} =>
            Loaded(config).north \in BOOLEAN
      BY InitialSettingsType DEF TypeOK, InitialSettings, Settings
    <3>. QED  BY <1>2, <2>1, <3>1, <3>2 DEF LookInv, SettingsDurable
  <2>. QED  BY <1>3, <2>2, <2>4, <2>5 DEF LookInv
<1>9. CASE OnKeyDown(f)
  BY <1>2, <1>9, QuietStepLook DEF OnKeyDown
<1>10. CASE CloseBox(f)
  BY <1>2, <1>3, <1>10, OnCloseLook DEF CloseBox, UserTurn, LoopTurn
<1>11. CASE DeletePending(f)
  <2>1. /\ stage[f] = "closing" /\ stage' = [stage EXCEPT ![f] = "unused"]
        /\ viewPos' = [viewPos EXCEPT ![f] = ZeroPos]
        /\ viewSize' = [viewSize EXCEPT ![f] = 0]
        /\ winPos' = [winPos EXCEPT ![f] = ZeroPos]
        /\ winSize' = [winSize EXCEPT ![f] = 0]
        /\ northUp' = [northUp EXCEPT ![f] = FALSE]
        /\ UNCHANGED <<settings, config>>
    BY <1>11 DEF DeletePending
  <2>2. OnlyPermitted'
    BY <1>1, <1>2, <2>1 DEF LookInv, OnlyPermitted
  <2>3. BuiltAsSet'
    BY <1>1, <2>1 DEF LookInv, BuiltAsSet, Building
  <2>4. NorthUpAgrees' /\ SettingsDurable'
    BY <1>1, <1>2, <2>1 DEF LookInv, NorthUpAgrees, SettingsDurable
  <2>. QED  BY <1>3, <2>2, <2>3, <2>4 DEF LookInv
<1>. QED
  BY <1>4, <1>5, <1>6, <1>7, <1>8, <1>9, <1>10, <1>11

LEMMA NextLook ==
  ASSUME TypeOK, LifeInv, LookInv, [Next]_vars
  PROVE  LookInv'
<1>1. CASE HostStep
  BY <1>1, HostStepLook
<1>2. ASSUME NEW f \in Frames, FrameStep(f) PROVE LookInv'
  BY <1>2, CreateStepLook, EventStepLook DEF FrameStep
<1>3. CASE ToggleClose
  <2>1. /\ fault = "none" /\ Building = {} /\ m_pSonarFrame # Null
        /\ OnClose(m_pSonarFrame) /\ UNCHANGED <<plugin, modal>>
    BY <1>3 DEF ToggleClose, ToggleTurn, hostVars
  <2>2. DialogOfActive'
    BY <2>1 DEF LookInv, DialogOfActive
  <2>. QED  BY <2>1, <2>2, KnownWindow, OnCloseLook
<1>4. CASE UNCHANGED vars
  BY <1>4
  DEF vars, hostVars, frameVars, LookInv, BuiltAsSet, Building,
      OnlyPermitted, DialogOfActive, NorthUpAgrees, SettingsDurable
<1>. QED  BY <1>1, <1>2, <1>3, <1>4 DEF Next

\* LookInv holds in every reachable state.
THEOREM LookInvariant == Spec => []LookInv
<1>. USE TypeCorrect, LifeInvariant
<1>1. Init => LookInv
  BY FreshLook DEF Init
<1>2. TypeOK /\ LifeInv /\ LookInv /\ [Next]_vars => LookInv'
  BY NextLook
<1>. QED  BY <1>1, <1>2, PTL DEF Spec

\* The "North Up" box of a shown window and m_sonar_north_up agree, whatever
\* OnNorthUp, the preferences, LoadConfig and Create do in between.
THEOREM BoxShowsSetting == Spec => []NorthUpAgrees
<1>1. LookInv => NorthUpAgrees
  BY DEF LookInv
<1>. QED  BY <1>1, LookInvariant, PTL

\* Nothing the user set is lost by OnClose, Init, DeInit and the preferences.
THEOREM ChoicesAreKept == Spec => []SettingsDurable
<1>1. LookInv => SettingsDurable
  BY DEF LookInv
<1>. QED  BY <1>1, LookInvariant, PTL

\* The toolbar of a plugin that was started once.
ToolInv ==
  /\ ToolMatchesIcon
  /\ plugin = "created" => tools = 0
  /\ plugin \in {"active", "stopped"} => bound > 0

\* Steps that touch neither the toolbar nor the icon setting.
LEMMA QuietStepTool ==
  ASSUME ToolInv, UNCHANGED <<bound, tools>>, settings'.icon = settings.icon,
         \/ plugin' = plugin
         \/ plugin = "active" /\ plugin' = "stopped"
         \/ plugin' = "destroyed"
  PROVE  ToolInv'
BY DEF ToolInv, ToolMatchesIcon

\* Closing a window keeps the icon setting.
LEMMA OnCloseKeepsIcon ==
  ASSUME TypeOK, NEW f \in Frames, OnClose(f)
  PROVE  settings'.icon = settings.icon
BY DEF OnClose, TypeOK, SettingsTypeOK, Settings

\* The handlers of the plugin object: Init and the preferences change tools.
LEMMA HostStepTool ==
  ASSUME TypeOK, LifeInv, LookInv, ToolInv, HostStep
  PROVE  ToolInv'
<1>. USE DEF hostVars
<1>1. CASE PluginInit
  <2>1. /\ plugin' = "active" /\ settings' = InitialSettings /\ bound' = bound + 1
        /\ tools' = ToolsAfterInit /\ plugin \in {"created", "stopped"}
    BY <1>1 DEF PluginInit
  <2>2. bound \in Nat
    BY PluginAssumption DEF TypeOK, HostTypeOK, PluginAssumption
  <2>3. CASE plugin = "created"
    BY <2>1, <2>3 DEF LifeInv, NotStartedYet, ToolInv, ToolMatchesIcon, ToolsAfterInit
  <2>4. CASE plugin = "stopped"
    BY <2>1, <2>2, <2>4 DEF ToolInv, ToolMatchesIcon
  <2>. QED  BY <2>1, <2>3, <2>4
<1>2. CASE PluginDeInit
  <2>1. plugin = "active" /\ plugin' = "stopped" /\ UNCHANGED <<bound, tools>>
    BY <1>2 DEF PluginDeInit
  <2>2. settings'.icon = settings.icon
    BY <1>2, OnCloseKeepsIcon DEF PluginDeInit, TypeOK, HostTypeOK
  <2>. QED  BY <2>1, <2>2, QuietStepTool
<1>3. CASE DestroyPi
  BY <1>3, QuietStepTool DEF DestroyPi
<1>4. CASE OnToolbarToolCallback
  BY <1>4, QuietStepTool DEF OnToolbarToolCallback
<1>5. CASE OnKeyPress
  BY <1>5, QuietStepTool DEF OnKeyPress
<1>6. CASE SetAISSentence
  BY <1>6, QuietStepTool DEF SetAISSentence
<1>7. CASE SetColorScheme
  BY <1>7, QuietStepTool DEF SetColorScheme
<1>8. ASSUME NEW fix \in Fixes, SetPositionFix(fix)
      PROVE  ToolInv'
  BY <1>8, QuietStepTool DEF SetPositionFix
<1>9. CASE ShowPreferencesDialog
  BY <1>9, QuietStepTool DEF ShowPreferencesDialog
<1>10. CASE CancelPreferences
  BY <1>10, QuietStepTool DEF CancelPreferences
<1>11. ASSUME NEW icon \in BOOLEAN, NEW use \in BOOLEAN,
              AcceptPreferences(icon, use)
       PROVE  ToolInv'
  <2>1. /\ settings' = [settings EXCEPT !.icon = icon, !.use = use]
        /\ modal /\ UNCHANGED <<plugin, bound>>
    BY <1>11 DEF AcceptPreferences
  <2>2. settings'.icon = icon /\ settings.icon \in BOOLEAN /\ tools \in Int
    BY <2>1 DEF TypeOK, HostTypeOK, SettingsTypeOK, Settings
  <2>3. plugin = "active" /\ plugin' = "active"
    BY <2>1 DEF LookInv, DialogOfActive
  <2>4. CASE icon /\ ~settings.icon
    <3>1. tools' = tools + 1
      BY <1>11, <2>4, Zenon DEF AcceptPreferences
    <3>. QED  BY <2>1, <2>2, <2>3, <2>4, <3>1 DEF ToolInv, ToolMatchesIcon
  <2>5. CASE ~icon /\ settings.icon
    <3>1. tools' = tools - 1
      BY <1>11, <2>5, Zenon DEF AcceptPreferences
    <3>. QED  BY <2>1, <2>2, <2>3, <2>5, <3>1 DEF ToolInv, ToolMatchesIcon
  <2>6. CASE icon = settings.icon
    <3>1. tools' = tools
      BY <1>11, <2>6, Zenon DEF AcceptPreferences
    <3>. QED  BY <2>1, <2>2, <2>3, <2>6, <3>1 DEF ToolInv, ToolMatchesIcon
  <2>. QED  BY <2>2, <2>4, <2>5, <2>6
<1>. QED
  BY <1>1, <1>2, <1>3, <1>4, <1>5, <1>6, <1>7, <1>8, <1>9, <1>10, <1>11
  DEF HostStep

LEMMA NextTool ==
  ASSUME TypeOK, LifeInv, LookInv, ToolInv, [Next]_vars
  PROVE  ToolInv'
<1>. USE DEF hostVars
<1>1. CASE HostStep
  BY <1>1, HostStepTool
<1>2. ASSUME NEW f \in Frames, FrameStep(f) PROVE ToolInv'
  <2>1. UNCHANGED <<plugin, bound, tools>>
    BY <1>2
    DEF FrameStep, ToggleOpen, CreateFails, LayOut, ShowFrame, OnMove, OnSize,
        PaintEvent, OnTimer, OnNorthUp, OnKeyDown, CloseBox, DeletePending
  <2>2. ASSUME OnNorthUp(f) PROVE settings'.icon = settings.icon
    BY <2>2 DEF OnNorthUp, TypeOK, SettingsTypeOK, Settings
  <2>3. ASSUME CloseBox(f) PROVE settings'.icon = settings.icon
    BY <2>3, OnCloseKeepsIcon DEF CloseBox
  <2>4. settings'.icon = settings.icon
    BY <1>2, <2>2, <2>3
    DEF FrameStep, ToggleOpen, CreateFails, LayOut, ShowFrame, OnMove, OnSize,
        PaintEvent, OnTimer, OnKeyDown, DeletePending
  <2>. QED  BY <2>1, <2>4, QuietStepTool
<1>3. CASE ToggleClose
  <2>1. m_pSonarFrame \in Frames /\ OnClose(m_pSonarFrame)
        /\ UNCHANGED <<plugin, bound, tools>>
    BY <1>3 DEF ToggleClose, TypeOK, HostTypeOK
  <2>. QED  BY <2>1, OnCloseKeepsIcon, QuietStepTool
<1>4. CASE UNCHANGED vars
  BY <1>4, QuietStepTool DEF vars
<1>. QED  BY <1>1, <1>2, <1>3, <1>4 DEF Next

\* The toolbar shows the icon setting, whatever Init and the preferences do,
\* as long as Init ran once.
THEOREM OneToolAtMost == Spec => []ToolMatchesIcon
<1>. USE TypeCorrect, LifeInvariant, LookInvariant
<1>1. Init => ToolInv
  BY DEF Init, Fresh, ToolInv, ToolMatchesIcon
<1>2. TypeOK /\ LifeInv /\ LookInv /\ ToolInv /\ [Next]_vars => ToolInv'
  BY NextTool
<1>3. ToolInv => ToolMatchesIcon
  BY DEF ToolInv
<1>. QED  BY <1>1, <1>2, <1>3, PTL DEF Spec
=============================================================================
