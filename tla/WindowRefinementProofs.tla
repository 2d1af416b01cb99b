----------------------- MODULE WindowRefinementProofs -----------------------
(***************************************************************************)
(* SonarPlugin implements WindowMemory, for every value of its constants   *)
(* under which the promise can be kept: there is a configuration to save   *)
(* to, the host starts the plugin once and does not destroy it while the   *)
(* process goes on, and every window can be created.                       *)
(***************************************************************************)
EXTENDS WindowRefinement, SonarLookProofs

Orderly == HasConfig /\ Permits \cap {"reinit", "unload", "createFails"} = {}

Inv == TypeOK /\ LifeInv /\ LookInv

\* The only open window is the one the plugin points to.
LEMMA OpenIsShown ==
  ASSUME Orderly, Inv, NEW f \in Frames, stage[f] = "open"
  PROVE  Shown /\ m_pSonarFrame = f
<1>1. f = m_pSonarFrame
  BY DEF Orderly, Inv, LifeInv, SingleWindow, Live
<1>. QED  BY <1>1, PluginAssumption DEF Shown, PluginAssumption

\* What the configuration remembers is a look.
LEMMA LooksAreLooks ==
  ASSUME Orderly, TypeOK
  PROVE  /\ Loaded(config) \in Settings
         /\ Memory \in Looks
<1>1. Loaded(config) \in Settings
  BY InitialSettingsType DEF Orderly, TypeOK, InitialSettings
<1>2. Loaded(config).pos \in Int /\ Loaded(config).size \in Int
      /\ Loaded(config).north \in BOOLEAN
  BY <1>1 DEF Settings
<1>3. WindowFor(Loaded(config).size) \in Int
  BY <1>2, SizeType
<1>. QED  BY <1>1, <1>2, <1>3 DEF Memory, LookOf, Looks

LEMMA InitMaps ==
  ASSUME Orderly, Init
  PROVE  Window!MemoryInit
<1>1. ~Shown
  BY DEF Init, Fresh, Shown
<1>2. Memory \in Looks
  BY InitType, LooksAreLooks
<1>. QED  BY <1>1, <1>2 DEF Window!MemoryInit, Look, Recall

\* A step after which the same is shown, looks the same and is remembered.
LEMMA QuietMaps ==
  ASSUME UNCHANGED config, Shown' <=> Shown,
         Shown => UNCHANGED <<m_pSonarFrame, viewPos, viewSize, winPos, winSize,
                              northUp>>
  PROVE  UNCHANGED Window!memoryVars
<1>1. Memory' = Memory
  BY DEF Memory, LookOf, Loaded, DefaultSettings, WindowFor
<1>2. Look' = Look /\ Recall' = Recall
  BY <1>1 DEF Look, Recall, WindowFor
<1>3. Shown' = Shown
  BY DEF Shown
<1>. QED  BY <1>1, <1>2, <1>3 DEF Window!memoryVars

\* OnClose of the shown window hides it and remembers what it recalls.
LEMMA OnCloseMaps ==
  ASSUME Orderly, Inv, Inv', fault = "none", Building = {},
         m_pSonarFrame # Null, OnClose(m_pSonarFrame)
  PROVE  Window!Hide
<1>1. m_pSonarFrame \in Frames /\ stage[m_pSonarFrame] = "open"
      /\ plugin # "destroyed"
  BY KnownWindow DEF Orderly, Inv, LookInv, OnlyPermitted
<1>2. CloseFault(m_pSonarFrame) = "none"
  BY <1>1 DEF Inv, LifeInv, FrameShape, CloseFault
<1>3. /\ m_pSonarFrame' = Null
      /\ settings' = [settings EXCEPT !.pos = viewPos[m_pSonarFrame],
                                      !.size = viewSize[m_pSonarFrame]]
      /\ config' = settings'
  BY <1>2 DEF OnClose, OnSonarFrameClose, SaveConfig, Orderly
<1>4. Shown /\ ~Shown'
  BY <1>1, <1>3 DEF Shown
<1>5. settings \in Settings /\ settings' \in Settings
  BY <1>1 DEF Inv, TypeOK, SettingsTypeOK, FramesTypeOK
<1>6. Loaded(config') = settings'
  BY <1>3, <1>5, SavedIsLoaded
<1>8. settings.north = northUp[m_pSonarFrame]
  BY <1>1 DEF Orderly, Inv, LookInv, NorthUpAgrees
<1>9. /\ settings'.pos = viewPos[m_pSonarFrame]
      /\ settings'.size = viewSize[m_pSonarFrame]
      /\ settings'.north = northUp[m_pSonarFrame]
  BY <1>3, <1>5, <1>8 DEF Settings
<1>10. Memory' = Recall
  <2>1. Memory' = [pos |-> settings'.pos, size |-> WindowFor(settings'.size),
                   north |-> settings'.north]
    BY <1>6 DEF Memory, LookOf, WindowFor, Loaded, DefaultSettings
  <2>. QED  BY <1>4, <1>9, <2>1 DEF Recall, WindowFor
<1>11. Look' = Memory' /\ Recall' = Memory'
  BY <1>4 DEF Look, Recall
<1>. QED  BY <1>4, <1>10, <1>11 DEF Window!Hide

\* The preferences save what the configuration says already, and the
\* north-up choice of the shown window.
LEMMA PreferencesMap ==
  ASSUME Orderly, Inv, NEW icon \in BOOLEAN, NEW use \in BOOLEAN,
         AcceptPreferences(icon, use)
  PROVE  Window!Keep \/ UNCHANGED Window!memoryVars
<1>1. /\ settings' = [settings EXCEPT !.icon = icon, !.use = use]
      /\ config' = settings' /\ UNCHANGED <<frameVars, m_pSonarFrame>>
      /\ modal /\ Building = {} /\ fault = "none"
  BY DEF AcceptPreferences, LoopTurn, SaveConfig, Orderly
<1>2. settings \in Settings /\ settings' \in Settings
  BY <1>1, ChangedSettings DEF Inv, TypeOK, SettingsTypeOK
<1>3. /\ settings'.pos = settings.pos /\ settings'.size = settings.size
      /\ settings'.north = settings.north
  BY <1>1, <1>2 DEF Settings
<1>4. Loaded(config') = settings'
  BY <1>1, <1>2, SavedIsLoaded
<1>5. plugin = "active"
  BY <1>1 DEF Inv, LookInv, DialogOfActive
<1>6. [settings EXCEPT !.north = Loaded(config).north] = Loaded(config)
  BY <1>1, <1>5 DEF Orderly, Inv, LookInv, SettingsDurable
<1>7. Loaded(config).pos = settings.pos /\ Loaded(config).size = settings.size
  BY <1>2, <1>6 DEF Settings
<1>8. Memory' = [Memory EXCEPT !.north = settings.north]
  <2>1. Memory' = [pos |-> settings.pos, size |-> WindowFor(settings.size),
                   north |-> settings.north]
    BY <1>3, <1>4 DEF Memory, LookOf, WindowFor, Loaded, DefaultSettings
  <2>. QED  BY <1>7, <2>1 DEF Memory, LookOf
<1>9. Shown' = Shown
  BY <1>1 DEF Shown, frameVars
<1>10. CASE Shown
  <2>1. Look.north = settings.north
    <3>1. m_pSonarFrame \in Frames /\ stage[m_pSonarFrame] = "open"
      BY <1>10 DEF Shown, Inv, TypeOK, HostTypeOK
    <3>. QED
      BY <1>5, <1>10, <3>1 DEF Look, Orderly, Inv, LookInv, NorthUpAgrees
  <2>2. Look' = Look /\ Recall' = Recall
    BY <1>1, <1>9, <1>10 DEF Look, Recall, WindowFor, frameVars
  <2>. QED  BY <1>8, <1>9, <1>10, <2>1, <2>2 DEF Window!Keep
<1>11. CASE ~Shown
  <2>1. \A f \in Frames : stage[f] # "open"
    BY <1>11, OpenIsShown
  <2>2. settings = Loaded(config)
    BY <1>1, <1>5, <2>1 DEF Orderly, Inv, LookInv, SettingsDurable
  <2>3. Memory' = Memory
    BY <1>8, <2>2 DEF Memory, LookOf
  <2>4. Look' = Look /\ Recall' = Recall
    BY <1>9, <1>11, <2>3 DEF Look, Recall
  <2>. QED  BY <1>9, <2>3, <2>4 DEF Window!memoryVars
<1>. QED  BY <1>10, <1>11

\* The handlers of the plugin object: only DeInit and the preferences count.
LEMMA HostStepMaps ==
  ASSUME Orderly, Inv, Inv', HostStep
  PROVE  Window!MemoryNext \/ UNCHANGED Window!memoryVars
<1>. USE DEF hostVars, dataVars, frameVars
<1>1. fault = "none"
  BY NoStepAfterFault DEF Next
<1>2. CASE PluginInit
  <2>1. plugin = "created" /\ m_pSonarFrame' = Null /\ UNCHANGED config
    BY <1>2 DEF PluginInit, Orderly
  <2>2. ~Shown /\ ~Shown'
    BY <2>1 DEF Shown, Inv, LifeInv, NotStartedYet
  <2>. QED  BY <2>1, <2>2, QuietMaps
<1>3. CASE PluginDeInit
  <2>1. CASE m_pSonarFrame # Null
    <3>1. OnClose(m_pSonarFrame) /\ Building = {}
      BY <1>3, <2>1 DEF PluginDeInit, UserTurn, LoopTurn
    <3>. QED  BY <1>1, <2>1, <3>1, OnCloseMaps DEF Window!MemoryNext
  <2>2. CASE m_pSonarFrame = Null
    BY <1>3, <2>2, QuietMaps DEF PluginDeInit, Shown
  <2>. QED  BY <2>1, <2>2
<1>4. CASE DestroyPi
  BY <1>4 DEF DestroyPi, Orderly
<1>5. CASE OnToolbarToolCallback
  BY <1>5, QuietMaps DEF OnToolbarToolCallback, Shown
<1>6. CASE OnKeyPress
  BY <1>6, QuietMaps DEF OnKeyPress, Shown
<1>7. CASE SetAISSentence
  BY <1>7, QuietMaps DEF SetAISSentence, Shown
<1>8. CASE SetColorScheme
  BY <1>8, QuietMaps DEF SetColorScheme, Shown
<1>9. ASSUME NEW fix \in Fixes, SetPositionFix(fix)
      PROVE  UNCHANGED Window!memoryVars
  BY <1>9, QuietMaps DEF SetPositionFix, Shown
<1>10. CASE ShowPreferencesDialog
  BY <1>10, QuietMaps DEF ShowPreferencesDialog, Shown
<1>11. CASE CancelPreferences
  BY <1>11, QuietMaps DEF CancelPreferences, Shown
<1>12. ASSUME NEW icon \in BOOLEAN, NEW use \in BOOLEAN,
              AcceptPreferences(icon, use)
       PROVE  Window!MemoryNext \/ UNCHANGED Window!memoryVars
  BY <1>12, PreferencesMap DEF Window!MemoryNext
<1>. QED
  BY <1>2, <1>3, <1>4, <1>5, <1>6, <1>7, <1>8, <1>9, <1>10, <1>11, <1>12
  DEF HostStep

\* Nothing of ToggleSonarFrame and Create is seen before Show(), which shows
\* the window exactly as it was remembered, at the place it was told or the
\* one EVT_MOVE has reported.
LEMMA CreateStepMaps ==
  ASSUME Orderly, Inv, Inv', NEW f \in Frames,
         ToggleOpen(f) \/ CreateFails(f) \/ LayOut(f) \/ ShowFrame(f)
  PROVE  Window!MemoryNext \/ UNCHANGED Window!memoryVars
<1>1. stage \in [Frames -> Stages]
  BY DEF Inv, TypeOK, FramesTypeOK
<1>2. CASE ToggleOpen(f)
  <2>1. /\ m_pSonarFrame = Null /\ m_pSonarFrame' = f
        /\ stage' = [stage EXCEPT ![f] = "dialog"] /\ UNCHANGED config
    BY <1>2 DEF ToggleOpen, NoWindow
  <2>2. ~Shown /\ ~Shown'
    BY <1>1, <2>1 DEF Shown
  <2>. QED  BY <2>1, <2>2, QuietMaps
<1>3. CASE CreateFails(f)
  BY <1>3 DEF CreateFails, Orderly
<1>4. CASE LayOut(f)
  <2>1. /\ stage[f] = "dialog" /\ stage' = [stage EXCEPT ![f] = "laidout"]
        /\ UNCHANGED <<config, m_pSonarFrame>>
    BY <1>4 DEF LayOut
  <2>2. m_pSonarFrame = f
    BY <2>1 DEF Inv, LifeInv, BuildingIsKnown, Building
  <2>3. ~Shown /\ ~Shown'
    BY <1>1, <2>1, <2>2 DEF Shown
  <2>. QED  BY <2>1, <2>3, QuietMaps
<1>5. CASE ShowFrame(f)
  <2>1. /\ stage[f] = "laidout" /\ stage' = [stage EXCEPT ![f] = "open"]
        /\ UNCHANGED <<config, m_pSonarFrame, viewPos, viewSize, winPos, winSize,
                       northUp>>
        /\ fault = "none"
    BY <1>5 DEF ShowFrame
  <2>2. m_pSonarFrame = f /\ f # Null
    BY <2>1, PluginAssumption
    DEF Inv, LifeInv, BuildingIsKnown, Building, PluginAssumption
  <2>3. ~Shown /\ Shown'
    BY <1>1, <2>1, <2>2 DEF Shown
  <2>4. plugin \in {"active", "stopped"}
    BY <2>1 DEF Orderly, Inv, LifeInv, NotStartedYet, LookInv, OnlyPermitted,
                TypeOK, HostTypeOK
  <2>5. \A g \in Frames : stage[g] # "open"
    BY <2>3, OpenIsShown
  <2>6. settings = Loaded(config)
    BY <2>1, <2>4, <2>5 DEF Orderly, Inv, LookInv, SettingsDurable
  <2>7. /\ winPos[f] = settings.pos /\ winSize[f] = WindowFor(settings.size)
        /\ northUp[f] = settings.north /\ viewSize[f] = settings.size
        /\ viewPos[f] \in {settings.pos, Reported(settings.pos)}
    BY <2>1 DEF Inv, LookInv, BuiltAsSet, Building
  <2>8. Memory' = Memory
    BY <2>1 DEF Memory, LookOf, Loaded, DefaultSettings, WindowFor
  <2>9. Look' = Look
    BY <2>1, <2>2, <2>3, <2>6, <2>7 DEF Look, Memory, LookOf
  <2>10. PICK d \in {0, Decoration} : viewPos[f] = Memory.pos + d
    <3>1. Memory.pos = settings.pos /\ settings.pos \in Int
      BY <2>6 DEF Memory, LookOf, Inv, TypeOK, SettingsTypeOK, Settings
    <3>. QED  BY <2>7, <3>1 DEF Reported
  <2>11. Recall' = [Memory EXCEPT !.pos = @ + d]
    <3>1. Recall' = [pos |-> viewPos[f], size |-> WindowFor(viewSize[f]),
                     north |-> northUp[f]]
      BY <2>1, <2>2, <2>3 DEF Recall, WindowFor
    <3>2. Memory = [pos |-> Memory.pos, size |-> WindowFor(viewSize[f]),
                    north |-> northUp[f]]
      BY <2>6, <2>7 DEF Memory, LookOf
    <3>. QED  BY <2>10, <3>1, <3>2
  <2>. QED  BY <2>3, <2>8, <2>9, <2>11 DEF Window!MemoryNext, Window!Show
<1>. QED  BY <1>2, <1>3, <1>4, <1>5

\* What the user can change of the shown window.
LEMMA AdjustMaps ==
  ASSUME Orderly, Inv, Inv', NEW f \in Frames, stage[f] = "open",
         \/ \E p \in Positions : OnMove(f, p)
         \/ \E w \in WindowSizes \cup {winSize[f]} : OnSize(f, w)
         \/ OnNorthUp(f)
  PROVE  Window!Adjust
<1>1. UNCHANGED <<stage, m_pSonarFrame, config>>
  BY DEF OnMove, OnSize, OnNorthUp
<1>2. Shown /\ Shown' /\ m_pSonarFrame = f
  BY <1>1, OpenIsShown DEF Shown
<1>3. Memory' = Memory
  BY <1>1 DEF Memory, LookOf, Loaded, DefaultSettings, WindowFor
<1>4. /\ Look = [pos |-> winPos[f], size |-> winSize[f], north |-> northUp[f]]
      /\ Look' = [pos |-> winPos'[f], size |-> winSize'[f], north |-> northUp'[f]]
      /\ Recall = [pos |-> viewPos[f], size |-> WindowFor(viewSize[f]),
                   north |-> northUp[f]]
      /\ Recall' = [pos |-> viewPos'[f], size |-> WindowFor(viewSize'[f]),
                    north |-> northUp'[f]]
  BY <1>1, <1>2 DEF Look, Recall, WindowFor
<1>5. /\ viewPos \in [Frames -> Int] /\ viewSize \in [Frames -> Int]
      /\ winPos \in [Frames -> Int] /\ winSize \in [Frames -> Int]
      /\ northUp \in [Frames -> BOOLEAN]
  BY DEF Inv, TypeOK, FramesTypeOK
<1>6. winPos'[f] \in Int /\ winSize'[f] \in Int /\ northUp'[f] \in BOOLEAN
  BY DEF Inv, TypeOK, FramesTypeOK
<1>7. Look' \in Looks
  BY <1>4, <1>6 DEF Looks
<1>8. ASSUME NEW p \in Positions, OnMove(f, p)
      PROVE  Window!Move(Look'.pos)
  <2>1. /\ winPos'[f] = p /\ viewPos'[f] = p + Decoration
        /\ UNCHANGED <<viewSize, winSize, northUp>>
    BY <1>5, <1>8 DEF OnMove, Reported
  <2>. QED  BY <1>4, <2>1 DEF Window!Move
<1>9. ASSUME NEW w \in WindowSizes \cup {winSize[f]}, OnSize(f, w)
      PROVE  Window!Resize(Look'.size)
  <2>1. canvas[f]
    BY DEF Inv, LifeInv, FrameShape
  <2>2. /\ winSize'[f] = w /\ viewSize'[f] = StoredSize(f, w)
        /\ UNCHANGED <<viewPos, winPos, northUp>>
    BY <1>5, <1>9, <2>1 DEF OnSize, HasCanvas
  <2>3. WindowFor(StoredSize(f, w)) = IF Win32 THEN winSize[f] ELSE w
    BY <1>5, PluginAssumption DEF WindowFor, StoredSize, PluginAssumption
  <2>. QED  BY <1>4, <2>2, <2>3 DEF Window!Resize
<1>10. ASSUME OnNorthUp(f)
       PROVE  Window!Turn(Look'.north)
  <2>1. UNCHANGED <<viewPos, viewSize, winPos, winSize>>
    BY <1>10 DEF OnNorthUp
  <2>. QED  BY <1>4, <2>1 DEF Window!Turn
<1>. QED  BY <1>2, <1>3, <1>7, <1>8, <1>9, <1>10 DEF Window!Adjust

\* The events of a window, of the shown one and of those on their way.
LEMMA EventStepMaps ==
  ASSUME Orderly, Inv, Inv', NEW f \in Frames,
         \/ \E p \in Positions : OnMove(f, p)
         \/ \E w \in WindowSizes \cup {winSize[f]} : OnSize(f, w)
         \/ PaintEvent(f) \/ OnTimer(f) \/ OnNorthUp(f) \/ OnKeyDown(f)
         \/ CloseBox(f) \/ DeletePending(f)
  PROVE  Window!MemoryNext \/ UNCHANGED Window!memoryVars
<1>. USE DEF hostVars, dataVars, frameVars
<1>1. /\ viewPos \in [Frames -> Int] /\ viewSize \in [Frames -> Int]
      /\ winPos \in [Frames -> Int] /\ winSize \in [Frames -> Int]
      /\ stage \in [Frames -> Stages]
  BY DEF Inv, TypeOK, FramesTypeOK
<1>2. ASSUME \/ \E p \in Positions : OnMove(f, p)
             \/ \E w \in WindowSizes \cup {winSize[f]} : OnSize(f, w)
      PROVE  Window!MemoryNext \/ UNCHANGED Window!memoryVars
  <2>1. UNCHANGED <<stage, m_pSonarFrame, config, northUp>>
    BY <1>2 DEF OnMove, OnSize
  <2>2. CASE stage[f] = "open"
    BY <1>2, <2>2, AdjustMaps DEF Window!MemoryNext
  <2>3. CASE stage[f] # "open"
    <3>1. Shown => m_pSonarFrame \in Frames \ {f}
      BY <2>3 DEF Shown, Inv, TypeOK, HostTypeOK
    <3>2. \A g \in Frames \ {f} :
            /\ viewPos'[g] = viewPos[g] /\ viewSize'[g] = viewSize[g]
            /\ winPos'[g] = winPos[g] /\ winSize'[g] = winSize[g]
      BY <1>1, <1>2 DEF OnMove, OnSize
    <3>3. Shown' = Shown /\ Memory' = Memory
      BY <2>1 DEF Shown, Memory, LookOf, Loaded, DefaultSettings, WindowFor
    <3>4. Look' = Look /\ Recall' = Recall
      BY <2>1, <3>1, <3>2, <3>3 DEF Look, Recall, WindowFor
    <3>. QED  BY <3>3, <3>4 DEF Window!memoryVars
  <2>. QED  BY <2>2, <2>3
<1>3. CASE PaintEvent(f)
  BY <1>3, QuietMaps DEF PaintEvent, Shown
<1>4. CASE OnTimer(f)
  BY <1>4, QuietMaps DEF OnTimer, Shown
<1>5. CASE OnNorthUp(f)
  <2>1. stage[f] = "open"
    BY <1>5 DEF OnNorthUp
  <2>. QED  BY <1>5, <2>1, AdjustMaps DEF Window!MemoryNext
<1>6. CASE OnKeyDown(f)
  BY <1>6, QuietMaps DEF OnKeyDown, Shown
<1>7. CASE CloseBox(f)
  <2>1. stage[f] = "open" /\ OnClose(f) /\ fault = "none" /\ Building = {}
    BY <1>7 DEF CloseBox, UserTurn, LoopTurn
  <2>2. m_pSonarFrame = f /\ m_pSonarFrame # Null
    BY <2>1, OpenIsShown DEF Shown
  <2>. QED  BY <2>1, <2>2, OnCloseMaps DEF Window!MemoryNext
<1>8. CASE DeletePending(f)
  <2>1. /\ stage[f] = "closing" /\ UNCHANGED <<config, m_pSonarFrame>>
        /\ stage' = [stage EXCEPT ![f] = "unused"]
        /\ viewPos' = [viewPos EXCEPT ![f] = ZeroPos]
        /\ viewSize' = [viewSize EXCEPT ![f] = 0]
        /\ winPos' = [winPos EXCEPT ![f] = ZeroPos]
        /\ winSize' = [winSize EXCEPT ![f] = 0]
        /\ northUp' = [northUp EXCEPT ![f] = FALSE]
    BY <1>8 DEF DeletePending
  <2>2. m_pSonarFrame # f
    BY <2>1, PluginAssumption
    DEF Inv, LifeInv, PointerLive, Live, PluginAssumption
  <2>3. Shown' = Shown
    BY <1>1, <2>1, <2>2 DEF Shown
  <2>4. Memory' = Memory
    BY <2>1 DEF Memory, LookOf, Loaded, DefaultSettings, WindowFor
  <2>5. Look' = Look /\ Recall' = Recall
    BY <1>1, <2>1, <2>2, <2>3, <2>4
    DEF Look, Recall, WindowFor, Inv, TypeOK, FramesTypeOK
  <2>. QED  BY <2>3, <2>4, <2>5 DEF Window!memoryVars
<1>. QED
  BY <1>2, <1>3, <1>4, <1>5, <1>6, <1>7, <1>8

LEMMA NextMaps ==
  ASSUME Orderly, Inv, Inv', [Next]_vars
  PROVE  [Window!MemoryNext]_(Window!memoryVars)
<1>1. CASE HostStep
  BY <1>1, HostStepMaps
<1>2. ASSUME NEW f \in Frames, FrameStep(f)
      PROVE  Window!MemoryNext \/ UNCHANGED Window!memoryVars
  BY <1>2, CreateStepMaps, EventStepMaps DEF FrameStep
<1>3. CASE ToggleClose
  <2>1. /\ fault = "none" /\ Building = {}
        /\ m_pSonarFrame # Null /\ OnClose(m_pSonarFrame)
    BY <1>3 DEF ToggleClose, ToggleTurn
  <2>. QED  BY <2>1, OnCloseMaps DEF Window!MemoryNext
<1>4. CASE UNCHANGED vars
  BY <1>4, QuietMaps DEF vars, frameVars, Shown
<1>. QED  BY <1>1, <1>2, <1>3, <1>4 DEF Next

\* From outside the plugin is one window that comes back as it is recalled:
\* every step of SonarPlugin is a step of WindowMemory or none, with sizes that
\* lag on Windows and places that are off by what EVT_MOVE adds to them.
THEOREM ImplementsWindowMemory ==
  ASSUME Orderly
  PROVE  Spec => KeepsWindow
<1>1. Init => Window!MemoryInit
  BY InitMaps
<1>2. Inv /\ Inv' /\ [Next]_vars => [Window!MemoryNext]_(Window!memoryVars)
  BY NextMaps
<1>3. Spec => []Inv
  BY TypeCorrect, LifeInvariant, LookInvariant, PTL DEF Inv
<1>. QED  BY <1>1, <1>2, <1>3, PTL DEF Spec, KeepsWindow, Window!MemorySpec

-----------------------------------------------------------------------------
(* Where sizes do not lag and places are reported as they are.             *)

\* The shown window recalls how it looks.
RecallsLook == Recall = Look

LEMMA MemoryRecallsLook ==
  ASSUME ~Win32, Decoration = 0, Orderly, TypeOK, RecallsLook,
         [Window!MemoryNext]_(Window!memoryVars)
  PROVE  RecallsLook'
<1>1. CASE Window!Show
  <2>1. Memory.pos \in Int /\ Memory = [Memory EXCEPT !.pos = Memory.pos]
    BY LooksAreLooks DEF Looks
  <2>2. Recall' = Memory
    BY <1>1, <2>1 DEF Window!Show
  <2>3. Look' = Memory
    BY <1>1 DEF Window!Show, Look
  <2>. QED  BY <2>2, <2>3 DEF RecallsLook
<1>2. CASE Window!Adjust
  <2>1. Look'.pos \in Int
    BY <1>2 DEF Window!Adjust, Looks
  <2>2. Look'.pos + Decoration = Look'.pos
    BY <2>1
  <2>. QED
    BY <1>2, <2>2
    DEF Window!Adjust, Window!Move, Window!Resize, Window!Turn, RecallsLook
<1>3. CASE Window!Keep \/ Window!Hide \/ UNCHANGED Window!memoryVars
  BY <1>3 DEF Window!Keep, Window!Hide, Window!memoryVars, RecallsLook
<1>. QED  BY <1>1, <1>2, <1>3 DEF Window!MemoryNext

\* Outside Windows, and where EVT_MOVE reports the place a window was given,
\* OnClose remembers the window as it is: by whatever way it went, it comes
\* back where and as it was.
THEOREM ComesBackAsItWent ==
  ASSUME Orderly, ~Win32, Decoration = 0
  PROVE  Spec => [][Shown /\ ~Shown' => Memory' = Look]_vars
<1>1. Init => RecallsLook
  BY DEF Init, Fresh, Shown, Look, Recall, RecallsLook
<1>2. Inv /\ Inv' /\ RecallsLook /\ [Next]_vars => RecallsLook'
  BY NextMaps, MemoryRecallsLook DEF Inv
<1>3. Inv /\ Inv' /\ RecallsLook /\ [Next]_vars
        => [Shown /\ ~Shown' => Memory' = Look]_vars
  BY NextMaps
  DEF Window!MemoryNext, Window!memoryVars, Window!Show, Window!Adjust,
      Window!Keep, Window!Hide, RecallsLook
<1>4. Spec => []Inv
  BY TypeCorrect, LifeInvariant, LookInvariant, PTL DEF Inv
<1>. QED  BY <1>1, <1>2, <1>3, <1>4, PTL DEF Spec
=============================================================================
