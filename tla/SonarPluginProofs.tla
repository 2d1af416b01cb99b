-------------------------- MODULE SonarPluginProofs -------------------------
(***************************************************************************)
(* Theorems about SonarPlugin, for every value of its constants.           *)
(***************************************************************************)
EXTENDS SonarPlugin, TLAPS

-----------------------------------------------------------------------------
(* Facts about the operators the handlers are built from.                  *)

\* The settings that Init leaves are settings, with a configuration or not.
LEMMA InitialSettingsType ==
  ASSUME SettingsTypeOK
  PROVE  InitialSettings \in Settings
<1>. USE PluginAssumption DEF PluginAssumption
<1>1. DefaultSettings \in Settings
  BY DEF DefaultSettings, Settings
<1>2. Loaded(config) \in Settings
  BY <1>1 DEF SettingsTypeOK, Loaded
<1>3. [settings EXCEPT !.pos = ZeroPos, !.size = InitSize] \in Settings
  BY DEF SettingsTypeOK, Settings
<1>. QED  BY <1>2, <1>3 DEF InitialSettings

\* Settings with some of their members replaced are settings.
LEMMA ChangedSettings ==
  ASSUME NEW s \in Settings
  PROVE  /\ \A p \in Int, n \in Int :
              [s EXCEPT !.pos = p, !.size = n] \in Settings
         /\ \A b, c \in BOOLEAN : [s EXCEPT !.icon = b, !.use = c] \in Settings
         /\ \A b \in BOOLEAN : [s EXCEPT !.north = b] \in Settings
BY DEF Settings

\* Saving settings leaves a configuration or what was there.
LEMMA SaveConfigType ==
  ASSUME SettingsTypeOK, NEW s \in Settings, SaveConfig(s)
  PROVE  config' \in Settings \cup {Absent}
BY DEF SettingsTypeOK, SaveConfig

\* A new target array, wherever the host puts it, is an array.
LEMMA GetSonarTargetsType ==
  ASSUME TargetsTypeOK, GetSonarTargets
  PROVE  TargetsTypeOK'
BY DEF TargetsTypeOK, GetSonarTargets, GetAISTargetArray, Released

\* What a fix leaves in nav is navigation data.
LEMMA StoredType ==
  ASSUME NavTypeOK, NEW fix \in Fixes
  PROVE  Stored(fix) \in [place : Places, cog : Nat, sog : Nat, sats : Nat]
BY NavAssumption DEF NavAssumption, NavTypeOK, Stored, Reading

\* Both sizes a window has are numbers, and so is the place it reports.
LEMMA SizeType ==
  ASSUME NEW n \in Int
  PROVE  WindowFor(n) \in Int /\ Reported(n) \in Int
BY PluginAssumption DEF PluginAssumption, WindowFor, Reported

LEMMA StoredSizeType ==
  ASSUME NEW f \in Frames, winSize[f] \in Int, NEW w \in Int
  PROVE  StoredSize(f, w) \in Int
BY PluginAssumption DEF PluginAssumption, StoredSize

\* OnClose keeps everything it touches well typed.
LEMMA OnCloseType ==
  ASSUME TypeOK, NEW f \in Frames, OnClose(f)
  PROVE  /\ FramesTypeOK' /\ SettingsTypeOK'
         /\ m_pSonarFrame' \in Frames \cup {Null}
         /\ fault' \in Faults
<1>1. fault' \in Faults
  BY DEF OnClose, CloseFault, Faults
<1>2. CASE CloseFault(f) = "none"
  <2>1. FramesTypeOK'
    BY <1>2 DEF OnClose, TypeOK, FramesTypeOK, Stages
  <2>2. settings' \in Settings
    <3>1. viewPos[f] \in Int /\ viewSize[f] \in Int
      BY DEF TypeOK, FramesTypeOK
    <3>2. settings \in Settings
      BY DEF TypeOK, SettingsTypeOK
    <3>3. settings' = [settings EXCEPT !.pos = viewPos[f],
                                       !.size = viewSize[f]]
      BY <1>2 DEF OnClose
    <3>. QED  BY <3>1, <3>2, <3>3, ChangedSettings
  <2>3. config' \in Settings \cup {Absent}
    <3>1. config' = settings' \/ config' = config
      BY <1>2 DEF OnClose, OnSonarFrameClose, SaveConfig
    <3>. QED  BY <2>2, <3>1 DEF TypeOK, SettingsTypeOK
  <2>. QED  BY <1>1, <1>2, <2>1, <2>2, <2>3 DEF OnClose, OnSonarFrameClose, SettingsTypeOK
<1>3. CASE CloseFault(f) # "none"
  BY <1>1, <1>3 DEF OnClose, TypeOK, FramesTypeOK, SettingsTypeOK, HostTypeOK
<1>. QED  BY <1>2, <1>3

\* The types of a plugin that has just been constructed, beside any
\* configuration.
LEMMA FreshType ==
  ASSUME Fresh, config \in Settings \cup {Absent}
  PROVE  TypeOK
<1>. USE DEF Fresh
<1>1. TargetsTypeOK
  BY DEF TargetsTypeOK, NoTargets
<1>2. NavTypeOK
  BY NavAssumption DEF NavAssumption, NavTypeOK, NoFixYet
<1>3. HostTypeOK
  <2>1. bound \in 0 .. MaxInits
    BY PluginAssumption DEF PluginAssumption
  <2>2. modal \in BOOLEAN /\ fault \in Faults /\ dirty \subseteq Frames
    BY DEF Faults
  <2>3. /\ plugin \in {"created", "active", "stopped", "destroyed"}
        /\ m_pSonarFrame \in Frames \cup {Null}
        /\ tools \in Int /\ work \in Nat
    OBVIOUS
  <2>. QED  BY <2>1, <2>2, <2>3 DEF HostTypeOK
<1>4. SettingsTypeOK
  <2>1. settings \in Settings
    BY PluginAssumption DEF PluginAssumption, CtorSettings, Settings
  <2>. QED  BY <2>1 DEF SettingsTypeOK
<1>5. FramesTypeOK
  BY PluginAssumption DEF PluginAssumption, FramesTypeOK, Stages
<1>. QED  BY <1>1, <1>2, <1>3, <1>4, <1>5 DEF TypeOK

LEMMA InitType == Init => TypeOK
  BY FreshType, PluginAssumption DEF Init, PluginAssumption

\* The handlers of the plugin object keep the types.
LEMMA HostStepType ==
  ASSUME TypeOK, HostStep
  PROVE  TypeOK'
<1>. USE DEF TypeOK, hostVars, frameVars, dataVars, targetVars
<1>1. CASE PluginInit
  <2>1. TargetsTypeOK'
    BY <1>1, GetSonarTargetsType DEF PluginInit
  <2>2. NavTypeOK'
    BY <1>1, NavAssumption DEF PluginInit, NavAssumption, NavTypeOK, NoFixYet
  <2>3. SettingsTypeOK'
    BY <1>1, InitialSettingsType DEF PluginInit, SettingsTypeOK
  <2>4. FramesTypeOK'
    BY <1>1 DEF PluginInit, FramesTypeOK
  <2>5. bound' \in 0 .. MaxInits
    BY <1>1, PluginAssumption DEF PluginInit, PluginAssumption, HostTypeOK
  <2>6. HostTypeOK'
    BY <1>1, <2>5 DEF PluginInit, HostTypeOK, ToolsAfterInit
  <2>. QED  BY <2>1, <2>2, <2>3, <2>4, <2>6
<1>2. CASE PluginDeInit
  <2>1. CASE m_pSonarFrame # Null
    <3>1. /\ FramesTypeOK' /\ SettingsTypeOK'
          /\ m_pSonarFrame' \in Frames \cup {Null}
          /\ fault' \in Faults
      BY <1>2, <2>1, OnCloseType DEF PluginDeInit, HostTypeOK
    <3>. QED
      BY <1>2, <3>1 DEF PluginDeInit, HostTypeOK, TargetsTypeOK, NavTypeOK
  <2>2. CASE m_pSonarFrame = Null
    BY <1>2, <2>2 DEF PluginDeInit, HostTypeOK, SettingsTypeOK, FramesTypeOK,
                      TargetsTypeOK, NavTypeOK
  <2>. QED  BY <2>1, <2>2
<1>3. CASE DestroyPi
  BY <1>3 DEF DestroyPi, ReleaseTargets, Released, HostTypeOK, SettingsTypeOK,
              FramesTypeOK, TargetsTypeOK, NavTypeOK
<1>4. CASE OnToolbarToolCallback
  BY <1>4 DEF OnToolbarToolCallback, CallToggle, HostTypeOK, SettingsTypeOK,
              FramesTypeOK, TargetsTypeOK, NavTypeOK
<1>5. CASE OnKeyPress
  <2>1. work' \in Nat
    BY <1>5, PluginAssumption
    DEF OnKeyPress, CallToggle, HostTypeOK, PluginAssumption
  <2>. QED
    BY <1>5, <2>1 DEF OnKeyPress, HostTypeOK, SettingsTypeOK, FramesTypeOK,
                      TargetsTypeOK, NavTypeOK, Faults
<1>6. CASE SetAISSentence
  <2>1. TargetsTypeOK'
    BY <1>6, GetSonarTargetsType DEF SetAISSentence, TargetsTypeOK
  <2>. QED
    BY <1>6, <2>1 DEF SetAISSentence, RefreshView, HostTypeOK, SettingsTypeOK,
                      FramesTypeOK, NavTypeOK
<1>7. CASE SetColorScheme
  BY <1>7 DEF SetColorScheme, RefreshView, HostTypeOK, SettingsTypeOK,
              FramesTypeOK, TargetsTypeOK, NavTypeOK
<1>8. ASSUME NEW fix \in Fixes, SetPositionFix(fix)
      PROVE  TypeOK'
  <2>1. NavTypeOK'
    BY <1>8, StoredType DEF SetPositionFix, NavTypeOK
  <2>. QED
    BY <1>8, <2>1 DEF SetPositionFix, RefreshView, HostTypeOK, SettingsTypeOK,
                      FramesTypeOK, TargetsTypeOK
<1>9. CASE ShowPreferencesDialog
  BY <1>9 DEF ShowPreferencesDialog, HostTypeOK, SettingsTypeOK, FramesTypeOK,
              TargetsTypeOK, NavTypeOK
<1>10. CASE CancelPreferences
  BY <1>10 DEF CancelPreferences, HostTypeOK, SettingsTypeOK, FramesTypeOK,
               TargetsTypeOK, NavTypeOK
<1>11. ASSUME NEW icon \in BOOLEAN, NEW use \in BOOLEAN,
              AcceptPreferences(icon, use)
       PROVE  TypeOK'
  <2>1. settings' \in Settings
    BY <1>11, ChangedSettings DEF AcceptPreferences, SettingsTypeOK
  <2>2. config' = settings' \/ config' = config
    BY <1>11 DEF AcceptPreferences, SaveConfig
  <2>3. tools' \in Int
    BY <1>11 DEF AcceptPreferences, HostTypeOK
  <2>. QED
    BY <1>11, <2>1, <2>2, <2>3 DEF AcceptPreferences, HostTypeOK, SettingsTypeOK,
                     FramesTypeOK, TargetsTypeOK, NavTypeOK
<1>. QED
  BY <1>1, <1>2, <1>3, <1>4, <1>5, <1>6, <1>7, <1>8, <1>9, <1>10, <1>11
  DEF HostStep

\* The handlers of a window keep the types.
LEMMA FrameStepType ==
  ASSUME TypeOK, NEW f \in Frames, FrameStep(f)
  PROVE  TypeOK'
<1>. USE DEF TypeOK, hostVars, frameVars, dataVars, targetVars
<1>1. /\ viewPos[f] \in Int /\ viewSize[f] \in Int
      /\ winPos[f] \in Int /\ winSize[f] \in Int
      /\ northUp[f] \in BOOLEAN
  BY DEF FramesTypeOK
<1>2. settings \in Settings /\ settings.pos \in Int /\ settings.size \in Int
      /\ settings.north \in BOOLEAN
  BY DEF SettingsTypeOK, Settings
<1>3. CASE ToggleOpen(f)
  <2>1. WindowFor(settings.size) \in Int
    BY <1>2, SizeType
  <2>2. FramesTypeOK'
    BY <1>2, <1>3, <2>1 DEF ToggleOpen, FramesTypeOK, Stages
  <2>3. work' \in Nat
    BY <1>3 DEF ToggleOpen, ToggleTurn, HostTypeOK
  <2>. QED
    BY <1>3, <2>2, <2>3 DEF ToggleOpen, HostTypeOK, SettingsTypeOK, TargetsTypeOK,
                       NavTypeOK
<1>4. CASE CreateFails(f)
  BY <1>4 DEF CreateFails, Show, HostTypeOK, SettingsTypeOK, FramesTypeOK, Stages,
              TargetsTypeOK, NavTypeOK
<1>5. CASE LayOut(f)
  <2>1. FramesTypeOK'
    BY <1>1, <1>2, <1>5, SizeType DEF LayOut, MovedTo, InitialBox, FramesTypeOK, Stages
  <2>. QED
    BY <1>5, <2>1 DEF LayOut, HostTypeOK, SettingsTypeOK, TargetsTypeOK, NavTypeOK
<1>6. CASE ShowFrame(f)
  BY <1>6 DEF ShowFrame, Show, HostTypeOK, SettingsTypeOK, FramesTypeOK, Stages,
              TargetsTypeOK, NavTypeOK
<1>7. ASSUME NEW p \in Positions, OnMove(f, p)
      PROVE  TypeOK'
  <2>1. p \in Int /\ Reported(p) \in Int
    BY PluginAssumption, SizeType DEF PluginAssumption
  <2>2. FramesTypeOK'
    BY <1>7, <2>1 DEF OnMove, FramesTypeOK
  <2>. QED
    BY <1>7, <2>2 DEF OnMove, HostTypeOK, SettingsTypeOK, TargetsTypeOK, NavTypeOK
<1>8. ASSUME NEW w \in WindowSizes \cup {winSize[f]}, OnSize(f, w)
      PROVE  TypeOK'
  <2>1. w \in Int
    BY <1>1, PluginAssumption DEF PluginAssumption
  <2>2. StoredSize(f, w) \in Int
    BY <1>1, <2>1, StoredSizeType
  <2>3. FramesTypeOK'
    BY <1>8, <2>1, <2>2 DEF OnSize, FramesTypeOK
  <2>4. fault' \in Faults
    BY <1>8 DEF OnSize, RenderFault, HostTypeOK, Faults
  <2>. QED
    BY <1>8, <2>3, <2>4 DEF OnSize, HostTypeOK, SettingsTypeOK, TargetsTypeOK,
                            NavTypeOK
<1>9. CASE PaintEvent(f)
  <2>1. fault' \in Faults
    BY <1>9 DEF PaintEvent, RenderFault, Faults
  <2>. QED
    BY <1>9, <2>1 DEF PaintEvent, HostTypeOK, SettingsTypeOK, FramesTypeOK,
                      TargetsTypeOK, NavTypeOK
<1>10. CASE OnTimer(f)
  BY <1>10 DEF OnTimer, HostTypeOK, SettingsTypeOK, FramesTypeOK, TargetsTypeOK,
               NavTypeOK
<1>11. CASE OnNorthUp(f)
  <2>1. FramesTypeOK'
    BY <1>11 DEF OnNorthUp, FramesTypeOK
  <2>2. settings' \in Settings
    BY <1>1, <1>2, <1>11, ChangedSettings DEF OnNorthUp
  <2>. QED
    BY <1>11, <2>1, <2>2 DEF OnNorthUp, HostTypeOK, SettingsTypeOK, Faults,
                             TargetsTypeOK, NavTypeOK
<1>12. CASE OnKeyDown(f)
  BY <1>12 DEF OnKeyDown, CallToggle, HostTypeOK, SettingsTypeOK, FramesTypeOK,
               TargetsTypeOK, NavTypeOK, Faults
<1>13. CASE CloseBox(f)
  <2>1. /\ FramesTypeOK' /\ SettingsTypeOK'
        /\ m_pSonarFrame' \in Frames \cup {Null}
        /\ fault' \in Faults
    BY <1>13, OnCloseType DEF CloseBox
  <2>. QED  BY <1>13, <2>1 DEF CloseBox, HostTypeOK, TargetsTypeOK, NavTypeOK
<1>14. CASE DeletePending(f)
  <2>1. FramesTypeOK'
    BY <1>14, PluginAssumption
    DEF DeletePending, PluginAssumption, FramesTypeOK, Stages
  <2>. QED
    BY <1>14, <2>1 DEF DeletePending, HostTypeOK, SettingsTypeOK, TargetsTypeOK,
                       NavTypeOK
<1>. QED
  BY <1>3, <1>4, <1>5, <1>6, <1>7, <1>8, <1>9, <1>10, <1>11, <1>12, <1>13, <1>14
  DEF FrameStep

LEMMA NextType ==
  ASSUME TypeOK, [Next]_vars
  PROVE  TypeOK'
<1>1. CASE HostStep
  BY <1>1, HostStepType
<1>2. CASE ToggleClose
  <2>1. m_pSonarFrame \in Frames
    BY <1>2 DEF ToggleClose, TypeOK, HostTypeOK
  <2>2. /\ FramesTypeOK' /\ SettingsTypeOK'
        /\ m_pSonarFrame' \in Frames \cup {Null}
        /\ fault' \in Faults
    BY <1>2, <2>1, OnCloseType DEF ToggleClose
  <2>3. work' \in Nat
    BY <1>2 DEF ToggleClose, ToggleTurn, TypeOK, HostTypeOK
  <2>. QED
    BY <1>2, <2>2, <2>3 DEF ToggleClose, TypeOK, HostTypeOK, TargetsTypeOK, NavTypeOK,
                       hostVars, dataVars, targetVars
<1>3. ASSUME NEW f \in Frames, FrameStep(f)
      PROVE  TypeOK'
  BY <1>3, FrameStepType
<1>4. CASE UNCHANGED vars
  BY <1>4 DEF vars, hostVars, frameVars, dataVars, targetVars, TypeOK, HostTypeOK,
              SettingsTypeOK, FramesTypeOK, TargetsTypeOK, NavTypeOK
<1>. QED  BY <1>1, <1>2, <1>3, <1>4 DEF Next

\* Every variable keeps its type, whatever the surroundings do.
THEOREM TypeCorrect == Spec => []TypeOK
<1>. QED  BY InitType, NextType, PTL DEF Spec

-----------------------------------------------------------------------------
(* The target arrays.                                                      *)

\* A handler that asks the host for its targets, or for none, owns them.
LEMMA NextTargets ==
  ASSUME TargetsOwnedOnce, [Next]_vars
  PROVE  TargetsOwnedOnce'
<1>. USE DEF TargetsOwnedOnce
<1>1. ASSUME GetSonarTargets PROVE TargetsOwnedOnce'
  BY <1>1 DEF GetSonarTargets, GetAISTargetArray, Released
<1>2. ASSUME UNCHANGED targetVars PROVE TargetsOwnedOnce'
  BY <1>2 DEF targetVars
<1>3. CASE PluginInit
  BY <1>1, <1>3 DEF PluginInit
<1>4. CASE DestroyPi
  BY <1>4 DEF DestroyPi, ReleaseTargets, Released
<1>5. CASE SetAISSentence
  BY <1>1, <1>2, <1>5 DEF SetAISSentence
<1>6. CASE PluginDeInit \/ OnToolbarToolCallback \/ OnKeyPress
           \/ SetColorScheme \/ \E fix \in Fixes : SetPositionFix(fix)
  BY <1>2, <1>6 DEF PluginDeInit, OnToolbarToolCallback, OnKeyPress,
     SetColorScheme, SetPositionFix, dataVars
<1>7. CASE \/ ShowPreferencesDialog \/ CancelPreferences
           \/ \E icon, use \in BOOLEAN : AcceptPreferences(icon, use)
  BY <1>2, <1>7 DEF ShowPreferencesDialog, CancelPreferences,
     AcceptPreferences, dataVars
<1>8. CASE ToggleClose \/ \E f \in Frames : FrameStep(f)
  BY <1>2, <1>8 DEF ToggleClose, FrameStep, ToggleOpen, CreateFails,
     LayOut, ShowFrame, OnMove, OnSize, PaintEvent, OnTimer, OnNorthUp,
     OnKeyDown, CloseBox, DeletePending, dataVars
<1>9. CASE UNCHANGED vars
  BY <1>2, <1>9 DEF vars, dataVars
<1>. QED
  BY <1>3, <1>4, <1>5, <1>6, <1>7, <1>8, <1>9 DEF Next, HostStep

\* Exactly the array that SonarTargets points to is allocated, at any time:
\* none leaks, none is released twice or used after its release.
THEOREM TargetsNeverLeak == Spec => []TargetsOwnedOnce
<1>1. Init => TargetsOwnedOnce
  BY DEF Init, Fresh, NoTargets, TargetsOwnedOnce
<1>. QED  BY <1>1, NextTargets, PTL DEF Spec
=============================================================================
