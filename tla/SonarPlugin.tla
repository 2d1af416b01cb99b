----------------------------- MODULE SonarPlugin ----------------------------
(***************************************************************************)
(* The plugin object sonar_pi and the life of its window, SonarFrame.      *)
(*                                                                         *)
(* Everything runs on the GUI thread, so a handler is never preempted; but *)
(* a handler calls the toolkit, which can dispatch further events before   *)
(* it returns, the toolkit keeps a closed window until the event loop is   *)
(* idle, and the host decides when Init, DeInit and the destructor run.    *)
(* The order of those calls is what this module explores.  An action is a  *)
(* whole handler, except SonarFrame::Create, which is cut at the toolkit   *)
(* calls that can dispatch an EVT_MOVE or EVT_SIZE to the new window.      *)
(*                                                                         *)
(* A handler that would use a pointer that is null or freed sets `fault'   *)
(* and nothing happens any more: after it the program has no meaning.      *)
(***************************************************************************)
EXTENDS Integers, FiniteSets, AisTargets, NavFix

CONSTANTS
  Frames,         (* SonarFrame objects that can exist at the same time.   *)
  MaxInits,       (* Bound: how often the host calls Init on the object.   *)
  Positions,      (* Places on the screen that a window is moved to.       *)
  MaxPos,         (* Bound: no window is closed that would be remembered   *)
                  (* further out.                                          *)
  Decoration,     (* How far beyond a window's place EVT_MOVE reports it:  *)
                  (* its frame where that tells the client area's origin.  *)
  ZeroPos,        (* Position 0, 0, stored by Init before LoadConfig.      *)
  DefaultPos,     (* Position 50, 170, read when the config has none.      *)
  WindowSizes,    (* Sizes the user can give a window.                     *)
  InitSize,       (* 200: stored by Init before LoadConfig.                *)
  DefaultSize,    (* 300: read when the config has none.                   *)
  Border,         (* What a window is larger than its canvas.              *)
  Win32,          (* Built for Windows: ViewState keeps the canvas size.   *)
  HasConfig,      (* GetOCPNConfigObject() is not null.                    *)
  Absent,         (* No /Plugins/Sonar group in the configuration.         *)
  StoredConfigs,  (* What an earlier session can have left there.          *)
  Permits         (* What the surroundings may do, a set of:               *)
                  (*  "reinit"       Init again after DeInit               *)
                  (*  "unload"       destroy_pi, the process going on      *)
                  (*  "preferences"  ShowPreferencesDialog                 *)
                  (*  "createFails"  wxDialog::Create returns false        *)
                  (*  "lateEvents"   EVT_SIZE, EVT_PAINT or EVT_MOVE for a *)
                  (*                 window already waiting for deletion   *)

Settings ==
  [icon : BOOLEAN, use : BOOLEAN, north : BOOLEAN, pos : Int, size : Int]

ASSUME PluginAssumption ==
  /\ Null \notin Frames
  /\ MaxInits \in Nat \ {0}
  /\ Positions \subseteq Int
  /\ {ZeroPos, DefaultPos, MaxPos, Decoration} \subseteq Int
  /\ WindowSizes \subseteq Int
  /\ {InitSize, DefaultSize, Border} \subseteq Int
  /\ Win32 \in BOOLEAN
  /\ HasConfig \in BOOLEAN
  /\ Absent \notin Settings
  /\ StoredConfigs \subseteq Settings \cup {Absent}
  /\ Permits \subseteq
       {"reinit", "unload", "preferences", "createFails", "lateEvents"}

VARIABLES
  plugin,         (* "created", "active", "stopped" or "destroyed".        *)
  m_pSonarFrame,  (* The plugin's pointer to its window, or Null.          *)
  settings,       (* The m_sonar_* members.                                *)
  config,         (* The /Plugins/Sonar group of the host's config object. *)
  bound,          (* Times OnKeyPress is bound to the chart canvas.        *)
  tools,          (* Toolbar tools the host holds for the plugin.          *)
  work,           (* Calls of ToggleSonarFrame the current event still     *)
                  (* has to make.                                          *)
  modal,          (* The preferences dialog is open.                       *)
  stage,          (* Per frame: where it is in its life.                   *)
  timer,          (* Per frame: m_Timer is "null", "running" or "deleted". *)
  canvas,         (* Per frame: m_pCanvas is set.                          *)
  viewPos,        (* Per frame: m_pViewState's position,                   *)
  viewSize,       (*            and its size.                              *)
  winPos,         (* Per frame: the place of the window itself,            *)
  winSize,        (*            and its size.                              *)
  northUp,        (* Per frame: the "North Up" box is ticked.              *)
  dirty,          (* The frames whose window waits to be repainted.        *)
  fault           (* "none", or the null or freed thing a handler used.    *)

hostVars  == <<plugin, bound, tools, modal>>
frameVars ==
  <<stage, timer, canvas, viewPos, viewSize, winPos, winSize, northUp>>
dataVars  == <<targetVars, nav>>
vars == <<hostVars, frameVars, dataVars, m_pSonarFrame, settings, config,
          work, dirty, fault>>

-----------------------------------------------------------------------------
(* Settings, the configuration and the two meanings of a window's size.    *)

DefaultSettings ==
  [icon |-> TRUE, use |-> TRUE, north |-> FALSE,
   pos |-> DefaultPos, size |-> DefaultSize]

CtorSettings ==
  [icon |-> TRUE, use |-> TRUE, north |-> FALSE, pos |-> ZeroPos, size |-> 0]

\* What LoadConfig reads back from the config object.
Loaded(c) == IF c = Absent THEN DefaultSettings ELSE c

\* Mutant: Init without its LoadConfig.
NeverLoaded == [settings EXCEPT !.pos = ZeroPos, !.size = InitSize]

\* The settings after Init: reset, then LoadConfig, which may find no config.
InitialSettings ==
  IF HasConfig THEN Loaded(config)
  ELSE [settings EXCEPT !.pos = ZeroPos, !.size = InitSize]

SaveConfig(s) == config' = IF HasConfig THEN s ELSE config

\* What EVT_MOVE reports of a window at p.
Reported(p) == p + Decoration

\* What OnSize stores of a window that becomes as large as w.  SetCanvasSize
\* and SetWindowSize are empty on one platform each, and the canvas that
\* Windows builds measure still fits the old window: it is laid out by the
\* handler that event.Skip() leaves the event to.
StoredSize(f, w) == IF Win32 THEN winSize[f] - Border ELSE w

\* The size Create gives the window for a stored size: on Windows the canvas
\* gets it and Fit wraps the dialog around, elsewhere the dialog does.
WindowFor(stored) == IF Win32 THEN stored + Border ELSE stored

-----------------------------------------------------------------------------
(* Whose turn it is.                                                       *)

Building == {f \in Frames : stage[f] \in {"dialog", "laidout"}}

\* The event loop runs: no handler of this plugin is on the stack, except
\* ShowPreferencesDialog, whose ShowModal runs a loop of its own.
LoopTurn == fault = "none" /\ work = 0 /\ Building = {}

\* The user can reach the windows: the preferences dialog blocks them.
UserTurn == LoopTurn /\ ~modal

\* How many of n toggles in a row open a window.
Openings(n) == IF m_pSonarFrame = Null THEN (n + 1) \div 2 ELSE n \div 2

\* Enough frame objects are free for n openings.
RoomFor(n) == Cardinality({f \in Frames : stage[f] = "unused"}) >= n

\* Bound on the creep of the window, which Decoration makes endless.
InReach == \A f \in Frames : stage[f] = "open" => viewPos[f] <= MaxPos

\* An event that calls ToggleSonarFrame n times before the loop goes on.
CallToggle(n) == RoomFor(Openings(n)) /\ InReach /\ work' = n

\* m_pSonarFrame->Refresh(), if there is a frame.
RefreshView == dirty' = dirty \cup ({m_pSonarFrame} \ {Null})

-----------------------------------------------------------------------------
\* The constructor has run.
Fresh ==
  /\ plugin = "created"
  /\ m_pSonarFrame = Null
  /\ settings = CtorSettings
  /\ bound = 0 /\ tools = 0 /\ work = 0 /\ modal = FALSE
  /\ stage = [f \in Frames |-> "unused"]
  /\ timer = [f \in Frames |-> "null"]
  /\ canvas = [f \in Frames |-> FALSE]
  /\ viewPos = [f \in Frames |-> ZeroPos]
  /\ viewSize = [f \in Frames |-> 0]
  /\ winPos = [f \in Frames |-> ZeroPos]
  /\ winSize = [f \in Frames |-> 0]
  /\ northUp = [f \in Frames |-> FALSE]
  /\ dirty = {}
  /\ fault = "none"
  /\ NoTargets
  /\ nav = NoFixYet

Init == Fresh /\ config \in StoredConfigs

(* The handlers of SonarFrame that end its life.                           *)

\* What OnClose would trip over: m_Timer->Stop(), then pPlugIn->Set...
CloseFault(f) ==
  CASE timer[f] = "null"    -> "nullTimer"
    [] timer[f] = "deleted" -> "deadTimer"
    [] timer[f] = "running" /\ plugin = "destroyed" -> "deadPlugin"
    [] OTHER -> "none"

\* Mutants of the next definition.
CloseKeepsPointer == UNCHANGED m_pSonarFrame /\ SaveConfig(settings')
CloseWithoutSave == m_pSonarFrame' = Null /\ UNCHANGED config

OnSonarFrameClose == m_pSonarFrame' = Null /\ SaveConfig(settings')

\* SonarFrame::OnClose, which ends in sonar_pi::OnSonarFrameClose.
\* Destroy() hides the window and leaves the object for the idle loop.
OnClose(f) ==
  /\ fault' = CloseFault(f)
  /\ UNCHANGED <<canvas, viewPos, viewSize, winPos, winSize, northUp>>
  /\ IF CloseFault(f) = "none"
     THEN /\ timer' = [timer EXCEPT ![f] = "deleted"]
          /\ settings' = [settings EXCEPT !.pos = viewPos[f],
                                          !.size = viewSize[f]]
          /\ stage' = [stage EXCEPT ![f] = "closing"]
          /\ OnSonarFrameClose
     ELSE UNCHANGED <<timer, settings, stage, m_pSonarFrame, config>>

\* render(): m_Timer->Start, then m_pCanvas->GetSize.
RenderFault(f) ==
  CASE timer[f] = "null"    -> "nullTimer"
    [] timer[f] = "deleted" -> "deadTimer"
    [] timer[f] = "running" /\ ~canvas[f] -> "nullCanvas"
    [] OTHER -> "none"

-----------------------------------------------------------------------------
(* The calls of the host.                                                  *)

\* Mutant: the tool is inserted whatever the settings say.
ToolAlways == tools + 1

ToolsAfterInit == IF InitialSettings.icon THEN tools + 1 ELSE tools

\* sonar_pi::Init.  It forgets a window that is still open, and it binds
\* OnKeyPress once more; nothing unbinds it.
PluginInit ==
  /\ UserTurn /\ bound < MaxInits
  /\ \/ plugin = "created"
     \/ plugin = "stopped" /\ "reinit" \in Permits
  /\ plugin' = "active"
  /\ m_pSonarFrame' = Null
  /\ nav' = NoFixYet
  /\ settings' = InitialSettings
  /\ bound' = bound + 1
  /\ tools' = ToolsAfterInit
  /\ GetSonarTargets
  /\ UNCHANGED <<frameVars, config, work, modal, dirty, fault>>

\* sonar_pi::DeInit.
PluginDeInit ==
  /\ UserTurn /\ plugin = "active" /\ InReach
  /\ plugin' = "stopped"
  /\ IF m_pSonarFrame # Null
     THEN OnClose(m_pSonarFrame)
     ELSE UNCHANGED <<frameVars, m_pSonarFrame, settings, config, fault>>
  /\ UNCHANGED <<dataVars, bound, tools, modal, work, dirty>>

\* destroy_pi, and with it ~sonar_pi.
DestroyPi ==
  /\ UserTurn /\ plugin \in {"created", "stopped"} /\ "unload" \in Permits
  /\ plugin' = "destroyed"
  /\ ReleaseTargets
  /\ UNCHANGED <<frameVars, nav, m_pSonarFrame, settings, config, bound,
                 tools, modal, work, dirty, fault>>

\* The host calls a started plugin for a click on its tool.
OnToolbarToolCallback ==
  /\ UserTurn /\ plugin = "active" /\ tools > 0
  /\ CallToggle(1)
  /\ UNCHANGED <<hostVars, frameVars, dataVars, m_pSonarFrame, settings,
                 config, dirty, fault>>

SetAISSentence ==
  /\ LoopTurn /\ plugin = "active"
  /\ IF settings.use THEN GetSonarTargets ELSE UNCHANGED targetVars
  /\ RefreshView
  /\ UNCHANGED <<hostVars, frameVars, nav, m_pSonarFrame, settings, config,
                 work, fault>>

SetPositionFix(fix) ==
  /\ LoopTurn /\ plugin = "active"
  /\ IF Differs(fix)
     THEN nav' = Stored(fix) /\ RefreshView
     ELSE UNCHANGED <<nav, dirty>>
  /\ UNCHANGED <<hostVars, frameVars, targetVars, m_pSonarFrame, settings,
                 config, work, fault>>

\* sonar_pi::SetColorScheme and SonarFrame::SetColourScheme.
SetColorScheme ==
  /\ LoopTurn /\ plugin = "active"
  /\ RefreshView
  /\ UNCHANGED <<hostVars, frameVars, dataVars, m_pSonarFrame, settings,
                 config, work, fault>>

ShowPreferencesDialog ==
  /\ UserTurn /\ plugin = "active" /\ "preferences" \in Permits
  /\ modal' = TRUE
  /\ UNCHANGED <<plugin, bound, tools, frameVars, dataVars, m_pSonarFrame,
                 settings, config, work, dirty, fault>>

\* ShowModal returns something else than wxID_OK.
CancelPreferences ==
  /\ LoopTurn /\ modal
  /\ modal' = FALSE
  /\ UNCHANGED <<plugin, bound, tools, frameVars, dataVars, m_pSonarFrame,
                 settings, config, work, dirty, fault>>

AcceptPreferences(icon, use) ==
  /\ LoopTurn /\ modal
  /\ modal' = FALSE
  /\ tools' = CASE icon /\ ~settings.icon -> tools + 1
                [] ~icon /\ settings.icon -> tools - 1
                [] OTHER -> tools
  /\ settings' = [settings EXCEPT !.icon = icon, !.use = use]
  /\ SaveConfig(settings')
  /\ UNCHANGED <<plugin, bound, frameVars, dataVars, m_pSonarFrame, work,
                 dirty, fault>>

-----------------------------------------------------------------------------
(* Keys and ToggleSonarFrame.                                              *)

\* Ctrl+1 on the chart canvas: every binding of OnKeyPress runs in turn, as
\* each one skips the event.  The bindings outlive the plugin.
OnKeyPress ==
  /\ UserTurn /\ bound > 0
  /\ IF plugin = "destroyed"
     THEN fault' = "staleHandler" /\ UNCHANGED work
     ELSE CallToggle(bound) /\ UNCHANGED fault
  /\ UNCHANGED <<hostVars, frameVars, dataVars, m_pSonarFrame, settings,
                 config, dirty>>

\* Ctrl+1 on the canvas of a sonar window, Canvas::OnKeyDown.
OnKeyDown(f) ==
  /\ UserTurn /\ stage[f] = "open"
  /\ IF plugin = "destroyed"
     THEN fault' = "deadPlugin" /\ UNCHANGED work
     ELSE CallToggle(1) /\ UNCHANGED fault
  /\ UNCHANGED <<hostVars, frameVars, dataVars, m_pSonarFrame, settings,
                 config, dirty>>

ToggleTurn == fault = "none" /\ work > 0 /\ Building = {}

\* Mutant: the test of m_pSonarFrame is dropped.
AnyPointer == TRUE

NoWindow == m_pSonarFrame = Null

\* ToggleSonarFrame without a window: new SonarFrame, and Create up to the
\* call of wxDialog::Create.
ToggleOpen(f) ==
  /\ ToggleTurn /\ NoWindow /\ stage[f] = "unused"
  /\ work' = work - 1
  /\ m_pSonarFrame' = f
  /\ stage' = [stage EXCEPT ![f] = "dialog"]
  /\ viewPos' = [viewPos EXCEPT ![f] = settings.pos]
  /\ viewSize' = [viewSize EXCEPT ![f] = settings.size]
  /\ winPos' = [winPos EXCEPT ![f] = settings.pos]
  /\ winSize' = [winSize EXCEPT ![f] = WindowFor(settings.size)]
  /\ UNCHANGED <<hostVars, dataVars, timer, canvas, northUp, settings, config,
                 dirty, fault>>

\* ToggleSonarFrame with a window: Close(true).
ToggleClose ==
  /\ ToggleTurn /\ m_pSonarFrame # Null
  /\ work' = work - 1
  /\ OnClose(m_pSonarFrame)
  /\ UNCHANGED <<hostVars, dataVars, dirty>>

-----------------------------------------------------------------------------
(* The rest of SonarFrame::Create.                                         *)

\* Show(), whatever Create returned: the toolkit paints a window it has, and
\* has none if wxDialog::Create failed.
Show(f) == dirty' = IF stage[f] = "laidout" THEN dirty \cup {f} ELSE dirty

\* wxDialog::Create fails and Create returns false, which nobody looks at.
CreateFails(f) ==
  /\ fault = "none" /\ stage[f] = "dialog" /\ "createFails" \in Permits
  /\ stage' = [stage EXCEPT ![f] = "broken"]
  /\ Show(f)
  /\ UNCHANGED <<hostVars, dataVars, m_pSonarFrame, settings, config, work,
                 timer, canvas, viewPos, viewSize, winPos, winSize, northUp,
                 fault>>

\* Mutants: no Move(pos) after CenterOnScreen, no SetValue of the new box.
StaysCentered(f) == winPos[f]
UntickedBox == FALSE

MovedTo(f) == settings.pos
InitialBox == settings.north

\* Move(pos), with its EVT_MOVE unless the window is there already, then the
\* canvas, the box and the timer.
LayOut(f) ==
  /\ fault = "none" /\ stage[f] = "dialog"
  /\ stage' = [stage EXCEPT ![f] = "laidout"]
  /\ winPos' = [winPos EXCEPT ![f] = MovedTo(f)]
  /\ viewPos' = [viewPos EXCEPT ![f] =
                   IF winPos[f] = MovedTo(f) THEN @ ELSE Reported(MovedTo(f))]
  /\ canvas' = [canvas EXCEPT ![f] = TRUE]
  /\ northUp' = [northUp EXCEPT ![f] = InitialBox]
  /\ timer' = [timer EXCEPT ![f] = "running"]
  /\ UNCHANGED <<hostVars, dataVars, m_pSonarFrame, settings, config, work,
                 viewSize, winSize, dirty, fault>>

\* Create returns and ToggleSonarFrame calls Show().
ShowFrame(f) ==
  /\ fault = "none" /\ stage[f] = "laidout"
  /\ stage' = [stage EXCEPT ![f] = "open"]
  /\ Show(f)
  /\ UNCHANGED <<hostVars, dataVars, m_pSonarFrame, settings, config, work,
                 timer, canvas, viewPos, viewSize, winPos, winSize, northUp,
                 fault>>

-----------------------------------------------------------------------------
(* Events of a sonar window.                                               *)

\* When the toolkit can send frame f an event of its own accord.
LateEvent(f) ==
  LoopTurn /\ stage[f] = "closing" /\ "lateEvents" \in Permits

\* The window is moved to p: inside Create by CenterOnScreen, later by the
\* user, or late.
OnMove(f, p) ==
  /\ \/ fault = "none" /\ stage[f] = "dialog"
     \/ UserTurn /\ stage[f] = "open"
     \/ LateEvent(f)
  /\ winPos' = [winPos EXCEPT ![f] = p]
  /\ viewPos' = [viewPos EXCEPT ![f] = Reported(p)]
  /\ UNCHANGED <<hostVars, dataVars, m_pSonarFrame, settings, config, work,
                 stage, timer, canvas, viewSize, winSize, northUp, dirty,
                 fault>>

\* Mutant: OnSize without its test of m_pCanvas.
CanvasUnchecked(f) == TRUE

HasCanvas(f) == canvas[f]

\* Inside wxDialog::Create or Fit, which keep the size, from the user, or
\* late.  Without a canvas it only skips.
OnSize(f, w) ==
  /\ \/ fault = "none" /\ f \in Building /\ w = winSize[f]
     \/ UserTurn /\ stage[f] = "open"
     \/ LateEvent(f) /\ w = winSize[f]
  /\ winSize' = [winSize EXCEPT ![f] = w]
  /\ IF HasCanvas(f)
     THEN /\ viewSize' = [viewSize EXCEPT ![f] = StoredSize(f, w)]
          /\ fault' = RenderFault(f)
     ELSE UNCHANGED <<viewSize, fault>>
  /\ UNCHANGED <<hostVars, dataVars, m_pSonarFrame, settings, config, work,
                 stage, timer, canvas, viewPos, winPos, northUp, dirty>>

\* Canvas::paintEvent, SonarFrame::paintEvent and render.
PaintEvent(f) ==
  /\ LoopTurn /\ f \in dirty
  /\ stage[f] = "open" \/ LateEvent(f)
  /\ fault' = RenderFault(f)
  /\ dirty' = dirty \ {f}
  /\ UNCHANGED <<hostVars, frameVars, dataVars, m_pSonarFrame, settings,
                 config, work>>

OnTimer(f) ==
  /\ LoopTurn /\ stage[f] = "open" /\ timer[f] = "running"
  /\ dirty' = dirty \cup {f}
  /\ UNCHANGED <<hostVars, frameVars, dataVars, m_pSonarFrame, settings,
                 config, work, fault>>

OnNorthUp(f) ==
  /\ UserTurn /\ stage[f] = "open"
  /\ northUp' = [northUp EXCEPT ![f] = ~@]
  /\ IF plugin = "destroyed"
     THEN fault' = "deadPlugin" /\ UNCHANGED <<settings, dirty>>
     ELSE /\ settings' = [settings EXCEPT !.north = ~northUp[f]]
          /\ dirty' = dirty \cup {f}
          /\ UNCHANGED fault
  /\ UNCHANGED <<hostVars, dataVars, m_pSonarFrame, config, work, stage,
                 timer, canvas, viewPos, viewSize, winPos, winSize>>

\* The user closes the window with its own button.
CloseBox(f) ==
  /\ UserTurn /\ stage[f] = "open" /\ InReach
  /\ OnClose(f)
  /\ UNCHANGED <<hostVars, dataVars, work, dirty>>

\* The idle loop deletes a window that Destroy() left to it.
DeletePending(f) ==
  /\ LoopTurn /\ stage[f] = "closing"
  /\ stage' = [stage EXCEPT ![f] = "unused"]
  /\ timer' = [timer EXCEPT ![f] = "null"]
  /\ canvas' = [canvas EXCEPT ![f] = FALSE]
  /\ viewPos' = [viewPos EXCEPT ![f] = ZeroPos]
  /\ viewSize' = [viewSize EXCEPT ![f] = 0]
  /\ winPos' = [winPos EXCEPT ![f] = ZeroPos]
  /\ winSize' = [winSize EXCEPT ![f] = 0]
  /\ northUp' = [northUp EXCEPT ![f] = FALSE]
  /\ dirty' = dirty \ {f}
  /\ UNCHANGED <<hostVars, dataVars, m_pSonarFrame, settings, config, work,
                 fault>>

-----------------------------------------------------------------------------
HostStep ==
  \/ PluginInit \/ PluginDeInit \/ DestroyPi
  \/ OnToolbarToolCallback \/ OnKeyPress
  \/ SetAISSentence \/ SetColorScheme
  \/ \E fix \in Fixes : SetPositionFix(fix)
  \/ ShowPreferencesDialog \/ CancelPreferences
  \/ \E icon, use \in BOOLEAN : AcceptPreferences(icon, use)

FrameStep(f) ==
  \/ ToggleOpen(f) \/ CreateFails(f) \/ LayOut(f) \/ ShowFrame(f)
  \/ \E p \in Positions : OnMove(f, p)
  \/ \E w \in WindowSizes \cup {winSize[f]} : OnSize(f, w)
  \/ PaintEvent(f) \/ OnTimer(f) \/ OnNorthUp(f) \/ OnKeyDown(f)
  \/ CloseBox(f) \/ DeletePending(f)

Next == HostStep \/ ToggleClose \/ \E f \in Frames : FrameStep(f)

Spec == Init /\ [][Next]_vars

-----------------------------------------------------------------------------
(* Properties.                                                             *)

Stages == {"unused", "dialog", "laidout", "open", "broken", "closing"}

Live == {f \in Frames : stage[f] \in {"dialog", "laidout", "open", "broken"}}

Faults ==
  {"none", "nullTimer", "deadTimer", "nullCanvas", "staleHandler", "deadPlugin"}

HostTypeOK ==
  /\ plugin \in {"created", "active", "stopped", "destroyed"}
  /\ m_pSonarFrame \in Frames \cup {Null}
  /\ bound \in 0 .. MaxInits /\ tools \in Int /\ work \in Nat
  /\ modal \in BOOLEAN
  /\ dirty \subseteq Frames
  /\ fault \in Faults

SettingsTypeOK ==
  /\ settings \in Settings
  /\ config \in Settings \cup {Absent}

FramesTypeOK ==
  /\ stage \in [Frames -> Stages]
  /\ timer \in [Frames -> {"null", "running", "deleted"}]
  /\ canvas \in [Frames -> BOOLEAN]
  /\ viewPos \in [Frames -> Int]
  /\ viewSize \in [Frames -> Int]
  /\ winPos \in [Frames -> Int]
  /\ winSize \in [Frames -> Int]
  /\ northUp \in [Frames -> BOOLEAN]

TypeOK ==
  TargetsTypeOK /\ NavTypeOK /\ HostTypeOK /\ SettingsTypeOK /\ FramesTypeOK

\* A handler uses a null or freed pointer only where the surroundings did
\* what the code does not provide for: m_Timer is null only after
\* wxDialog::Create failed, it is freed only for an event that still reaches
\* a closing window, and the plugin is gone only after destroy_pi.  m_pCanvas
\* is never missing: the EVT_SIZE that arrive inside Create come before it is
\* set, and skip, or after the timer is.
FaultNeedsCause ==
  /\ fault = "nullTimer" => \E f \in Frames : stage[f] = "broken"
  /\ fault = "deadTimer" =>
       "lateEvents" \in Permits /\ \E f \in Frames : stage[f] = "closing"
  /\ fault \in {"staleHandler", "deadPlugin"} => plugin = "destroyed"
  /\ fault # "nullCanvas"

\* m_pSonarFrame never points to a window that is closing or deleted, in
\* whatever order the toggles, the user's close and the host's Init and
\* DeInit come: every path through OnClose resets it before the idle loop
\* deletes the window.
PointerLive == m_pSonarFrame # Null => m_pSonarFrame \in Live

\* The plugin knows every window there is, so that DeInit and the toggle
\* reach it: true of a plugin the host starts only once.
SingleWindow ==
  "reinit" \notin Permits => \A f \in Live : f = m_pSonarFrame

\* The "North Up" box of a shown window agrees with m_sonar_north_up, which
\* the box, the constructor, LoadConfig and the preferences all concern.
NorthUpAgrees ==
  "reinit" \notin Permits =>
    \A f \in Frames : stage[f] = "open" /\ plugin # "destroyed" =>
      northUp[f] = settings.north

\* What the plugin has in its settings is in the configuration once no window
\* is open, by whatever way the last one closed.  While one is open, only the
\* north-up choice is ahead: OnClose puts the place and the size into the
\* settings and saves them at once.
SettingsDurable ==
  HasConfig /\ plugin \in {"active", "stopped"} /\ fault = "none" =>
    /\ [settings EXCEPT !.north = Loaded(config).north] = Loaded(config)
    /\ (\A f \in Frames : stage[f] # "open") => settings = Loaded(config)

\* A running plugin has one tool in the toolbar if its icon is wanted and
\* none otherwise: true as long as Init ran once, as DeInit removes none.
ToolMatchesIcon ==
  plugin = "active" /\ bound = 1 => tools = IF settings.icon THEN 1 ELSE 0

-----------------------------------------------------------------------------
(* The inductive invariant behind the properties of the window's life.     *)

\* What Create has built and OnClose has torn down, by stage.
FrameShape ==
  \A f \in Frames :
    /\ stage[f] \in {"unused", "dialog", "broken"} =>
         timer[f] = "null" /\ ~canvas[f]
    /\ stage[f] \in {"laidout", "open"} => timer[f] = "running" /\ canvas[f]
    /\ stage[f] = "closing" => timer[f] = "deleted"

\* Only the window of the plugin's pointer is ever inside Create.
BuildingIsKnown == \A f \in Building : f = m_pSonarFrame

\* Before its first Init a plugin has no window and no way to one.
NotStartedYet ==
  plugin = "created" =>
    /\ bound = 0 /\ work = 0 /\ m_pSonarFrame = Null
    /\ \A f \in Frames : stage[f] = "unused"

LifeInv ==
  /\ FrameShape /\ BuildingIsKnown /\ NotStartedYet
  /\ PointerLive /\ FaultNeedsCause /\ SingleWindow

(* The inductive invariant behind the properties of settings and geometry. *)

\* What Create builds looks as the settings say, whatever EVT_MOVE and
\* EVT_SIZE come in between.
BuiltAsSet ==
  \A f \in Building :
    /\ viewSize[f] = settings.size /\ winSize[f] = WindowFor(settings.size)
    /\ winPos[f] = settings.pos =>
         viewPos[f] \in {settings.pos, Reported(settings.pos)}
    /\ stage[f] = "laidout" =>
         winPos[f] = settings.pos /\ northUp[f] = settings.north

\* What the surroundings do not permit has not happened.
OnlyPermitted ==
  /\ "createFails" \notin Permits => \A f \in Frames : stage[f] # "broken"
  /\ "unload" \notin Permits => plugin # "destroyed"

\* The host stops no plugin whose preferences dialog is open.
DialogOfActive == modal => plugin = "active"

LookInv ==
  /\ BuiltAsSet /\ OnlyPermitted /\ DialogOfActive
  /\ NorthUpAgrees /\ SettingsDurable

-----------------------------------------------------------------------------
(* What the manual and the comments say and the code does not keep.        *)

\* manual: the plugin must be enabled before it can be used.  Ctrl+1 works
\* after DeInit, which leaves OnKeyPress bound.
DisabledShowsNothing ==
  plugin = "stopped" => \A f \in Frames : stage[f] # "open"

\* OnKeyPress: Ctrl+1 calls ToggleSonarFrame, that is once.  Init "may be
\* called more than once" and binds OnKeyPress each time.
OneTogglePerKey == work <= 1

\* There is one sonar window.  An Init that is "called more than once" frees
\* the old target array but forgets a window that is open.
OneWindow == Cardinality(Live) <= 1

\* OnClose: stop the timer "if still running".  It is stopped without a test,
\* and the window of a failed Create has none.
CloseWithoutTimer == fault # "nullTimer"

\* OnClose: "Save window size".  On Windows it saves, in the unit of Create,
\* the size the window had before its last EVT_SIZE.
SavesWindowSize ==
  [][\A f \in Frames : stage[f] = "open" /\ stage'[f] = "closing" =>
       WindowFor(settings'.size) = winSize[f]]_vars
=============================================================================
