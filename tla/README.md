# sonar_pi in TLA+

A model of the OpenCPN plugin `sonar_pi`: the plugin object and its window's
life, the AIS arrays it owns, the navigation data it keeps, and what its window
shows, over crashes and restarts of the host. TLC checks the modules on small
instances; TLAPS proves their safety, and three refinements, for every value of the
constants. Paths below are relative to the repository's root.

## The system

The plugin's own code is small: `src/Sonar_pi.cpp` (the plugin object, called by
OpenCPN), `src/Sonarview.cpp` (`SonarFrame`, the window), `src/Canvas.cpp` (the
panel inside it) and `src/icons.cpp`. `sonar_plugins/` is a second copy of the
repository, `opencpn-libs/` is vendored, and `cmake/`, `ci/`, `po/`, `data/`,
`manual/`, `mytest/` hold the build, translations, images, the manual and
scratch programs.

| Part | State | Operations | Hard because | Correct when |
|---|---|---|---|---|
| Plugin object (`sonar_pi`) | pointer to the window, settings, host's config | `Init`, `DeInit`, `destroy_pi`, toolbar, Ctrl+1, AIS sentence, fix, colour scheme, preferences | the host chooses the order of the calls; key bindings outlive `DeInit`; a modal dialog runs a nested loop | the pointer is live, the settings reach the config, one tool or none |
| AIS array | `SonarTargets` | replace on a sentence, release | ownership moves from host to plugin, four places overwrite the pointer | exactly the pointed-to array is allocated |
| Navigation data | position, course, speed, satellites | `SetPositionFix` | course and speed may be missing | a missing reading never replaces a value |
| Window life and geometry (`SonarFrame`, `ViewState`) | canvas, timer, remembered position and size, north-up box | `Create`, `OnMove`, `OnSize`, `OnNorthUp`, `OnClose`, deferred deletion | the toolkit sends events inside `Create` and may send some after `Destroy()`; size has two meanings and is measured before the layout; the reported place need not be the window's | no handler meets a missing part; the window comes back as its last events say, up to a known lag and offset |
| Window content (`SonarFrame`, `Canvas`) | image position, zoom, drag flags, timer, next image; four statics | mouse, wheel, keys, restoration, timer, paint | two flags in two objects, statics shared by windows, releases that go astray, a timer restarted by what it drives | the image stays under the pointer; the zoom does not drift; the screen catches up |
| The host's configuration | its config object and its file | written by `SaveConfig` and the preferences, flushed by the host, read by a new process | nothing in the plugin flushes it; the process may end at any moment | a process begins with what was last written, whole |

Everything runs on the GUI thread. Handlers are never preempted, but they call
the toolkit, which dispatches events of its own before it returns: `ShowModal`
runs a whole event loop, `wxDialog::Create`, `CenterOnScreen`, `Move` and `Fit`
send `EVT_MOVE` and `EVT_SIZE`. `Close()` ends in `Destroy()`, which hides the
window and leaves its deletion to the idle loop. The parts interact by direct
calls: host -> `sonar_pi` -> `SonarFrame` (`Create`, `Close`, `Refresh`), `Canvas`
-> `SonarFrame` (mouse, paint) and `Canvas` -> `sonar_pi` (`ToggleSonarFrame`),
`SonarFrame` -> `sonar_pi` (`SetSonarFrameX` ..., `OnSonarFrameClose`).

## Modules

| Module | Models |
|---|---|
| `AisTargets` | ownership of the arrays of `GetAISTargetArray()` |
| `NavFix` | the test and the stores of `SetPositionFix` |
| `SonarPlugin` | extends both; the plugin object composed with any number of windows' lives, one action per handler |
| `WindowMemory` | abstract: a window that is shown as remembered, and remembered as it recalls its own look: with a size that may lag and a place that may be off |
| `WindowRefinement` | the mapping by which `SonarPlugin` implements `WindowMemory` |
| `DurableMemory` | abstract: extends `WindowMemory` by a disk and restarts |
| `SonarSessions` | extends `WindowRefinement`; `SonarPlugin` over any number of processes, and the mapping by which it implements `DurableMemory` |
| `FloatZoom` | the float arithmetic of `img_data_size` and of the drawn width |
| `DraggedImages` | abstract: one hand that moves the image it holds and no other |
| `SonarView` | extends `FloatZoom`; what windows show: mouse, zoom, restoration, timer, painting, images; and the mapping by which it implements `DraggedImages` |
| `SonarPluginProofs`, `SonarLifeProofs`, `SonarLookProofs` | theorems about `SonarPlugin`: types, the windows' life, their look |
| `WindowRefinementProofs` | the proof that `SonarPlugin` implements `WindowMemory` |
| `SonarSessionsProofs` | the invariants over all processes, and the proof that `SonarSessions` implements `DurableMemory` |
| `FloatZoomProofs` | lemmas and theorems about the floats: rounding, what steps add up to, the drawn width |
| `SonarViewProofs` | theorems about `SonarView`: types, dragging and its refinement, the drawn size, the zoom, old pictures |
| `MC...` | instances for TLC |

### SonarPlugin

An action is a whole handler. `SonarFrame::Create` alone is cut, at the calls
that can dispatch an event to the new window: `ToggleOpen` runs up to
`wxDialog::Create`, `LayOut` does `Move` and everything after it, `ShowFrame` is
`Show()`. In between, `OnMove` comes in `stage` "dialog" only (`CenterOnScreen`;
the event of `Move` is part of `LayOut`), `OnSize` in "dialog" and in "laidout"
(`Fit`). A `Create` that fails ends in the same `Show()`, which has nothing to
paint. Nothing is dispatched between the creation of the canvas and that of the
timer, so these are one step. `work` counts the calls of `ToggleSonarFrame` the
current key press still has to make, one for each binding of `OnKeyPress`; they
run in a row, each with its whole `Create` or `OnClose`.

`stage` is a window's life: unused, dialog, laidout, open, closing (after
`Destroy()`), broken (`wxDialog::Create` returned false). `timer` tells null,
running and deleted apart because `OnClose` deletes `m_Timer` and does not clear
it. A handler that would use a null or freed pointer sets `fault`, and the model
stops there, as the program has no meaning beyond.

`Permits` says what the surroundings may do, so that each property is checked
under the weakest surroundings it needs: `reinit` (Init after DeInit on the same
object, which a comment in `Init` expects), `unload` (the object is deleted and
the process goes on), `preferences` (the dialog exists but `Init` does not
announce it to the host), `createFails`, `lateEvents` (a size, move or paint
event for a window that waits for deletion).

Horizontal and vertical coordinates are treated alike by the code and are one
number here. The range setting is loaded and saved but never used, and is left
out.

What a window is and what it remembers of itself are two things. `winPos` and
`winSize` are the toolkit's: the place and the size of the window on the screen.
`viewPos` and `viewSize` are `m_pViewState`, what `OnMove` and `OnSize` last
stored and `OnClose` saves.

* `OnMove` stores what `EVT_MOVE` reports (`Reported`): the place of the window
  plus `Decoration`, which is 0 on toolkits that report the window's own place
  and the offset of the client area on those, like Windows, that report that.
  `Create` moves the window itself to the stored place.
* `ViewState` keeps the canvas's size on Windows and the window's elsewhere, with
  a `Border` between the two; `WindowFor` gives the window for a stored size.
  Elsewhere `OnSize` stores the new size of the window. On Windows it asks the
  canvas, and the canvas is laid out for the new size by the base class's
  handler, which `event.Skip()` lets run only after `OnSize` has returned: what
  is stored is the canvas in the old window (`StoredSize`). An `EVT_SIZE` that
  keeps the size, as those of `Create` do, stores that size.

### SonarView

The drag flags are `Canvas::MouseDown` and `SonarFrame::m_isDragging`; the static
`m_lastMousePos`, `img_num` and `Width` are single variables, all else is per
window. `pointer`, `holder` and `grab` describe the user and serve the properties.
`captured`, which never changes, tells toolkits that send the motion and release
of a press to the pressed window from Windows without `CaptureMouse`, where they
go to whatever is under the pointer; `Captures` says which kinds a run looks at.
`Loads` is the set of images that load: `data/test2.png` and `data/test3.png`
hold JPEG data, so whether they load as PNG depends on the toolkit; what does not
load draws nothing. A closing window leaves the module, its statics stay. An
`EVT_SIZE` of `Create` that finds a canvas is the first `OnSize` of the window.

`img_data_size` is a 32-bit float and 0.1 is not one, so `+= 0.1` and `-= 0.1`
round, and `int(Width * size)` rounds once more before it cuts. `FloatZoom`
computes both exactly, with the size as a whole number of 2^-26 tenths: floats
from 1/16 up are multiples of 5 of these, and a step that ends below 1/16 is
exact. It follows a build that adds in double and stores float (SSE), not one
with x87 excess precision. The history variable `clicks` counts the steps the
user wants, beside the size the program has.

`DraggedImages` says what dragging promises without flags and without a last
position: a hand is somewhere, holds one window's image or none, and moves it by
as much as it moves. `SonarView` implements it with the pointer as the hand and
`Dragged`, the window whose `MouseDown` is set, as what is held: `Press` grabs,
`Release` lets go (or nothing happens, after a double click), `Move` and
`MoveElsewhere` reach, `Restore` puts back, `Open` and `Close` appear and vanish.

The module is not composed with `SonarPlugin`. What it assumes of a window's life
is that a window that is up has a canvas and a running timer, that it goes at any
moment, in mid-drag or not, and that the next one begins with fresh members; the
first is `FrameShape` of `LifeInv`, proved of `SonarPlugin`, and the other two are
its `OnClose`, `DeletePending` and `ToggleOpen`. Nothing in `SonarView` acts back
on the plugin but Ctrl+1 on the canvas, which is `OnKeyDown` in `SonarPlugin`.

### SonarSessions

`SaveConfig` writes into the host's config object and never flushes it
(`src/Sonar_pi.cpp:444-464`). `Flush` is the host writing its file, as a whole,
whenever its event loop runs; `NewProcess` is the end of a process, orderly,
killed or after a fault, and the construction of the plugin in the next one, whose
config object is what the file says. It may come at any moment, also between the
steps of `Create`. It cannot come inside the other handlers, which are atomic: as
a handler changes nothing that outlives the process, its first half is lost with
the process and the end in its middle is the end before it.

## Runs

Deadlock is checked everywhere but in `mishaps` (a fault, or an unloaded plugin
without windows, ends the behaviour).

| Run | Shows |
|---|---|
| `session` | the Windows build with a decoration, enabled once, with preferences: `SingleWindow`, `NorthUpAgrees`, `SettingsDurable`, `ToolMatchesIcon`, and `KeepsWindow`, that the plugin implements `WindowMemory`, with a lag of one resize and an offset of one decoration and no other change |
| `restarts` | `Init` twice, no configuration, fixes with and without course and speed: `TypeOK`, `PointerLive` |
| `mishaps` | all of `Permits`, also the destructor: `FaultNeedsCause`, `TargetsOwnedOnce` |
| `crashes` | processes that end at any moment, late events included: `KeepsWindowDurably`, that `SonarSessions` implements `DurableMemory` |
| `drag` | two windows, capturing toolkit: `ViewTypeOK`, `GrabbedPoint`, and `DragsAsOneHand`, that `SonarView` implements `DraggedImages` |
| `zoom` | all paths of steps from -3.1 to 3.1, all images load: `SizeFromZoomOnly`, `ZoomReturns`, `SizeOfClicks` |
| `redraw` | toolkits of both kinds, fairness: `FlagsAgree`, `StaleIsRestored`, `ShownCatchesUp`, `Carousel` |
| `disabled_key` | refutes: a disabled plugin shows nothing (manual, index.adoc:53) |
| `double_key` | refutes: one toggle per key press, after a second `Init` |
| `second_window` | refutes: one window, after a second `Init` |
| `failed_create` | refutes: closing never misses the timer |
| `saved_size` | refutes: closing saves the window's size (comment, `Sonarview.cpp:182`), on Windows |

### Findings

* `DeInit` does not unbind `OnKeyPress`: Ctrl+1 opens a window of a disabled
  plugin.
* Each `Init` binds `OnKeyPress` once more: after disabling and enabling, one
  Ctrl+1 toggles twice and the window closes at once.
* `Init` overwrites `m_pSonarFrame`: a window opened while the plugin was
  disabled is forgotten and a second one opens beside it. It needs the first
  finding to happen.
* `OnClose` stops `m_Timer` without a test; after a failed `Create`, whose result
  `ToggleSonarFrame` ignores, it is null.
* On Windows `OnSize` measures the canvas before it is laid out for the new size.
  A window that is maximised and closed comes back in the size it had before.
  Dragging a border sends many events, and then only the last one's change is
  lost.

A consequence that no text of the repository contradicts: where `EVT_MOVE` reports
the client area, the window creeps by its decoration each time it is opened
elsewhere than the toolkit put it, or moved, and closed. `KeepsWindow` says that it
does so by no more than that.

### Bounds

* `Frames`: two windows, three in `restarts`, so that two forgotten windows and a
  new one, or a toggle pair next to a forgotten one, exist together. `RoomFor`
  keeps the toggles of an event from starting when there are not as many free
  objects as windows they open (`Openings`).
* `MaxInits`: 1, or 2 where a second `Init` matters; a third adds another equal
  binding.
* Positions: the default and another one. Sizes: 3 stands for the default 300, 2
  for the 200 of `Init`, 4 for a resized window; on Windows the window is one
  larger than its canvas. Stored configurations: none, and one that differs in
  everything.
* `MaxPos` ends the creep that a `Decoration` makes endless: a window that
  recalls a place beyond it is not closed (`InReach`). It is 2 in `session`,
  where the decoration is 1, so that a window can creep off both positions, and
  bounds nothing elsewhere, where the decoration is 0.
* Fixes: all data; no course; elsewhere without speed. -1 is the missing reading.
* Arrays: two in `mishaps`, so that a released address can be reused.
* `drag`: places 0 and 1 of the pointer and images at -1 to 1: a jump of one is
  enough to tell every wrong difference. `zoom`: -31 to 31 tenths crosses zero and
  the powers of two at which the floats get coarser, from both sides and in every
  order, and is as far as TLC's integers reach; the theorems cover -39 to 39.
  `redraw`: a timer of two ticks, so that it can be restarted half-way; two zooms;
  two pointer places.
* `crashes`: one window object, as those of an older process are gone, no AIS
  arrays; any number of processes. The window closes by its box, by a toggle and by
  `DeInit`. The size is the window's here and the canvas's in `session`; no
  decoration here, one there.
* `redraw` has one window, which is enough to lose a press or a release.
* `session`, `restarts`, `mishaps` and `drag` use symmetry in windows or arrays.
  They check invariants and safety refinements: no liveness property, for which
  symmetry would be unsound.

### Fairness

`redraw` assumes weak fairness of time (`Tick`), of a timer event that is due and
of a pending repaint: the event loop of the toolkit serves all three when it
has no input to handle, and input comes at the user's pace. Nothing is assumed of
the user, the host or the images. Each mouse move and refresh may come again and
again and `render()` restarts the timer each time; the property holds because
what restarts the timer also draws.

## Theorems

Assumptions: the named `ASSUME`s of `AisTargets`, `NavFix`, `SonarPlugin` and
`SonarView` (null differs from arrays and windows, the constants have their types,
stored configurations are well formed, images have a width).

* `TypeCorrect`: `Spec => []TypeOK`, by the parts of `TypeOK`, one step per
  action; `OnClose`, which three actions call, has a lemma of its own.
* `TargetsNeverLeak`: `Spec => []TargetsOwnedOnce`, inductive as it stands.
* `LifeInvariant`: `Spec => []LifeInv`. `FaultNeedsCause` is not inductive: that
  `OnSize` finds a timer needs to know what each stage has built (`FrameShape`),
  that a close started by the plugin finds a window that is open or broken needs
  `PointerLive` and that only the plugin's window is inside `Create`
  (`BuildingIsKnown`), and `SingleWindow` at the first `Init` needs
  `NotStartedYet`. `FaultsHaveCauses`, `PointerNeverDangles` and
  `OneKnownWindow` follow.

* `LookInvariant`: `Spec => []LookInv`. Between `ToggleOpen` and `ShowFrame` no
  window is open and `NorthUpAgrees` and `SettingsDurable` say nothing of the one
  being built, so the invariant adds that it already looks as the settings say
  (`BuiltAsSet`), that what the
  surroundings do not permit has not happened, and that an open preferences
  dialog belongs to an active plugin. `BoxShowsSetting` and `ChoicesAreKept`
  follow; `OneToolAtMost` needs `ToolInv` beside it.
* `ImplementsWindowMemory`: under `Orderly` (a configuration to save to, one
  start, no destruction, `Create` does not fail) `Spec => KeepsWindow`. `Show()`
  is `Show`; what the user does to the open window is `Adjust`; accepting the
  preferences is `Keep`, or a stutter without a window; each path through
  `OnClose` is `Hide`; all else stutters. The size lags exactly when `Win32` holds
  and the offset is `Decoration`. `lateEvents` may be permitted: such
  events meet windows the plugin no longer points to.

* `ComesBackAsItWent`: what the refinement gives where nothing lags and nothing
  is off (`~Win32`, `Decoration = 0`): in every step in which the window goes,
  what is then remembered is its very look on the screen.
* `SessionsInvariant`: `SessionsSpec => []SessionsInv`, the invariants of
  `SonarPlugin` in every process. They hold of a plugin that was just constructed
  beside any well-formed configuration (`FreshType`, `FreshLife`, `FreshLook`),
  and the file always holds one (`DiskOK`).
* `EveryProcessIsSafe`: `SessionsSpec` keeps all safety properties of the plugin
  that its own runs check. To `SessionsInv` it adds `TargetsOwnedOnce` and
  `ToolInv`, which a new process restores and no flush disturbs.
* `ImplementsDurableMemory`: under `Orderly`, `SessionsSpec =>
  KeepsWindowDurably`. A step of the plugin maps as in `ImplementsWindowMemory`,
  `Flush` to `Write` and `NewProcess` to `Restart`.
* `ViewTypeCorrect`: `Spec => []ViewTypeOK` of `SonarView`, with lemmas on what a
  wheel step and `render()` return (`TurnedType`, `PixelsType`, `RenderType`).
* `FlagsNeverDiffer`, `ImageStaysGrabbed`: from `DragInv`, which adds to
  `GrabbedPoint` that the static last position is the pointer's while a button is
  held; without it a move would not keep the grabbed point.
* `DraggingIsOneHand`: with `Captures \subseteq {TRUE}`, that is on toolkits that
  send the motion and the release of a press to the pressed window, `Spec =>
  DragsAsOneHand`. A step maps because of `DragInv`: the window that is dragged is
  the one the button went down in, so it is one at most, and the last position
  its image is moved from is where the pointer was. Elsewhere the promise is not
  kept, nor expected: the pointer moves on unseen. There `FlagsNeverDiffer` holds.
* `SizeIsZoomed`: from `SizeInv`, which adds to `SizeFromZoomOnly` that the
  latched width is image 1's as soon as there is one, and that until then image 1
  is next.
* `RoundingNeverAddsUp`: `Spec => []SizeOfClicks`, under `SmallZooms`, that the
  user stays within four times the original size on either side of zero. That the
  drawn width returns (`ZoomReturns`) is not inductive: a width says too little of
  the size it comes from. `SizeOfClicks` is, relative to the types: it lists the
  floats that a number of tenths can have. One step's rounding error is constant
  between two powers of two, so what it adds on the way up it takes back on the
  way down (`RoundedDrift`, by cases on the powers of two; `StepDrift`). At 4.0 the
  floats get coarser once more, where `FloatZoom` ends: `SmallZooms` is the range
  in which the model is the float arithmetic, not a wish about the user.
* `ZoomAlwaysReturns`: `Spec => []ZoomReturns`, under `SmallZooms` and for a first
  image wider than 10 pixels (`data/test1.png` is 700 wide and 410 high):
  with a narrower one the pixel that may be missing could be the only one. From `SizeOfClicks` by
  `PixelsWanted`.
* `RoundedIsNearestFloat`: the model's rounding is that of IEEE 754. `IsFloat` are
  the numbers with 24 bits of mantissa, of every binade from 1/16 to 4, and any
  number below; for a size from 1/16 to 4, on either side of zero, `Rounded(x)` is
  one of them and no other, of its own binade or another, is nearer. It rests on
  which spacing belongs to a size (`SpacingIs`), on a mantissa that does not
  overflow, and on coarser binades being multiples of finer ones
  (`FloatsOfBinade`). Below 1/16 the model's step is exact.
* `PixelsIsTruncation`: `Pixels` is the exact product cut by `int()`, or the next
  whole number where the float product rounds up to it, as long as a size is less
  than a tenth of a pixel off its tenths; `PixelsOfClicks`: as all sizes of
  `SizeOfClicks` are, for widths up to 60000. When a product rounds up
  (`LostPixel`) is a definition, translated from the float format.
* `OnlyRestorationIsStale`: `Spec => []StaleIsRestored`, inductive relative to the
  types, with every toolkit.

Every safety property the passing runs check is thereby proved, the three
refinements included. Liveness (`ShownCatchesUp`, `Carousel`) is out of the
prover's reach and stays with `redraw`.

## Not modelled

Icons: three file names built once (`_svg_sonar_rollover` is built from a file
name that is never set, `src/icons.cpp:55`; nothing happens over time). Identity
queries, drawing calls and colours, translations, build files and packaging: no
behaviour to get wrong over time. `mytest/` holds scratch programs that are not
part of the plugin, `sonar_plugins/` the same files once more. Vendored libraries
and the host, which are nearly all of the repository's lines, are external: the
plugin calls little of them, and their promises are taken from how it does.

Screens: a saved position is used as it is, and every position can be seen. The check
state of the toolbar's tool is the host's and never set by the plugin. `m_Ebl` is
written and never read. `m_pViewState` and `img_data` leak with each window. A
file the host wrote in part, or a group in which some keys are missing, is not
among the stored configurations.

## Plan

All components with behaviour are modelled, and what the prover can reach is
proved. What could still be added: the preferences' copies of the settings over a
`DeInit` inside the modal loop, if a host does that; more than one coordinate,
once the code treats them differently.
