-------------------------- MODULE WindowRefinement --------------------------
(***************************************************************************)
(* SonarPlugin implements WindowMemory: from outside, everything that      *)
(* Init, the toggles, SonarFrame::Create, OnMove, OnSize, OnNorthUp,       *)
(* OnClose, LoadConfig and SaveConfig do amounts to showing one window as  *)
(* it is remembered and remembering what its OnMove and OnSize recall.     *)
(***************************************************************************)
EXTENDS SonarPlugin

\* The window the user sees: Create has returned and Show() was called.
Shown == m_pSonarFrame # Null /\ stage[m_pSonarFrame] = "open"

\* What a configuration says of the next window.
LookOf(c) ==
  [pos   |-> Loaded(c).pos,
   size  |-> WindowFor(Loaded(c).size),
   north |-> Loaded(c).north]

Memory == LookOf(config)

Look ==
  IF Shown
  THEN [pos   |-> winPos[m_pSonarFrame],
        size  |-> winSize[m_pSonarFrame],
        north |-> northUp[m_pSonarFrame]]
  ELSE Memory

\* What OnClose would save, in the terms of a look.
Recall ==
  IF Shown
  THEN [pos   |-> viewPos[m_pSonarFrame],
        size  |-> WindowFor(viewSize[m_pSonarFrame]),
        north |-> northUp[m_pSonarFrame]]
  ELSE Memory

Looks == [pos : Int, size : Int, north : BOOLEAN]

Window == INSTANCE WindowMemory WITH
            shown <- Shown, look <- Look, recall <- Recall, memory <- Memory,
            Lags <- Win32, Offset <- Decoration

\* A plugin that has a configuration and is started once keeps the promise
\* of WindowMemory in every step; the steps of Create, the deletion of the
\* closed window and all that does not concern the window are stutters.  The
\* size lags on Windows, and the place is off by what EVT_MOVE adds to it;
\* where neither is so the window comes back where and as it was closed.
KeepsWindow == Window!MemorySpec
=============================================================================
