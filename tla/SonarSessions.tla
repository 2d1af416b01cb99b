---------------------------- MODULE SonarSessions ---------------------------
(***************************************************************************)
(* SonarPlugin over any number of processes of the host.  SaveConfig only  *)
(* writes into the host's config object; the host writes that to its file  *)
(* when it likes, in any case when it ends in order.  A process may end at *)
(* any moment, also inside a handler or after a fault: a handler changes   *)
(* nothing that outlives the process but through that file, so an end in   *)
(* the middle of one is an end before it.                                  *)
(***************************************************************************)
EXTENDS WindowRefinement

VARIABLE
  disk  (* The /Plugins/Sonar group in the file.                           *)

sessionVars == <<vars, disk>>

SessionsInit == Init /\ disk = config

\* The host writes its config object, at the end or in between.
Flush ==
  /\ LoopTurn
  /\ disk' = config
  /\ UNCHANGED vars

\* The process ends, in order or not, and another one starts: the objects
\* are constructed anew and the config object is read from the file.
NewProcess ==
  /\ plugin' = "created"
  /\ m_pSonarFrame' = Null
  /\ settings' = CtorSettings
  /\ config' = disk
  /\ bound' = 0 /\ tools' = 0 /\ work' = 0 /\ modal' = FALSE
  /\ stage' = [f \in Frames |-> "unused"]
  /\ timer' = [f \in Frames |-> "null"]
  /\ canvas' = [f \in Frames |-> FALSE]
  /\ viewPos' = [f \in Frames |-> ZeroPos]
  /\ viewSize' = [f \in Frames |-> 0]
  /\ winPos' = [f \in Frames |-> ZeroPos]
  /\ winSize' = [f \in Frames |-> 0]
  /\ northUp' = [f \in Frames |-> FALSE]
  /\ dirty' = {}
  /\ fault' = "none"
  /\ SonarTargets' = Null /\ arrays' = {}
  /\ nav' = NoFixYet
  /\ UNCHANGED disk

SessionsNext == (Next /\ UNCHANGED disk) \/ Flush \/ NewProcess

SessionsSpec == SessionsInit /\ [][SessionsNext]_sessionVars

-----------------------------------------------------------------------------
Durable == INSTANCE DurableMemory WITH
             shown <- Shown, look <- Look, recall <- Recall, memory <- Memory,
             stored <- LookOf(disk), Lags <- Win32, Offset <- Decoration

\* From process to process the window is what DurableMemory promises: a
\* process that dies while the window is open, or before the host wrote its
\* file, loses what it did since the last writing and nothing more, and the
\* next one shows a window as it once was remembered.
KeepsWindowDurably == Durable!DurableSpec
=============================================================================
