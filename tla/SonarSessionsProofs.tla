------------------------- MODULE SonarSessionsProofs ------------------------
(***************************************************************************)
(* The invariants of SonarPlugin, and its promise about the window, over   *)
(* any number of processes that end in order or not.                       *)
(***************************************************************************)
EXTENDS SonarSessions, WindowRefinementProofs

\* The file holds settings of an earlier moment, whole, or nothing.
DiskOK == disk \in Settings \cup {Absent}

SessionsInv == Inv /\ DiskOK

\* What the next process begins with.
LEMMA FreshInv ==
  ASSUME Fresh, config \in Settings \cup {Absent}
  PROVE  Inv
  BY FreshType, FreshLife, FreshLook DEF Inv

LEMMA NextFreshInv ==
  (Fresh /\ config \in Settings \cup {Absent})' => Inv'
<1>1. Fresh /\ config \in Settings \cup {Absent} => Inv
  BY FreshInv
<1>. QED  BY <1>1, PTL

LEMMA NewProcessFresh ==
  ASSUME DiskOK, NewProcess
  PROVE  (Fresh /\ config \in Settings \cup {Absent})' /\ DiskOK'
<1>1. Fresh'
  BY DEF NewProcess, Fresh, NoTargets, CtorSettings, NoFixYet
<1>2. (config \in Settings \cup {Absent})' /\ DiskOK'
  BY DEF NewProcess, DiskOK, Settings
<1>. QED  BY <1>1, <1>2

LEMMA SessionsNextInv ==
  ASSUME SessionsInv, [SessionsNext]_sessionVars
  PROVE  SessionsInv'
<1>1. CASE Next /\ UNCHANGED disk
  <2>1. DiskOK'
    BY <1>1 DEF SessionsInv, DiskOK, Settings
  <2>. QED  BY <1>1, <2>1, NextType, NextLife, NextLook DEF SessionsInv, Inv
<1>2. CASE Flush
  <2>1. [Next]_vars
    BY <1>2 DEF Flush
  <2>2. Inv'
    BY <2>1, NextType, NextLife, NextLook DEF SessionsInv, Inv
  <2>3. DiskOK'
    BY <1>2 DEF SessionsInv, Inv, TypeOK, SettingsTypeOK, Flush, DiskOK, Settings
  <2>. QED  BY <2>2, <2>3 DEF SessionsInv
<1>3. CASE NewProcess
  BY <1>3, NewProcessFresh, NextFreshInv DEF SessionsInv
<1>4. CASE UNCHANGED sessionVars
  <2>1. [Next]_vars /\ DiskOK'
    BY <1>4 DEF sessionVars, SessionsInv, DiskOK, Settings
  <2>. QED  BY <2>1, NextType, NextLife, NextLook DEF SessionsInv, Inv
<1>. QED  BY <1>1, <1>2, <1>3, <1>4 DEF SessionsNext

\* The types, the windows' life and their look keep their invariants in every
\* process, whatever the last one left on the disk.
THEOREM SessionsInvariant == SessionsSpec => []SessionsInv
<1>1. SessionsInit => SessionsInv
  <2>. SUFFICES ASSUME SessionsInit PROVE SessionsInv
    OBVIOUS
  <2>1. config \in Settings \cup {Absent}
    BY PluginAssumption DEF SessionsInit, Init, PluginAssumption
  <2>2. Inv
    BY <2>1, FreshInv DEF SessionsInit, Init
  <2>. QED  BY <2>1, <2>2 DEF SessionsInit, SessionsInv, DiskOK
<1>. QED  BY <1>1, SessionsNextInv, PTL DEF SessionsSpec

-----------------------------------------------------------------------------
(* The safety of every process.                                            *)

DataInv == TargetsOwnedOnce /\ ToolInv

LEMMA SessionsNextData ==
  ASSUME SessionsInv, DataInv, [SessionsNext]_sessionVars
  PROVE  DataInv'
<1>1. CASE NewProcess
  BY <1>1 DEF NewProcess, DataInv, TargetsOwnedOnce, ToolInv, ToolMatchesIcon
<1>2. CASE ~NewProcess
  <2>1. [Next]_vars
    BY <1>2 DEF SessionsNext, sessionVars, Flush
  <2>. QED  BY <2>1, NextTargets, NextTool DEF DataInv, SessionsInv, Inv
<1>. QED  BY <1>1, <1>2

\* However many processes there were before and however they ended, a process
\* has all the safety that one process alone has: what the last one left on
\* the disk, half-adjusted or old, brings none of it down.
THEOREM EveryProcessIsSafe ==
  SessionsSpec =>
    [](/\ PointerLive /\ FaultNeedsCause /\ SingleWindow
       /\ NorthUpAgrees /\ SettingsDurable
       /\ TargetsOwnedOnce /\ ToolMatchesIcon)
<1>1. SessionsInit => DataInv
  BY DEF SessionsInit, Init, Fresh, NoTargets, DataInv, TargetsOwnedOnce,
         ToolInv, ToolMatchesIcon
<1>2. SessionsInv /\ DataInv =>
        /\ PointerLive /\ FaultNeedsCause /\ SingleWindow
        /\ NorthUpAgrees /\ SettingsDurable
        /\ TargetsOwnedOnce /\ ToolMatchesIcon
  BY DEF SessionsInv, Inv, LifeInv, LookInv, DataInv, ToolInv
<1>. QED
  BY <1>1, <1>2, SessionsInvariant, SessionsNextData, PTL DEF SessionsSpec

-----------------------------------------------------------------------------
(* The refinement.                                                         *)

\* A new process shows nothing and remembers what the file says.
LEMMA NewProcessMaps ==
  ASSUME NewProcess
  PROVE  Durable!Restart
<1>1. ~Shown'
  BY DEF NewProcess, Shown
<1>2. Memory' = LookOf(disk)
  BY DEF NewProcess, Memory, LookOf, Loaded, DefaultSettings, WindowFor
<1>3. LookOf(disk)' = LookOf(disk)
  BY DEF NewProcess, LookOf, Loaded, DefaultSettings, WindowFor
<1>4. Look' = Memory' /\ Recall' = Memory'
  BY <1>1 DEF Look, Recall
<1>5. Shown' = FALSE
  BY <1>1 DEF Shown
<1>. QED  BY <1>2, <1>3, <1>4, <1>5 DEF Durable!Restart

\* The same is shown, looks the same and is remembered when the variables of
\* SonarPlugin do not change.
LEMMA StillMaps ==
  ASSUME UNCHANGED vars
  PROVE  UNCHANGED Durable!memoryVars
<1>1. Shown' = Shown
  BY DEF vars, frameVars, Shown
<1>2. Memory' = Memory
  BY DEF vars, Memory, LookOf, Loaded, DefaultSettings, WindowFor
<1>3. Look' = Look
  BY <1>1, <1>2 DEF vars, frameVars, Look
<1>4. Recall' = Recall
  BY <1>1, <1>2 DEF vars, frameVars, WindowFor, Recall
<1>. QED  BY <1>1, <1>2, <1>3, <1>4 DEF Durable!memoryVars

\* The host writes what is remembered.
LEMMA FlushMaps ==
  ASSUME Flush
  PROVE  Durable!Write
<1>1. LookOf(disk)' = Memory
  BY DEF Flush, Memory, LookOf, Loaded, DefaultSettings, WindowFor
<1>2. UNCHANGED Durable!memoryVars
  BY StillMaps DEF Flush
<1>. QED  BY <1>1, <1>2 DEF Durable!Write

LEMMA SessionsNextMaps ==
  ASSUME Orderly, SessionsInv, SessionsInv', [SessionsNext]_sessionVars
  PROVE  [Durable!DurableNext]_(Durable!durableVars)
<1>1. CASE Next /\ UNCHANGED disk
  <2>1. [Window!MemoryNext]_(Window!memoryVars)
    BY <1>1, NextMaps DEF SessionsInv
  <2>2. [Durable!MemoryNext]_(Durable!memoryVars)
    BY <2>1
    DEF Window!MemoryNext, Window!memoryVars, Window!Show, Window!Adjust,
        Window!Move, Window!Resize, Window!Turn, Window!Keep, Window!Hide,
        Durable!MemoryNext, Durable!memoryVars, Durable!Show,
        Durable!Adjust, Durable!Move, Durable!Resize, Durable!Turn,
        Durable!Keep, Durable!Hide
  <2>3. UNCHANGED LookOf(disk)
    BY <1>1 DEF LookOf, Loaded, DefaultSettings, WindowFor
  <2>. QED  BY <2>2, <2>3 DEF Durable!DurableNext, Durable!durableVars
<1>2. CASE Flush
  BY <1>2, FlushMaps DEF Durable!DurableNext
<1>3. CASE NewProcess
  BY <1>3, NewProcessMaps DEF Durable!DurableNext
<1>4. CASE UNCHANGED sessionVars
  <2>1. UNCHANGED Durable!memoryVars
    BY <1>4, StillMaps DEF sessionVars
  <2>2. UNCHANGED LookOf(disk)
    BY <1>4 DEF sessionVars, LookOf, Loaded, DefaultSettings, WindowFor
  <2>. QED  BY <2>1, <2>2 DEF Durable!durableVars
<1>. QED  BY <1>1, <1>2, <1>3, <1>4 DEF SessionsNext

LEMMA SessionsInitMaps ==
  ASSUME Orderly, SessionsInit
  PROVE  Durable!DurableInit
<1>1. Window!MemoryInit
  BY InitMaps DEF SessionsInit
<1>2. Durable!MemoryInit
  BY <1>1 DEF Window!MemoryInit, Durable!MemoryInit
<1>3. LookOf(disk) = Memory
  BY DEF SessionsInit, Memory
<1>. QED  BY <1>2, <1>3 DEF Durable!DurableInit

\* Whenever the host writes its file and however its processes end, the
\* window that comes back is one that was remembered, as last written.
THEOREM ImplementsDurableMemory ==
  ASSUME Orderly
  PROVE  SessionsSpec => KeepsWindowDurably
<1>1. SessionsInit => Durable!DurableInit
  BY SessionsInitMaps
<1>2. SessionsInv /\ SessionsInv' /\ [SessionsNext]_sessionVars
        => [Durable!DurableNext]_(Durable!durableVars)
  BY SessionsNextMaps
<1>. QED
  BY <1>1, <1>2, SessionsInvariant, PTL
  DEF SessionsSpec, KeepsWindowDurably, Durable!DurableSpec
=============================================================================
