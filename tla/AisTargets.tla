----------------------------- MODULE AisTargets -----------------------------
(***************************************************************************)
(* Who owns the AIS target arrays that OpenCPN hands to the plugin.        *)
(*                                                                         *)
(* GetAISTargetArray() allocates an array on the host's side and passes    *)
(* its ownership to the caller.  sonar_pi keeps one pointer, SonarTargets, *)
(* and replaces the array on every AIS sentence; every array it drops must *)
(* be released first, exactly once.  An array is a member of Arrays, and   *)
(* `arrays' is the set of those that are allocated and not yet released,   *)
(* so an address can be handed out again once it is free.                  *)
(***************************************************************************)
CONSTANTS
  Arrays,  (* The addresses at which the host can place a target array.    *)
  Null     (* The null pointer, for SonarTargets and for m_pSonarFrame.    *)

ASSUME NullIsNotAnArray == Null \notin Arrays

VARIABLES
  SonarTargets,  (* The plugin's pointer: an array or Null.                *)
  arrays         (* The arrays that are allocated now.                     *)

targetVars == <<SonarTargets, arrays>>

TargetsTypeOK ==
  /\ SonarTargets \in Arrays \cup {Null}
  /\ arrays \subseteq Arrays

\* The constructor: no array yet.
NoTargets == SonarTargets = Null /\ arrays = {}

\* Mutant: the old array is not released.
NothingReleased == arrays

\* WX_CLEAR_ARRAY and delete on what SonarTargets points to, if anything.
Released == arrays \ {SonarTargets}

\* The host call: a new array at some address that is free once `kept' are
\* the allocated ones, or Null when the host has no AIS decoder.
GetAISTargetArray(kept) ==
  \E a \in (Arrays \ kept) \cup {Null} :
    /\ SonarTargets' = a
    /\ arrays' = kept \cup ({a} \ {Null})

\* sonar_pi::GetSonarTargets, and the same two steps inside sonar_pi::Init.
GetSonarTargets == GetAISTargetArray(Released)

\* The destructor.
ReleaseTargets ==
  /\ SonarTargets' = Null
  /\ arrays' = Released

\* No array is leaked and none is used after its release: the arrays that
\* are allocated are exactly the one the plugin points to.  Concerns every
\* path that overwrites SonarTargets (Init, called again or not, each AIS
\* sentence, the destructor).
TargetsOwnedOnce == arrays = {SonarTargets} \ {Null}
=============================================================================
