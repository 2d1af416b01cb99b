------------------------------- MODULE NavFix -------------------------------
(***************************************************************************)
(* The own-ship navigation data sonar_pi keeps from the position fixes of  *)
(* the host: m_lat and m_lon (one value here, `place'), m_cog, m_sog and   *)
(* m_sats.  A fix may come without course or speed; the host then passes   *)
(* a negative number or a NaN, which is NoReading here: it differs from    *)
(* every stored value and fails the test >= 0.0, as both of those do.      *)
(***************************************************************************)
EXTENDS Integers

CONSTANTS
  Places,     (* Positions (latitude and longitude).                       *)
  Origin,     (* The position 0, 0 that Init stores.                       *)
  NoReading,  (* A course or speed that the fix does not carry.            *)
  Fixes       (* The position fixes the host can send.                     *)

ASSUME NavAssumption ==
  /\ Origin \in Places
  /\ NoReading \notin Nat
  /\ \A fix \in Fixes :
       /\ fix.place \in Places
       /\ fix.cog \in Nat \cup {NoReading}
       /\ fix.sog \in Nat \cup {NoReading}
       /\ fix.sats \in Nat

VARIABLE nav

NavTypeOK == nav \in [place : Places, cog : Nat, sog : Nat, sats : Nat]

NoFixYet == [place |-> Origin, cog |-> 0, sog |-> 0, sats |-> 0]

\* The test of SetPositionFix; a NoReading always makes it true.
Differs(fix) ==
  \/ nav.place # fix.place
  \/ nav.cog # fix.cog
  \/ nav.sog # fix.sog

\* Mutant: the test >= 0.0 is dropped.
ReadingUntested(new, old) == new

\* m_cog and m_sog keep their last value when the fix carries none.
Reading(new, old) == IF new = NoReading THEN old ELSE new

Stored(fix) ==
  [place |-> fix.place,
   cog   |-> Reading(fix.cog, nav.cog),
   sog   |-> Reading(fix.sog, nav.sog),
   sats  |-> fix.sats]
=============================================================================
