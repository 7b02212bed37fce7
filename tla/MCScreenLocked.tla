--------------------------- MODULE MCScreenLocked ---------------------------
(***************************************************************************)
(* The two one-shot protocols of a campaign, of which a behaviour keeps    *)
(* one: the target-size screen and the evaluation of the locked cohort.    *)
(***************************************************************************)
EXTENDS MCScreen

CONSTANTS Binding, LastSecond, Nobody, Nothing

VARIABLES
  setting,
  aClock, aCurrent, aObjects, aReveal, aPointer, aEvidence, aRecord, aRelease,
  aWindow, aPc, aBind, aAct

lockedVars == <<aClock, aCurrent, aObjects, aReveal, aPointer, aEvidence,
                aRecord, aRelease, aWindow, aPc, aBind, aAct>>

Locked == INSTANCE LockedActivation WITH
  Process <- Command, clock <- aClock, current <- aCurrent,
  objects <- aObjects, reveal <- aReveal, pointer <- aPointer,
  evidence <- aEvidence, record <- aRecord, release <- aRelease,
  window <- aWindow, pc <- aPc, bind <- aBind, act <- aAct

ASSUME MarksAreApart == Locked!MarksAreApart

SettingInit ==
  /\ Init
  /\ setting \in {"screen", "locked"}
  /\ setting = "screen" => aCurrent = CHOOSE b \in Binding : TRUE
  /\ Locked!Init

SettingNext ==
  /\ \/ setting = "screen" /\ Next /\ UNCHANGED lockedVars
     \/ setting = "locked" /\ Locked!Next /\ UNCHANGED vars
  /\ UNCHANGED setting

SettingSpec == SettingInit /\ [][SettingNext]_<<vars, lockedVars, setting>>

(* What the chosen setting reads. *)
Live == <<setting, IF setting = "screen" THEN vars ELSE lockedVars>>

(* The reserved cohort is evaluated under one activation at most, after its *)
(* disclosure, and no other one becomes current (activate_locked_test).    *)
EvaluatedOnce == Locked!TypeOK /\ Locked!EvaluatedOnce

(* A disclosure that stands is never replaced, its activation stays in the *)
(* store, and what becomes current was produced under the binding that is  *)
(* current at that moment, however long the command took                   *)
(* (record_locked_reveal, publish_current_qualification_pointer).          *)
LockedMovesForward == Locked!LockedMovesForward

=============================================================================
