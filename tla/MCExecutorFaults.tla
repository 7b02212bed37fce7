-------------------------- MODULE MCExecutorFaults --------------------------
(***************************************************************************)
(* The storage executor in three settings and two protocols its engines    *)
(* take part in; a behaviour keeps one of the five.  Engines raise and     *)
(* processes die; the power fails (these share the variables of            *)
(* StorageExecutor); writes fall short; a certified unit is removed under  *)
(* others' changes; scratch of a qualification attempt is released, opened *)
(* again and removed.                                                      *)
(***************************************************************************)
EXTENDS StorageExecutor, TLC

CONSTANTS
  Victim, MoreOps, MoreKeep,              \* of the executor whose writes fall short
  Meddlings, None,                        \* of the removal
  Invocation, Node, LastSecond, Storage, Nothing   \* of the attempt

VARIABLES
  setting,
  sLease, sPc, sPlan, sTodo, sResult, sIssued, sDisk, sChanged,
  sStream, sOpen, sExists, sSynced, sAnchored, sBehind, sStaged, sLog, sTold,
  cTree, cTouched, cMeddled, cPc, cFrames, cSeen, cMutated, cBytes, cOutcome,
  cTaken,
  qClock, qRecord, qProof, qPresent, qSame, qLock, qPc, qRead, qNext,
  qStorage, qPlan, qTodo

shortVars == <<sLease, sPc, sPlan, sTodo, sResult, sIssued, sDisk, sChanged,
               sStream, sOpen, sExists, sSynced, sAnchored, sBehind, sStaged, sLog, sTold>>

removalVars == <<cTree, cTouched, cMeddled, cPc, cFrames, cSeen, cMutated,
                 cBytes, cOutcome, cTaken>>

attemptVars == <<qClock, qRecord, qProof, qPresent, qSame, qLock, qPc, qRead,
                 qNext, qStorage, qPlan, qTodo>>

Power == INSTANCE StorageExecutor WITH Faults <- {"power"}

Short == INSTANCE StorageExecutor WITH
  Faults <- {"raise", "crash", "tear"},
  Target <- {Victim}, MaxOps <- MoreOps, Keep <- MoreKeep,
  lease <- sLease, pc <- sPc, plan <- sPlan, todo <- sTodo, result <- sResult,
  issued <- sIssued, disk <- sDisk, changed <- sChanged, stream <- sStream,
  open <- sOpen, exists <- sExists, synced <- sSynced, anchored <- sAnchored,
  behind <- sBehind, staged <- sStaged, log <- sLog, told <- sTold

Removal == INSTANCE CertifiedRemoval WITH
  tree <- cTree, touched <- cTouched, meddled <- cMeddled, pc <- cPc,
  frames <- cFrames, seen <- cSeen, mutated <- cMutated, bytes <- cBytes,
  outcome <- cOutcome, taken <- cTaken

Attempt == INSTANCE QualificationAttempt WITH
  clock <- qClock, record <- qRecord, proof <- qProof, present <- qPresent,
  same <- qSame, lock <- qLock, pc <- qPc, read <- qRead, next <- qNext,
  storage <- qStorage, plan <- qPlan, todo <- qTodo

ASSUME ProtocolMarks == Attempt!MarksAreApart /\ Removal!NoneIsApart

SettingInit ==
  /\ setting \in {"dying", "power", "short", "removal", "attempt"}
  /\ Init /\ Short!Init /\ Attempt!Init
  /\ Removal!Init /\ (setting # "removal" => cTree["sub"]["x"] = "f")

SettingNext ==
  /\ \/ /\ setting = "dying" /\ Next
        /\ UNCHANGED <<shortVars, removalVars, attemptVars>>
     \/ /\ setting = "power" /\ Power!Next
        /\ UNCHANGED <<shortVars, removalVars, attemptVars>>
     \/ /\ setting = "short" /\ Short!Next
        /\ UNCHANGED <<vars, removalVars, attemptVars>>
     \/ /\ setting = "removal" /\ Removal!Next
        /\ UNCHANGED <<vars, shortVars, attemptVars>>
     \/ /\ setting = "attempt" /\ Attempt!Next
        /\ UNCHANGED <<vars, shortVars, removalVars>>
  /\ UNCHANGED setting

SettingSpec ==
  SettingInit /\ [][SettingNext]_<<vars, shortVars, removalVars, attemptVars, setting>>

(* The status an operation records is what it did to the disk, however its *)
(* engine ended, by itself, by raising before or after a change, or dead   *)
(* under the lease that the next one takes (StorageExecutor.run, _settle). *)
StatusIsTold == TypeOK /\ StatusTruthful

(* Where writes fall short, in the stream or in the file that is to replace *)
(* it, retention never rewrites over damage: a stream that holds an        *)
(* unreadable line only grows (prune_audit).                               *)
DamageStaysVisible == Short!DamageStays

(* The outcome tells what the removal did itself, whoever else added or    *)
(* removed entries meanwhile, and the bytes it reports are those of the    *)
(* files it took, each once (MutationLedger).                              *)
OutcomeTellsWhatWent ==
  Removal!TypeOK /\ Removal!OutcomeTruthful /\ Removal!BytesOnce

(* It takes what the plan bound or its owner certified, nothing else       *)
(* (remove_certified_unit, _empty_certified_directory).                    *)
UncertifiedStays == Removal!UncertifiedStays

(* A terminal attempt record is never without the proof that binds it,     *)
(* whoever died between the two (release_attempt_reference).               *)
AttemptIsProven == Attempt!TypeOK /\ Attempt!TerminalIsProven

(* Concurrent acquisitions keep each other's pins, and no late one opens a *)
(* terminal attempt again (acquire_attempt_reference).                     *)
PinsMergeUntilTerminal == Attempt!PinsMerge /\ Attempt!TerminalIsFinal

(* Storage removes a name only from an attempt that is released as it was  *)
(* when the plan was made, and nothing that was written later              *)
(* (remove_released_attempt_member).                                       *)
RemovesReleasedOnly == Attempt!RemovesReleasedOnly /\ Attempt!LaterScratchStays

Symmetry == Permutations(Process) \cup Permutations(Target)

(* What the chosen setting reads. *)
Live ==
  <<setting, CASE setting \in {"dying", "power"} -> vars
               [] setting = "short"   -> shortVars
               [] setting = "removal" -> removalVars
               [] setting = "attempt" -> attemptVars>>

=============================================================================
