---------------------------- MODULE MCQueueDecay ----------------------------
(***************************************************************************)
(* Who waits for what, in three settings of which a behaviour keeps one:   *)
(* the deterministic work queue, the density scene scheduler, and storage  *)
(* commands that wait for the lease while archives decay.                  *)
(***************************************************************************)
EXTENDS MCWorkQueue

CONSTANTS
  Tasks, Threads, DensityMemory, Parallel, Profiles,
  a, c1, s1,           \* one member, its content and one time stamp
  Process, Torn, Absent, NoPlan,
  Nobody

VARIABLES
  setting,
  dResources, dParent, dPc, dPending, dCursor, dLease, dWorker, dCommitted,
  dFailures, dOutcome,
  cCache, cKept, cTruth, cLease, cPc, cPlan, cTodo, cMoved

decayVars == <<cCache, cKept, cTruth, cLease, cPc, cPlan, cTodo, cMoved>>
densityVars == <<dResources, dParent, dPc, dPending, dCursor, dLease, dWorker,
                 dCommitted, dFailures, dOutcome>>

Profile(retained, transient, least, wanted) ==
  [retained |-> retained, transient |-> transient, least |-> least, wanted |-> wanted]

(* Small and large outputs, small and large peaks, narrow and wide tasks. *)
MCProfiles ==
  {Profile(1, 1, 1, 3), Profile(2, 0, 2, 3), Profile(0, 4, 1, 1)}

Density == INSTANCE DensityScheduler WITH
  Memory <- DensityMemory, resources <- dResources, parent <- dParent, pc <- dPc,
  pending <- dPending, cursor <- dCursor, lease <- dLease, worker <- dWorker,
  committed <- dCommitted, failures <- dFailures, outcome <- dOutcome

ASSUME SceneConstants == Density!SceneAssumption

Decay == INSTANCE ColdArchive WITH
  Member <- {a}, Content <- {c1}, Stamp <- {s1}, Faults <- {"crash", "rot"},
  Commands <- {"archive", "archive_keep_hot", "reclaim", "sweep"},
  JournalKeep <- 1,
  cache <- cCache, kept <- cKept, truth <- cTruth, lease <- cLease,
  pc <- cPc, plan <- cPlan, todo <- cTodo, moved <- cMoved

ASSUME DecayConstants == Decay!ConstantAssumption

SettingInit ==
  /\ Init
  /\ setting \in {"queue", "density", "decay"}
  /\ setting # "density" => /\ dResources = [i \in Density!SceneTask |-> Profile(0, 4, 1, 1)]
                           /\ dParent = [i \in Density!SceneTask |-> 0]
  /\ Density!Init
  /\ Decay!Init

SettingNext ==
  /\ \/ setting = "queue" /\ Next /\ UNCHANGED <<densityVars, decayVars>>
     \/ setting = "density" /\ Density!Next /\ UNCHANGED <<queue, decayVars>>
     \/ setting = "decay" /\ Decay!Next /\ UNCHANGED <<queue, densityVars>>
  /\ UNCHANGED setting

(* In the density setting the scheduler runs, and a task that was started  *)
(* comes to an end; in the decay setting an engine that was started runs.  *)
SettingSpec ==
  /\ SettingInit /\ [][SettingNext]_<<queue, densityVars, decayVars, setting>>
  /\ WF_densityVars(setting = "density" /\ Density!Scheduler)
  /\ \A i \in Density!SceneTask : WF_densityVars(setting = "density" /\ Density!Return(i))
  /\ \A p \in Process : WF_decayVars(setting = "decay" /\ Decay!Engine(p))

(* What is retained and what the admitted tasks may need at their peak fits *)
(* the scene budget at every moment, and so do their workers; a task starts *)
(* after its parent's success, and the scheduler waits only with nothing   *)
(* left to admit (DensitySceneScheduler.run, _rebalance_leases).           *)
DensityInBudget ==
  /\ Density!TypeOK /\ Density!InBudget
  /\ Density!ChildAfterParent /\ Density!WorkConserving

(* A run leaves only tasks that cannot run any more, and ends with a       *)
(* result, with the first failure in construction order, or with a refusal *)
(* that may stand in place of a failure (DensitySceneScheduler.run).       *)
DensityEndIsJustified == Density!EndIsJustified

(* The density run ends, whatever fails and whatever no longer fits.         *)
DensityRunEnds == setting = "density" => Density!RunEnds

(* The hot bytes of a member go only while an archive gives back the owner's *)
(* latest bytes, also where blobs decay after the plan was made            *)
(* (reauthenticate_representation).                                        *)
LastCopyNeverReclaimed == Decay!LastCopyNeverReclaimed

(* Every storage command that was asked for comes to an end: it gets the   *)
(* lease or gives up, and whoever has the lease gives it back              *)
(* (_NonBlockingLease, StorageExecutor.run).                               *)
CommandsEnd == setting = "decay" => Decay!CommandsEnd

=============================================================================
