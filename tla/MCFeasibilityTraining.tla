----------------------- MODULE MCFeasibilityTraining ------------------------
(***************************************************************************)
(* Two schedulers that own a phase of the training pipeline, of which a    *)
(* behaviour keeps one: the geometry pass and a wave of training runs.     *)
(***************************************************************************)
EXTENDS MCFeasibility

CONSTANTS Jobs, Window

VARIABLES
  setting,
  tPlan, tTarget, tCeiling, tUnsafe, tUnobserved, tSamples, tPc, tPending,
  tActive, tWorker, tEpoch, tStop, tBlocked, tRechecked, tTrained, tOutcome,
  tLast, tStreak, tDisproven

trainingVars == <<tPlan, tTarget, tCeiling, tUnsafe, tUnobserved, tSamples,
                  tPc, tPending, tActive, tWorker, tEpoch, tStop, tBlocked,
                  tRechecked, tTrained, tOutcome, tLast, tStreak, tDisproven>>

Training == INSTANCE TrainingScheduler WITH
  plan <- tPlan, target <- tTarget, ceiling <- tCeiling, unsafe <- tUnsafe,
  unobserved <- tUnobserved, samples <- tSamples, pc <- tPc,
  pending <- tPending, active <- tActive, worker <- tWorker, epoch <- tEpoch,
  stop <- tStop, blocked <- tBlocked, rechecked <- tRechecked,
  trained <- tTrained, outcome <- tOutcome, last <- tLast, streak <- tStreak,
  disproven <- tDisproven

ASSUME WaveConstants == Training!WaveAssumption

SettingInit ==
  /\ Init
  /\ setting \in {"geometry", "training"}
  /\ setting = "geometry" => tPlan = [device |-> "cpu", maximum |-> 0]
  /\ Training!Init

SettingNext ==
  /\ \/ setting = "geometry" /\ Next /\ UNCHANGED trainingVars
     \/ setting = "training" /\ Training!Next /\ UNCHANGED vars
  /\ UNCHANGED setting

(* The scheduler of the setting runs, and what it started comes to an end. *)
SettingFairness ==
  /\ WF_vars(setting = "geometry" /\ Coordinator)
  /\ WF_vars(setting = "geometry" /\ WorkerStep)
  /\ WF_trainingVars(setting = "training" /\ Training!Scheduler)
  /\ \A j \in 1 .. Jobs : WF_trainingVars(setting = "training" /\ Training!Return(j))

SettingSpec ==
  SettingInit /\ [][SettingNext]_<<vars, trainingVars, setting>> /\ SettingFairness

(* Prepared families and held results stay charged and bounded, and the    *)
(* loop never runs out of work with a family unfinished                    *)
(* (build_target_coverage_geometry).                                       *)
GeometryIsCharged == TypeOK /\ StatesAreCharged /\ HeldResultsBounded /\ WorkLasts

(* The geometry pass always ends, with its results or with an error        *)
(* (build_target_coverage_geometry).                                       *)
GeometryPassEnds == setting = "geometry" => PassEnds

(* Every run is in one place and is trained at most once, whatever is      *)
(* demoted, fails or ends at the same time, and nothing runs on when the   *)
(* wave has ended (_train_post_selection_pending_runs).                    *)
RunsInOnePlace ==
  Training!TypeOK /\ Training!NoRunLostOrDoubled /\ Training!NothingLeftRunning

(* A run is retracted only after two unsafe observations in a row, a level *)
(* that was disproved is never admitted into again, and nothing is admitted *)
(* but on a safe observation (AdaptiveTrainingConcurrency.observe,         *)
(* _disprove_level, submit_available).                                     *)
LevelsAreEarned ==
  /\ []Training!BackoffIsEarned
  /\ Training!DisprovenLevelStaysClosed /\ Training!AdmitsOnSafeEvidence

(* The wave ends, with every run trained or with an error.                   *)
WaveEnds == setting = "training" => Training!WaveEnds

=============================================================================
