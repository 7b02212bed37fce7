------------------------- MODULE TrainingScheduler -------------------------
(***************************************************************************)
(* One wave of training runs on one device: a controller that raises and   *)
(* lowers the number of runs from memory observations, and the scheduler   *)
(* that admits pending runs, collects finished ones, retracts the latest   *)
(* admission under memory pressure and ends the wave.                      *)
(* A memory observation is safe, unsafe or blind; the means that calibrate *)
(* a level decide by choice.                                               *)
(***************************************************************************)
EXTENDS Naturals, Sequences, FiniteSets

CONSTANTS
  Jobs,     \* the runs are 1 .. Jobs, in the order of their keys
  Window    \* safe observations at one level that calibrate it

Job == 1 .. Jobs
Level == 0 .. Jobs
(* What the plan knows of the device: telemetry, one memory snapshot, or no *)
(* accelerator; only telemetry lets it plan for more than one run.         *)
Plan == {q \in [device : {"telemetry", "snapshot", "cpu"}, maximum : Level] :
           q.device = "telemetry" \/ q.maximum <= 1}

(* Some observations are averaged at each level. *)
WaveAssumption == Jobs \in Nat /\ Window \in Nat \ {0}

VARIABLES
  plan,       \* the concurrency plan of the wave
  target,     \* target_jobs
  ceiling,    \* effective_ceiling
  unsafe,     \* the previous observation was unsafe
  unobserved, \* the previous observation was blind
  samples,    \* how many calibrating samples there are of each level
  pc,         \* where the scheduler is
  pending,    \* pending_queue
  active,     \* active runs in the order of their admission
  worker,     \* what the future of each run would tell
  epoch,      \* the runs that report a true epoch
  stop,       \* the runs whose stop event is set
  blocked,    \* admission_blocked
  rechecked,  \* idle_zero_admission_rechecked
  trained,    \* trained_keys
  outcome,    \* how the wave ends
  last,       \* history: the last observation
  streak,     \* history: unsafe observations in a row since the last backoff, up to 2
  disproven   \* history: the lowest level that was disproven

controller == <<target, ceiling, unsafe, unobserved, samples>>
runs == <<worker, epoch, stop>>
queues == <<pending, active, trained>>
history == <<last, streak, disproven>>
vars == <<plan, controller, pc, queues, runs, blocked, rechecked, outcome, history>>

-----------------------------------------------------------------------------
Owned == Len(active)
Members(s) == {s[i] : i \in DOMAIN s}
ActiveRuns == Members(active)
Finished == {j \in ActiveRuns : worker[j] # "running"}
NoSamples == [l \in Level |-> 0]
Lower(a, b) == IF a < b THEN a ELSE b

IdleZeroAdmission == active = <<>> /\ pending # <<>> /\ target < 1

(* Mutant of LoopTop: the recheck is owed again every time. *)
LoopTopForgetful ==
  /\ pc = "loop"
  /\ \/ /\ active = <<>> /\ pending = <<>>
        /\ pc' = "ended" /\ outcome' = "trained"
     \/ active # <<>> /\ pc' = "wait" /\ UNCHANGED outcome
     \/ active = <<>> /\ pending # <<>> /\ pc' = "observe" /\ UNCHANGED outcome
  /\ UNCHANGED <<plan, controller, queues, runs, blocked, rechecked, history>>

(* The top of the loop: the wave is over, or an idle queue with no feasible *)
(* run outlived its recheck, or the scheduler waits for what it owns.      *)
LoopTop ==
  /\ pc = "loop"
  /\ \/ /\ active = <<>> /\ pending = <<>>
        /\ pc' = "ended" /\ outcome' = "trained"
        /\ UNCHANGED rechecked
     \/ /\ IdleZeroAdmission /\ rechecked
        /\ pc' = "abort" /\ outcome' = "blocked"
        /\ UNCHANGED rechecked
     \/ /\ active # <<>>
        /\ pc' = "wait" /\ UNCHANGED <<outcome, rechecked>>
     \/ /\ active = <<>> /\ pending # <<>> /\ ~(IdleZeroAdmission /\ rechecked)
        /\ pc' = IF IdleZeroAdmission \/ blocked THEN "observe" ELSE "sample"
        /\ rechecked' = IdleZeroAdmission
        /\ UNCHANGED outcome
  /\ UNCHANGED <<plan, controller, queues, runs, blocked, history>>

(* The sequences of the runs S, and whether the run a was admitted before b. *)
Orders(S) ==
  {s \in [1 .. Cardinality(S) -> S] : \A i, k \in DOMAIN s : s[i] = s[k] => i = k}
AdmittedBefore(a, b) ==
  \E i, k \in DOMAIN active : i < k /\ active[i] = a /\ active[k] = b

(* wait() returns with the futures that are done, or with none at the end  *)
(* of the poll interval; all are collected, in any order, before a failure *)
(* is raised, and those left stay in the order of their admission.         *)
Collect ==
  /\ pc = "wait"
  /\ \E left \in Orders(ActiveRuns \ Finished),
        answered \in Orders({j \in Finished : worker[j] = "done"}) :
       /\ \A i, k \in DOMAIN left : i < k => AdmittedBefore(left[i], left[k])
       /\ active' = left /\ trained' = trained \o answered
  /\ stop' = stop \ Finished
  /\ rechecked' = FALSE
  /\ IF \E j \in Finished : worker[j] # "done"
     THEN pc' = "abort" /\ outcome' = "failed"
     ELSE pc' = "sample" /\ UNCHANGED outcome
  /\ UNCHANGED <<plan, controller, pending, worker, epoch, blocked, history>>

-----------------------------------------------------------------------------
(* The controller.                                                          *)

(* It is not time for a sample yet. *)
SkipSample ==
  /\ pc = "sample" /\ pc' = "submit"
  /\ UNCHANGED <<plan, controller, queues, runs, blocked, rechecked, outcome, history>>

CloseAdmission(confirmed) ==
  target' = IF active # <<>> THEN Lower(target, Owned)
            ELSE IF confirmed THEN 0 ELSE target

DisproveLevel(l) ==
  /\ ceiling' = Lower(ceiling, l - 1)
  /\ target' = Lower(target, ceiling')
  /\ samples' = NoSamples
  /\ disproven' = Lower(disproven, l)

Sampling == pc \in {"sample", "observe"}
Telemetry == plan.device # "cpu"

(* Without a memory envelope there is nothing to judge. *)
ObserveNothing ==
  /\ Sampling /\ ~Telemetry
  /\ pc' = "submit" /\ blocked' = FALSE
  /\ UNCHANGED <<plan, controller, queues, runs, rechecked, outcome, history>>

ObserveBlind ==
  LET confirmed == unsafe \/ unobserved IN
  /\ Sampling /\ Telemetry
  /\ unobserved' = TRUE /\ samples' = NoSamples
  /\ CloseAdmission(confirmed)
  /\ blocked' = TRUE
  /\ IF confirmed /\ active # <<>>
     THEN pc' = "abort" /\ outcome' = "unobservable"
     ELSE pc' = "submit" /\ UNCHANGED outcome
  /\ last' = "blind" /\ streak' = 0
  /\ UNCHANGED <<plan, ceiling, unsafe, queues, runs, rechecked, disproven>>

(* Pressure that lasts disproves the level and retracts one admission; at  *)
(* one run, or the first time, it only closes admission.                   *)
ObserveUnsafe ==
  /\ Sampling /\ Telemetry
  /\ unobserved' = FALSE /\ blocked' = TRUE
  /\ last' = "unsafe" /\ streak' = Lower(2, streak + 1)
  /\ IF unsafe /\ Owned > 1
     THEN /\ unsafe' = FALSE /\ DisproveLevel(Owned) /\ pc' = "demote"
          /\ stop' = stop \cup {active[Owned]}
     ELSE /\ unsafe' = TRUE /\ samples' = NoSamples
          /\ CloseAdmission(unsafe) /\ pc' = "submit"
          /\ UNCHANGED <<ceiling, disproven, stop>>
  /\ UNCHANGED <<plan, queues, worker, epoch, rechecked, outcome>>

Calibrated == plan.device = "telemetry" /\ active # <<>> /\ ActiveRuns \subseteq epoch

(* A run is not in a true epoch: calibration starts again. *)
Uncalibrated ==
  /\ ~Calibrated /\ samples' = NoSamples
  /\ UNCHANGED <<target, ceiling, disproven>>

Averaging ==
  /\ Calibrated
  /\ samples' = [samples EXCEPT ![Owned] = Lower(Window, @ + 1)]
  /\ UNCHANGED <<target, ceiling, disproven>>

Full == samples[Owned] + 1 >= Window

(* The averages say that this level is too high: nobody is stopped. *)
Saturated == Calibrated /\ Full /\ Owned > 1 /\ DisproveLevel(Owned)

(* Mutant of Promote: promotion does not look at the ceiling. *)
PromoteUnbounded ==
  /\ Calibrated /\ Full /\ Owned = target
  /\ target' = target + 1 /\ samples' = NoSamples
  /\ UNCHANGED <<ceiling, disproven>>

Promote ==
  /\ Calibrated /\ Full /\ target < ceiling /\ Owned = target
  /\ target' = target + 1 /\ samples' = NoSamples
  /\ UNCHANGED <<ceiling, disproven>>

ObserveSafe ==
  /\ Sampling /\ Telemetry
  /\ unobserved' = FALSE /\ unsafe' = FALSE /\ blocked' = FALSE
  /\ Uncalibrated \/ Averaging \/ Saturated \/ Promote
  /\ pc' = "submit" /\ last' = "safe" /\ streak' = 0
  /\ UNCHANGED <<plan, queues, runs, rechecked, outcome>>

-----------------------------------------------------------------------------
(* Mutant of Demote: the victim is queued again whatever it answered. *)
DemoteAlways ==
  LET victim == active[Owned] IN
  /\ pc = "demote" /\ worker[victim] # "running"
  /\ active' = SubSeq(active, 1, Owned - 1) /\ stop' = stop \ {victim}
  /\ epoch' = epoch \ {victim} /\ streak' = 0
  /\ pending' = <<victim>> \o pending /\ pc' = "loop"
  /\ UNCHANGED <<plan, controller, trained, worker, blocked, rechecked, outcome, last, disproven>>

(* The scheduler waits until the victim's worker returned.  Only a         *)
(* cancellation is retracted; a run that finished first stays finished, a  *)
(* run that failed ends the wave.                                          *)
Demote ==
  LET victim == active[Owned] IN
  /\ pc = "demote" /\ worker[victim] # "running"
  /\ active' = SubSeq(active, 1, Owned - 1) /\ stop' = stop \ {victim}
  /\ epoch' = epoch \ {victim} /\ streak' = 0
  /\ \/ /\ worker[victim] = "cancelled"
        /\ pending' = <<victim>> \o pending /\ pc' = "loop"
        /\ UNCHANGED <<trained, outcome>>
     \/ /\ worker[victim] = "done"
        /\ trained' = Append(trained, victim) /\ pc' = "loop"
        /\ UNCHANGED <<pending, outcome>>
     \/ /\ worker[victim] = "failed"
        /\ pc' = "abort" /\ outcome' = "failed"
        /\ UNCHANGED <<pending, trained>>
  /\ UNCHANGED <<plan, controller, worker, blocked, rechecked, last, disproven>>

Admissible == ~blocked /\ pending # <<>> /\ Owned < target

(* One ownership transition inside the admission fence, or what the fence  *)
(* raises instead.                                                         *)
Admit ==
  LET j == Head(pending) IN
  /\ pc = "submit" /\ Admissible
  /\ \/ /\ pending' = Tail(pending) /\ active' = Append(active, j)
        /\ worker' = [worker EXCEPT ![j] = "running"]
        /\ epoch' = epoch \ {j}
        /\ UNCHANGED <<pc, outcome>>
     \/ /\ pc' = "abort" /\ outcome' = "failed"
        /\ UNCHANGED <<pending, active, worker, epoch>>
  /\ UNCHANGED <<plan, controller, trained, stop, blocked, rechecked, history>>

SubmitEnd ==
  /\ pc = "submit" /\ ~Admissible
  /\ pc' = "loop"
  /\ UNCHANGED <<plan, controller, queues, runs, blocked, rechecked, outcome, history>>

(* Every owned run is signalled, then the pool is shut down. *)
Abort ==
  /\ pc = "abort"
  /\ stop' = ActiveRuns /\ pc' = "reap"
  /\ UNCHANGED <<plan, controller, queues, worker, epoch, blocked, rechecked, outcome, history>>

Reap ==
  /\ pc = "reap" /\ Finished = ActiveRuns
  /\ pc' = "ended"
  /\ UNCHANGED <<plan, controller, queues, runs, blocked, rechecked, outcome, history>>

-----------------------------------------------------------------------------
(* The worker of run j returns, raises, or obeys its stop event. *)
Return(j) ==
  /\ worker[j] = "running"
  /\ \E answer \in {"done", "failed"} \cup (IF j \in stop THEN {"cancelled"} ELSE {}) :
       worker' = [worker EXCEPT ![j] = answer]
  /\ UNCHANGED <<plan, controller, pc, queues, epoch, stop, blocked, rechecked, outcome, history>>

(* It enters or leaves a true epoch. *)
ReportPhase(j) ==
  /\ worker[j] = "running"
  /\ epoch' = IF j \in epoch THEN epoch \ {j} ELSE epoch \cup {j}
  /\ UNCHANGED <<plan, controller, pc, queues, worker, stop, blocked, rechecked, outcome, history>>

Init ==
  /\ plan \in Plan
  /\ target = Lower(1, plan.maximum) /\ ceiling = plan.maximum
  /\ unsafe = FALSE /\ unobserved = FALSE /\ samples = NoSamples
  /\ pc = "submit"
  /\ pending = [i \in Job |-> i] /\ active = <<>> /\ trained = <<>>
  /\ worker = [j \in Job |-> "none"] /\ epoch = {} /\ stop = {}
  /\ blocked = FALSE /\ rechecked = FALSE /\ outcome = "none"
  /\ last = "safe" /\ streak = 0 /\ disproven = Jobs + 1

Scheduler ==
  \/ LoopTop \/ Collect
  \/ SkipSample \/ ObserveNothing \/ ObserveBlind \/ ObserveUnsafe \/ ObserveSafe
  \/ Demote \/ Admit \/ SubmitEnd \/ Abort \/ Reap

Done == pc = "ended" /\ UNCHANGED vars

Next == Scheduler \/ (\E j \in Job : Return(j) \/ ReportPhase(j)) \/ Done

Spec == Init /\ [][Next]_vars

(* The scheduler runs, and a run that was started comes to an end. *)
FairSpec == Spec /\ WF_vars(Scheduler) /\ \A j \in Job : WF_vars(Return(j))

-----------------------------------------------------------------------------
TypeOK ==
  /\ plan \in Plan
  /\ target \in Level /\ ceiling \in Level
  /\ unsafe \in BOOLEAN /\ unobserved \in BOOLEAN
  /\ samples \in [Level -> 0 .. Window]
  /\ pc \in {"loop", "wait", "sample", "observe", "demote", "submit", "abort", "reap", "ended"}
  /\ pending \in Seq(Job) /\ active \in Seq(Job) /\ trained \in Seq(Job)
  /\ worker \in [Job -> {"none", "running", "done", "failed", "cancelled"}]
  /\ epoch \subseteq Job /\ stop \subseteq Job
  /\ blocked \in BOOLEAN /\ rechecked \in BOOLEAN
  /\ outcome \in {"none", "trained", "blocked", "failed", "unobservable"}
  /\ last \in {"safe", "unsafe", "blind"} /\ streak \in 0 .. 2 /\ disproven \in 1 .. Jobs + 1

(* Every run is in one place, whatever is demoted, fails or ends at the    *)
(* same time: a demoted run is queued again once, a run whose worker       *)
(* finished is never queued again, and a run is trained at most once       *)
(* ("requeueing it would duplicate completed work").                       *)
NoRunLostOrDoubled ==
  /\ Cardinality(Members(pending)) = Len(pending)
  /\ Cardinality(Members(trained)) = Len(trained)
  /\ Members(pending) \cap ActiveRuns = {} /\ Members(trained) \cap (Members(pending) \cup ActiveRuns) = {}
  /\ \A j \in Members(pending) : worker[j] \in {"none", "cancelled"}
  /\ outcome # "failed" => Members(pending) \cup ActiveRuns \cup Members(trained) = Job

(* A level that pressure or saturation disproved is never admitted into    *)
(* again in this wave, whatever is promoted, demoted or finishes later     *)
(* ("a level a backoff already falsified can never be re-entered").        *)
DisprovenLevelStaysClosed ==
  [][Len(active') > Len(active) => Len(active') < disproven]_vars

(* A run is retracted only after two unsafe observations in a row that no  *)
(* earlier backoff used ("the next level must earn its own consecutive     *)
(* evidence").                                                             *)
BackoffIsEarned == pc = "demote" => streak = 2

(* A run is admitted only while the latest observation was safe, also after *)
(* a demotion or on an idle queue ("no new accelerator work is admitted    *)
(* until a trustworthy safe observation returns").                         *)
AdmitsOnSafeEvidence == [][Len(active') > Len(active) => last = "safe"]_vars

(* When the wave has ended nothing it started still runs on the device.     *)
NothingLeftRunning == pc = "ended" => \A j \in Job : worker[j] # "running"

(* The wave ends, with every run trained or with an error: neither lasting *)
(* pressure, nor blindness, nor an empty device with pending runs holds it. *)
WaveEnds == <>(pc = "ended")

(* A wave whose plan had room for a run is ended for want of an admissible *)
(* one only while the device is unsafe or blind: the performance manual    *)
(* says that "an unsafe or blind observation that clears within that       *)
(* interval recovers and admits pending work normally".                    *)
ClearedObservationRecovers ==
  outcome = "blocked" /\ plan.maximum > 0 => last # "safe"

=============================================================================
