-------------------------- MODULE DensityScheduler --------------------------
(***************************************************************************)
(* The scheduler of the density fields of a scene: tasks with declared     *)
(* memory, workers and an earlier parent are admitted under one budget,    *)
(* largest peak first; idle workers are shared out again at every change.  *)
(***************************************************************************)
EXTENDS Naturals, FiniteSetsExt, SequencesExt

CONSTANTS
  Tasks,     \* the tasks are 1 .. Tasks, in construction order
  Threads,   \* max_threads of the budget
  Memory,    \* max_memory_bytes of the budget
  Parallel,  \* max_parallel_tasks of the policy
  Profiles   \* what a task may declare: retained, transient, least, wanted

(* Sizes and bounds are natural numbers, and a task asks for a worker.     *)
SceneAssumption ==
  /\ {Tasks, Threads, Memory, Parallel} \subseteq Nat
  /\ Profiles \subseteq [retained : Nat, transient : Nat, least : Nat \ {0}, wanted : Nat \ {0}]

SceneTask == 1 .. Tasks
None == 0

VARIABLES
  resources, \* the profile of each task
  parent,    \* its parent or None
  pc,        \* where the scheduler is
  pending,   \* the tasks to admit, largest peak first
  cursor,    \* how far the scan of pending is
  lease,     \* active: the workers of each active task
  worker,    \* what the future of each task would tell
  committed, \* committed_retained
  failures,  \* the tasks that failed
  outcome    \* how the run ends, and for which task

declared == <<resources, parent>>
accounts == <<committed, failures>>
vars == <<declared, pc, pending, cursor, lease, worker, accounts, outcome>>

-----------------------------------------------------------------------------
Active == DOMAIN lease
Retained == [i \in SceneTask |-> resources[i].retained]
Peak == [i \in SceneTask |-> resources[i].retained + resources[i].transient]
Least == [i \in SceneTask |-> resources[i].least]

(* What the members of S have of f together: the number of its units. *)
Units(f, S) == UNION {{i} \X (1 .. f[i]) : i \in S}
Total(f, S) == Cardinality(Units(f, S))

ActivePeak == Total(Peak, Active)
Limit == Max({1, Min({Tasks, Threads, Parallel})})

(* validate_resources: every task fits alone, and all the outputs together. *)
Valid ==
  /\ \A i \in SceneTask : parent[i] < i /\ Least[i] <= Threads /\ Peak[i] <= Memory
  /\ Total(Retained, SceneTask) <= Memory

LargestFirst(i, j) == Peak[i] > Peak[j] \/ (Peak[i] = Peak[j] /\ i < j)

-----------------------------------------------------------------------------
(* _rebalance_leases: everyone at its minimum, then one worker each in turn *)
(* to those that want more, as long as there are any.                      *)
Level(i, rounds) == Max({Least[i], Min({resources[i].wanted, Threads, Least[i] + rounds})})
Levels(A, rounds) == [i \in A |-> Level(i, rounds)]

Rounds(A) == Max({r \in 0 .. Threads : Total(Levels(A, r), A) <= Threads})

Rebalance(A) ==
  LET r == Rounds(A)
      left == Threads - Total(Levels(A, r), A)
      wanting == {i \in A : Level(i, r) < Level(i, r + 1)}
  IN [i \in A |->
        IF i \in wanting /\ Cardinality({j \in wanting : j <= i}) <= left
        THEN Level(i, r) + 1 ELSE Level(i, r)]

-----------------------------------------------------------------------------
Queued == ToSet(pending)

(* Mutant of Fits: the outputs of finished tasks are not counted. *)
FitsActive(i) ==
  /\ Cardinality(Active) < Limit
  /\ Total(Least, Active) + Least[i] <= Threads
  /\ ActivePeak + Peak[i] <= Memory

Fits(i) ==
  /\ Cardinality(Active) < Limit
  /\ Total(Least, Active) + Least[i] <= Threads
  /\ committed + ActivePeak + Peak[i] <= Memory

ParentReady(i) == parent[i] \notin Queued \cup Active \cup failures

CanAdmit(i) == Fits(i) /\ ParentReady(i)

(* One pass over the pending tasks; an admitted one starts with its minimum. *)
ScanAdmit ==
  /\ pc = "scan" /\ cursor <= Len(pending) /\ CanAdmit(pending[cursor])
  /\ lease' = [i \in Active \cup {pending[cursor]} |->
                 IF i \in Active THEN lease[i] ELSE Least[i]]
  /\ pending' = RemoveAt(pending, cursor)
  /\ UNCHANGED <<declared, pc, cursor, worker, accounts, outcome>>

ScanSkip ==
  /\ pc = "scan" /\ cursor <= Len(pending) /\ ~CanAdmit(pending[cursor])
  /\ cursor' = cursor + 1
  /\ UNCHANGED <<declared, pc, pending, lease, worker, accounts, outcome>>

(* The scan is over: workers are shared out, and what was admitted starts.  *)
Submit ==
  /\ pc = "scan" /\ cursor > Len(pending) /\ Active # {}
  /\ lease' = Rebalance(Active)
  /\ worker' = [i \in SceneTask |-> IF i \in Active /\ worker[i] = "none" THEN "running" ELSE worker[i]]
  /\ pc' = "wait"
  /\ UNCHANGED <<declared, pending, cursor, accounts, outcome>>

(* Mutant of NothingRunning: what is left is tried again. *)
TryAgain ==
  /\ pc = "scan" /\ cursor > Len(pending) /\ Active = {}
  /\ IF pending # <<>> THEN cursor' = 1 /\ UNCHANGED <<pc, outcome>>
     ELSE /\ pc' = "ended" /\ UNCHANGED cursor
          /\ outcome' = IF failures = {} THEN <<"done", None>> ELSE <<"failed", Min(failures)>>
  /\ UNCHANGED <<declared, pending, lease, worker, accounts>>

(* Mutant of NothingRunning: the last failure in construction order.       *)
RaiseLast ==
  /\ pc = "scan" /\ cursor > Len(pending) /\ Active = {}
  /\ outcome' =
       IF \E i \in Queued : failures = {} \/ parent[i] \notin failures
       THEN <<"complexity", pending[1]>>
       ELSE IF failures = {} THEN <<"done", None>> ELSE <<"failed", Max(failures)>>
  /\ pc' = "ended"
  /\ UNCHANGED <<declared, pending, cursor, lease, worker, accounts>>

(* Nothing runs: a task that is left and has no failed parent makes the    *)
(* run refuse the first that is left, whether or not others failed;        *)
(* otherwise the failure of lowest order is raised, if there is one.       *)
NothingRunning ==
  /\ pc = "scan" /\ cursor > Len(pending) /\ Active = {}
  /\ outcome' =
       IF \E i \in Queued : failures = {} \/ parent[i] \notin failures
       THEN <<"complexity", pending[1]>>
       ELSE IF failures = {} THEN <<"done", None>> ELSE <<"failed", Min(failures)>>
  /\ pc' = "ended"
  /\ UNCHANGED <<declared, pending, cursor, lease, worker, accounts>>

Finished == {i \in Active : worker[i] \in {"done", "failed"}}

(* All futures that are done are collected; a failed task keeps its charge. *)
Collect ==
  /\ pc = "wait" /\ Finished # {}
  /\ committed' = committed + Total(Retained, Finished)
  /\ failures' = failures \cup {i \in Finished : worker[i] = "failed"}
  /\ lease' = Rebalance(Active \ Finished)
  /\ pc' = "scan" /\ cursor' = 1
  /\ UNCHANGED <<declared, pending, worker, outcome>>

(* The function of a task returns or raises. *)
Return(i) ==
  /\ worker[i] = "running"
  /\ \E answer \in {"done", "failed"} : worker' = [worker EXCEPT ![i] = answer]
  /\ UNCHANGED <<declared, pc, pending, cursor, lease, accounts, outcome>>

Init ==
  /\ resources \in [SceneTask -> Profiles] /\ parent \in [SceneTask -> None .. Tasks] /\ Valid
  /\ pc = "scan" /\ cursor = 1
  /\ pending \in {s \in [SceneTask -> SceneTask] : \A i, j \in SceneTask : i < j => LargestFirst(s[i], s[j])}
  /\ lease = <<>> /\ worker = [i \in SceneTask |-> "none"]
  /\ committed = 0 /\ failures = {} /\ outcome = <<"none", None>>

Scheduler == ScanAdmit \/ ScanSkip \/ Submit \/ NothingRunning \/ Collect

Done == pc = "ended" /\ UNCHANGED vars

Next == Scheduler \/ (\E i \in SceneTask : Return(i)) \/ Done

Spec == Init /\ [][Next]_vars

(* The scheduler runs, and a task that was started comes to an end. *)
FairSpec == Spec /\ WF_vars(Scheduler) /\ \A i \in SceneTask : WF_vars(Return(i))

-----------------------------------------------------------------------------
TypeOK ==
  /\ resources \in [SceneTask -> Profiles] /\ parent \in [SceneTask -> None .. Tasks]
  /\ pc \in {"scan", "wait", "ended"}
  /\ Queued \subseteq SceneTask /\ Len(pending) = Cardinality(Queued)
  /\ cursor \in 1 .. Len(pending) + 1
  /\ Active \subseteq SceneTask \ Queued /\ \A i \in Active : lease[i] \in 1 .. Threads
  /\ worker \in [SceneTask -> {"none", "running", "done", "failed"}]
  /\ committed \in 0 .. Memory /\ failures \subseteq SceneTask \ (Queued \cup Active)
  /\ outcome \in {"none", "done", "failed", "complexity"} \X (None .. Tasks)

(* What is retained and what the admitted tasks may need at their peak fits *)
(* the scene budget at every moment, and so do the workers of the tasks    *)
(* that run, each with its minimum; the outputs of finished tasks go on    *)
(* counting ("retained outputs accumulate as tasks finish").               *)
InBudget ==
  /\ committed + ActivePeak <= Memory
  /\ Total(lease, {i \in Active : worker[i] # "none"}) <= Threads
  /\ \A i \in Active : lease[i] >= Least[i]

(* A task starts after its parent's success, and a parent that failed at   *)
(* the same time as others does not let its child start.                   *)
ChildAfterParent ==
  \A i \in Active : parent[i] # None => worker[parent[i]] = "done" /\ parent[i] \notin Active

(* The scheduler waits only with nothing left to admit ("global            *)
(* work-conserving scheduler").                                            *)
WorkConserving == pc = "wait" => \A i \in Queued : ~CanAdmit(i)

(* A run ends with nothing running and with every failure known, and what  *)
(* it leaves has a reason that still holds: its parent failed or is left   *)
(* too, or it does not fit beside what is retained.  There are three ends: *)
(* a result, with no task left; the failure that is first in construction  *)
(* order, whatever order they finished in, with only children of failed    *)
(* tasks left; and the refusal of a task that is left.  The refusal is     *)
(* raised also over failures: it takes their place when a task is left     *)
(* whose parent did not fail.  Without failures some task lacks memory.    *)
EndIsJustified ==
  pc = "ended" =>
    /\ Active = {} /\ Queued = {i \in SceneTask : worker[i] = "none"}
    /\ failures = {i \in SceneTask : worker[i] = "failed"}
    /\ \A i \in Queued : parent[i] \in Queued \cup failures \/ committed + Peak[i] > Memory
    /\ \/ outcome[1] = "done" /\ failures = {} /\ Queued = {}
       \/ /\ outcome[1] = "failed" /\ failures # {} /\ outcome[2] = Min(failures)
          /\ \A i \in Queued : parent[i] \in failures
       \/ /\ outcome[1] = "complexity" /\ outcome[2] \in Queued
          /\ \E i \in Queued : parent[i] \notin failures
          /\ failures = {} => \E i \in Queued : committed + Peak[i] > Memory

(* The run ends, whatever fails and whatever no longer fits.                *)
RunEnds == <>(pc = "ended")

=============================================================================
