------------------------------ MODULE WorkQueue ------------------------------
(***************************************************************************)
(* The bounded work queue of the campaign stages: a coordinator submits,   *)
(* reserves, waits and drains; a pool of workers finishes what was         *)
(* dispatched in an order nobody knows; one memory account admits work.    *)
(***************************************************************************)
EXTENDS Integers, FiniteSets, SequencesExt

CONSTANTS
  Task,         \* task_id
  Rank,         \* canonical_order, ties broken by task_id
  Memory,       \* estimated_memory_bytes
  Reservation,  \* reservation_id
  Amounts,      \* what a reservation may ask for
  Budget,       \* ram_budget_bytes
  Workers, MaxReady, MaxInflight, MaxCompleted

ASSUME QueueAssumption ==
  /\ Memory \in [Task -> Nat] /\ Rank \in [Task -> Nat]
  /\ \A t, u \in Task : Rank[t] = Rank[u] => t = u
  /\ Amounts \subseteq Nat /\ Budget \in Nat
  /\ {Workers, MaxReady, MaxInflight, MaxCompleted} \subseteq Nat \ {0}

VARIABLES
  seen,       \* the task ids that were submitted
  ready,      \* admitted to the queue, not dispatched
  inflight,   \* futures, in the order they were handed to the pool
  outcome,    \* how the future of a task ended
  arrived,    \* what the current wait found done and has still to collect
  completed,  \* results the coordinator has not drained
  drained,    \* history: results handed to the coordinator
  dropped,    \* history: tasks a failure took down
  held,       \* reservations
  mem,        \* the three counters of the account
  at          \* where the coordinator is inside the queue

tasks == <<seen, ready, inflight, outcome, arrived, completed, drained, dropped>>
queue == <<tasks, held, mem, at>>

-----------------------------------------------------------------------------
Accounted == mem.inflight + mem.completed + mem.reserved
Available == Budget - Accounted

(* The pool starts futures in the order it got them. *)
Unfinished == {i \in DOMAIN inflight : outcome[inflight[i]] = "none"}
Running == {inflight[i] : i \in {k \in Unfinished : Cardinality({j \in Unfinished : j < k}) < Workers}}
Done == {t \in Range(inflight) : outcome[t] # "none"}

Queued(t) ==
  /\ seen' = seen \cup {t} /\ ready' = Append(ready, t)
  /\ at' = "dispatch"
  /\ UNCHANGED <<inflight, outcome, arrived, completed, drained, dropped, held, mem>>

Submit(t) ==
  at = "free" /\ t \notin seen /\ Len(ready) < MaxReady /\ Memory[t] <= Budget /\ Queued(t)

Reserved(r, amount, then) ==
  /\ held' = [x \in DOMAIN held \cup {r} |-> IF x = r THEN amount ELSE held[x]]
  /\ mem' = [mem EXCEPT !.reserved = @ + amount]
  /\ at' = then
  /\ UNCHANGED tasks

(* Mutant of Reserve: results that were not drained are not accounted for. *)
ReserveOverResults(r, amount, then) ==
  at = "free" /\ r \notin DOMAIN held /\ amount <= Available + mem.completed /\ Reserved(r, amount, then)

(* try_reserve_memory and reserve_memory differ in how they report that    *)
(* there is no room; a coordinator may dispatch right after.               *)
Reserve(r, amount, then) ==
  at = "free" /\ r \notin DOMAIN held /\ amount <= Available /\ Reserved(r, amount, then)

Release(r) ==
  /\ at = "free" /\ r \in DOMAIN held
  /\ held' = [x \in DOMAIN held \ {r} |-> held[x]]
  /\ mem' = [mem EXCEPT !.reserved = @ - held[r]]
  /\ at' = "dispatch"
  /\ UNCHANGED tasks

DispatchReady ==
  at = "free" /\ at' = "dispatch" /\ UNCHANGED <<tasks, held, mem>>

-----------------------------------------------------------------------------
(* _dispatch: the first ready task that fits, until nothing fits. *)
Fits(i) == Memory[ready[i]] <= Available
Room == Len(inflight) < MaxInflight /\ Cardinality(completed) < MaxCompleted
Dispatching == {"dispatch", "admit"}

DispatchOne ==
  /\ at \in Dispatching /\ Room
  /\ \E i \in DOMAIN ready :
       /\ Fits(i) /\ \A j \in 1 .. i - 1 : ~Fits(j)
       /\ inflight' = Append(inflight, ready[i])
       /\ mem' = [mem EXCEPT !.inflight = @ + Memory[ready[i]]]
       /\ ready' = RemoveAt(ready, i)
  /\ UNCHANGED <<seen, outcome, arrived, completed, drained, dropped, held, at>>

DispatchEnd ==
  /\ at \in Dispatching
  /\ Room => \A i \in DOMAIN ready : ~Fits(i)
  /\ at' = IF at = "admit" THEN "waiting" ELSE "free"
  /\ UNCHANGED <<tasks, held, mem>>

-----------------------------------------------------------------------------
Finish(t) ==
  /\ t \in Running
  /\ \E end \in {"ok", "failed"} : outcome' = [outcome EXCEPT ![t] = end]
  /\ UNCHANGED <<seen, ready, inflight, arrived, completed, drained, dropped, held, mem, at>>

WaitForCompletion ==
  at = "free" /\ at' = "admit" /\ UNCHANGED <<tasks, held, mem>>

(* Nothing runs, nothing is to be drained and nothing that is ready could  *)
(* be dispatched: the wait raises the memory error.                        *)
Blocked == at = "waiting" /\ completed = {} /\ inflight = <<>> /\ ready # <<>>

(* There are results already, or there is nothing to wait for, or a        *)
(* heartbeat goes by, or the memory error is raised.                       *)
WaitReturns ==
  /\ at = "waiting" /\ (completed # {} \/ Done = {})
  /\ at' = "free" /\ UNCHANGED <<tasks, held, mem>>

Arrival(slots) ==
  /\ at = "waiting" /\ completed = {} /\ Done # {}
  /\ arrived' = {t \in Done : Cardinality({u \in Done : Rank[u] < Rank[t]}) < slots}
  /\ at' = "collect"
  /\ UNCHANGED <<seen, ready, inflight, outcome, completed, drained, dropped, held, mem>>

(* Mutant of Arrive: whatever is finished is collected. *)
ArriveAll == Arrival(Cardinality(Done))

(* As many of the finished futures as there are free slots, in canonical   *)
(* order.                                                                  *)
Arrive == Arrival(MaxCompleted - Cardinality(completed))

Foremost(t) == t \in arrived /\ \A u \in arrived : Rank[t] <= Rank[u]

PopFuture(t) ==
  \E i \in DOMAIN inflight : inflight[i] = t /\ inflight' = RemoveAt(inflight, i)

Collect(t) ==
  /\ at = "collect" /\ Foremost(t) /\ outcome[t] = "ok"
  /\ PopFuture(t)
  /\ arrived' = arrived \ {t} /\ completed' = completed \cup {t}
  /\ mem' = [mem EXCEPT !.inflight = @ - Memory[t], !.completed = @ + Memory[t]]
  /\ UNCHANGED <<seen, ready, outcome, drained, dropped, held, at>>

CollectEnd ==
  /\ at = "collect" /\ arrived = {}
  /\ at' = "dispatch" /\ UNCHANGED <<tasks, held, mem>>

(* What has not started is cancelled; a running task runs on. *)
CancelPending ==
  LET live == {inflight[i] : i \in Unfinished} IN
  \E cancelled \in SUBSET live :
    /\ live \ Running \subseteq cancelled
    /\ outcome' = [t \in Task |-> IF t \in cancelled THEN "cancelled" ELSE outcome[t]]

(* Mutant of TaskFails: the task that failed stays charged. *)
TaskFailsCharged(t) ==
  /\ at = "collect" /\ Foremost(t) /\ outcome[t] # "ok"
  /\ PopFuture(t) /\ CancelPending
  /\ ready' = <<>> /\ arrived' = {}
  /\ dropped' = dropped \cup Range(ready) \cup {t}
  /\ at' = "free"
  /\ UNCHANGED <<seen, mem, completed, drained, held>>

(* A failed or cancelled future: everything ready is dropped, everything   *)
(* pending cancelled, and the task error is raised.                        *)
TaskFails(t) ==
  /\ at = "collect" /\ Foremost(t) /\ outcome[t] # "ok"
  /\ PopFuture(t) /\ CancelPending
  /\ mem' = [mem EXCEPT !.inflight = @ - Memory[t]]
  /\ ready' = <<>> /\ arrived' = {}
  /\ dropped' = dropped \cup Range(ready) \cup {t}
  /\ at' = "free"
  /\ UNCHANGED <<seen, completed, drained, held>>

DrainCompleted(then) ==
  /\ at = "free" /\ completed # {}
  /\ drained' = drained \cup completed /\ completed' = {}
  /\ mem' = [mem EXCEPT !.completed = 0]
  /\ at' = then
  /\ UNCHANGED <<seen, ready, inflight, outcome, arrived, dropped, held>>

(* The context is left: the pool waits for the tasks that run. *)
Shutdown ==
  /\ at = "free" /\ at' = "closing"
  /\ CancelPending
  /\ UNCHANGED <<seen, ready, inflight, arrived, completed, drained, dropped, held, mem>>

Closed ==
  /\ at \in {"closing", "closed"} /\ Unfinished = {}
  /\ at' = "closed" /\ UNCHANGED <<tasks, held, mem>>

Init ==
  /\ seen = {} /\ ready = <<>> /\ inflight = <<>>
  /\ outcome = [t \in Task |-> "none"]
  /\ arrived = {} /\ completed = {} /\ drained = {} /\ dropped = {}
  /\ held = <<>>
  /\ mem = [inflight |-> 0, completed |-> 0, reserved |-> 0]
  /\ at = "free"

Pool == \E t \in Task : Finish(t)

(* The steps of a call that is under way. *)
Inside ==
  \/ DispatchOne \/ DispatchEnd \/ WaitReturns \/ Arrive \/ CollectEnd
  \/ \E t \in Task : Collect(t) \/ TaskFails(t)

Next ==
  \/ Pool \/ Inside \/ WaitForCompletion \/ DispatchReady
  \/ \E t \in Task : Submit(t)
  \/ \E r \in Reservation : Release(r)
  \/ \E then \in {"free", "dispatch"} :
       \/ DrainCompleted(then)
       \/ \E r \in Reservation, amount \in Amounts : Reserve(r, amount, then)
  \/ Shutdown \/ Closed

Spec == Init /\ [][Next]_queue

-----------------------------------------------------------------------------
TypeOK ==
  /\ seen \subseteq Task /\ ready \in Seq(Task) /\ inflight \in Seq(Task)
  /\ outcome \in [Task -> {"none", "ok", "failed", "cancelled"}]
  /\ arrived \subseteq Task /\ completed \subseteq Task
  /\ drained \subseteq Task /\ dropped \subseteq Task
  /\ DOMAIN held \subseteq Reservation /\ \A r \in DOMAIN held : held[r] \in Amounts
  /\ mem \in [inflight : Int, completed : Int, reserved : Int]
  /\ at \in {"free", "dispatch", "admit", "waiting", "collect", "closing", "closed"}

(* Running tasks, results that nobody drained and reservations never take  *)
(* more than the budget, in whatever order the coordinator submits, waits, *)
(* drains and reserves (_admissible_ready_index, reserve_memory).          *)
AccountedFitsBudget == Accounted <= Budget

(* So many units for every member of S as f gives it. *)
Units(f, S) == UNION {{x} \X (1 .. f[x]) : x \in S}

(* The counters are what is really held, after failures too; a drift would *)
(* admit too much or starve the stage.                                     *)
AccountIsTrue ==
  /\ mem.inflight = Cardinality(Units(Memory, Range(inflight)))
  /\ mem.completed = Cardinality(Units(Memory, completed))
  /\ mem.reserved = Cardinality(Units(held, DOMAIN held))

(* Every submitted task is at exactly one place: ready, in flight, a result *)
(* that waits, handed over, or taken down by a failure.                    *)
TasksInOnePlace ==
  LET places == <<Range(ready), Range(inflight), completed, drained, dropped>> IN
  /\ seen = UNION Range(places)
  /\ Cardinality(seen) =
       Len(ready) + Len(inflight) + Cardinality(completed) + Cardinality(drained) + Cardinality(dropped)

(* However many futures end at once, the coordinator holds at most         *)
(* max_completed_tasks results (wait_for_completion).                      *)
ResultsBounded == Cardinality(completed) <= MaxCompleted

(* Whatever fails, is cancelled, comes at once or is never drained, no task *)
(* is lost or doubled and the results stay bounded (_dispatch,             *)
(* wait_for_completion, drain_completed).                                  *)
QueueIsExact == TypeOK /\ TasksInOnePlace /\ ResultsBounded

(* The wait raises the memory error only while a reservation is held: "RAM *)
(* reservations have blocked every task" (wait_for_completion).            *)
BlockedByReservation == Blocked => mem.reserved > 0

(* The counters of the queue are what is held, and only a reservation      *)
(* blocks (reserve_memory, wait_for_completion).                           *)
AccountIsExact == AccountIsTrue /\ BlockedByReservation

=============================================================================
