------------------------ MODULE FeasibilityScheduler ------------------------
(***************************************************************************)
(* The coordinator of the geometry pass that FEAS1 and MVIDX share         *)
(* (build_target_coverage_geometry): families are prepared and their       *)
(* witness blocks queried on the work queue, block results are reduced in  *)
(* canonical order, and a family is finalized once all of it is reduced.   *)
(***************************************************************************)
EXTENDS Integers, Sequences, FiniteSets

CONSTANTS
  Families,     \* how many families there are
  Blocks,       \* the witness blocks of each
  StateMemory,  \* state_memory: preparing a family, and keeping it
  BlockMemory,  \* querying one of its blocks
  FinalMemory,  \* finalization_memory_bytes
  Workers, Budget,
  Failures      \* whether a task may raise

Family == 1 .. Families

(* Nothing is intrinsically too large: one family alone fits the budget. *)
ASSUME SchedulerAssumption ==
  /\ Families \in Nat \ {0} /\ Blocks \in [Family -> Nat \ {0}]
  /\ {StateMemory, BlockMemory, FinalMemory} \subseteq [Family -> Nat \ {0}]
  /\ Workers \in Nat \ {0} /\ Budget \in Nat /\ Failures \in BOOLEAN
  /\ \A f \in Family : /\ StateMemory[f] + BlockMemory[f] <= Budget
                       /\ StateMemory[f] + FinalMemory[f] <= Budget

(* Task <<f, 0>> prepares family f, task <<f, b>> queries its block b. *)
Tasks == UNION {{f} \X (0 .. Blocks[f]) : f \in Family}
Estimate == [t \in Tasks |-> IF t[2] = 0 THEN StateMemory[t[1]] ELSE BlockMemory[t[1]]]
Earlier(t, u) == t[1] < u[1] \/ (t[1] = u[1] /\ t[2] < u[2])
CanonicalRank == [t \in Tasks |-> Cardinality({u \in Tasks : Earlier(u, t)})]
MaxPending == 2 * Workers

VARIABLES seen, ready, inflight, outcome, arrived, completed, drained, dropped, held, mem, at

VARIABLES
  step,         \* where the loop is
  again,        \* a second finalize and refill precede the next wait
  todo,         \* families this finalize pass has still to look at
  batch,        \* drained results the loop has not handled
  nextPrepare,  \* the next family to prepare
  preparing,    \* how many are being prepared
  states,       \* prepared families
  nextBlock,    \* how many blocks of a family were submitted
  flying,       \* how many of them did not come back
  buffer,       \* results its reducer keeps
  reduced,      \* the blocks it reduced, in that order
  pending,      \* families to finalize
  finished,     \* families with a result
  error         \* why the pass raised

Queue == INSTANCE WorkQueue WITH
  Task <- Tasks, Rank <- CanonicalRank, Memory <- Estimate,
  Reservation <- Family, Amounts <- 1 .. Budget,
  MaxReady <- MaxPending, MaxInflight <- MaxPending, MaxCompleted <- MaxPending

queue == <<seen, ready, inflight, outcome, arrived, completed, drained, dropped, held, mem, at>>
loop == <<step, again, todo, batch, nextPrepare, preparing, states, nextBlock,
          flying, buffer, reduced, pending, finished, error>>
vars == <<queue, loop>>

-----------------------------------------------------------------------------
Outstanding == Len(ready) + Len(inflight) + Cardinality(completed)
Buffered == Cardinality(UNION {{f} \X buffer[f] : f \in Family})

CanEnqueue == Len(ready) < MaxPending /\ Outstanding + Buffered < MaxPending + 2 * Workers

CanPrepare ==
  /\ nextPrepare <= Families /\ CanEnqueue
  /\ preparing < IF states = {} THEN Workers ELSE IF Workers < 16 THEN 1 ELSE Workers \div 8

(* Mutant of CanQuery: the last block of a family is forgotten. *)
CanQueryButLast(f) == f \in states /\ nextBlock[f] + 1 < Blocks[f] /\ CanEnqueue

CanQuery(f) == f \in states /\ nextBlock[f] < Blocks[f] /\ CanEnqueue

Refilling == step = "refill" /\ at = "free" /\ pending = {}

RefillPrepare ==
  /\ Refilling /\ CanPrepare
  /\ Queue!Submit(<<nextPrepare, 0>>)
  /\ nextPrepare' = nextPrepare + 1 /\ preparing' = preparing + 1
  /\ UNCHANGED <<step, again, todo, batch, states, nextBlock, flying, buffer,
                 reduced, pending, finished, error>>

(* The families take turns; which one is next does not matter here. *)
RefillBlock(f) ==
  /\ Refilling /\ ~CanPrepare /\ CanQuery(f)
  /\ Queue!Submit(<<f, nextBlock[f] + 1>>)
  /\ nextBlock' = [nextBlock EXCEPT ![f] = @ + 1]
  /\ flying' = [flying EXCEPT ![f] = @ + 1]
  /\ UNCHANGED <<step, again, todo, batch, nextPrepare, preparing, states, buffer,
                 reduced, pending, finished, error>>

(* After a batch the loop is entered anew, if a result is still missing. *)
RefillEnd ==
  /\ step = "refill" /\ at = "free"
  /\ pending # {} \/ (~CanPrepare /\ \A f \in Family : ~CanQuery(f))
  /\ step' = IF ~again THEN "wait" ELSE IF finished = Family THEN "done" ELSE "finalize"
  /\ todo' = pending /\ again' = FALSE
  /\ UNCHANGED <<queue, batch, nextPrepare, preparing, states, nextBlock, flying,
                 buffer, reduced, pending, finished, error>>

Raise(why) ==
  /\ step' = "failed" /\ error' = why
  /\ UNCHANGED <<again, todo, batch, nextPrepare, preparing, states, nextBlock, flying,
                 buffer, reduced, pending, finished>>

Goto(next) ==
  /\ step' = next
  /\ UNCHANGED <<again, todo, batch, nextPrepare, preparing, states, nextBlock, flying,
                 buffer, reduced, pending, finished, error>>

(* Mutant of Wait: without work the loop just goes round. *)
WaitForNothing ==
  /\ step = "wait" /\ at = "free"
  /\ IF Outstanding > 0
     THEN Queue!WaitForCompletion /\ Goto("waiting")
     ELSE UNCHANGED queue /\ Goto("finalize")

Wait ==
  /\ step = "wait" /\ at = "free"
  /\ IF Outstanding > 0
     THEN Queue!WaitForCompletion /\ Goto("waiting")
     ELSE /\ UNCHANGED queue
          /\ Raise(IF pending # {} THEN "finalization" ELSE "exhausted")

(* A heartbeat, or the queue's memory error. *)
WaitReturns ==
  /\ Queue!WaitReturns
  /\ IF Queue!Blocked THEN Raise("blocked")
     ELSE /\ step' = "finalize" /\ again' = FALSE /\ todo' = pending
          /\ UNCHANGED <<batch, nextPrepare, preparing, states, nextBlock, flying,
                         buffer, reduced, pending, finished, error>>

TaskRaises(t) == Queue!TaskFails(t) /\ Raise("task")

Drain ==
  /\ step = "waiting"
  /\ Queue!DrainCompleted("free")
  /\ step' = "batch" /\ batch' = completed
  /\ UNCHANGED <<again, todo, nextPrepare, preparing, states, nextBlock, flying,
                 buffer, reduced, pending, finished, error>>

Handled(t) == step = "batch" /\ at = "free" /\ t \in batch /\ \A u \in batch : ~Earlier(u, t)

(* The state of a prepared family is reserved; what its preparation was    *)
(* charged has gone with the drain.                                        *)
HandlePrepared(f) ==
  /\ Handled(<<f, 0>>)
  /\ IF StateMemory[f] <= Queue!Available
     THEN /\ Queue!Reserve(f, StateMemory[f], "dispatch")
          /\ batch' = batch \ {<<f, 0>>}
          /\ preparing' = preparing - 1 /\ states' = states \cup {f}
          /\ UNCHANGED <<step, again, todo, nextPrepare, nextBlock, flying, buffer,
                         reduced, pending, finished, error>>
     ELSE UNCHANGED queue /\ Raise("reservation")

(* Reducing block b of family f leaves last blocks reduced. *)
Reduction(f, b, last) ==
  /\ reduced' = [reduced EXCEPT ![f] = @ \o [k \in 1 .. last - Len(@) |-> Len(@) + k]]
  /\ buffer' = [buffer EXCEPT ![f] = (@ \cup {b}) \ 1 .. last]

(* Mutant of Push: a result is reduced when it arrives. *)
PushOnArrival(f, b) ==
  /\ reduced' = [reduced EXCEPT ![f] = Append(@, b)]
  /\ UNCHANGED buffer

(* DeterministicOrderedReducer.push: everything that is next is committed. *)
Push(f, b) ==
  LET have == buffer[f] \cup {b} IN
  \E last \in Len(reduced[f]) .. Blocks[f] :
    /\ (Len(reduced[f]) + 1) .. last \subseteq have /\ last + 1 \notin have
    /\ Reduction(f, b, last)

HandleBlock(f, b) ==
  /\ b > 0 /\ Handled(<<f, b>>)
  /\ batch' = batch \ {<<f, b>>}
  /\ flying' = [flying EXCEPT ![f] = @ - 1]
  /\ Push(f, b)
  /\ pending' = IF Len(reduced'[f]) = Blocks[f] /\ nextBlock[f] = Blocks[f] /\ flying'[f] = 0
                THEN pending \cup {f} ELSE pending
  /\ Queue!DispatchReady
  /\ UNCHANGED <<step, again, todo, nextPrepare, preparing, states, nextBlock, finished, error>>

BatchEnd ==
  /\ step = "batch" /\ at = "free" /\ batch = {}
  /\ step' = "finalize" /\ again' = TRUE /\ todo' = pending
  /\ UNCHANGED <<queue, batch, nextPrepare, preparing, states, nextBlock, flying,
                 buffer, reduced, pending, finished, error>>

Foremost(f) == step = "finalize" /\ at = "free" /\ f \in todo /\ \A g \in todo : f <= g

(* The scratch memory is reserved and released again within the step.       *)
Finalize(f) ==
  /\ Foremost(f) /\ FinalMemory[f] <= Queue!Available
  /\ Queue!Release(f)
  /\ finished' = finished \cup {f} /\ pending' = pending \ {f}
  /\ states' = states \ {f} /\ todo' = todo \ {f}
  /\ UNCHANGED <<step, again, batch, nextPrepare, preparing, nextBlock, flying,
                 buffer, reduced, error>>

(* _finalize_family raises; its scratch memory is released. *)
FinalizeRaises(f) ==
  /\ Failures /\ Foremost(f) /\ FinalMemory[f] <= Queue!Available
  /\ Queue!DispatchReady /\ Raise("task")

FinalizeLater(f) ==
  /\ Foremost(f) /\ FinalMemory[f] > Queue!Available
  /\ todo' = todo \ {f}
  /\ UNCHANGED <<queue, step, again, batch, nextPrepare, preparing, states, nextBlock,
                 flying, buffer, reduced, pending, finished, error>>

FinalizeEnd ==
  /\ step = "finalize" /\ at = "free" /\ todo = {}
  /\ Goto("refill") /\ UNCHANGED queue

(* The pass is over and leaves the queue's context. *)
Leave ==
  /\ step \in {"done", "failed"} /\ Queue!Shutdown /\ UNCHANGED loop

Closed == Queue!Closed /\ UNCHANGED loop

Init ==
  /\ Queue!Init
  /\ step = "refill" /\ again = TRUE /\ todo = {} /\ batch = {}
  /\ nextPrepare = 1 /\ preparing = 0 /\ states = {}
  /\ nextBlock = [f \in Family |-> 0] /\ flying = [f \in Family |-> 0]
  /\ buffer = [f \in Family |-> {}] /\ reduced = [f \in Family |-> <<>>]
  /\ pending = {} /\ finished = {} /\ error = "none"

(* Steps of the queue that the loop does not see. *)
QueueStep ==
  /\ \/ Queue!DispatchOne \/ Queue!DispatchEnd \/ Queue!Arrive \/ Queue!CollectEnd
     \/ \E t \in Tasks : Queue!Collect(t)
  /\ UNCHANGED loop

Coordinator ==
  \/ QueueStep \/ RefillPrepare \/ RefillEnd \/ Wait \/ WaitReturns \/ Drain
  \/ BatchEnd \/ FinalizeEnd \/ Leave \/ Closed
  \/ \E t \in Tasks : TaskRaises(t)
  \/ \E f \in Family :
       \/ RefillBlock(f) \/ HandlePrepared(f) \/ \E b \in 1 .. Blocks[f] : HandleBlock(f, b)
       \/ Finalize(f) \/ FinalizeRaises(f) \/ FinalizeLater(f)

(* The function of a task returns or, where Failures allow it, raises. *)
WorkerStep ==
  /\ \E t \in Tasks : Queue!Finish(t) /\ (outcome'[t] = "failed" => Failures)
  /\ UNCHANGED loop

Next == Coordinator \/ WorkerStep

Spec == Init /\ [][Next]_vars

(* Every submitted function returns, and the coordinating thread runs. *)
FairSpec == Spec /\ WF_vars(Coordinator) /\ WF_vars(WorkerStep)

-----------------------------------------------------------------------------
TypeOK ==
  /\ Queue!TypeOK
  /\ step \in {"refill", "wait", "waiting", "batch", "finalize", "done", "failed"}
  /\ again \in BOOLEAN /\ batch \subseteq Tasks
  /\ {todo, states, pending, finished} \subseteq SUBSET Family
  /\ nextPrepare \in 1 .. Families + 1 /\ preparing \in 0 .. Families
  /\ {nextBlock, flying} \subseteq [Family -> Nat]
  /\ buffer \in [Family -> SUBSET Nat] /\ reduced \in [Family -> Seq(Nat)]
  /\ error \in {"none", "task", "reservation", "blocked", "finalization", "exhausted"}

(* Whatever the workers do, each family is reduced in canonical order and  *)
(* finalized once, from all of its blocks (DeterministicOrderedReducer,    *)
(* build_target_coverage_geometry): the floating-point sums do not depend  *)
(* on completion order.                                                    *)
Ordered == INSTANCE OrderedReduction
ReducesInOrder == Ordered!Spec

(* The loop never runs out of work while a result is missing (refill): the *)
(* error that says so is raised with all results there, or not at all.     *)
WorkLasts == error = "exhausted" => finished = Family

(* "FEAS1 scheduler exhausted work before every family completed."          *)
ExhaustedMeansMissing == error = "exhausted" => finished # Family

(* Queued tasks, running tasks and results, those that wait in a reducer   *)
(* for an earlier block included, are bounded (can_enqueue).               *)
HeldResultsBounded == Outstanding + Buffered + Cardinality(batch) <= MaxPending + 2 * Workers

(* A prepared family is charged until its result exists, and nothing else  *)
(* stays charged.                                                          *)
StatesAreCharged ==
  /\ DOMAIN held = states
  /\ Queue!AccountedFitsBudget /\ Queue!AccountIsTrue

(* The pass ends, with every result or with an error. *)
PassEnds == <>(at = "closed")

=============================================================================
