-------------------- MODULE MCFeasibilityTraining_proofs --------------------
(***************************************************************************)
(* The geometry pass implements OrderedReduction, for any families, block  *)
(* counts, memory estimates, workers and budget; and a wave of training    *)
(* runs keeps each run in one place, for any number of runs and samples.   *)
(***************************************************************************)
EXTENDS MCFeasibilityTraining, FiniteSetTheorems, SequenceTheorems, TLAPS

(* The numbers 1 .. n in their order. *)
UpTo(n) == [b \in 1 .. n |-> b]

(* All blocks of f were submitted and are reduced, and none is counted as in *)
(* the air.  At most zero is enough: a count that is not zero schedules no *)
(* finalization, so the argument need not say where in the queue tasks are. *)
Exhausted(f) == Len(reduced[f]) = Blocks[f] /\ nextBlock[f] = Blocks[f] /\ flying[f] <= 0

Progress ==
  /\ nextBlock \in [Family -> Nat] /\ flying \in [Family -> Int]
  /\ reduced \in [Family -> Seq(Nat)]
  /\ todo \subseteq pending /\ pending \subseteq Family /\ finished \subseteq Family
  /\ \A f \in Family : Len(reduced[f]) <= Blocks[f] /\ reduced[f] = UpTo(Len(reduced[f]))
  /\ pending \cap finished = {}
  /\ \A f \in pending \cup finished : Exhausted(f)

orderVars == <<reduced, finished>>

(* Appending the next numbers to 1 .. n gives 1 .. last. *)
LEMMA UpToGrows ==
  ASSUME NEW s \in Seq(Nat), s = UpTo(Len(s)), NEW last \in Nat, Len(s) <= last
  PROVE  s \o [k \in 1 .. last - Len(s) |-> Len(s) + k] = UpTo(last)
<1> DEFINE n == Len(s)
           t == [k \in 1 .. last - n |-> n + k]
<1>1. n \in Nat /\ last - n \in Nat
  OBVIOUS
<1>2. t \in Seq(Nat) /\ Len(t) = last - n
  BY <1>1
<1>3. Len(s \o t) = last /\ s \o t \in Seq(Nat)
  BY <1>1, <1>2
<1>4. ASSUME NEW b \in 1 .. last PROVE (s \o t)[b] = b
  <2>1. CASE b <= n
    <3>1. (s \o t)[b] = s[b] BY <1>1, <1>2, <2>1
    <3> QED BY <1>1, <2>1, <3>1 DEF UpTo
  <2>2. CASE b > n
    <3>1. (s \o t)[b] = t[b - n] BY <1>1, <1>2, <2>2
    <3> QED BY <1>1, <2>2, <3>1
  <2> QED BY <1>1, <2>1, <2>2
<1>5. s \o t = [b \in 1 .. last |-> (s \o t)[b]]
  BY <1>3
<1> QED BY <1>4, <1>5 DEF UpTo

LEMMA UpToLen == ASSUME NEW n \in Nat PROVE UpTo(n) \in Seq(Nat) /\ Len(UpTo(n)) = n
BY DEF UpTo

LEMMA InitProgress == Init => Progress /\ Ordered!Init
<1> SUFFICES ASSUME Init PROVE Progress /\ Ordered!Init
  OBVIOUS
<1>1. \A f \in Family : reduced[f] = <<>> /\ Blocks[f] \in Nat
  BY SchedulerAssumption DEF Init
<1>2. <<>> = UpTo(0) /\ Len(<<>>) = 0
  BY DEF UpTo
<1> QED BY <1>1, <1>2 DEF Init, Progress, Ordered!Init

(* Steps that do not reduce, finalize or submit a block. *)
LEMMA NothingReduced ==
  ASSUME Progress, UNCHANGED <<nextBlock, flying, reduced, pending, finished>>, todo' \subseteq pending
  PROVE  Progress' /\ UNCHANGED orderVars
BY DEF Progress, Exhausted, orderVars

LEMMA RefillBlockProgress ==
  ASSUME Progress, NEW f \in Family, RefillBlock(f)
  PROVE  Progress' /\ UNCHANGED orderVars
<1>1. /\ nextBlock[f] < Blocks[f] /\ Blocks[f] \in Nat
      /\ nextBlock' = [nextBlock EXCEPT ![f] = @ + 1] /\ flying' = [flying EXCEPT ![f] = @ + 1]
      /\ UNCHANGED <<todo, reduced, pending, finished>>
  BY SchedulerAssumption DEF RefillBlock, CanQuery
<1>2. f \notin pending \cup finished
  BY <1>1 DEF Progress, Exhausted
<1> QED BY <1>1, <1>2 DEF Progress, Exhausted, orderVars

(* A result is pushed: the family's reduced blocks grow to a longer prefix, *)
(* or stay; an exhausted family has no longer one.                         *)
LEMMA HandleBlockProgress ==
  ASSUME Progress, NEW f \in Family, NEW b \in 1 .. Blocks[f], HandleBlock(f, b)
  PROVE  Progress' /\ [Ordered!Next]_orderVars
<1>1. PICK last \in Len(reduced[f]) .. Blocks[f] :
        reduced' = [reduced EXCEPT ![f] = @ \o [k \in 1 .. last - Len(@) |-> Len(@) + k]]
  BY DEF HandleBlock, Push, Reduction
<1>2. Blocks[f] \in Nat /\ Len(reduced[f]) \in Nat /\ last \in Nat /\ Len(reduced[f]) <= last
  BY SchedulerAssumption DEF Progress
<1>3. reduced' = [reduced EXCEPT ![f] = UpTo(last)]
  BY <1>1, <1>2, UpToGrows DEF Progress
<1>4. UpTo(last) \in Seq(Nat) /\ Len(UpTo(last)) = last
  BY <1>2, UpToLen
<1>5. /\ flying' = [flying EXCEPT ![f] = @ - 1]
      /\ pending' = IF Len(reduced'[f]) = Blocks[f] /\ nextBlock[f] = Blocks[f] /\ flying'[f] = 0
                    THEN pending \cup {f} ELSE pending
      /\ UNCHANGED <<nextBlock, todo, finished>>
  BY DEF HandleBlock
<1>6. f \in pending \cup finished => last = Len(reduced[f]) /\ flying'[f] < 0
  BY <1>2, <1>5 DEF Progress, Exhausted
<1>7. /\ nextBlock' \in [Family -> Nat] /\ flying' \in [Family -> Int]
      /\ reduced' \in [Family -> Seq(Nat)]
      /\ \A g \in Family : Len(reduced'[g]) <= Blocks[g] /\ reduced'[g] = UpTo(Len(reduced'[g]))
  BY <1>2, <1>3, <1>4, <1>5 DEF Progress
<1>8. pending' \cap finished' = {}
  BY <1>5, <1>6 DEF Progress
<1>9. ASSUME NEW g \in pending' \cup finished' PROVE Exhausted(g)'
  <2>1. CASE g # f
    BY <1>3, <1>5, <2>1 DEF Progress, Exhausted
  <2>2. CASE g = f /\ f \in pending \cup finished
    BY <1>2, <1>3, <1>4, <1>5, <1>6, <2>2 DEF Progress, Exhausted
  <2>3. CASE g = f /\ f \notin pending \cup finished
    BY <1>2, <1>3, <1>4, <1>5, <2>3 DEF Progress, Exhausted
  <2> QED BY <2>1, <2>2, <2>3
<1>10. Progress'
  BY <1>5, <1>7, <1>8, <1>9 DEF Progress
<1>11. CASE last = Len(reduced[f])
  <2>1. reduced[f] = UpTo(last) BY <1>11 DEF Progress
  <2>2. reduced' = reduced BY <1>3, <2>1 DEF Progress
  <2> QED BY <1>5, <1>10, <2>2 DEF orderVars
<1>12. CASE last > Len(reduced[f])
  <2>1. f \notin finished /\ last \in 1 .. Blocks[f]
    BY <1>2, <1>6, <1>12
  <2>2. Ordered!Reduce(f, last)
    BY <1>3, <1>5, <1>12, <2>1 DEF Ordered!Reduce, UpTo
  <2> QED BY <1>10, <2>1, <2>2 DEF Ordered!Next
<1> QED BY <1>2, <1>10, <1>11, <1>12

LEMMA FinalizeProgress ==
  ASSUME Progress, NEW f \in Family, Finalize(f)
  PROVE  Progress' /\ Ordered!Next
<1>1. /\ f \in todo /\ finished' = finished \cup {f} /\ pending' = pending \ {f}
      /\ todo' = todo \ {f} /\ UNCHANGED <<nextBlock, flying, reduced>>
  BY DEF Finalize, Foremost
<1>2. f \in pending /\ f \notin finished /\ Exhausted(f)
  BY <1>1 DEF Progress
<1>3. Progress'
  BY <1>1, <1>2 DEF Progress, Exhausted
<1>4. Ordered!Finalize(f)
  BY <1>1, <1>2 DEF Ordered!Finalize, Exhausted
<1> QED BY <1>3, <1>4 DEF Ordered!Next

LEMMA StepProgress == Progress /\ [Next]_vars => Progress' /\ [Ordered!Next]_orderVars
<1> SUFFICES ASSUME Progress, [Next]_vars PROVE Progress' /\ [Ordered!Next]_orderVars
  OBVIOUS
<1>0. todo \subseteq pending BY DEF Progress
<1>1. CASE QueueStep \/ Leave \/ Closed \/ WorkerStep \/ UNCHANGED vars
  BY <1>0, <1>1, NothingReduced DEF QueueStep, Leave, Closed, WorkerStep, vars, loop
<1>2. CASE RefillPrepare \/ RefillEnd \/ Wait \/ WaitReturns \/ Drain \/ BatchEnd \/ FinalizeEnd
  BY <1>0, <1>2, NothingReduced
  DEF RefillPrepare, RefillEnd, Wait, WaitReturns, Drain, BatchEnd, FinalizeEnd, Raise, Goto
<1>3. CASE \E t \in Tasks : TaskRaises(t)
  BY <1>0, <1>3, NothingReduced DEF TaskRaises, Raise
<1>4. ASSUME NEW f \in Family, HandlePrepared(f) \/ FinalizeRaises(f) \/ FinalizeLater(f)
      PROVE Progress' /\ [Ordered!Next]_orderVars
  BY <1>0, <1>4, NothingReduced DEF HandlePrepared, FinalizeRaises, FinalizeLater, Raise
<1> QED
  BY <1>1, <1>2, <1>3, <1>4, RefillBlockProgress, HandleBlockProgress, FinalizeProgress
  DEF Next, Coordinator

(* However the pool reorders tasks, whatever memory allows and whatever    *)
(* raises, blocks are reduced in canonical order and each once, and a family *)
(* is finalized once, from all of its blocks.                              *)
THEOREM GeometryIsOrdered == Spec => ReducesInOrder
<1> USE DEF orderVars
<1> QED BY InitProgress, StepProgress, PTL DEF Spec, ReducesInOrder, Ordered!Spec

-----------------------------------------------------------------------------
(* The queue of the pass is the queue whose theorems WorkQueue_proofs has. *)
QueueProven == INSTANCE WorkQueue_proofs WITH
  Task <- Tasks, Rank <- CanonicalRank, Memory <- Estimate,
  Reservation <- Family, Amounts <- 1 .. Budget,
  MaxReady <- MaxPending, MaxInflight <- MaxPending, MaxCompleted <- MaxPending

LEMMA CardinalityAlike ==
  /\ \A S : Queue!Cardinality(S) = Cardinality(S) /\ QueueProven!Cardinality(S) = Cardinality(S)
  /\ \A S : QueueProven!IsFiniteSet(S) <=> IsFiniteSet(S)
BY DEF Queue!Cardinality, QueueProven!Cardinality, Cardinality, IsFiniteSet, QueueProven!IsFiniteSet,
       Queue!IsFiniteSet

LEMMA TaskParts ==
  /\ \A t \in Tasks : t = <<t[1], t[2]>> /\ t[1] \in Family /\ t[2] \in 0 .. Blocks[t[1]]
  /\ \A f \in Family : \A b \in 0 .. Blocks[f] : <<f, b>> \in Tasks
BY DEF Tasks

LEMMA TasksFinite == IsFiniteSet(Tasks)
<1> DEFINE Own(f) == {f} \X (0 .. Blocks[f])
           own == [f \in Family |-> Own(f)]
           All == {Own(f) : f \in Family}
<1>1. IsFiniteSet(Family)
  BY SchedulerAssumption, FS_Interval DEF Family
<1>2. ASSUME NEW f \in Family PROVE IsFiniteSet(Own(f))
  <2>0. 0 \in Int /\ Blocks[f] \in Int BY SchedulerAssumption
  <2>1. IsFiniteSet(0 .. Blocks[f]) BY <2>0, FS_Interval
  <2>2. IsFiniteSet({f}) BY FS_Singleton
  <2> QED BY <2>1, <2>2, FS_Product
<1>3. own \in Surjection(Family, All)
  BY DEF Surjection
<1> HIDE DEF own
<1>4. IsFiniteSet(All)
  BY <1>1, <1>3, FS_Surjection
<1>5. IsFiniteSet(UNION All)
  BY <1>2, <1>4, FS_UNION
<1> QED BY <1>5 DEF Tasks

(* The canonical rank tells tasks apart: a task has more before it than    *)
(* any that is before it.                                                  *)
LEMMA RanksDiffer ==
  /\ CanonicalRank \in [Tasks -> Nat]
  /\ \A t, u \in Tasks : CanonicalRank[t] = CanonicalRank[u] => t = u
<1> DEFINE Prior(t) == {u \in Tasks : Earlier(u, t)}
<1>1. \A t \in Tasks : t[1] \in Int /\ t[2] \in Int /\ t = <<t[1], t[2]>>
  BY TaskParts, SchedulerAssumption DEF Family
<1>2. ASSUME NEW t \in Tasks PROVE IsFiniteSet(Prior(t)) /\ Cardinality(Prior(t)) \in Nat
  BY TasksFinite, FS_Subset, FS_CardinalityType
<1>3. ASSUME NEW t \in Tasks, NEW u \in Tasks, Earlier(t, u)
      PROVE  Cardinality(Prior(t)) < Cardinality(Prior(u))
  <2>1. Prior(t) \cup {t} \subseteq Prior(u) /\ t \notin Prior(t)
    BY <1>1, <1>3 DEF Earlier
  <2> HIDE DEF Prior
  <2>2. Cardinality(Prior(t) \cup {t}) = Cardinality(Prior(t)) + 1
    BY <1>2, <2>1, FS_AddElement
  <2>3. Cardinality(Prior(t) \cup {t}) <= Cardinality(Prior(u))
    BY <1>2, <2>1, FS_Subset
  <2> QED BY <1>2, <2>2, <2>3
<1>4. ASSUME NEW t \in Tasks, NEW u \in Tasks, t # u PROVE Earlier(t, u) \/ Earlier(u, t)
  BY <1>1, <1>4 DEF Earlier
<1>5. CanonicalRank = [t \in Tasks |-> Cardinality(Prior(t))]
  BY DEF CanonicalRank
<1> HIDE DEF Prior
<1>6. CanonicalRank \in [Tasks -> Nat] /\ \A t \in Tasks : CanonicalRank[t] = Cardinality(Prior(t))
  BY <1>2, <1>5
<1>7. ASSUME NEW t \in Tasks, NEW u \in Tasks, CanonicalRank[t] = CanonicalRank[u] PROVE t = u
  BY <1>2, <1>3, <1>4, <1>6, <1>7
<1> QED BY <1>6, <1>7

LEMMA QueueIsAssumed == QueueProven!QueueAssumption
<1>1. Estimate \in [Tasks -> Nat]
  BY TaskParts, SchedulerAssumption DEF Estimate
<1>2. MaxPending \in Nat \ {0}
  BY SchedulerAssumption DEF MaxPending
<1> QED BY <1>1, <1>2, RanksDiffer, SchedulerAssumption DEF QueueProven!QueueAssumption

-----------------------------------------------------------------------------
(* Every step of the pass is a step of that queue, or leaves it alone.     *)

LEMMA QueueValuesAlike ==
  /\ Queue!Accounted = QueueProven!Accounted /\ Queue!Available = QueueProven!Available
  /\ Queue!Unfinished = QueueProven!Unfinished /\ Queue!Running = QueueProven!Running
  /\ Queue!Done = QueueProven!Done
  /\ (Queue!Room <=> QueueProven!Room)
  /\ \A i : Queue!Fits(i) <=> QueueProven!Fits(i)
  /\ \A f, S : Queue!Units(f, S) = QueueProven!Units(f, S)
  /\ \A s : Queue!Range(s) = QueueProven!Range(s)
<1>1. Queue!Accounted = QueueProven!Accounted /\ Queue!Available = QueueProven!Available
  BY DEF Queue!Accounted, QueueProven!Accounted, Queue!Available, QueueProven!Available
<1>2. Queue!Unfinished = QueueProven!Unfinished
  BY DEF Queue!Unfinished, QueueProven!Unfinished
<1>3. Queue!Running = QueueProven!Running
  BY <1>2, CardinalityAlike DEF Queue!Running, QueueProven!Running
<1>4. \A s : Queue!Range(s) = QueueProven!Range(s)
  BY DEF Queue!Range, QueueProven!Range
<1>5. Queue!Done = QueueProven!Done
  BY <1>4 DEF Queue!Done, QueueProven!Done
<1>6. Queue!Room <=> QueueProven!Room
  BY CardinalityAlike DEF Queue!Room, QueueProven!Room
<1>7. \A i : Queue!Fits(i) <=> QueueProven!Fits(i)
  BY <1>1 DEF Queue!Fits, QueueProven!Fits
<1>8. \A f, S : Queue!Units(f, S) = QueueProven!Units(f, S)
  BY DEF Queue!Units, QueueProven!Units
<1> QED BY <1>1, <1>2, <1>3, <1>4, <1>5, <1>6, <1>7, <1>8

LEMMA FailsAlike == ASSUME NEW t \in Tasks, Queue!TaskFails(t) PROVE QueueProven!TaskFails(t)
<1>1. Queue!Foremost(t) => QueueProven!Foremost(t)
  BY DEF Queue!Foremost, QueueProven!Foremost
<1>2. Queue!PopFuture(t) => QueueProven!PopFuture(t)
  BY DEF Queue!PopFuture, QueueProven!PopFuture, Queue!RemoveAt, QueueProven!RemoveAt
<1>3. Queue!CancelPending => QueueProven!CancelPending
  BY QueueValuesAlike DEF Queue!CancelPending, QueueProven!CancelPending
<1> QED BY <1>1, <1>2, <1>3, QueueValuesAlike DEF Queue!TaskFails, QueueProven!TaskFails

LEMMA DispatchAlike ==
  /\ Queue!DispatchOne => QueueProven!DispatchOne
  /\ Queue!DispatchEnd => QueueProven!DispatchEnd
<1>1. Queue!Room <=> QueueProven!Room BY QueueValuesAlike
<1>2. \A i : Queue!Fits(i) <=> QueueProven!Fits(i) BY QueueValuesAlike
<1>3. Queue!DispatchOne => QueueProven!DispatchOne
  BY <1>1, <1>2
     DEF Queue!DispatchOne, QueueProven!DispatchOne, Queue!Dispatching, QueueProven!Dispatching,
         Queue!RemoveAt, QueueProven!RemoveAt
<1>4. Queue!DispatchEnd => QueueProven!DispatchEnd
  BY <1>1, <1>2
     DEF Queue!DispatchEnd, QueueProven!DispatchEnd, Queue!Dispatching, QueueProven!Dispatching,
         Queue!tasks, QueueProven!tasks
<1> QED BY <1>3, <1>4

LEMMA ArriveAlike == Queue!Arrive => QueueProven!Arrive
<1>1. Queue!Done = QueueProven!Done BY QueueValuesAlike
<1>2. \A n : Queue!Arrival(n) => QueueProven!Arrival(n)
  BY <1>1, CardinalityAlike DEF Queue!Arrival, QueueProven!Arrival
<1>3. Queue!Cardinality(completed) = QueueProven!Cardinality(completed) BY CardinalityAlike
<1> QED BY <1>2, <1>3 DEF Queue!Arrive, QueueProven!Arrive

LEMMA ReturnsAlike ==
  /\ Queue!CollectEnd => QueueProven!CollectEnd
  /\ Queue!WaitReturns => QueueProven!WaitReturns
<1>1. Queue!Done = QueueProven!Done BY QueueValuesAlike
<1>2. Queue!CollectEnd => QueueProven!CollectEnd
  BY DEF Queue!CollectEnd, QueueProven!CollectEnd, Queue!tasks, QueueProven!tasks
<1>3. Queue!WaitReturns => QueueProven!WaitReturns
  BY <1>1 DEF Queue!WaitReturns, QueueProven!WaitReturns, Queue!tasks, QueueProven!tasks
<1> QED BY <1>2, <1>3

LEMMA CollectAlike == ASSUME NEW t, Queue!Collect(t) PROVE QueueProven!Collect(t)
BY DEF Queue!Collect, QueueProven!Collect, Queue!Foremost, QueueProven!Foremost, Queue!PopFuture,
       QueueProven!PopFuture, Queue!RemoveAt, QueueProven!RemoveAt

(* What the coordinator calls. *)
LEMMA CallsAlike ==
  /\ \A t : Queue!Submit(t) => QueueProven!Submit(t)
  /\ \A r, n, then : Queue!Reserve(r, n, then) => QueueProven!Reserve(r, n, then)
  /\ \A r : Queue!Release(r) => QueueProven!Release(r)
  /\ \A then : Queue!DrainCompleted(then) => QueueProven!DrainCompleted(then)
  /\ \A t : Queue!Finish(t) => QueueProven!Finish(t)
  /\ Queue!DispatchReady => QueueProven!DispatchReady
  /\ Queue!WaitForCompletion => QueueProven!WaitForCompletion
  /\ Queue!Shutdown => QueueProven!Shutdown
  /\ Queue!Closed => QueueProven!Closed
<1>1. \A t : Queue!Submit(t) => QueueProven!Submit(t)
  BY DEF Queue!Submit, QueueProven!Submit, Queue!Queued, QueueProven!Queued
<1>2. \A r, n, then : Queue!Reserve(r, n, then) => QueueProven!Reserve(r, n, then)
  BY QueueValuesAlike
     DEF Queue!Reserve, QueueProven!Reserve, Queue!Reserved, QueueProven!Reserved, Queue!tasks,
         QueueProven!tasks
<1>3. \A r : Queue!Release(r) => QueueProven!Release(r)
  BY DEF Queue!Release, QueueProven!Release, Queue!tasks, QueueProven!tasks
<1>4. \A then : Queue!DrainCompleted(then) => QueueProven!DrainCompleted(then)
  BY DEF Queue!DrainCompleted, QueueProven!DrainCompleted
<1>5. \A t : Queue!Finish(t) => QueueProven!Finish(t)
  BY QueueValuesAlike DEF Queue!Finish, QueueProven!Finish
<1>6. /\ Queue!DispatchReady => QueueProven!DispatchReady
      /\ Queue!WaitForCompletion => QueueProven!WaitForCompletion
  BY DEF Queue!DispatchReady, QueueProven!DispatchReady, Queue!WaitForCompletion,
         QueueProven!WaitForCompletion, Queue!tasks, QueueProven!tasks
<1>7. Queue!Shutdown => QueueProven!Shutdown
  BY QueueValuesAlike
     DEF Queue!Shutdown, QueueProven!Shutdown, Queue!CancelPending, QueueProven!CancelPending
<1>8. Queue!Closed => QueueProven!Closed
  BY QueueValuesAlike DEF Queue!Closed, QueueProven!Closed, Queue!tasks, QueueProven!tasks
<1> QED BY <1>1, <1>2, <1>3, <1>4, <1>5, <1>6, <1>7, <1>8

Counting == nextPrepare \in Nat \ {0} /\ nextBlock \in [Family -> Nat]

LEMMA StepsOfTheQueue ==
  Counting /\ [Next]_vars => Counting' /\ [QueueProven!Next]_(QueueProven!queue)
<1> SUFFICES ASSUME Counting, [Next]_vars
             PROVE  Counting' /\ (QueueProven!Next \/ UNCHANGED QueueProven!queue)
  OBVIOUS
<1> DEFINE Goal == QueueProven!Next \/ UNCHANGED QueueProven!queue
<1>0. UNCHANGED queue => Goal
  BY DEF queue, QueueProven!queue, QueueProven!tasks
<1>1. CASE QueueStep \/ WaitReturns \/ \E t \in Tasks : TaskRaises(t)
  <2>1. UNCHANGED <<nextPrepare, nextBlock>>
    BY <1>1 DEF QueueStep, WaitReturns, TaskRaises, Raise, loop
  <2> QED
    BY <1>1, <2>1, DispatchAlike, ArriveAlike, ReturnsAlike, CollectAlike, FailsAlike
    DEF QueueStep, WaitReturns, TaskRaises, QueueProven!Next, QueueProven!Inside, Counting
<1>2. CASE WorkerStep
  BY <1>2, CallsAlike DEF WorkerStep, QueueProven!Next, QueueProven!Pool, loop, Counting
<1>3. CASE RefillPrepare
  <2>1. nextPrepare \in Family /\ <<nextPrepare, 0>> \in Tasks
    BY <1>3, TaskParts, SchedulerAssumption DEF RefillPrepare, CanPrepare, Family, Counting
  <2>2. QueueProven!Submit(<<nextPrepare, 0>>)
    BY <1>3, CallsAlike DEF RefillPrepare
  <2>3. \E t \in Tasks : QueueProven!Submit(t)
    BY <2>1, <2>2, Zenon
  <2>4. QueueProven!Next
    BY <2>3 DEF QueueProven!Next
  <2> QED BY <1>3, <2>4 DEF RefillPrepare, Counting
<1>4. ASSUME NEW f \in Family, RefillBlock(f) PROVE Goal /\ Counting'
  <2>1. nextBlock[f] < Blocks[f] /\ nextBlock[f] \in Nat /\ Blocks[f] \in Nat
    BY <1>4, SchedulerAssumption DEF RefillBlock, CanQuery, Counting
  <2>2. nextBlock[f] + 1 \in 0 .. Blocks[f] /\ nextBlock[f] + 1 \in Nat
    BY <2>1
  <2>3. <<f, nextBlock[f] + 1>> \in Tasks
    BY <2>2, TaskParts
  <2>4. QueueProven!Submit(<<f, nextBlock[f] + 1>>)
    BY <1>4, CallsAlike DEF RefillBlock
  <2>5. \E t \in Tasks : QueueProven!Submit(t)
    BY <2>3, <2>4, Zenon
  <2>6. Counting'
    BY <1>4, <2>2 DEF RefillBlock, Counting
  <2> QED BY <2>5, <2>6 DEF QueueProven!Next
<1>5. CASE Wait \/ Drain \/ Leave \/ Closed
  <2>1. UNCHANGED <<nextPrepare, nextBlock>>
    BY <1>5 DEF Wait, Drain, Leave, Closed, Raise, Goto, loop
  <2>2. Goal
    BY <1>0, <1>5, CallsAlike DEF Wait, Drain, Leave, Closed, QueueProven!Next
  <2> QED BY <2>1, <2>2 DEF Counting
<1>6. ASSUME NEW f \in Family, HandlePrepared(f) PROVE Goal /\ Counting'
  <2>1. StateMemory[f] \in 1 .. Budget BY SchedulerAssumption
  <2>2. UNCHANGED <<nextPrepare, nextBlock>> BY <1>6 DEF HandlePrepared, Raise
  <2>3. CASE UNCHANGED queue BY <1>0, <2>2, <2>3 DEF Counting
  <2>4. CASE Queue!Reserve(f, StateMemory[f], "dispatch")
    <3>1. QueueProven!Reserve(f, StateMemory[f], "dispatch") BY <2>4, CallsAlike
    <3> QED BY <2>1, <2>2, <3>1 DEF QueueProven!Next, Counting
  <2> QED BY <1>6, <2>3, <2>4 DEF HandlePrepared
<1>7. ASSUME NEW f \in Family,
             Finalize(f) \/ FinalizeRaises(f) \/ FinalizeLater(f) \/ \E b \in 1 .. Blocks[f] : HandleBlock(f, b)
      PROVE  Goal /\ Counting'
  <2>1. UNCHANGED <<nextPrepare, nextBlock>>
    BY <1>7 DEF Finalize, FinalizeRaises, FinalizeLater, HandleBlock, Raise
  <2>2. UNCHANGED queue \/ Queue!DispatchReady \/ Queue!Release(f)
    BY <1>7 DEF Finalize, FinalizeRaises, FinalizeLater, HandleBlock
  <2>3. Goal BY <1>0, <2>2, CallsAlike DEF QueueProven!Next
  <2> QED BY <2>1, <2>3 DEF Counting
<1>8. CASE RefillEnd \/ BatchEnd \/ FinalizeEnd \/ UNCHANGED vars
  <2>1. UNCHANGED <<queue, nextPrepare, nextBlock>>
    BY <1>8 DEF RefillEnd, BatchEnd, FinalizeEnd, Goto, vars, loop
  <2> QED BY <1>0, <2>1 DEF Counting
<1> QED
  BY <1>1, <1>2, <1>3, <1>4, <1>5, <1>6, <1>7, <1>8 DEF Next, Coordinator

LEMMA PassUsesTheQueue ==
  Spec => [](QueueProven!Account /\ QueueProven!Exact /\ QueueProven!Charged)
<1>1. Init => Counting /\ QueueProven!Init
  BY DEF Init, Counting, Queue!Init, QueueProven!Init
<1>2. Counting /\ [Next]_vars => Counting' /\ [QueueProven!Next]_(QueueProven!queue)
  BY StepsOfTheQueue
<1>3. Spec => QueueProven!Spec
  BY <1>1, <1>2, PTL DEF Spec, QueueProven!Spec
<1>4. QueueProven!Spec => [](QueueProven!Account /\ QueueProven!Exact /\ QueueProven!Charged)
  BY QueueIsAssumed, QueueProven!QueueKept
<1> QED BY <1>3, <1>4, PTL

(* What the pass knows of its queue: how much is outstanding follows from  *)
(* what was submitted, handed over and dropped.                            *)
OfTheQueue ==
  /\ Queue!TypeOK /\ Queue!AccountedFitsBudget /\ Queue!AccountIsTrue
  /\ IsFiniteSet(seen) /\ IsFiniteSet(completed) /\ IsFiniteSet(drained) /\ IsFiniteSet(dropped)
  /\ completed \cup drained \cup dropped \subseteq seen /\ completed \cap drained = {}
  /\ Len(ready) \in Nat /\ Len(inflight) \in Nat /\ Outstanding \in Nat
  /\ Outstanding = Cardinality(seen) - Cardinality(drained) - Cardinality(dropped)
  /\ Outstanding = 0 => seen = drained \cup dropped

LEMMA QueueKnown ==
  QueueProven!Account /\ QueueProven!Exact /\ QueueProven!Charged => OfTheQueue
<1> SUFFICES ASSUME QueueProven!Account, QueueProven!Exact, QueueProven!Charged PROVE OfTheQueue
  OBVIOUS
<1>1. Queue!TypeOK
  BY DEF QueueProven!Exact, QueueProven!TypeOK, Queue!TypeOK
<1>2. Queue!AccountedFitsBudget
  BY QueueValuesAlike DEF QueueProven!Account, QueueProven!AccountedFitsBudget, Queue!AccountedFitsBudget
<1>3. Queue!AccountIsTrue
  BY QueueValuesAlike, CardinalityAlike
     DEF QueueProven!Charged, QueueProven!AccountIsTrue, Queue!AccountIsTrue
<1>4. /\ seen = QueueProven!Range(ready) \cup QueueProven!Range(inflight) \cup completed \cup drained \cup dropped
      /\ completed \cap drained = {}
  BY DEF QueueProven!Exact, QueueProven!Apart
<1>5. seen \subseteq Tasks BY <1>1 DEF Queue!TypeOK
<1>6. /\ IsFiniteSet(seen) /\ IsFiniteSet(completed) /\ IsFiniteSet(drained) /\ IsFiniteSet(dropped)
      /\ completed \cup drained \cup dropped \subseteq seen
  BY <1>4, <1>5, TasksFinite, FS_Subset
<1>7. Cardinality(seen) = Len(ready) + Len(inflight) + Cardinality(completed)
                            + Cardinality(drained) + Cardinality(dropped)
  <2>1. QueueProven!TasksInOnePlace
    BY QueueIsAssumed, QueueProven!ExactCounts DEF QueueProven!QueueIsExact
  <2> QED BY <2>1, CardinalityAlike DEF QueueProven!TasksInOnePlace
<1>8. /\ Len(ready) \in Nat /\ Len(inflight) \in Nat
      /\ Cardinality(completed) \in Nat /\ Cardinality(drained) \in Nat /\ Cardinality(dropped) \in Nat
  BY <1>1, <1>6, FS_CardinalityType DEF Queue!TypeOK
<1>9. /\ Outstanding \in Nat
      /\ Outstanding = Cardinality(seen) - Cardinality(drained) - Cardinality(dropped)
  BY <1>7, <1>8 DEF Outstanding
<1>10. ASSUME Outstanding = 0 PROVE seen = drained \cup dropped
  <2>1. Len(ready) = 0 /\ Len(inflight) = 0 /\ Cardinality(completed) = 0
    BY <1>8, <1>10 DEF Outstanding
  <2>2. completed = {} BY <1>6, <2>1, FS_EmptySet
  <2>3. ready = <<>> /\ inflight = <<>> BY <1>1, <2>1 DEF Queue!TypeOK
  <2>4. QueueProven!Range(ready) = {} /\ QueueProven!Range(inflight) = {}
    BY <2>3 DEF QueueProven!Range
  <2> QED BY <1>4, <2>2, <2>4
<1> QED BY <1>1, <1>2, <1>3, <1>4, <1>6, <1>8, <1>9, <1>10 DEF OfTheQueue

-----------------------------------------------------------------------------
(* What the loop keeps account of.                                         *)

(* Tasks whose result was handled. *)
Back == drained \ batch

Preparing == {f \in Family : f < nextPrepare /\ <<f, 0>> \notin Back}
Flying(f) == {b \in 1 .. nextBlock[f] : <<f, b>> \notin Back}

(* The counters of the loop are what was submitted and did not come back. *)
Ledger ==
  /\ nextPrepare \in 1 .. Families + 1 /\ nextBlock \in [Family -> Nat]
  /\ \A f \in Family : nextBlock[f] <= Blocks[f] /\ (<<f, 0>> \in seen <=> f < nextPrepare)
  /\ \A f \in Family : \A b \in 1 .. Blocks[f] : <<f, b>> \in seen <=> b <= nextBlock[f]
  /\ batch \subseteq drained
  /\ preparing = Cardinality(Preparing)
  /\ flying \in [Family -> Nat] /\ \A f \in Family : flying[f] = Cardinality(Flying(f))

(* A reducer keeps the results that came back beyond a gap. *)
Reducers ==
  /\ buffer \in [Family -> SUBSET Nat]
  /\ \A f \in Family :
       /\ \A b \in 1 .. Len(reduced[f]) : <<f, b>> \in Back
       /\ buffer[f] = {b \in 1 .. Blocks[f] : b > Len(reduced[f]) /\ <<f, b>> \in Back}
       /\ Len(reduced[f]) + 1 \notin buffer[f]

(* A family is prepared, then finished; it is to be finalized from the     *)
(* moment that all of it is reduced.                                       *)
Stages ==
  /\ states \subseteq Family /\ finished \subseteq Family /\ states \cap finished = {}
  /\ \A f \in Family : <<f, 0>> \in Back <=> f \in states \cup finished
  /\ \A f \in Family : nextBlock[f] > 0 => <<f, 0>> \in Back
  /\ todo \subseteq pending /\ pending = {f \in states : Len(reduced[f]) = Blocks[f]}
  /\ \A f \in finished : Len(reduced[f]) = Blocks[f]
  /\ DOMAIN held = states

(* Nothing more can be submitted before something comes back. *)
Idle == pending # {} \/ (~CanPrepare /\ \A f \in Family : ~CanQuery(f))

(* Where the loop is when the queue is where it is. *)
Control ==
  /\ step \in {"refill", "wait", "waiting", "batch", "finalize", "done", "failed"}
  /\ error \in {"none", "task", "reservation", "blocked", "finalization", "exhausted"}
  /\ batch # {} => step \in {"batch", "failed"}
  /\ dropped # {} => step = "failed"
  /\ at \in {"admit", "waiting", "collect"} => step = "waiting"
  /\ at \in {"closing", "closed"} => step \in {"done", "failed"}
  /\ step = "wait" => at = "free" /\ Idle
  /\ error = "exhausted" => finished = Family

Bounded == Outstanding + Buffered + Cardinality(batch) <= MaxPending + 2 * Workers

Geometry ==
  Progress /\ OfTheQueue /\ Ledger /\ Reducers /\ Stages /\ Control /\ Bounded /\ again \in BOOLEAN

LEMMA FamilyFinite == IsFiniteSet(Family) /\ Cardinality(Family) = Families /\ Families \in Nat
<1>1. 1 \in Int /\ Families \in Int /\ Families \in Nat /\ Families > 0 BY SchedulerAssumption
<1>2. IsFiniteSet(1 .. Families)
      /\ Cardinality(1 .. Families) = IF 1 > Families THEN 0 ELSE Families - 1 + 1
  BY <1>1, FS_Interval
<1> QED BY <1>1, <1>2 DEF Family

LEMMA FamilyNumbers ==
  /\ Family \subseteq Nat /\ Families \in Nat
  /\ \A f \in Family : f <= Families
  /\ \A f \in Family : Blocks[f] \in Nat /\ Blocks[f] > 0
<1>1. Families \in Nat /\ \A f \in Family : Blocks[f] \in Nat /\ Blocks[f] > 0
  BY SchedulerAssumption
<1> QED BY <1>1 DEF Family

LEMMA SubmittedFinite ==
  ASSUME Ledger
  PROVE  /\ IsFiniteSet(Preparing)
         /\ \A f \in Family : IsFiniteSet(Flying(f))
<1>1. IsFiniteSet(Preparing) BY FamilyFinite, FS_Subset DEF Preparing
<1>2. ASSUME NEW f \in Family PROVE IsFiniteSet(Flying(f))
  <2>1. 1 \in Int /\ nextBlock[f] \in Int BY <1>2 DEF Ledger
  <2>2. IsFiniteSet(1 .. nextBlock[f]) BY <2>1, FS_Interval
  <2> QED BY <2>2, FS_Subset DEF Flying
<1> QED BY <1>1, <1>2

(* Results that wait in a reducer were handed over. *)
LEMMA BufferFinite ==
  ASSUME OfTheQueue, Reducers
  PROVE  LET B == UNION {{f} \X buffer[f] : f \in Family}
         IN  IsFiniteSet(B) /\ Buffered = Cardinality(B) /\ Buffered \in Nat
<1> DEFINE B == UNION {{f} \X buffer[f] : f \in Family}
<1>1. B \subseteq drained BY DEF Reducers, Back
<1>2. IsFiniteSet(B) BY <1>1, FS_Subset DEF OfTheQueue
<1> HIDE DEF B
<1>3. Buffered = Cardinality(B) BY DEF Buffered, B
<1> QED BY <1>2, <1>3, FS_CardinalityType DEF B

-----------------------------------------------------------------------------
(* Steps that submit nothing, handle nothing and finalize nothing.         *)

Standing ==
  /\ UNCHANGED <<seen, nextPrepare, nextBlock, preparing, flying, states, finished, reduced,
                 buffer, pending, held>>
  /\ Back' = Back /\ batch' \subseteq drained' /\ todo' \subseteq pending

LEMMA StandingKept ==
  ASSUME Ledger, Reducers, Stages, Standing
  PROVE  Ledger' /\ Reducers' /\ Stages'
<1>1. Preparing' = Preparing BY DEF Standing, Preparing
<1>2. \A f : Flying(f)' = Flying(f) BY DEF Standing, Flying
<1>3. Ledger' BY <1>1, <1>2 DEF Standing, Ledger
<1>4. Reducers' BY DEF Standing, Reducers
<1>5. Stages' BY DEF Standing, Stages
<1> QED BY <1>3, <1>4, <1>5

LEMMA QueueStands ==
  ASSUME Geometry, QueueStep \/ WorkerStep \/ UNCHANGED vars
  PROVE  Standing /\ UNCHANGED <<drained, dropped, batch, loop>>
<1>1. UNCHANGED <<seen, drained, dropped, held, loop>>
  BY DEF QueueStep, WorkerStep, vars, queue, Queue!DispatchOne, Queue!DispatchEnd, Queue!Arrive,
         Queue!Arrival, Queue!CollectEnd, Queue!Collect, Queue!Finish, Queue!tasks
<1> QED BY <1>1 DEF Standing, loop, Back, Geometry, Ledger, Stages

LEMMA LoopStands ==
  ASSUME Geometry, RefillEnd \/ Wait \/ BatchEnd \/ FinalizeEnd \/ Leave \/ Closed \/ WaitReturns
  PROVE  Standing /\ UNCHANGED <<drained, dropped, batch>>
<1>1. UNCHANGED <<seen, drained, dropped, held, nextPrepare, nextBlock, preparing, flying, states,
                  finished, reduced, buffer, pending, batch>> /\ todo' \subseteq pending
  BY DEF RefillEnd, Wait, BatchEnd, FinalizeEnd, Leave, Closed, WaitReturns, Goto, Raise, queue, loop,
         Queue!WaitForCompletion, Queue!Shutdown, Queue!Closed, Queue!WaitReturns, Queue!tasks,
         Geometry, Stages
<1> QED BY <1>1 DEF Standing, Back, Geometry, Ledger

LEMMA FailureStands ==
  ASSUME Geometry, NEW t \in Tasks, TaskRaises(t)
  PROVE  Standing /\ UNCHANGED <<drained, batch>> /\ dropped \subseteq dropped'
<1>1. UNCHANGED <<seen, drained, held, nextPrepare, nextBlock, preparing, flying, states,
                  finished, reduced, buffer, pending, batch, todo>> /\ dropped \subseteq dropped'
  BY DEF TaskRaises, Raise, Queue!TaskFails
<1> QED BY <1>1 DEF Standing, Back, Geometry, Ledger, Stages

LEMMA FinalizationStands ==
  ASSUME Geometry, NEW f \in Family, FinalizeRaises(f) \/ FinalizeLater(f)
  PROVE  Standing /\ UNCHANGED <<drained, dropped, batch>>
<1>1. UNCHANGED <<seen, drained, dropped, held, nextPrepare, nextBlock, preparing, flying, states,
                  finished, reduced, buffer, pending, batch>> /\ todo' \subseteq pending
  BY DEF FinalizeRaises, FinalizeLater, Raise, queue, Queue!DispatchReady, Queue!tasks, Geometry, Stages
<1> QED BY <1>1 DEF Standing, Back, Geometry, Ledger

LEMMA DrainStands == ASSUME Geometry, Drain PROVE Standing
<1>1. /\ step = "waiting" /\ batch' = completed /\ drained' = drained \cup completed
      /\ UNCHANGED <<seen, held, nextPrepare, nextBlock, preparing, flying, states, finished, reduced,
                     buffer, pending, todo>>
  BY DEF Drain, Queue!DrainCompleted
<1>2. batch = {} BY <1>1 DEF Geometry, Control
<1>3. Back' = Back BY <1>1, <1>2 DEF Back, Geometry, OfTheQueue
<1> QED BY <1>1, <1>3 DEF Standing, Geometry, Stages

-----------------------------------------------------------------------------
(* Steps that submit.                                                      *)

LEMMA RefillPrepareKept ==
  ASSUME Geometry, RefillPrepare
  PROVE  Ledger' /\ Reducers' /\ Stages'
<1> DEFINE n == nextPrepare
           t == <<n, 0>>
<1>1. /\ n <= Families /\ t \notin seen /\ seen' = seen \cup {t}
      /\ nextPrepare' = n + 1 /\ preparing' = preparing + 1
      /\ UNCHANGED <<drained, held, batch, todo, states, nextBlock, flying, buffer, reduced, pending, finished>>
  BY DEF RefillPrepare, CanPrepare, Queue!Submit, Queue!Queued
<1>2. n \in Family /\ n \in Nat BY <1>1 DEF Geometry, Ledger, Family
<1>3. Back' = Back /\ t \notin Back
  BY <1>1 DEF Back, Geometry, OfTheQueue
<1>4. Preparing' = Preparing \cup {n} /\ n \notin Preparing
  <2>1. \A f \in Family : f < n + 1 <=> f < n \/ f = n BY <1>2, FamilyNumbers
  <2>2. ~(n < n) BY <1>2
  <2> HIDE DEF n
  <2>3. nextPrepare = n /\ nextPrepare' = n + 1 BY <1>1 DEF n
  <2>4. Preparing = {f \in Family : f < n /\ <<f, 0>> \notin Back} BY <2>3 DEF Preparing
  <2>5. Preparing' = {f \in Family : f < n + 1 /\ <<f, 0>> \notin Back} BY <1>3, <2>3 DEF Preparing
  <2> QED BY <1>2, <1>3, <2>1, <2>2, <2>4, <2>5
<1>5. preparing' = Cardinality(Preparing')
  <2>1. IsFiniteSet(Preparing) /\ preparing = Cardinality(Preparing)
    BY SubmittedFinite DEF Geometry, Ledger
  <2> QED BY <1>1, <1>4, <2>1, FS_AddElement
<1>6. \A f \in Family : <<f, 0>> \in seen' <=> f < nextPrepare'
  <2> SUFFICES ASSUME NEW f \in Family PROVE <<f, 0>> \in seen' <=> f < nextPrepare'
    OBVIOUS
  <2>1. <<f, 0>> \in seen <=> f < n BY DEF Geometry, Ledger
  <2>2. <<f, 0>> \in seen' <=> <<f, 0>> \in seen \/ f = n BY <1>1
  <2>3. f \in Nat BY FamilyNumbers
  <2>4. nextPrepare' = n + 1 BY <1>1
  <2> HIDE DEF n
  <2>5. f < n + 1 <=> f < n \/ f = n BY <1>2, <2>3
  <2> QED BY <2>1, <2>2, <2>4, <2>5
<1>7. \A f \in Family : \A b \in 1 .. Blocks[f] : <<f, b>> \in seen' <=> <<f, b>> \in seen
  BY <1>1
<1>8. \A f : Flying(f)' = Flying(f) BY <1>1, <1>3 DEF Flying
<1>9. nextPrepare' \in 1 .. Families + 1 BY <1>1, <1>2, FamilyNumbers
<1>12. Ledger'
  <2>1. \A f \in Family : flying[f] = Cardinality(Flying(f)') BY <1>8 DEF Geometry, Ledger
  <2> QED BY <1>1, <1>5, <1>6, <1>7, <1>9, <2>1 DEF Geometry, Ledger
<1>10. Reducers' BY <1>1, <1>3 DEF Geometry, Reducers
<1>11. Stages' BY <1>1, <1>3 DEF Geometry, Stages
<1> QED BY <1>10, <1>11, <1>12

LEMMA RefillBlockKept ==
  ASSUME Geometry, NEW f \in Family, RefillBlock(f)
  PROVE  Ledger' /\ Reducers' /\ Stages'
<1> DEFINE n == nextBlock[f] + 1
           t == <<f, n>>
<1>1. /\ f \in states /\ nextBlock[f] < Blocks[f] /\ t \notin seen /\ seen' = seen \cup {t}
      /\ nextBlock' = [nextBlock EXCEPT ![f] = n] /\ flying' = [flying EXCEPT ![f] = @ + 1]
      /\ UNCHANGED <<drained, held, batch, todo, states, nextPrepare, preparing, buffer, reduced, pending, finished>>
  BY DEF RefillBlock, CanQuery, Queue!Submit, Queue!Queued
<1>2. nextBlock[f] \in Nat /\ n \in 1 .. Blocks[f] /\ n \in Nat
  <2>1. nextBlock[f] \in Nat BY DEF Geometry, Ledger
  <2>2. Blocks[f] \in Nat BY FamilyNumbers
  <2> QED BY <1>1, <2>1, <2>2
<1>3. Back' = Back /\ t \notin Back
  BY <1>1 DEF Back, Geometry, OfTheQueue
<1>4. /\ nextBlock' \in [Family -> Nat] /\ nextBlock'[f] = n
      /\ \A g \in Family : g # f => nextBlock'[g] = nextBlock[g]
  BY <1>1, <1>2 DEF Geometry, Ledger
<1>5. Flying(f)' = Flying(f) \cup {n} /\ n \notin Flying(f)
  <2>1. 1 .. nextBlock'[f] = 1 .. nextBlock[f] \cup {n} BY <1>2, <1>4
  <2> QED BY <1>2, <1>3, <2>1 DEF Flying
<1>6. \A g \in Family : g # f => Flying(g)' = Flying(g)
  BY <1>3, <1>4 DEF Flying
<1>7. /\ flying' \in [Family -> Nat] /\ flying'[f] = flying[f] + 1
      /\ \A g \in Family : g # f => flying'[g] = flying[g]
  BY <1>1 DEF Geometry, Ledger
<1>8. flying'[f] = Cardinality(Flying(f)')
  <2>1. IsFiniteSet(Flying(f)) /\ flying[f] = Cardinality(Flying(f))
    BY SubmittedFinite DEF Geometry, Ledger
  <2> QED BY <1>5, <1>7, <2>1, FS_AddElement
<1>9. \A g \in Family : flying'[g] = Cardinality(Flying(g)')
  <2> SUFFICES ASSUME NEW g \in Family PROVE flying'[g] = Cardinality(Flying(g)')
    OBVIOUS
  <2>1. CASE g = f BY <1>8, <2>1
  <2>2. CASE g # f BY <1>6, <1>7, <2>2 DEF Geometry, Ledger
  <2> QED BY <2>1, <2>2
<1>10. \A g \in Family : \A b \in 1 .. Blocks[g] : <<g, b>> \in seen' <=> b <= nextBlock'[g]
  <2> SUFFICES ASSUME NEW g \in Family, NEW b \in 1 .. Blocks[g]
               PROVE  <<g, b>> \in seen' <=> b <= nextBlock'[g]
    OBVIOUS
  <2>1. <<g, b>> \in seen <=> b <= nextBlock[g] BY DEF Geometry, Ledger
  <2>2. CASE g # f BY <1>1, <1>4, <2>1, <2>2
  <2>3. CASE g = f
    <3>1. <<g, b>> \in seen' <=> <<g, b>> \in seen \/ b = n BY <1>1, <2>3
    <3>2. b \in Nat OBVIOUS
    <3> QED BY <1>2, <1>4, <2>1, <2>3, <3>1, <3>2
  <2> QED BY <2>2, <2>3
<1>11. \A g \in Family : nextBlock'[g] <= Blocks[g] /\ (<<g, 0>> \in seen' <=> g < nextPrepare')
  <2> SUFFICES ASSUME NEW g \in Family
               PROVE  nextBlock'[g] <= Blocks[g] /\ (<<g, 0>> \in seen' <=> g < nextPrepare')
    OBVIOUS
  <2>1. <<g, 0>> # t BY <1>2
  <2>2. <<g, 0>> \in seen' <=> g < nextPrepare' BY <1>1, <2>1 DEF Geometry, Ledger
  <2>3. nextBlock'[g] <= Blocks[g]
    <3>1. CASE g = f BY <1>2, <1>4, <3>1
    <3>2. CASE g # f BY <1>4, <3>2 DEF Geometry, Ledger
    <3> QED BY <3>1, <3>2
  <2> QED BY <2>2, <2>3
<1>12. Preparing' = Preparing BY <1>1, <1>3 DEF Preparing
<1>13. Ledger' BY <1>1, <1>4, <1>7, <1>9, <1>10, <1>11, <1>12 DEF Geometry, Ledger
<1>14. Reducers' BY <1>1, <1>3 DEF Geometry, Reducers
<1>15. <<f, 0>> \in Back BY <1>1 DEF Geometry, Stages
<1>16. Stages'
  <2>1. \A g \in Family : nextBlock'[g] > 0 => <<g, 0>> \in Back
    BY <1>4, <1>15 DEF Geometry, Stages
  <2> QED BY <1>1, <1>3, <2>1 DEF Geometry, Stages
<1> QED BY <1>13, <1>14, <1>16

-----------------------------------------------------------------------------
(* Steps that handle a result.                                             *)

LEMMA HandledOnce ==
  ASSUME Geometry, NEW t \in batch, batch' = batch \ {t}, UNCHANGED drained
  PROVE  Back' = Back \cup {t} /\ t \notin Back /\ t \in seen
BY DEF Back, Geometry, Ledger, OfTheQueue

LEMMA HandlePreparedKept ==
  ASSUME Geometry, NEW f \in Family, HandlePrepared(f)
  PROVE  Ledger' /\ Reducers' /\ Stages'
<1> DEFINE t == <<f, 0>>
<1>1. CASE ~(StateMemory[f] <= Queue!Available)
  <2>0. UNCHANGED queue /\ Raise("reservation") BY <1>1 DEF HandlePrepared
  <2>1. Standing
    BY <2>0 DEF Standing, Raise, queue, Back, Geometry, Ledger, Stages
  <2> QED BY <2>1, StandingKept DEF Geometry
<1>2. CASE StateMemory[f] <= Queue!Available
  <2>1. /\ t \in batch /\ batch' = batch \ {t} /\ preparing' = preparing - 1
        /\ states' = states \cup {f}
        /\ held' = [x \in DOMAIN held \cup {f} |-> IF x = f THEN StateMemory[f] ELSE held[x]]
        /\ UNCHANGED <<seen, drained, todo, nextPrepare, nextBlock, flying, buffer, reduced, pending, finished>>
    BY <1>2 DEF HandlePrepared, Handled, Queue!Reserve, Queue!Reserved, Queue!tasks
  <2>2. Back' = Back \cup {t} /\ t \notin Back /\ t \in seen
    BY <2>1, HandledOnce
  <2>3. f \in Preparing /\ Preparing' = Preparing \ {f}
    <3>1. f < nextPrepare BY <2>2 DEF Geometry, Ledger
    <3> QED BY <2>1, <2>2, <3>1 DEF Preparing
  <2>4. preparing' = Cardinality(Preparing')
    <3>1. IsFiniteSet(Preparing) /\ preparing = Cardinality(Preparing)
      BY SubmittedFinite DEF Geometry, Ledger
    <3> QED BY <2>1, <2>3, <3>1, FS_RemoveElement
  <2>5. \A g \in Family : Flying(g)' = Flying(g)
    <3>1. \A g : \A b \in 1 .. nextBlock[g] : <<g, b>> # t OBVIOUS
    <3> QED BY <2>1, <2>2, <3>1 DEF Flying
  <2>6. Ledger' BY <2>1, <2>4, <2>5 DEF Geometry, Ledger
  <2>7. \A g \in Family : \A b : b # 0 => (<<g, b>> \in Back' <=> <<g, b>> \in Back)
    BY <2>2
  <2>8. Reducers'
    <3> SUFFICES ASSUME NEW g \in Family
                 PROVE  /\ \A b \in 1 .. Len(reduced'[g]) : <<g, b>> \in Back'
                        /\ buffer'[g] = {b \in 1 .. Blocks[g] : b > Len(reduced'[g]) /\ <<g, b>> \in Back'}
                        /\ Len(reduced'[g]) + 1 \notin buffer'[g]
      BY <2>1 DEF Geometry, Reducers
    <3>1. \A b \in 1 .. Blocks[g] : b # 0 OBVIOUS
    <3> QED BY <2>1, <2>2, <2>7, <3>1 DEF Geometry, Reducers
  <2>9. Len(reduced[f]) = 0
    <3>1. nextBlock[f] = 0
      BY <2>2 DEF Geometry, Stages, Ledger
    <3>2. \A b \in 1 .. Blocks[f] : <<f, b>> \notin Back
      BY <3>1, FamilyNumbers DEF Geometry, Ledger, Back, OfTheQueue
    <3>3. Len(reduced[f]) \in Nat /\ Len(reduced[f]) <= Blocks[f] BY DEF Geometry, Progress
    <3>4. ASSUME Len(reduced[f]) > 0 PROVE FALSE
      <4>1. Blocks[f] \in Nat BY FamilyNumbers
      <4>2. 1 \in 1 .. Len(reduced[f]) /\ 1 \in 1 .. Blocks[f] BY <3>3, <3>4, <4>1
      <4> QED BY <3>2, <4>2 DEF Geometry, Reducers
    <3> QED BY <3>3, <3>4
  <2>10. Len(reduced[f]) # Blocks[f] BY <2>9, FamilyNumbers
  <2>11. f \notin finished /\ f \notin states BY <2>2 DEF Geometry, Stages
  <2>12. DOMAIN held' = states'
    BY <2>1 DEF Geometry, Stages
  <2>13. \A g \in Family : <<g, 0>> \in Back' <=> g \in states' \cup finished'
    BY <2>1, <2>2 DEF Geometry, Stages
  <2>14. Stages'
    BY <2>1, <2>2, <2>10, <2>11, <2>12, <2>13 DEF Geometry, Stages
  <2> QED BY <2>6, <2>8, <2>14
<1> QED BY <1>1, <1>2

LEMMA HandleBlockKept ==
  ASSUME Geometry, NEW f \in Family, NEW b \in 1 .. Blocks[f], HandleBlock(f, b)
  PROVE  Ledger' /\ Reducers' /\ Stages' /\ buffer'[f] \subseteq buffer[f] \cup {b}
         /\ \A g \in Family : g # f => buffer'[g] = buffer[g]
<1> DEFINE t == <<f, b>>
           n == Len(reduced[f])
<1>1. /\ t \in batch /\ batch' = batch \ {t} /\ flying' = [flying EXCEPT ![f] = @ - 1]
      /\ pending' = IF Len(reduced'[f]) = Blocks[f] /\ nextBlock[f] = Blocks[f] /\ flying'[f] = 0
                    THEN pending \cup {f} ELSE pending
      /\ UNCHANGED <<seen, drained, held, todo, nextPrepare, preparing, states, nextBlock, finished>>
  BY DEF HandleBlock, Handled, Queue!DispatchReady, Queue!tasks
<1>2. Back' = Back \cup {t} /\ t \notin Back /\ t \in seen
  BY <1>1, HandledOnce
<1>3. PICK last \in n .. Blocks[f] :
        /\ (n + 1) .. last \subseteq buffer[f] \cup {b} /\ last + 1 \notin buffer[f] \cup {b}
        /\ reduced' = [reduced EXCEPT ![f] = @ \o [k \in 1 .. last - Len(@) |-> Len(@) + k]]
        /\ buffer' = [buffer EXCEPT ![f] = (@ \cup {b}) \ 1 .. last]
  BY DEF HandleBlock, Push, Reduction
<1>4. n \in Nat /\ last \in Nat /\ n <= last /\ last <= Blocks[f] /\ Blocks[f] \in Nat
      /\ b \in Nat /\ b >= 1 /\ b <= Blocks[f]
  <2>1. n \in Nat BY DEF Geometry, Progress
  <2>2. Blocks[f] \in Nat BY FamilyNumbers
  <2> HIDE DEF n
  <2> QED BY <1>3, <2>1, <2>2
<1>5. /\ reduced' \in [Family -> Seq(Nat)] /\ Len(reduced'[f]) = last
      /\ \A g \in Family : g # f => reduced'[g] = reduced[g]
  <2>1. reduced[f] \o [k \in 1 .. last - n |-> n + k] = UpTo(last)
    BY <1>4, UpToGrows DEF Geometry, Progress
  <2>2. UpTo(last) \in Seq(Nat) /\ Len(UpTo(last)) = last BY <1>4, UpToLen
  <2> QED BY <1>3, <2>1, <2>2 DEF Geometry, Progress
<1>6. /\ buffer' \in [Family -> SUBSET Nat] /\ buffer'[f] = (buffer[f] \cup {b}) \ 1 .. last
      /\ \A g \in Family : g # f => buffer'[g] = buffer[g]
  BY <1>3, <1>4 DEF Geometry, Reducers
<1>7. b > n
  <2>1. ASSUME b <= n PROVE FALSE
    <3>1. b \in 1 .. n BY <1>4, <2>1
    <3> QED BY <1>2, <3>1 DEF Geometry, Reducers
  <2> QED BY <1>4, <2>1
<1>8. \A c \in 1 .. Blocks[f] : <<f, c>> \in Back' <=> c <= n \/ c \in buffer[f] \cup {b}
  <2> SUFFICES ASSUME NEW c \in 1 .. Blocks[f]
               PROVE  <<f, c>> \in Back' <=> c <= n \/ c \in buffer[f] \cup {b}
    OBVIOUS
  <2>1. <<f, c>> \in Back' <=> <<f, c>> \in Back \/ c = b BY <1>2
  <2>2. CASE c <= n
    <3>1. c \in 1 .. n BY <1>4, <2>2
    <3> QED BY <2>1, <2>2, <3>1 DEF Geometry, Reducers
  <2>3. CASE c > n BY <1>4, <2>1, <2>3 DEF Geometry, Reducers
  <2> QED BY <1>4, <2>2, <2>3
<1>9. buffer[f] \subseteq 1 .. Blocks[f] /\ \A c \in buffer[f] : c > n
  BY DEF Geometry, Reducers
<1>10. \A c \in 1 .. last : <<f, c>> \in Back'
  <2> SUFFICES ASSUME NEW c \in 1 .. last PROVE <<f, c>> \in Back'
    OBVIOUS
  <2>1. c \in 1 .. Blocks[f] BY <1>4
  <2>2. c <= n \/ c \in (n + 1) .. last BY <1>4
  <2> QED BY <1>3, <1>8, <2>1, <2>2
<1>11. buffer'[f] = {c \in 1 .. Blocks[f] : c > last /\ <<f, c>> \in Back'}
  <2>1. ASSUME NEW c \in buffer'[f] PROVE c \in 1 .. Blocks[f] /\ c > last /\ <<f, c>> \in Back'
    <3>1. c \in buffer[f] \cup {b} /\ c \notin 1 .. last BY <1>6, <2>1
    <3>2. c \in 1 .. Blocks[f] BY <1>9, <3>1
    <3> QED BY <1>4, <1>8, <3>1, <3>2
  <2>2. ASSUME NEW c \in 1 .. Blocks[f], c > last, <<f, c>> \in Back' PROVE c \in buffer'[f]
    <3>1. c \in buffer[f] \cup {b} BY <1>4, <1>8, <2>2
    <3>2. c \notin 1 .. last BY <1>4, <2>2
    <3> QED BY <1>6, <3>1, <3>2
  <2> QED BY <2>1, <2>2
<1>12. \A g \in Family : g # f => \A c : <<g, c>> \in Back' <=> <<g, c>> \in Back
  BY <1>2
<1>13. Reducers'
  <2> SUFFICES ASSUME NEW g \in Family
               PROVE  /\ \A c \in 1 .. Len(reduced'[g]) : <<g, c>> \in Back'
                      /\ buffer'[g] = {c \in 1 .. Blocks[g] : c > Len(reduced'[g]) /\ <<g, c>> \in Back'}
                      /\ Len(reduced'[g]) + 1 \notin buffer'[g]
    BY <1>6 DEF Reducers
  <2>1. CASE g = f BY <1>3, <1>5, <1>6, <1>10, <1>11, <2>1
  <2>2. CASE g # f BY <1>5, <1>6, <1>12, <2>2 DEF Geometry, Reducers
  <2> QED BY <2>1, <2>2
<1>14. b \in Flying(f) /\ Flying(f)' = Flying(f) \ {b}
  <2>1. b <= nextBlock[f] BY <1>2 DEF Geometry, Ledger
  <2>2. b \in 1 .. nextBlock[f] BY <1>4, <2>1 DEF Geometry, Ledger
  <2> QED BY <1>1, <1>2, <2>2 DEF Flying
<1>15. \A g \in Family : g # f => Flying(g)' = Flying(g)
  BY <1>1, <1>12 DEF Flying
<1>16. IsFiniteSet(Flying(f)) /\ flying[f] = Cardinality(Flying(f)) /\ flying[f] \in Nat
  BY SubmittedFinite DEF Geometry, Ledger
<1>17. Cardinality(Flying(f)') = flying[f] - 1 /\ IsFiniteSet(Flying(f)')
  BY <1>14, <1>16, FS_RemoveElement
<1>18. /\ flying' \in [Family -> Nat] /\ flying'[f] = flying[f] - 1
       /\ \A g \in Family : g # f => flying'[g] = flying[g]
  <2>1. flying[f] - 1 \in Nat BY <1>17, FS_CardinalityType
  <2> QED BY <1>1, <2>1 DEF Geometry, Ledger
<1>19. \A g \in Family : flying'[g] = Cardinality(Flying(g)')
  <2> SUFFICES ASSUME NEW g \in Family PROVE flying'[g] = Cardinality(Flying(g)')
    OBVIOUS
  <2>1. CASE g = f BY <1>17, <1>18, <2>1
  <2>2. CASE g # f BY <1>15, <1>18, <2>2 DEF Geometry, Ledger
  <2> QED BY <2>1, <2>2
<1>20. Preparing' = Preparing
  <2>1. \A g \in Family : <<g, 0>> # t BY <1>4
  <2> QED BY <1>1, <1>2, <2>1 DEF Preparing
<1>21. Ledger' BY <1>1, <1>18, <1>19, <1>20 DEF Geometry, Ledger
<1>22. \A g \in Family : <<g, 0>> \in Back' <=> <<g, 0>> \in Back
  BY <1>2, <1>4
<1>23. f \in states
  <2>1. nextBlock[f] > 0 BY <1>2, <1>4 DEF Geometry, Ledger
  <2>2. f \in states \cup finished BY <2>1 DEF Geometry, Stages
  <2>3. f \notin finished BY <1>4, <1>7 DEF Geometry, Stages
  <2> QED BY <2>2, <2>3
<1>24. n # Blocks[f] BY <1>4, <1>7
<1>25. pending' = IF last = Blocks[f] THEN pending \cup {f} ELSE pending
  <2>1. ASSUME last = Blocks[f] PROVE nextBlock[f] = Blocks[f] /\ flying'[f] = 0
    <3>1. \A c \in 1 .. Blocks[f] : <<f, c>> \in Back' BY <1>10, <2>1
    <3>2. Back' \subseteq seen BY <1>1, <1>2 DEF Back, Geometry, OfTheQueue
    <3>3. Blocks[f] \in 1 .. Blocks[f] BY <1>4
    <3>4. nextBlock[f] = Blocks[f]
      <4>1. <<f, Blocks[f]>> \in seen BY <3>1, <3>2, <3>3
      <4>2. Blocks[f] <= nextBlock[f] BY <3>3, <4>1 DEF Geometry, Ledger
      <4>3. nextBlock[f] \in Nat /\ nextBlock[f] <= Blocks[f] BY DEF Geometry, Ledger
      <4> QED BY <1>4, <4>2, <4>3
    <3>5. Flying(f)' = {} BY <1>1, <3>1, <3>4 DEF Flying
    <3>6. Cardinality(Flying(f)') = 0 BY <3>5, FS_EmptySet
    <3> QED BY <1>19, <3>4, <3>6
  <2> QED BY <1>1, <1>5, <2>1
<1>26. pending' = {g \in states' : Len(reduced'[g]) = Blocks[g]}
  <2>1. pending = {g \in states : Len(reduced[g]) = Blocks[g]} BY DEF Geometry, Stages
  <2>2. states \subseteq Family BY DEF Geometry, Stages
  <2> QED BY <1>1, <1>5, <1>23, <1>24, <1>25, <2>1, <2>2
<1>27. Stages'
  <2>1. \A g \in finished : g # f BY <1>23 DEF Geometry, Stages
  <2>2. todo' \subseteq pending' BY <1>1, <1>25 DEF Geometry, Stages
  <2>3. \A g \in finished' : Len(reduced'[g]) = Blocks[g]
    BY <1>1, <1>5, <2>1 DEF Geometry, Stages
  <2> QED BY <1>1, <1>22, <1>26, <2>2, <2>3 DEF Geometry, Stages
<1> QED BY <1>6, <1>13, <1>21, <1>27

LEMMA FinalizeKept ==
  ASSUME Geometry, NEW f \in Family, Finalize(f)
  PROVE  Ledger' /\ Reducers' /\ Stages'
<1>1. /\ f \in todo /\ finished' = finished \cup {f} /\ pending' = pending \ {f}
      /\ states' = states \ {f} /\ todo' = todo \ {f}
      /\ held' = [x \in DOMAIN held \ {f} |-> held[x]]
      /\ UNCHANGED <<seen, drained, batch, nextPrepare, preparing, nextBlock, flying, buffer, reduced>>
  BY DEF Finalize, Foremost, Queue!Release, Queue!tasks
<1>2. f \in states /\ Len(reduced[f]) = Blocks[f] /\ f \notin finished
  BY <1>1 DEF Geometry, Stages
<1>3. Back' = Back /\ Preparing' = Preparing /\ \A g : Flying(g)' = Flying(g)
  BY <1>1 DEF Back, Preparing, Flying
<1>4. Ledger' BY <1>1, <1>3 DEF Geometry, Ledger
<1>5. Reducers' BY <1>1, <1>3 DEF Geometry, Reducers
<1>6. DOMAIN held' = states' BY <1>1 DEF Geometry, Stages
<1>7. states' \cup finished' = states \cup finished /\ states' \cap finished' = {}
  BY <1>1, <1>2 DEF Geometry, Stages
<1>8. pending' = {g \in states' : Len(reduced'[g]) = Blocks[g]}
  BY <1>1 DEF Geometry, Stages
<1>9. Stages' BY <1>1, <1>2, <1>3, <1>6, <1>7, <1>8 DEF Geometry, Stages
<1> QED BY <1>4, <1>5, <1>9

-----------------------------------------------------------------------------
(* How much is held.                                                       *)

Waiting == UNION {{f} \X buffer[f] : f \in Family}

LEMMA Counted ==
  ASSUME Geometry
  PROVE  /\ IsFiniteSet(batch) /\ Cardinality(batch) \in Nat
         /\ IsFiniteSet(Waiting) /\ Buffered = Cardinality(Waiting) /\ Buffered \in Nat
         /\ Cardinality(seen) \in Nat /\ Cardinality(drained) \in Nat /\ Cardinality(dropped) \in Nat
         /\ Cardinality(completed) \in Nat /\ Outstanding \in Nat
         /\ Outstanding = Cardinality(seen) - Cardinality(drained) - Cardinality(dropped)
         /\ MaxPending \in Nat /\ MaxPending > 0 /\ Workers \in Nat
<1>1. IsFiniteSet(batch) BY FS_Subset DEF Geometry, Ledger, OfTheQueue
<1>2. IsFiniteSet(Waiting) /\ Buffered = Cardinality(Waiting)
  BY BufferFinite DEF Geometry, Waiting
<1>3. MaxPending \in Nat /\ MaxPending > 0 /\ Workers \in Nat
  BY SchedulerAssumption DEF MaxPending
<1>4. /\ Cardinality(seen) \in Nat /\ Cardinality(drained) \in Nat /\ Cardinality(dropped) \in Nat
      /\ Cardinality(completed) \in Nat /\ Cardinality(batch) \in Nat /\ Cardinality(Waiting) \in Nat
  BY <1>1, <1>2, FS_CardinalityType DEF Geometry, OfTheQueue
<1> QED BY <1>1, <1>2, <1>3, <1>4 DEF Geometry, OfTheQueue

LEMMA StandingBounded ==
  ASSUME Geometry, OfTheQueue', UNCHANGED <<seen, drained, buffer, batch>>, dropped \subseteq dropped'
  PROVE  Bounded'
<1>1. Buffered' = Buffered BY DEF Buffered
<1>2. Cardinality(dropped) <= Cardinality(dropped') /\ Cardinality(dropped') \in Nat
  BY FS_Subset, FS_CardinalityType DEF OfTheQueue
<1>3. Outstanding' = Cardinality(seen) - Cardinality(drained) - Cardinality(dropped')
  BY DEF OfTheQueue
<1>4. Outstanding' <= Outstanding BY <1>2, <1>3, Counted
<1>5. Outstanding' \in Nat BY DEF OfTheQueue
<1>6. Bounded BY DEF Geometry
<1> QED BY <1>1, <1>4, <1>5, <1>6, Counted DEF Bounded

LEMMA DrainBounded == ASSUME Geometry, OfTheQueue', Drain PROVE Bounded'
<1>1. /\ step = "waiting" /\ batch' = completed /\ drained' = drained \cup completed
      /\ UNCHANGED <<seen, dropped, buffer>>
  BY DEF Drain, Queue!DrainCompleted
<1>2. batch = {} /\ Cardinality(batch) = 0
  BY <1>1, FS_EmptySet DEF Geometry, Control
<1>3. Cardinality(drained') = Cardinality(drained) + Cardinality(completed)
  <2>1. IsFiniteSet(completed) /\ IsFiniteSet(drained) /\ drained \cap completed = {}
    BY DEF Geometry, OfTheQueue
  <2>2. Cardinality(drained \cup completed)
          = Cardinality(drained) + Cardinality(completed) - Cardinality(drained \cap completed)
    BY <2>1, FS_Union
  <2>3. Cardinality(drained \cap completed) = 0 BY <2>1, FS_EmptySet
  <2> QED BY <1>1, <2>2, <2>3, Counted
<1>4. Outstanding' = Cardinality(seen) - Cardinality(drained') - Cardinality(dropped)
  BY <1>1 DEF OfTheQueue
<1>5. Outstanding' = Outstanding - Cardinality(completed) BY <1>3, <1>4, Counted
<1>6. Buffered' = Buffered /\ Cardinality(batch') = Cardinality(completed)
  BY <1>1 DEF Buffered
<1>7. Bounded BY DEF Geometry
<1> QED BY <1>2, <1>5, <1>6, <1>7, Counted DEF Bounded

LEMMA SubmitBounded ==
  ASSUME Geometry, OfTheQueue', NEW t, t \notin seen, seen' = seen \cup {t}, CanEnqueue, batch = {},
         UNCHANGED <<drained, dropped, buffer, batch>>
  PROVE  Bounded'
<1>1. Cardinality(seen') = Cardinality(seen) + 1
  BY FS_AddElement DEF Geometry, OfTheQueue
<1>2. Outstanding' = Cardinality(seen') - Cardinality(drained) - Cardinality(dropped)
  BY DEF OfTheQueue
<1>3. Outstanding' = Outstanding + 1 BY <1>1, <1>2, Counted
<1>4. Buffered' = Buffered BY DEF Buffered
<1>5. Outstanding + Buffered < MaxPending + 2 * Workers BY DEF CanEnqueue
<1>6. Cardinality(batch') = 0 BY FS_EmptySet
<1> QED BY <1>3, <1>4, <1>5, <1>6, Counted DEF Bounded

LEMMA HandledBounded ==
  ASSUME Geometry, OfTheQueue', NEW t \in batch, batch' = batch \ {t},
         UNCHANGED <<seen, drained, dropped>>, Waiting' \subseteq Waiting \cup {t}
  PROVE  Bounded'
<1>1. Cardinality(batch') = Cardinality(batch) - 1
  BY Counted, FS_RemoveElement
<1>2. Outstanding' = Outstanding BY Counted DEF OfTheQueue
<1>3. Cardinality(Waiting') <= Cardinality(Waiting) + 1 /\ Cardinality(Waiting') \in Nat
  <2>1. IsFiniteSet(Waiting \cup {t}) /\ Cardinality(Waiting \cup {t}) <= Cardinality(Waiting) + 1
    <3>0. IsFiniteSet(Waiting) /\ Cardinality(Waiting) \in Nat BY Counted
    <3>1. CASE t \in Waiting
      <4>1. Waiting \cup {t} = Waiting BY <3>1
      <4>2. Cardinality(Waiting) <= Cardinality(Waiting) + 1 BY <3>0
      <4> QED BY <3>0, <4>1, <4>2
    <3>2. CASE t \notin Waiting
      <4>1. Cardinality(Waiting \cup {t}) = Cardinality(Waiting) + 1 /\ IsFiniteSet(Waiting \cup {t})
        BY <3>0, <3>2, FS_AddElement
      <4> QED BY <3>0, <4>1
    <3> QED BY <3>1, <3>2
  <2>2. IsFiniteSet(Waiting') /\ Cardinality(Waiting') <= Cardinality(Waiting \cup {t})
    BY <2>1, FS_Subset
  <2>3. Cardinality(Waiting') \in Nat /\ Cardinality(Waiting \cup {t}) \in Nat
    BY <2>1, <2>2, FS_CardinalityType
  <2> QED BY <2>1, <2>2, <2>3, Counted
<1>4. Buffered' = Cardinality(Waiting') BY DEF Buffered, Waiting
<1>5. Bounded BY DEF Geometry
<1> QED BY <1>1, <1>2, <1>3, <1>4, <1>5, Counted DEF Bounded

-----------------------------------------------------------------------------
(* Nothing is outstanding when the loop waits, and there is nothing to     *)
(* finalize: every family has its result.                                  *)

LEMMA AllCameBack ==
  ASSUME Geometry, step = "wait", Outstanding = 0
  PROVE  Back = seen /\ batch = {}
<1>1. batch = {} /\ dropped = {} BY DEF Geometry, Control
<1>2. seen = drained \cup dropped BY DEF Geometry, OfTheQueue
<1> QED BY <1>1, <1>2 DEF Back

(* A family whose submitted blocks all came back has reduced them. *)
LEMMA NothingBeyondGap ==
  ASSUME Geometry, Back = seen, NEW f \in Family
  PROVE  buffer[f] = {} /\ (nextBlock[f] = Blocks[f] => Len(reduced[f]) = Blocks[f])
<1> DEFINE n == Len(reduced[f])
<1>1. n \in Nat /\ n <= Blocks[f] BY DEF Geometry, Progress
<1>2. Blocks[f] \in Nat BY FamilyNumbers
<1>3. nextBlock[f] \in Nat BY DEF Geometry, Ledger
<1>4. buffer[f] = {b \in 1 .. Blocks[f] : b > n /\ <<f, b>> \in Back} /\ n + 1 \notin buffer[f]
  BY DEF Geometry, Reducers
<1>5. \A b \in 1 .. Blocks[f] : <<f, b>> \in Back <=> b <= nextBlock[f]
  BY DEF Geometry, Ledger
<1> HIDE DEF n
<1>6. n < Blocks[f] => nextBlock[f] <= n
  <2> SUFFICES ASSUME n < Blocks[f] PROVE nextBlock[f] <= n
    OBVIOUS
  <2>1. n + 1 \in 1 .. Blocks[f] /\ n + 1 > n BY <1>1, <1>2
  <2>2. ~(n + 1 <= nextBlock[f]) BY <1>4, <1>5, <2>1
  <2> QED BY <1>1, <1>3, <2>2
<1>7. ASSUME NEW c \in buffer[f] PROVE FALSE
  <2>1. c \in 1 .. Blocks[f] /\ c > n /\ c <= nextBlock[f] BY <1>4, <1>5
  <2> QED BY <1>1, <1>2, <1>3, <1>6, <2>1
<1>8. nextBlock[f] = Blocks[f] => n = Blocks[f] BY <1>1, <1>2, <1>3, <1>6
<1> QED BY <1>7, <1>8 DEF n

LEMMA NothingLeft ==
  ASSUME Geometry, step = "wait", Outstanding = 0, pending = {}
  PROVE  finished = Family
<1>1. Back = seen BY AllCameBack
<1>2. \A f \in Family : buffer[f] = {} BY <1>1, NothingBeyondGap
<1>3. Buffered = 0
  <2>1. Waiting = {} BY <1>2 DEF Waiting
  <2> QED BY <2>1, Counted, FS_EmptySet
<1>4. CanEnqueue
  <2>1. Len(ready) \in Nat /\ Len(inflight) \in Nat BY DEF Geometry, OfTheQueue
  <2>2. Len(ready) = 0 BY <2>1, Counted DEF Outstanding
  <2> QED BY <1>3, <2>2, Counted DEF CanEnqueue
<1>5. preparing = 0
  <2>1. Preparing = {} BY <1>1 DEF Preparing, Geometry, Ledger
  <2> QED BY <2>1, FS_EmptySet DEF Geometry, Ledger
<1>6. ~CanPrepare /\ \A f \in Family : ~CanQuery(f) BY DEF Geometry, Control, Idle
<1>7. nextPrepare > Families
  <2>1. 0 < IF states = {} THEN Workers ELSE IF Workers < 16 THEN 1 ELSE Workers \div 8
    <3>1. Workers \in Nat /\ Workers > 0 BY SchedulerAssumption
    <3> QED BY <3>1
  <2>2. ~(nextPrepare <= Families) BY <1>4, <1>5, <1>6, <2>1 DEF CanPrepare
  <2>3. nextPrepare \in 1 .. Families + 1 /\ Families \in Nat BY FamilyNumbers DEF Geometry, Ledger
  <2> QED BY <2>2, <2>3
<1>8. ASSUME NEW f \in Family PROVE f \in finished
  <2>1. f < nextPrepare
    <3>1. nextPrepare \in 1 .. Families + 1 /\ Families \in Nat BY FamilyNumbers DEF Geometry, Ledger
    <3>2. f \in Nat /\ f <= Families BY FamilyNumbers
    <3> QED BY <1>7, <3>1, <3>2
  <2>2. f \in states \cup finished BY <1>1, <2>1 DEF Geometry, Ledger, Stages
  <2>3. ASSUME f \in states PROVE FALSE
    <3>1. ~(nextBlock[f] < Blocks[f]) BY <1>4, <1>6, <2>3 DEF CanQuery
    <3>2. nextBlock[f] \in Nat /\ nextBlock[f] <= Blocks[f] /\ Blocks[f] \in Nat
      BY FamilyNumbers DEF Geometry, Ledger
    <3>3. nextBlock[f] = Blocks[f] BY <3>1, <3>2
    <3>4. Len(reduced[f]) = Blocks[f] BY <1>1, <3>3, NothingBeyondGap
    <3> QED BY <2>3, <3>4 DEF Geometry, Stages
  <2> QED BY <2>2, <2>3
<1> QED BY <1>8 DEF Geometry, Stages

-----------------------------------------------------------------------------
(* Where the loop goes.                                                    *)

LEMMA QueueControl ==
  ASSUME Geometry, QueueStep \/ WorkerStep \/ UNCHANGED vars
  PROVE  Control' /\ again' \in BOOLEAN
<1>1. UNCHANGED loop /\ dropped' = dropped BY QueueStands
<1>2. UNCHANGED <<step, error, batch, finished, again>> BY <1>1 DEF loop
<1>3. CASE QueueStep
  <2>1. at \notin {"free", "closing", "closed"} /\ at' \notin {"closing", "closed"}
    BY <1>3 DEF QueueStep, Queue!DispatchOne, Queue!DispatchEnd, Queue!Arrive, Queue!Arrival,
                Queue!CollectEnd, Queue!Collect, Queue!Dispatching
  <2>2. at' \in {"admit", "waiting", "collect"} => at \in {"admit", "waiting", "collect"}
    BY <1>3 DEF QueueStep, Queue!DispatchOne, Queue!DispatchEnd, Queue!Arrive, Queue!Arrival,
                Queue!CollectEnd, Queue!Collect, Queue!Dispatching
  <2> QED BY <1>1, <1>2, <2>1, <2>2 DEF Geometry, Control
<1>4. CASE WorkerStep \/ UNCHANGED vars
  <2>1. UNCHANGED <<ready, inflight, completed, at>>
    BY <1>4 DEF WorkerStep, Queue!Finish, vars, queue
  <2>2. Idle' <=> Idle
    BY <1>1, <2>1 DEF Idle, CanPrepare, CanQuery, CanEnqueue, Outstanding, Buffered, loop
  <2> QED BY <1>1, <1>2, <2>1, <2>2 DEF Geometry, Control
<1> QED BY <1>3, <1>4

LEMMA RefillControl ==
  ASSUME Geometry, RefillPrepare \/ \E f \in Family : RefillBlock(f)
  PROVE  Control' /\ again' \in BOOLEAN
<1>1. /\ step = "refill" /\ at' = "dispatch"
      /\ UNCHANGED <<step, again, batch, dropped, error, finished>>
  BY DEF RefillPrepare, RefillBlock, Refilling, Queue!Submit, Queue!Queued
<1> QED BY <1>1 DEF Geometry, Control

LEMMA RefillEndControl ==
  ASSUME Geometry, RefillEnd PROVE Control' /\ again' \in BOOLEAN
<1>1. /\ step = "refill" /\ at = "free" /\ step' \in {"wait", "done", "finalize"} /\ again' = FALSE
      /\ UNCHANGED <<queue, batch, nextPrepare, preparing, states, nextBlock, buffer, pending,
                     finished, error>>
  BY DEF RefillEnd
<1>2. Idle BY DEF RefillEnd, Idle
<1>3. Idle' BY <1>1, <1>2 DEF Idle, CanPrepare, CanQuery, CanEnqueue, Outstanding, Buffered, queue
<1>4. batch = {} /\ dropped = {} BY <1>1 DEF Geometry, Control
<1>5. at' = "free" /\ dropped' = dropped BY <1>1 DEF queue
<1> QED BY <1>1, <1>3, <1>4, <1>5 DEF Geometry, Control

LEMMA WaitControl ==
  ASSUME Geometry, Wait PROVE Control' /\ again' \in BOOLEAN
<1>1. step = "wait" /\ at = "free" BY DEF Wait
<1>2. batch = {} /\ dropped = {} BY <1>1 DEF Geometry, Control
<1>3. CASE Outstanding > 0
  <2>1. /\ step' = "waiting" /\ at' = "admit"
        /\ UNCHANGED <<again, batch, dropped, error, finished>>
    BY <1>3 DEF Wait, Goto, Queue!WaitForCompletion, Queue!tasks
  <2> QED BY <1>2, <2>1 DEF Geometry, Control
<1>4. CASE ~(Outstanding > 0)
  <2>1. /\ step' = "failed" /\ error' = IF pending # {} THEN "finalization" ELSE "exhausted"
        /\ UNCHANGED <<queue, again, batch, finished>>
    BY <1>4 DEF Wait, Raise
  <2>2. Outstanding = 0 BY <1>4, Counted
  <2>3. error' = "exhausted" => finished' = Family
    BY <1>1, <2>1, <2>2, NothingLeft
  <2>4. at' = "free" /\ dropped' = dropped BY <1>1, <2>1 DEF queue
  <2> QED BY <1>2, <2>1, <2>3, <2>4 DEF Geometry, Control
<1> QED BY <1>3, <1>4

LEMMA ReturnControl ==
  ASSUME Geometry, WaitReturns \/ Drain \/ \E t \in Tasks : TaskRaises(t)
  PROVE  Control' /\ again' \in BOOLEAN
<1>1. CASE WaitReturns
  <2>1. /\ at = "waiting" /\ at' = "free" /\ step' \in {"failed", "finalize"}
        /\ error' \in {"blocked", error} /\ UNCHANGED <<batch, dropped, finished>>
    BY <1>1 DEF WaitReturns, Queue!WaitReturns, Queue!tasks, Raise
  <2>2. again' \in {again, FALSE} BY <1>1 DEF WaitReturns, Raise
  <2> QED BY <2>1, <2>2 DEF Geometry, Control
<1>2. CASE Drain
  <2>1. /\ step = "waiting" /\ at' = "free" /\ step' = "batch"
        /\ UNCHANGED <<again, dropped, finished, error>>
    BY <1>2 DEF Drain, Queue!DrainCompleted
  <2> QED BY <2>1 DEF Geometry, Control
<1>3. ASSUME NEW t \in Tasks, TaskRaises(t) PROVE Control' /\ again' \in BOOLEAN
  <2>1. /\ at' = "free" /\ step' = "failed" /\ error' = "task"
        /\ UNCHANGED <<again, batch, finished>>
    BY <1>3 DEF TaskRaises, Raise, Queue!TaskFails
  <2> QED BY <2>1 DEF Geometry, Control
<1> QED BY <1>1, <1>2, <1>3

LEMMA BatchControl ==
  ASSUME Geometry, NEW f \in Family,
         HandlePrepared(f) \/ (\E b \in 1 .. Blocks[f] : HandleBlock(f, b)) \/ BatchEnd
  PROVE  Control' /\ again' \in BOOLEAN
<1>1. CASE BatchEnd
  <2>1. /\ step = "batch" /\ step' = "finalize" /\ batch = {} /\ again' = TRUE
        /\ at = "free" /\ UNCHANGED <<at, batch, dropped, error, finished>>
    BY <1>1 DEF BatchEnd, queue
  <2> QED BY <2>1 DEF Geometry, Control
<1>2. CASE \E b \in 1 .. Blocks[f] : HandleBlock(f, b)
  <2>1. /\ step = "batch" /\ at' = "dispatch"
        /\ UNCHANGED <<step, again, dropped, error, finished>>
    BY <1>2 DEF HandleBlock, Handled, Queue!DispatchReady, Queue!tasks
  <2> QED BY <2>1 DEF Geometry, Control
<1>3. CASE HandlePrepared(f)
  <2>1. step = "batch" /\ at = "free" BY <1>3 DEF HandlePrepared, Handled
  <2>2. CASE StateMemory[f] <= Queue!Available
    <3>1. at' = "dispatch" /\ UNCHANGED <<step, again, dropped, error, finished>>
      BY <1>3, <2>2 DEF HandlePrepared, Queue!Reserve, Queue!Reserved, Queue!tasks
    <3> QED BY <2>1, <3>1 DEF Geometry, Control
  <2>3. CASE ~(StateMemory[f] <= Queue!Available)
    <3>1. /\ step' = "failed" /\ error' = "reservation"
          /\ UNCHANGED <<at, again, batch, dropped, finished>>
      BY <1>3, <2>3 DEF HandlePrepared, Raise, queue
    <3> QED BY <2>1, <3>1 DEF Geometry, Control
  <2> QED BY <2>2, <2>3
<1> QED BY <1>1, <1>2, <1>3

LEMMA FinalizeControl ==
  ASSUME Geometry, NEW f \in Family,
         Finalize(f) \/ FinalizeRaises(f) \/ FinalizeLater(f) \/ FinalizeEnd
  PROVE  Control' /\ again' \in BOOLEAN
<1>1. step = "finalize" /\ at = "free"
  BY DEF Finalize, FinalizeRaises, FinalizeLater, FinalizeEnd, Foremost
<1>2. batch = {} /\ dropped = {} BY <1>1 DEF Geometry, Control
<1>3. at' \in {"free", "dispatch"} /\ UNCHANGED <<again, batch, dropped>>
  BY <1>1 DEF Finalize, FinalizeRaises, FinalizeLater, FinalizeEnd, Raise, Goto, queue, Queue!Release,
              Queue!DispatchReady, Queue!tasks
<1>4. step' \in {"finalize", "failed", "refill"} /\ error' \in {error, "task"}
  BY <1>1 DEF Finalize, FinalizeRaises, FinalizeLater, FinalizeEnd, Raise, Goto
<1>5. finished \subseteq finished' /\ finished' \subseteq finished \cup {f}
  BY DEF Finalize, FinalizeRaises, FinalizeLater, FinalizeEnd, Raise, Goto
<1>6. error' = "exhausted" => finished' = Family
  BY <1>4, <1>5 DEF Geometry, Control
<1> QED BY <1>2, <1>3, <1>4, <1>6 DEF Geometry, Control

LEMMA LeaveControl ==
  ASSUME Geometry, Leave \/ Closed PROVE Control' /\ again' \in BOOLEAN
<1>1. UNCHANGED <<step, again, batch, dropped, error, finished>> /\ at' \in {"closing", "closed"}
  BY DEF Leave, Closed, loop, Queue!Shutdown, Queue!Closed, Queue!tasks
<1>2. step \in {"done", "failed"}
  BY DEF Leave, Closed, Queue!Closed, Geometry, Control
<1> QED BY <1>1, <1>2 DEF Geometry, Control

-----------------------------------------------------------------------------
(* Geometry is inductive.                                                  *)

LEMMA InitGeometry == Init /\ OfTheQueue => Geometry
<1> SUFFICES ASSUME Init, OfTheQueue PROVE Geometry
  OBVIOUS
<1>0. seen = {} /\ drained = {} /\ completed = {} /\ dropped = {} /\ ready = <<>> /\ inflight = <<>>
      /\ held = <<>> /\ at = "free" /\ Back = {}
  BY DEF Init, Queue!Init, Back
<1>1. Progress BY InitProgress
<1>2. Ledger
  <2>1. \A f \in Family : f \in Nat /\ ~(f < 1) BY DEF Family
  <2>2. Preparing = {} BY <2>1 DEF Init, Preparing
  <2>3. \A f \in Family : Flying(f) = {} BY DEF Init, Flying
  <2>4. Cardinality(Preparing) = 0 /\ \A f \in Family : Cardinality(Flying(f)) = 0
    BY <2>2, <2>3, FS_EmptySet
  <2>5. 1 \in 1 .. Families + 1 BY SchedulerAssumption
  <2>6. \A f \in Family : nextBlock[f] <= Blocks[f]
    <3>1. \A f \in Family : nextBlock[f] = 0 BY DEF Init
    <3>2. \A f \in Family : 0 <= Blocks[f] BY FamilyNumbers
    <3> QED BY <3>1, <3>2
  <2>7. \A f \in Family : \A b \in 1 .. Blocks[f] : ~(b <= nextBlock[f])
    <3>1. \A f \in Family : nextBlock[f] = 0 BY DEF Init
    <3> QED BY <3>1
  <2> QED BY <1>0, <2>1, <2>4, <2>5, <2>6, <2>7 DEF Init, Ledger
<1>3. Reducers
  <2>1. \A f \in Family : Len(reduced[f]) = 0 /\ buffer[f] = {} BY DEF Init
  <2>2. buffer \in [Family -> SUBSET Nat] BY DEF Init
  <2> QED BY <1>0, <2>1, <2>2 DEF Reducers
<1>4. Stages
  <2>1. DOMAIN held = {} BY <1>0
  <2> QED BY <1>0, <2>1 DEF Init, Stages
<1>5. Control BY <1>0 DEF Init, Control
<1>6. Bounded
  <2>1. Outstanding = 0
    <3>1. Cardinality(completed) = 0 /\ Len(ready) = 0 /\ Len(inflight) = 0 BY <1>0, FS_EmptySet
    <3> QED BY <3>1 DEF Outstanding
  <2>2. Buffered = 0
    <3>1. UNION {{f} \X buffer[f] : f \in Family} = {} BY DEF Init
    <3> QED BY <3>1, FS_EmptySet DEF Buffered
  <2>3. Cardinality(batch) = 0 BY FS_EmptySet DEF Init
  <2>4. MaxPending \in Nat /\ Workers \in Nat BY SchedulerAssumption DEF MaxPending
  <2> QED BY <2>1, <2>2, <2>3, <2>4 DEF Bounded
<1> QED BY <1>1, <1>2, <1>3, <1>4, <1>5, <1>6 DEF Geometry, Init

Counts == Ledger /\ Reducers /\ Stages /\ Bounded

LEMMA StillKept ==
  ASSUME Geometry, OfTheQueue', Standing, UNCHANGED <<drained, batch>>, dropped \subseteq dropped'
  PROVE  Counts'
<1>1. Ledger' /\ Reducers' /\ Stages' BY StandingKept DEF Geometry
<1>2. Bounded' BY StandingBounded DEF Standing
<1> QED BY <1>1, <1>2 DEF Counts

LEMMA RefillKept ==
  ASSUME Geometry, OfTheQueue', RefillPrepare \/ \E f \in Family : RefillBlock(f)
  PROVE  Counts'
<1>1. step = "refill" BY DEF RefillPrepare, RefillBlock, Refilling
<1>2. batch = {} BY <1>1 DEF Geometry, Control
<1>3. CASE RefillPrepare
  <2>1. /\ <<nextPrepare, 0>> \notin seen /\ seen' = seen \cup {<<nextPrepare, 0>>} /\ CanEnqueue
        /\ UNCHANGED <<drained, dropped, buffer, batch>>
    BY <1>3 DEF RefillPrepare, CanPrepare, Queue!Submit, Queue!Queued
  <2> QED BY <1>2, <1>3, <2>1, SubmitBounded, RefillPrepareKept DEF Counts
<1>4. ASSUME NEW f \in Family, RefillBlock(f) PROVE Counts'
  <2>1. /\ <<f, nextBlock[f] + 1>> \notin seen /\ seen' = seen \cup {<<f, nextBlock[f] + 1>>} /\ CanEnqueue
        /\ UNCHANGED <<drained, dropped, buffer, batch>>
    BY <1>4 DEF RefillBlock, CanQuery, Queue!Submit, Queue!Queued
  <2> QED BY <1>2, <1>4, <2>1, SubmitBounded, RefillBlockKept DEF Counts
<1> QED BY <1>3, <1>4

LEMMA PreparedKept ==
  ASSUME Geometry, OfTheQueue', NEW f \in Family, HandlePrepared(f)
  PROVE  Counts'
<1>1. CASE StateMemory[f] <= Queue!Available
  <2>1. /\ <<f, 0>> \in batch /\ batch' = batch \ {<<f, 0>>} /\ UNCHANGED <<seen, drained, dropped, buffer>>
    BY <1>1 DEF HandlePrepared, Handled, Queue!Reserve, Queue!Reserved, Queue!tasks
  <2>2. Waiting' = Waiting BY <2>1 DEF Waiting
  <2> QED BY <2>1, <2>2, HandledBounded, HandlePreparedKept DEF Counts
<1>2. CASE ~(StateMemory[f] <= Queue!Available)
  <2>1. UNCHANGED <<seen, drained, dropped, batch, buffer>>
    BY <1>2 DEF HandlePrepared, Raise, queue
  <2> QED BY <2>1, StandingBounded, HandlePreparedKept DEF Counts
<1> QED BY <1>1, <1>2

LEMMA BlockKept ==
  ASSUME Geometry, OfTheQueue', NEW f \in Family, NEW b \in 1 .. Blocks[f], HandleBlock(f, b)
  PROVE  Counts'
<1>1. /\ <<f, b>> \in batch /\ batch' = batch \ {<<f, b>>} /\ UNCHANGED <<seen, drained, dropped>>
  BY DEF HandleBlock, Handled, Queue!DispatchReady, Queue!tasks
<1>2. Waiting' \subseteq Waiting \cup {<<f, b>>}
  <2> SUFFICES ASSUME NEW g \in Family, NEW c \in buffer'[g]
               PROVE  <<g, c>> \in Waiting \cup {<<f, b>>}
    BY DEF Waiting
  <2>1. c \in buffer[g] \/ (g = f /\ c = b) BY HandleBlockKept
  <2> QED BY <2>1 DEF Waiting
<1> QED BY <1>1, <1>2, HandledBounded, HandleBlockKept DEF Counts

LEMMA FinishedKept ==
  ASSUME Geometry, OfTheQueue', NEW f \in Family, Finalize(f)
  PROVE  Counts'
<1>1. UNCHANGED <<seen, drained, dropped, batch, buffer>>
  BY DEF Finalize, Queue!Release, Queue!tasks
<1> QED BY <1>1, StandingBounded, FinalizeKept DEF Counts

LEMMA StepGeometry ==
  Geometry /\ OfTheQueue' /\ [Next]_vars => Geometry'
<1> DEFINE Goal == Counts' /\ Control' /\ again' \in BOOLEAN
<1>1. Geometry /\ [Next]_vars => Progress' BY StepProgress DEF Geometry
<1> SUFFICES ASSUME Geometry, OfTheQueue', [Next]_vars PROVE Goal
  BY <1>1 DEF Geometry, Counts
<1>2. CASE QueueStep \/ WorkerStep \/ UNCHANGED vars
  <2>1. Standing /\ UNCHANGED <<drained, dropped, batch>> BY <1>2, QueueStands
  <2> QED BY <1>2, <2>1, StillKept, QueueControl
<1>3. CASE RefillPrepare \/ \E f \in Family : RefillBlock(f)
  BY <1>3, RefillKept, RefillControl
<1>4. CASE RefillEnd \/ Wait \/ BatchEnd \/ FinalizeEnd \/ Leave \/ Closed \/ WaitReturns
  <2>1. Standing /\ UNCHANGED <<drained, dropped, batch>> BY <1>4, LoopStands
  <2>2. Counts' BY <2>1, StillKept
  <2>3. \E f : f \in Family
    BY FamilyFinite, FS_EmptySet, SchedulerAssumption DEF Family
  <2> QED BY <1>4, <2>2, <2>3, RefillEndControl, WaitControl, ReturnControl, BatchControl,
             FinalizeControl, LeaveControl
<1>5. CASE Drain
  <2>1. Counts' BY <1>5, DrainStands, DrainBounded, StandingKept DEF Geometry, Counts
  <2> QED BY <1>5, <2>1, ReturnControl
<1>6. ASSUME NEW t \in Tasks, TaskRaises(t) PROVE Goal
  <2>1. Counts' BY <1>6, FailureStands, StillKept
  <2> QED BY <1>6, <2>1, ReturnControl
<1>7. ASSUME NEW f \in Family, FinalizeRaises(f) \/ FinalizeLater(f) PROVE Goal
  <2>1. Counts' BY <1>7, FinalizationStands, StillKept
  <2> QED BY <1>7, <2>1, FinalizeControl
<1>8. ASSUME NEW f \in Family, HandlePrepared(f) \/ Finalize(f) PROVE Goal
  BY <1>8, PreparedKept, FinishedKept, BatchControl, FinalizeControl
<1>9. ASSUME NEW f \in Family, NEW b \in 1 .. Blocks[f], HandleBlock(f, b) PROVE Goal
  BY <1>9, BlockKept, BatchControl
<1> HIDE DEF Goal
<1> QED
  BY <1>2, <1>3, <1>4, <1>5, <1>6, <1>7, <1>8, <1>9 DEF Next, Coordinator

(* What the properties of the pass say follows from the invariant. *)
LEMMA GeometryMeans ==
  Geometry => TypeOK /\ StatesAreCharged /\ HeldResultsBounded /\ WorkLasts
<1> SUFFICES ASSUME Geometry PROVE TypeOK /\ StatesAreCharged /\ HeldResultsBounded /\ WorkLasts
  OBVIOUS
<1>1. preparing \in 0 .. Families
  <2>1. Cardinality(Preparing) <= Cardinality(Family) /\ Cardinality(Preparing) \in Nat
    <3>1. Preparing \subseteq Family BY DEF Preparing
    <3> QED BY <3>1, FamilyFinite, FS_Subset, FS_CardinalityType
  <2> QED BY <2>1, FamilyFinite DEF Geometry, Ledger
<1>2. /\ batch \subseteq Tasks /\ todo \subseteq Family /\ states \subseteq Family
      /\ pending \subseteq Family /\ finished \subseteq Family
  BY DEF Geometry, Ledger, OfTheQueue, Queue!TypeOK, Stages
<1>3. /\ nextPrepare \in 1 .. Families + 1 /\ nextBlock \in [Family -> Nat] /\ flying \in [Family -> Nat]
      /\ buffer \in [Family -> SUBSET Nat] /\ reduced \in [Family -> Seq(Nat)]
  BY DEF Geometry, Ledger, Reducers, Progress
<1>4. TypeOK BY <1>1, <1>2, <1>3 DEF TypeOK, Geometry, OfTheQueue, Control
<1>5. StatesAreCharged BY DEF StatesAreCharged, Geometry, Stages, OfTheQueue
<1>6. HeldResultsBounded BY DEF HeldResultsBounded, Geometry, Bounded
<1>7. WorkLasts BY DEF WorkLasts, Geometry, Control
<1> QED BY <1>4, <1>5, <1>6, <1>7

(* build_target_coverage_geometry: prepared families are what is charged,  *)
(* what is held is bounded, and work never runs out before the results.    *)
LEMMA GeometryHolds ==
  Spec => [](TypeOK /\ StatesAreCharged /\ HeldResultsBounded /\ WorkLasts)
<1>1. Spec => []OfTheQueue
  BY PassUsesTheQueue, QueueKnown, PTL
<1>2. Init /\ OfTheQueue => Geometry BY InitGeometry
<1>3. Geometry /\ OfTheQueue' /\ [Next]_vars => Geometry' BY StepGeometry
<1> QED BY <1>1, <1>2, <1>3, GeometryMeans, PTL DEF Spec

-----------------------------------------------------------------------------
(***************************************************************************)
(* The wave of training runs (TrainingScheduler).                          *)
(***************************************************************************)

(* The cardinality the instance speaks of is that of this module. *)
LEMMA CountsAlike == \A S : Training!Cardinality(S) = Cardinality(S)
BY DEF Training!Cardinality, Cardinality

Once(s) == \A i, k \in DOMAIN s : s[i] = s[k] => i = k

(* A level that was admitted into has not been disproved. *)
Levels == tTarget <= tCeiling /\ tCeiling < tDisproven

(* What closes admission, and what a backoff has behind it. *)
Evidence ==
  /\ ~tBlocked => tLast = "safe"
  /\ tPlan.device = "cpu" => tLast = "safe" /\ ~tUnsafe
  /\ tUnsafe => tBlocked /\ (tStreak >= 1 \/ tActive = <<>> \/ tPc \in {"abort", "reap", "ended"})
  /\ tPc = "demote" => tStreak = 2 /\ ~tUnsafe /\ tActive # <<>>

(* Every run is in one place, and only what is owned runs. *)
Places ==
  /\ Once(tPending) /\ Once(tActive) /\ Once(tTrained)
  /\ Training!Members(tPending) \cap Training!Members(tActive) = {}
  /\ Training!Members(tTrained) \cap Training!Members(tPending) = {}
  /\ Training!Members(tTrained) \cap Training!Members(tActive) = {}
  /\ \A j \in Training!Members(tPending) : tWorker[j] \in {"none", "cancelled"}
  /\ \A j \in Training!Job : tWorker[j] = "running" => j \in Training!Members(tActive)
  /\ tOutcome = "failed" => tPc \in {"abort", "reap", "ended"}
  /\ tOutcome # "failed" => Training!Members(tPending) \cup Training!Members(tActive) \cup Training!Members(tTrained) = Training!Job
  /\ tPc = "ended" => \A j \in Training!Job : tWorker[j] # "running"

Kept == Training!TypeOK /\ Levels /\ Evidence /\ Places

-----------------------------------------------------------------------------
(* Sequences of runs. *)
LEMMA JobsAreFinite ==
  ASSUME Training!WaveAssumption, NEW S \in SUBSET Training!Job
  PROVE  IsFiniteSet(S) /\ Cardinality(S) \in Nat
<1>1. IsFiniteSet(Training!Job) BY FS_Interval DEF Training!WaveAssumption, Training!Job
<1> QED BY <1>1, FS_Subset, FS_CardinalityType

LEMMA OrdersHoldEachOnce ==
  ASSUME Training!WaveAssumption, NEW S \in SUBSET Training!Job, NEW s \in Training!Orders(S)
  PROVE  s \in Seq(Training!Job) /\ Once(s) /\ Training!Members(s) = S
<1> DEFINE n == Cardinality(S)
<1>1. IsFiniteSet(S) /\ n \in Nat BY JobsAreFinite
<1>2. s \in [1 .. n -> S] /\ Once(s) BY CountsAlike DEF Training!Orders, Once
<1>3. s \in Injection(1 .. n, S) BY <1>2 DEF Injection, IsInjective, Once
<1>4. Cardinality(1 .. n) = n BY <1>1, FS_Interval
<1> HIDE DEF n
<1>5. s \in Surjection(1 .. n, S) BY <1>1, <1>3, <1>4, FS_Injection DEF n
<1>6. Training!Members(s) = S BY <1>2, <1>5 DEF Surjection, Training!Members
<1>7. s \in Seq(Training!Job) BY <1>1, <1>2
<1> QED BY <1>2, <1>6, <1>7

LEMMA OnceCounts ==
  ASSUME NEW s \in Seq(Training!Job), Once(s)
  PROVE  Cardinality(Training!Members(s)) = Len(s)
<1>1. Len(s) \in Nat /\ DOMAIN s = 1 .. Len(s)
  OBVIOUS
<1> DEFINE f == [i \in 1 .. Len(s) |-> s[i]]
<1>2. f \in Bijection(1 .. Len(s), Training!Members(s))
  BY <1>1 DEF Once, Training!Members, Bijection, Injection, IsInjective, Surjection
<1>3. ExistsBijection(1 .. Len(s), Training!Members(s)) BY <1>2 DEF ExistsBijection
<1> QED BY <1>1, <1>3, FS_CountingElements

LEMMA ConcatHolds ==
  ASSUME NEW s \in Seq(Training!Job), NEW t \in Seq(Training!Job), Once(s), Once(t),
        Training!Members(s) \cap Training!Members(t) = {}
  PROVE  s \o t \in Seq(Training!Job) /\ Once(s \o t)
        /\ Training!Members(s \o t) = Training!Members(s) \cup Training!Members(t)
<1> DEFINE r == s \o t
<1>1. /\ r \in Seq(Training!Job) /\ Len(s) \in Nat /\ Len(t) \in Nat
      /\ DOMAIN s = 1 .. Len(s) /\ DOMAIN t = 1 .. Len(t) /\ DOMAIN r = 1 .. Len(s) + Len(t)
      /\ \A i \in 1 .. Len(s) : r[i] = s[i]
      /\ \A i \in 1 .. Len(s) + Len(t) : i > Len(s) => r[i] = t[i - Len(s)]
  OBVIOUS
<1> HIDE DEF r
<1>2. \A i \in DOMAIN r : i \in DOMAIN s \/ (i - Len(s) \in DOMAIN t /\ i > Len(s)) BY <1>1
<1>3. \A i \in DOMAIN s : s[i] \in Training!Members(s) BY DEF Training!Members
<1>4. \A i \in DOMAIN t : t[i] \in Training!Members(t) BY DEF Training!Members
<1>5. Once(r)
  <2> SUFFICES ASSUME NEW i \in DOMAIN r, NEW k \in DOMAIN r, r[i] = r[k] PROVE i = k
    BY DEF Once
  <2>1. CASE i \in DOMAIN s /\ k \in DOMAIN s BY <1>1, <2>1 DEF Once
  <2>2. CASE i \notin DOMAIN s /\ k \notin DOMAIN s
    <3>1. t[i - Len(s)] = t[k - Len(s)] BY <1>1, <1>2, <2>2
    <3>2. i - Len(s) = k - Len(s) BY <1>2, <2>2, <3>1 DEF Once
    <3> QED BY <1>1, <3>2
  <2>3. CASE i \in DOMAIN s /\ k \notin DOMAIN s BY <1>1, <1>2, <1>3, <1>4, <2>3
  <2>4. CASE i \notin DOMAIN s /\ k \in DOMAIN s BY <1>1, <1>2, <1>3, <1>4, <2>4
  <2> QED BY <2>1, <2>2, <2>3, <2>4
<1>6. Training!Members(r) \subseteq Training!Members(s) \cup Training!Members(t)
  <2> SUFFICES ASSUME NEW i \in DOMAIN r PROVE r[i] \in Training!Members(s) \cup Training!Members(t)
    BY DEF Training!Members
  <2> QED BY <1>1, <1>2, <1>3, <1>4
<1>7. Training!Members(s) \subseteq Training!Members(r)
  <2> SUFFICES ASSUME NEW i \in DOMAIN s PROVE s[i] \in Training!Members(r)
    BY DEF Training!Members
  <2>1. i \in DOMAIN r /\ r[i] = s[i] BY <1>1
  <2> QED BY <2>1 DEF Training!Members
<1>8. Training!Members(t) \subseteq Training!Members(r)
  <2> SUFFICES ASSUME NEW i \in DOMAIN t PROVE t[i] \in Training!Members(r)
    BY DEF Training!Members
  <2>1. i + Len(s) \in DOMAIN r /\ r[i + Len(s)] = t[i] BY <1>1
  <2> QED BY <2>1 DEF Training!Members
<1>9. r \in Seq(Training!Job) BY <1>1
<1> QED BY <1>5, <1>6, <1>7, <1>8, <1>9 DEF r

LEMMA OneHolds ==
  ASSUME NEW j \in Training!Job
  PROVE  <<j>> \in Seq(Training!Job) /\ Once(<<j>>) /\ Training!Members(<<j>>) = {j}
BY DEF Once, Training!Members

LEMMA AppendHolds ==
  ASSUME NEW s \in Seq(Training!Job), NEW j \in Training!Job, Once(s), j \notin Training!Members(s)
  PROVE  /\ Append(s, j) \in Seq(Training!Job) /\ Once(Append(s, j))
         /\ Training!Members(Append(s, j)) = Training!Members(s) \cup {j}
            /\ Len(Append(s, j)) = Len(s) + 1
<1>1. Append(s, j) = s \o <<j>> /\ Len(Append(s, j)) = Len(s) + 1 OBVIOUS
<1>2. <<j>> \in Seq(Training!Job) /\ Once(<<j>>) /\ Training!Members(<<j>>) = {j} BY OneHolds
<1>3. Training!Members(s) \cap Training!Members(<<j>>) = {} BY <1>2
<1> HIDE DEF Training!Job
<1>4. s \o <<j>> \in Seq(Training!Job) /\ Once(s \o <<j>>)
      /\ Training!Members(s \o <<j>>) = Training!Members(s) \cup Training!Members(<<j>>)
  BY <1>2, <1>3, ConcatHolds
<1> QED BY <1>1, <1>2, <1>4

LEMMA TailHolds ==
  ASSUME NEW s \in Seq(Training!Job), s # <<>>, Once(s)
  PROVE  /\ Tail(s) \in Seq(Training!Job) /\ Once(Tail(s)) /\ Head(s) \in Training!Job
         /\ Head(s) \notin Training!Members(Tail(s))
            /\ Training!Members(s) = Training!Members(Tail(s)) \cup {Head(s)}
<1> DEFINE t == Tail(s)
<1>1. /\ t \in Seq(Training!Job) /\ Head(s) = s[1] /\ Len(s) \in Nat /\ Len(s) # 0
      /\ DOMAIN s = 1 .. Len(s) /\ DOMAIN t = 1 .. Len(s) - 1
      /\ \A i \in DOMAIN t : t[i] = s[i + 1]
  OBVIOUS
<1> HIDE DEF t
<1>2. Once(t)
  <2> SUFFICES ASSUME NEW i \in DOMAIN t, NEW k \in DOMAIN t, t[i] = t[k] PROVE i = k
    BY DEF Once
  <2>1. i + 1 \in DOMAIN s /\ k + 1 \in DOMAIN s /\ s[i + 1] = s[k + 1] BY <1>1
  <2>2. i + 1 = k + 1 BY <2>1 DEF Once
  <2> QED BY <1>1, <2>2
<1>3. s[1] \notin Training!Members(t)
  <2> SUFFICES ASSUME NEW i \in DOMAIN t, t[i] = s[1] PROVE FALSE
    BY DEF Training!Members
  <2>1. i + 1 \in DOMAIN s /\ 1 \in DOMAIN s /\ s[i + 1] = s[1] BY <1>1
  <2>2. i + 1 = 1 BY <2>1 DEF Once
  <2> QED BY <1>1, <2>2
<1>4. Training!Members(s) \subseteq Training!Members(t) \cup {s[1]}
  <2> SUFFICES ASSUME NEW i \in DOMAIN s, i # 1 PROVE s[i] \in Training!Members(t)
    BY DEF Training!Members
  <2>1. i - 1 \in DOMAIN t /\ t[i - 1] = s[i] BY <1>1
  <2> QED BY <2>1 DEF Training!Members
<1>5. Training!Members(t) \cup {s[1]} \subseteq Training!Members(s)
  <2>1. 1 \in DOMAIN s BY <1>1
  <2>2. \A i \in DOMAIN t : i + 1 \in DOMAIN s BY <1>1
  <2> QED BY <1>1, <2>1, <2>2 DEF Training!Members
<1>6. t \in Seq(Training!Job) /\ Head(s) = s[1] /\ s[1] \in Training!Job BY <1>1
<1> QED BY <1>2, <1>3, <1>4, <1>5, <1>6 DEF t

LEMMA ButLastHolds ==
  ASSUME NEW s \in Seq(Training!Job), s # <<>>, Once(s)
  PROVE  /\ SubSeq(s, 1, Len(s) - 1) \in Seq(Training!Job) /\ Once(SubSeq(s, 1, Len(s) - 1))
         /\ s[Len(s)] \in Training!Job /\ s[Len(s)] \notin Training!Members(SubSeq(s, 1, Len(s) - 1))
         /\ Training!Members(s) = Training!Members(SubSeq(s, 1, Len(s) - 1)) \cup {s[Len(s)]}
         /\ Len(SubSeq(s, 1, Len(s) - 1)) = Len(s) - 1
<1> DEFINE t == SubSeq(s, 1, Len(s) - 1)
<1>0. Len(s) \in Nat /\ Len(s) # 0 /\ DOMAIN s = 1 .. Len(s) /\ Len(s) - 1 \in 0 .. Len(s)
  OBVIOUS
<1>a. /\ t \in Seq(Training!Job) /\ Len(t) = Len(s) - 1
      /\ \A i \in 1 .. Len(s) - 1 : t[i] = s[i]
  BY <1>0, SubSeqProperties
<1>1. /\ t \in Seq(Training!Job) /\ Len(s) \in Nat /\ Len(s) # 0 /\ Len(t) = Len(s) - 1
      /\ DOMAIN s = 1 .. Len(s) /\ DOMAIN t = 1 .. Len(s) - 1
      /\ \A i \in DOMAIN t : t[i] = s[i]
  BY <1>0, <1>a
<1> HIDE DEF t
<1>2. Len(s) \in DOMAIN s /\ Len(s) \notin DOMAIN t /\ DOMAIN s = DOMAIN t \cup {Len(s)} BY <1>1
<1>3. Once(t) BY <1>1, <1>2 DEF Once
<1>4. s[Len(s)] \notin Training!Members(t) BY <1>1, <1>2 DEF Once, Training!Members
<1>5. Training!Members(s) = Training!Members(t) \cup {s[Len(s)]} BY <1>1, <1>2 DEF Training!Members
<1>6. t \in Seq(Training!Job) /\ s[Len(s)] \in Training!Job /\ Len(t) = Len(s) - 1 BY <1>1, <1>2
<1> QED BY <1>3, <1>4, <1>5, <1>6 DEF t

-----------------------------------------------------------------------------
(* What a step that leaves a part alone preserves. *)
LEMMA LevelsStay == Levels /\ UNCHANGED <<tTarget, tCeiling, tDisproven>> => Levels'
BY DEF Levels

LEMMA EvidenceStays ==
  ASSUME Evidence, UNCHANGED <<tPlan, tUnsafe, tBlocked, tLast, tStreak>>,
         \/ /\ tPc \notin {"abort", "reap", "ended"} /\ tPc' # "demote"
            /\ tActive = <<>> /\ tUnsafe => tActive' = <<>>
         \/ tPc' = tPc /\ tActive' = tActive
  PROVE  Evidence'
BY DEF Evidence

LEMMA PlacesStay ==
  ASSUME Places, UNCHANGED <<Training!queues, tWorker>>,
         tOutcome' = "failed" => tPc' \in {"abort", "reap", "ended"},
         tOutcome' # "failed" => tOutcome # "failed",
         tPc' = "ended" => \A j \in Training!Job : tWorker[j] # "running"
  PROVE  Places'
BY DEF Places, Training!Members, Training!queues

LEMMA InitKept == Training!WaveAssumption /\ Training!Init => Kept
<1> SUFFICES ASSUME Training!WaveAssumption, Training!Init PROVE Kept
  OBVIOUS
<1>1. /\ tPlan \in Training!Plan /\ tTarget = Training!Lower(1, tPlan.maximum)
         /\ tCeiling = tPlan.maximum
      /\ tUnsafe = FALSE /\ tUnobserved = FALSE /\ tSamples = Training!NoSamples /\ tPc = "submit"
      /\ tPending = [i \in Training!Job |-> i] /\ tActive = <<>> /\ tTrained = <<>>
      /\ tWorker = [j \in Training!Job |-> "none"] /\ tEpoch = {} /\ tStop = {}
      /\ tBlocked = FALSE /\ tRechecked = FALSE /\ tOutcome = "none"
      /\ tLast = "safe" /\ tStreak = 0 /\ tDisproven = Jobs + 1
  BY DEF Training!Init
<1>2. tPlan.maximum \in Training!Level BY <1>1 DEF Training!Plan
<1>3. tTarget \in Training!Level /\ tCeiling \in Training!Level /\ Levels
  BY <1>1, <1>2 DEF Levels, Training!Level, Training!Lower, Training!WaveAssumption
<1>4. tPending \in Seq(Training!Job) /\ Once(tPending) /\ Training!Members(tPending) = Training!Job
  BY <1>1 DEF Training!Job, Once, Training!Members, Training!WaveAssumption
<1>5. tSamples \in [Training!Level -> 0 .. Window] BY <1>1
  DEF Training!NoSamples, Training!WaveAssumption
<1>6. tActive \in Seq(Training!Job) /\ tTrained \in Seq(Training!Job) /\ Training!Members(tActive) = {}
      /\ Training!Members(tTrained) = {}
      /\ Once(tActive) /\ Once(tTrained)
  BY <1>1 DEF Training!Members, Once
<1>7. tDisproven \in 1 .. Jobs + 1 BY <1>1 DEF Training!WaveAssumption
<1>b. tUnsafe \in BOOLEAN /\ tUnobserved \in BOOLEAN /\ tBlocked \in BOOLEAN /\ tRechecked \in BOOLEAN
  BY <1>1, Zenon
<1>c. tPlan \in Training!Plan /\ tPc = "submit" /\ tOutcome = "none" /\ tLast = "safe" /\ tStreak = 0
      /\ tEpoch = {}
      /\ tStop = {} /\ tWorker = [j \in Training!Job |-> "none"]
  BY <1>1, Zenon
<1>8. Training!TypeOK BY <1>3, <1>4, <1>5, <1>6, <1>7, <1>b, <1>c DEF Training!TypeOK
<1>9. Evidence BY <1>1, Zenon DEF Evidence
<1>10. Places BY <1>1, <1>4, <1>6 DEF Places
<1> QED BY <1>3, <1>8, <1>9, <1>10 DEF Kept

LEMMA LoopTopKept == ASSUME Training!WaveAssumption, Kept, Training!LoopTop PROVE Kept'
<1>1. /\ tPc = "loop"
         /\ UNCHANGED <<tPlan, Training!controller, Training!queues, Training!runs, tBlocked, Training!history>>
      /\ \/ tActive = <<>> /\ tPending = <<>> /\ tPc' = "ended" /\ tOutcome' = "trained"
         \/ tPc' \in {"abort", "wait", "observe", "sample"} /\ tOutcome' \in {"blocked", tOutcome}
      /\ tRechecked' \in BOOLEAN
  BY DEF Training!LoopTop, Training!IdleZeroAdmission, Kept, Training!TypeOK
<1>2. Training!TypeOK' BY <1>1
  DEF Kept, Training!TypeOK, Training!controller, Training!queues, Training!runs, Training!history
<1>3. Levels' BY <1>1, LevelsStay DEF Kept, Training!controller, Training!history
<1>4. Evidence' BY <1>1, EvidenceStays DEF Kept, Training!controller, Training!queues, Training!history
<1>5. tOutcome # "failed" BY <1>1 DEF Kept, Places
<1>6. tPc' = "ended" => \A j \in Training!Job : tWorker[j] # "running"
  BY <1>1 DEF Kept, Places, Training!Members
<1>7. Places' BY <1>1, <1>5, <1>6, PlacesStay DEF Kept, Training!runs
<1> QED BY <1>2, <1>3, <1>4, <1>7 DEF Kept

LEMMA CollectKept == ASSUME Training!WaveAssumption, Kept, Training!Collect PROVE Kept'
<1>1. /\ tPc = "wait" /\ tStop' = tStop \ Training!Finished /\ tRechecked' = FALSE
      /\ UNCHANGED <<tPlan, Training!controller, tPending, tWorker, tEpoch, tBlocked, Training!history>>
  BY DEF Training!Collect
<1>2. PICK left \in Training!Orders(Training!ActiveRuns \ Training!Finished),
           answered \in Training!Orders({j \in Training!Finished : tWorker[j] = "done"}) :
        tActive' = left /\ tTrained' = tTrained \o answered
  BY DEF Training!Collect
<1>3. \/ (\E j \in Training!Finished : tWorker[j] # "done") /\ tPc' = "abort" /\ tOutcome' = "failed"
      \/ (\A j \in Training!Finished : tWorker[j] = "done") /\ tPc' = "sample" /\ tOutcome' = tOutcome
  BY DEF Training!Collect
<1> DEFINE D == {j \in Training!Finished : tWorker[j] = "done"}
<1>4. Training!ActiveRuns \in SUBSET Training!Job /\ Training!Finished \in SUBSET Training!ActiveRuns
      /\ D \in SUBSET Training!Finished
  BY DEF Kept, Training!TypeOK, Training!ActiveRuns, Training!Members, Training!Finished
<1>5. left \in Seq(Training!Job) /\ Once(left)
      /\ Training!Members(left) = Training!ActiveRuns \ Training!Finished
  BY <1>4, OrdersHoldEachOnce
<1>6. answered \in Seq(Training!Job) /\ Once(answered) /\ Training!Members(answered) = D
  BY <1>4, OrdersHoldEachOnce
<1>7. Training!Members(tTrained) \cap D = {} BY <1>4 DEF Kept, Places, Training!ActiveRuns
<1>8. tTrained' \in Seq(Training!Job) /\ Once(tTrained')
      /\ Training!Members(tTrained') = Training!Members(tTrained) \cup D
  BY <1>2, <1>6, <1>7, ConcatHolds DEF Kept, Training!TypeOK, Places
<1>9. Training!Members(tActive') = Training!ActiveRuns \ Training!Finished
      /\ Training!Members(tPending') = Training!Members(tPending)
  BY <1>1, <1>2, <1>5
<1>10. Training!TypeOK'
  BY <1>1, <1>2, <1>3, <1>5, <1>8 DEF Kept, Training!TypeOK, Training!controller, Training!history
<1>11. Levels' BY <1>1, LevelsStay DEF Kept, Training!controller, Training!history
<1>12. tActive = <<>> => tActive' = <<>>
  <2> SUFFICES ASSUME tActive = <<>> PROVE left = <<>>
    BY <1>2
  <2>1. Training!Members(left) = {} BY <1>5 DEF Training!ActiveRuns, Training!Members
  <2>2. \A i \in DOMAIN left : left[i] \in Training!Members(left) BY DEF Training!Members
  <2> QED BY <1>5, <2>1, <2>2
<1>13. Evidence' BY <1>1, <1>3, <1>12, EvidenceStays DEF Kept, Training!controller, Training!history
<1>14. Places'
  <2> HIDE DEF D
  <2>1. \A j \in Training!Job : tWorker'[j] = "running" => j \in Training!Members(tActive')
    BY <1>1, <1>9 DEF Kept, Places, Training!Finished, Training!ActiveRuns
  <2>2. tOutcome' # "failed" =>
          Training!Members(tPending') \cup Training!Members(tActive') \cup Training!Members(tTrained') = Training!Job
    BY <1>3, <1>4, <1>8, <1>9 DEF D, Kept, Places, Training!ActiveRuns
  <2>3. /\ Training!Members(tTrained') \cap Training!Members(tPending') = {}
        /\ Training!Members(tTrained') \cap Training!Members(tActive') = {}
        /\ Training!Members(tPending') \cap Training!Members(tActive') = {}
    BY <1>4, <1>8, <1>9 DEF Kept, Places, Training!ActiveRuns
  <2>4. tOutcome' = "failed" => tPc' \in {"abort", "reap", "ended"}
    BY <1>1, <1>3 DEF Kept, Places
  <2>5. Once(tPending') /\ Once(tActive')
        /\ \A j \in Training!Members(tPending') : tWorker'[j] \in {"none", "cancelled"}
    BY <1>1, <1>2, <1>5, <1>9 DEF Kept, Places, Once
  <2> QED BY <1>3, <1>8, <2>1, <2>2, <2>3, <2>4, <2>5 DEF Places
<1> QED BY <1>10, <1>11, <1>13, <1>14 DEF Kept

(* The controller closes admission at what is owned, or altogether. *)
LEMMA ClosedLevel ==
  ASSUME Training!WaveAssumption, Training!TypeOK, Levels, NEW c, Training!CloseAdmission(c)
  PROVE  tTarget' \in Training!Level /\ tTarget' <= tTarget
<1>1. Training!Owned \in Nat BY DEF Training!TypeOK, Training!Owned
<1>2. tTarget \in 0 .. Jobs BY DEF Training!TypeOK, Training!Level
<1>3. tTarget' \in {tTarget, 0, Training!Owned}
      /\ (tTarget' = Training!Owned => Training!Owned <= tTarget)
  BY <1>1, <1>2 DEF Training!CloseAdmission, Training!Lower
<1> QED BY <1>1, <1>2, <1>3 DEF Training!Level, Training!WaveAssumption

LEMMA DisprovedLevel ==
  ASSUME Training!WaveAssumption, Training!TypeOK, Levels, NEW l \in Nat, l > 1,
        Training!DisproveLevel(l)
  PROVE  /\ tTarget' \in Training!Level /\ tCeiling' \in Training!Level
            /\ tSamples' \in [Training!Level -> 0 .. Window]
         /\ tDisproven' \in 1 .. Jobs + 1 /\ Levels'
<1>1. tTarget \in 0 .. Jobs /\ tCeiling \in 0 .. Jobs /\ tDisproven \in 1 .. Jobs + 1 /\ Jobs \in Nat
  BY DEF Training!TypeOK, Training!Level, Training!WaveAssumption
<1>2. tCeiling' = Training!Lower(tCeiling, l - 1) /\ tTarget' = Training!Lower(tTarget, tCeiling')
      /\ tDisproven' = Training!Lower(tDisproven, l)
      /\ tSamples' = Training!NoSamples
  BY DEF Training!DisproveLevel
<1>3. tCeiling' \in 0 .. Jobs /\ tCeiling' <= tCeiling /\ tCeiling' <= l - 1 BY <1>1, <1>2
  DEF Training!Lower
<1>4. tTarget' \in 0 .. Jobs /\ tTarget' <= tCeiling' BY <1>1, <1>2, <1>3 DEF Training!Lower
<1>5. tDisproven' \in 1 .. Jobs + 1 /\ (tDisproven' = tDisproven \/ tDisproven' = l)
  BY <1>1, <1>2 DEF Training!Lower
<1>6. Levels' BY <1>1, <1>3, <1>4, <1>5 DEF Levels
<1>7. tSamples' \in [Training!Level -> 0 .. Window] BY <1>2
  DEF Training!NoSamples, Training!WaveAssumption
<1> QED BY <1>3, <1>4, <1>5, <1>6, <1>7 DEF Training!Level

LEMMA BlindKept == ASSUME Training!WaveAssumption, Kept, Training!ObserveBlind PROVE Kept'
<1>1. /\ Training!Sampling /\ Training!Telemetry /\ tUnobserved' = TRUE
         /\ tSamples' = Training!NoSamples
      /\ Training!CloseAdmission(tUnsafe \/ tUnobserved) /\ tBlocked' = TRUE
      /\ \/ (tUnsafe \/ tUnobserved) /\ tActive # <<>> /\ tPc' = "abort" /\ tOutcome' = "unobservable"
         \/ ~((tUnsafe \/ tUnobserved) /\ tActive # <<>>) /\ tPc' = "submit" /\ tOutcome' = tOutcome
      /\ tLast' = "blind" /\ tStreak' = 0
      /\ UNCHANGED <<tPlan, tCeiling, tUnsafe, Training!queues, Training!runs, tRechecked, tDisproven>>
  BY DEF Training!ObserveBlind
<1>2. tTarget' \in Training!Level /\ tTarget' <= tTarget BY <1>1, ClosedLevel DEF Kept
<1>3. tSamples' \in [Training!Level -> 0 .. Window] BY <1>1
  DEF Training!NoSamples, Training!WaveAssumption
<1>4. Training!TypeOK' BY <1>1, <1>2, <1>3 DEF Kept, Training!TypeOK, Training!queues, Training!runs
<1>5. Levels' BY <1>1, <1>2 DEF Kept, Training!TypeOK, Training!Level, Levels
<1>6. Evidence'
  <2>1. UNCHANGED <<tPlan, tUnsafe, tActive>> /\ tPc' \in {"abort", "submit"} BY <1>1
    DEF Training!queues
  <2>2. tUnsafe => tActive = <<>> \/ tPc' = "abort" BY <1>1
  <2>3. tBlocked' /\ tPlan.device # "cpu" BY <1>1 DEF Training!Telemetry
  <2> QED BY <2>1, <2>2, <2>3 DEF Evidence
<1>7. tOutcome # "failed" BY <1>1 DEF Kept, Places, Training!Sampling
<1>8. Places' BY <1>1, <1>7, PlacesStay DEF Kept, Training!runs
<1> QED BY <1>4, <1>5, <1>6, <1>8 DEF Kept

LEMMA UnsafeKept == ASSUME Training!WaveAssumption, Kept, Training!ObserveUnsafe PROVE Kept'
<1>1. /\ Training!Sampling /\ Training!Telemetry /\ tUnobserved' = FALSE /\ tBlocked' = TRUE
      /\ tLast' = "unsafe" /\ tStreak' = Training!Lower(2, tStreak + 1)
      /\ UNCHANGED <<tPlan, Training!queues, tWorker, tEpoch, tRechecked, tOutcome>>
  BY DEF Training!ObserveUnsafe
<1>2. Training!Owned \in Nat /\ tStreak \in 0 .. 2 BY DEF Kept, Training!TypeOK, Training!Owned
<1>3. tStreak' \in 1 .. 2 /\ (tStreak >= 1 => tStreak' = 2) BY <1>1, <1>2 DEF Training!Lower
<1>4. CASE tUnsafe /\ Training!Owned > 1
  <2>1. tUnsafe' = FALSE /\ Training!DisproveLevel(Training!Owned) /\ tPc' = "demote"
        /\ tStop' = tStop \cup {tActive[Training!Owned]}
    BY <1>4 DEF Training!ObserveUnsafe
  <2>2. tActive # <<>> BY <1>4 DEF Training!Owned
  <2>3. tActive[Training!Owned] \in Training!Job BY <1>2, <1>4 DEF Kept, Training!TypeOK, Training!Owned
  <2>4. /\ tTarget' \in Training!Level /\ tCeiling' \in Training!Level
           /\ tSamples' \in [Training!Level -> 0 .. Window]
        /\ tDisproven' \in 1 .. Jobs + 1 /\ Levels'
    BY <1>2, <1>4, <2>1, DisprovedLevel DEF Kept
  <2>a. tUnsafe' \in BOOLEAN /\ tUnobserved' \in BOOLEAN /\ tBlocked' \in BOOLEAN BY <1>1, <2>1, Zenon
  <2>b. UNCHANGED <<tPlan, Training!queues, tWorker, tEpoch, tRechecked, tOutcome>>
        /\ tLast' = "unsafe" BY <1>1, Zenon
  <2>c. tStop' \subseteq Training!Job /\ tPc' = "demote" BY <2>1, <2>3 DEF Kept, Training!TypeOK
  <2>5. Training!TypeOK' BY <1>3, <2>4, <2>a, <2>b, <2>c DEF Kept, Training!TypeOK, Training!queues
  <2>6. tStreak' = 2 BY <1>1, <1>3, <1>4, <2>2 DEF Kept, Evidence, Training!Sampling
  <2>7. Evidence' BY <1>1, <2>1, <2>2, <2>6 DEF Evidence, Training!Telemetry, Training!queues
  <2>8. tOutcome # "failed" BY <1>1 DEF Kept, Places, Training!Sampling
  <2>9. Places' BY <1>1, <2>1, <2>8, PlacesStay DEF Kept
  <2> QED BY <2>4, <2>5, <2>7, <2>9 DEF Kept
<1>5. CASE ~(tUnsafe /\ Training!Owned > 1)
  <2>1. /\ tUnsafe' = TRUE /\ tSamples' = Training!NoSamples /\ Training!CloseAdmission(tUnsafe)
           /\ tPc' = "submit"
        /\ UNCHANGED <<tCeiling, tDisproven, tStop>>
    BY <1>5 DEF Training!ObserveUnsafe
  <2>2. tTarget' \in Training!Level /\ tTarget' <= tTarget BY <2>1, ClosedLevel DEF Kept
  <2>3. tSamples' \in [Training!Level -> 0 .. Window] BY <2>1
    DEF Training!NoSamples, Training!WaveAssumption
  <2>a. tUnsafe' \in BOOLEAN /\ tUnobserved' \in BOOLEAN /\ tBlocked' \in BOOLEAN BY <1>1, <2>1, Zenon
  <2>b. UNCHANGED <<tPlan, Training!queues, tWorker, tEpoch, tRechecked, tOutcome>>
        /\ tLast' = "unsafe" BY <1>1, Zenon
  <2>c. UNCHANGED <<tCeiling, tDisproven, tStop>> /\ tPc' = "submit" BY <2>1, Zenon
  <2>4. Training!TypeOK' BY <1>3, <2>2, <2>3, <2>a, <2>b, <2>c
    DEF Kept, Training!TypeOK, Training!queues
  <2>5. Levels' BY <2>1, <2>2 DEF Kept, Training!TypeOK, Training!Level, Levels
  <2>6. Evidence' BY <1>1, <1>3, <2>1 DEF Evidence, Training!Telemetry
  <2>7. tOutcome # "failed" BY <1>1 DEF Kept, Places, Training!Sampling
  <2>8. Places' BY <1>1, <2>1, <2>7, PlacesStay DEF Kept
  <2> QED BY <2>4, <2>5, <2>6, <2>8 DEF Kept
<1> QED BY <1>4, <1>5

LEMMA SafeKept == ASSUME Training!WaveAssumption, Kept, Training!ObserveSafe PROVE Kept'
<1>1. /\ Training!Sampling /\ tUnobserved' = FALSE /\ tUnsafe' = FALSE /\ tBlocked' = FALSE
      /\ tPc' = "submit" /\ tLast' = "safe" /\ tStreak' = 0
      /\ UNCHANGED <<tPlan, Training!queues, Training!runs, tRechecked, tOutcome>>
  BY DEF Training!ObserveSafe
<1>2. /\ tTarget' \in Training!Level /\ tCeiling' \in Training!Level
         /\ tSamples' \in [Training!Level -> 0 .. Window]
      /\ tDisproven' \in 1 .. Jobs + 1 /\ Levels'
  <2>1. /\ tTarget \in Training!Level /\ tCeiling \in Training!Level
           /\ tSamples \in [Training!Level -> 0 .. Window]
        /\ tDisproven \in 1 .. Jobs + 1 /\ Training!Owned \in Nat
    BY DEF Kept, Training!TypeOK, Training!Owned
  <2>2. Training!NoSamples \in [Training!Level -> 0 .. Window]
    BY DEF Training!NoSamples, Training!WaveAssumption
  <2>3. CASE Training!Uncalibrated
    BY <2>1, <2>2, <2>3, LevelsStay DEF Training!Uncalibrated, Kept
  <2>4. CASE Training!Averaging
    <3>1. tSamples' = [tSamples EXCEPT ![Training!Owned] = Training!Lower(Window, @ + 1)]
          /\ UNCHANGED <<tTarget, tCeiling, tDisproven>>
      BY <2>4 DEF Training!Averaging
    <3>2. \A n \in 0 .. Window : Training!Lower(Window, n + 1) \in 0 .. Window
      BY DEF Training!Lower, Training!WaveAssumption
    <3>3. tSamples' \in [Training!Level -> 0 .. Window] BY <2>1, <3>1, <3>2
    <3> QED BY <2>1, <3>1, <3>3, LevelsStay DEF Kept
  <2>5. CASE Training!Saturated BY <2>1, <2>5, DisprovedLevel DEF Training!Saturated, Kept
  <2>6. CASE Training!Promote
    <3>1. tTarget < tCeiling /\ tTarget' = tTarget + 1 /\ tSamples' = Training!NoSamples
                                /\ UNCHANGED <<tCeiling, tDisproven>>
      BY <2>6 DEF Training!Promote
    <3> QED BY <2>1, <2>2, <3>1 DEF Kept, Levels, Training!Level, Training!WaveAssumption
  <2> QED BY <2>3, <2>4, <2>5, <2>6 DEF Training!ObserveSafe
<1>a. tUnsafe' \in BOOLEAN /\ tUnobserved' \in BOOLEAN /\ tBlocked' \in BOOLEAN BY <1>1, Zenon
<1>b. UNCHANGED <<tPlan, Training!queues, Training!runs, tRechecked, tOutcome>> /\ tPc' = "submit"
      /\ tLast' = "safe" /\ tStreak' = 0
  BY <1>1, Zenon
<1>3. Training!TypeOK' BY <1>2, <1>a, <1>b DEF Kept, Training!TypeOK, Training!queues, Training!runs
<1>4. Evidence' BY <1>1, Zenon DEF Evidence
<1>5. tOutcome # "failed" BY <1>1 DEF Kept, Places, Training!Sampling
<1>6. Places' BY <1>1, <1>5, PlacesStay DEF Kept, Training!runs
<1> QED BY <1>2, <1>3, <1>4, <1>6 DEF Kept

(* What only moves the scheduler on. *)
LEMMA MoveKept ==
  ASSUME Training!WaveAssumption, Kept, Training!SkipSample \/ Training!ObserveNothing
        \/ Training!SubmitEnd \/ Training!Abort \/ Training!Reap
  PROVE  Kept'
<1>1. /\ UNCHANGED <<tPlan, Training!controller, Training!queues, tWorker, tEpoch, tRechecked, tOutcome, Training!history>>
      /\ tPc' \in {"submit", "loop", "reap", "ended"}
      /\ tStop' \in {tStop, Training!ActiveRuns}
  BY DEF Training!SkipSample, Training!ObserveNothing, Training!SubmitEnd, Training!Abort,
     Training!Reap, Training!runs
<1>2. tBlocked' = tBlocked \/ (tBlocked' = FALSE /\ tPlan.device = "cpu")
  BY DEF Training!SkipSample, Training!ObserveNothing, Training!SubmitEnd, Training!Abort,
     Training!Reap, Training!Telemetry
<1>3. Training!ActiveRuns \subseteq Training!Job
  BY DEF Kept, Training!TypeOK, Training!ActiveRuns, Training!Members
<1>4. Training!TypeOK' BY <1>1, <1>2, <1>3
  DEF Kept, Training!TypeOK, Training!controller, Training!queues, Training!history
<1>5. Levels' BY <1>1, LevelsStay DEF Kept, Training!controller, Training!history
<1>6. Evidence'
  <2>1. tPc \in {"abort", "reap", "ended"} => tPc' \in {"abort", "reap", "ended"}
    BY DEF Training!SkipSample, Training!ObserveNothing, Training!SubmitEnd, Training!Abort,
       Training!Reap, Training!Sampling
  <2> QED BY <1>1, <1>2, <2>1 DEF Kept, Evidence, Training!controller, Training!queues, Training!history
<1>7. tOutcome = "failed" => tPc' \in {"abort", "reap", "ended"}
  BY DEF Kept, Places, Training!SkipSample, Training!ObserveNothing, Training!SubmitEnd, Training!Abort,
     Training!Reap, Training!Sampling
<1>8. tPc' = "ended" => \A j \in Training!Job : tWorker[j] # "running"
  <2> SUFFICES ASSUME Training!Reap PROVE \A j \in Training!Job : tWorker[j] # "running"
    BY DEF Training!SkipSample, Training!ObserveNothing, Training!SubmitEnd, Training!Abort
  <2>1. Training!Finished = Training!ActiveRuns BY DEF Training!Reap
  <2> QED BY <2>1 DEF Kept, Places, Training!Finished, Training!ActiveRuns
<1>9. Places' BY <1>1, <1>7, <1>8, PlacesStay DEF Kept
<1> QED BY <1>4, <1>5, <1>6, <1>9 DEF Kept

LEMMA DemoteKept == ASSUME Training!WaveAssumption, Kept, Training!Demote PROVE Kept'
<1> DEFINE victim == tActive[Training!Owned]
<1>1. /\ tPc = "demote" /\ tWorker[victim] # "running"
      /\ tActive' = SubSeq(tActive, 1, Training!Owned - 1) /\ tStop' = tStop \ {victim}
      /\ tEpoch' = tEpoch \ {victim} /\ tStreak' = 0
      /\ UNCHANGED <<tPlan, Training!controller, tWorker, tBlocked, tRechecked, tLast, tDisproven>>
  BY DEF Training!Demote
<1>2. \/ /\ tWorker[victim] = "cancelled" /\ tPending' = <<victim>> \o tPending /\ tPc' = "loop"
         /\ UNCHANGED <<tTrained, tOutcome>>
      \/ /\ tWorker[victim] = "done" /\ tTrained' = Append(tTrained, victim) /\ tPc' = "loop"
         /\ UNCHANGED <<tPending, tOutcome>>
      \/ /\ tWorker[victim] = "failed" /\ tPc' = "abort" /\ tOutcome' = "failed"
         /\ UNCHANGED <<tPending, tTrained>>
  BY DEF Training!Demote
<1>3. tActive # <<>> /\ ~tUnsafe BY <1>1 DEF Kept, Evidence
<1>4. /\ tActive' \in Seq(Training!Job) /\ Once(tActive') /\ victim \in Training!Job
         /\ victim \notin Training!Members(tActive')
      /\ Training!Members(tActive) = Training!Members(tActive') \cup {victim}
  BY <1>1, <1>3, ButLastHolds DEF Kept, Training!TypeOK, Places, Training!Owned
<1> HIDE DEF victim
<1>5. victim \notin Training!Members(tPending) /\ victim \notin Training!Members(tTrained) BY <1>4
  DEF Kept, Places
<1>6. tOutcome # "failed" BY <1>1 DEF Kept, Places
<1>7. tPending \in Seq(Training!Job) /\ tTrained \in Seq(Training!Job) /\ Once(tPending)
      /\ Once(tTrained)
  BY DEF Kept, Training!TypeOK, Places
<1>8. /\ <<victim>> \o tPending \in Seq(Training!Job) /\ Once(<<victim>> \o tPending)
      /\ Training!Members(<<victim>> \o tPending) = Training!Members(tPending) \cup {victim}
  <2>1. <<victim>> \in Seq(Training!Job) /\ Once(<<victim>>)
        /\ Training!Members(<<victim>>) = {victim} BY <1>4, OneHolds
  <2>2. Training!Members(<<victim>>) \cap Training!Members(tPending) = {} BY <1>5, <2>1
  <2>3. Training!Members(<<victim>> \o tPending) = Training!Members(<<victim>>) \cup Training!Members(tPending)
        /\ <<victim>> \o tPending \in Seq(Training!Job) /\ Once(<<victim>> \o tPending)
    BY <1>7, <2>1, <2>2, ConcatHolds
  <2> QED BY <2>1, <2>3
<1>9. /\ Append(tTrained, victim) \in Seq(Training!Job) /\ Once(Append(tTrained, victim))
      /\ Training!Members(Append(tTrained, victim)) = Training!Members(tTrained) \cup {victim}
  BY <1>4, <1>5, <1>7, AppendHolds
<1>10. /\ tPending' \in Seq(Training!Job) /\ tTrained' \in Seq(Training!Job) /\ Once(tPending')
          /\ Once(tTrained')
       /\ Training!Members(tPending') \cup Training!Members(tTrained') \subseteq Training!Members(tPending) \cup Training!Members(tTrained) \cup {victim}
       /\ Training!Members(tTrained') \cap Training!Members(tPending') = {}
       /\ \A j \in Training!Members(tPending') : tWorker[j] \in {"none", "cancelled"}
       /\ tOutcome' # "failed" =>
            Training!Members(tPending') \cup Training!Members(tTrained') = Training!Members(tPending) \cup Training!Members(tTrained) \cup {victim}
  <2>1. CASE tWorker[victim] = "cancelled" /\ tPending' = <<victim>> \o tPending /\ tTrained' = tTrained
    BY <1>5, <1>7, <1>8, <2>1 DEF Kept, Places
  <2>2. CASE tTrained' = Append(tTrained, victim) /\ tPending' = tPending
    BY <1>5, <1>7, <1>9, <2>2 DEF Kept, Places
  <2>3. CASE tOutcome' = "failed" /\ tPending' = tPending /\ tTrained' = tTrained
    BY <1>7, <2>3 DEF Kept, Places
  <2> QED BY <1>2, <2>1, <2>2, <2>3
<1>11. Training!TypeOK' BY <1>1, <1>2, <1>4, <1>10 DEF Kept, Training!TypeOK, Training!controller
<1>12. Levels' BY <1>1, LevelsStay DEF Kept, Training!controller
<1>13. Evidence' BY <1>1, <1>2, <1>3 DEF Kept, Evidence, Training!controller
<1>14. Places'
  <2>1. \A j \in Training!Job : tWorker'[j] = "running" => j \in Training!Members(tActive')
    BY <1>1, <1>4 DEF Kept, Places, victim
  <2>2. /\ Training!Members(tPending') \cap Training!Members(tActive') = {}
           /\ Training!Members(tTrained') \cap Training!Members(tActive') = {}
    BY <1>4, <1>10 DEF Kept, Places
  <2>3. tOutcome' # "failed" =>
          Training!Members(tPending') \cup Training!Members(tActive') \cup Training!Members(tTrained') = Training!Job
    BY <1>4, <1>6, <1>10 DEF Kept, Places
  <2>4. (tOutcome' = "failed" => tPc' \in {"abort", "reap", "ended"}) /\ tPc' # "ended"
    BY <1>2, <1>6
  <2>5. tWorker' = tWorker BY <1>1
  <2> QED BY <1>4, <1>10, <2>1, <2>2, <2>3, <2>4, <2>5 DEF Places
<1> QED BY <1>11, <1>12, <1>13, <1>14 DEF Kept

LEMMA AdmitKept == ASSUME Training!WaveAssumption, Kept, Training!Admit PROVE Kept'
<1> DEFINE j == Head(tPending)
<1>1. /\ tPc = "submit" /\ ~tBlocked /\ tPending # <<>>
      /\ UNCHANGED <<tPlan, Training!controller, tTrained, tStop, tBlocked, tRechecked, Training!history>>
  BY DEF Training!Admit, Training!Admissible
<1>2. tOutcome # "failed" /\ ~tUnsafe BY <1>1 DEF Kept, Places, Evidence
<1>3. CASE /\ tPending' = Tail(tPending) /\ tActive' = Append(tActive, j)
           /\ tWorker' = [tWorker EXCEPT ![j] = "running"] /\ tEpoch' = tEpoch \ {j}
           /\ UNCHANGED <<tPc, tOutcome>>
  <2>1. /\ tPending' \in Seq(Training!Job) /\ Once(tPending') /\ j \in Training!Job
        /\ j \notin Training!Members(tPending')
           /\ Training!Members(tPending) = Training!Members(tPending') \cup {j}
    BY <1>1, <1>3, TailHolds DEF Kept, Training!TypeOK, Places
  <2> HIDE DEF j
  <2>2. j \notin Training!Members(tActive) /\ j \notin Training!Members(tTrained) BY <2>1
    DEF Kept, Places
  <2>3. /\ tActive' \in Seq(Training!Job) /\ Once(tActive')
           /\ Training!Members(tActive') = Training!Members(tActive) \cup {j}
    BY <1>3, <2>1, <2>2, AppendHolds DEF Kept, Training!TypeOK, Places
  <2>4. tWorker' \in [Training!Job -> {"none", "running", "done", "failed", "cancelled"}]
        /\ \A k \in Training!Job : k # j => tWorker'[k] = tWorker[k]
    BY <1>3, <2>1 DEF Kept, Training!TypeOK
  <2>5. Training!TypeOK' BY <1>1, <1>3, <2>1, <2>3, <2>4
    DEF Kept, Training!TypeOK, Training!controller, Training!history
  <2>6. Levels' BY <1>1, LevelsStay DEF Kept, Training!controller, Training!history
  <2>7. Evidence' BY <1>1, <1>2, <1>3, EvidenceStays DEF Kept, Training!controller, Training!history
  <2>8. Places'
    <3>1. \A k \in Training!Members(tPending') : tWorker'[k] \in {"none", "cancelled"}
      <4>1. Training!Members(tPending') \subseteq Training!Job BY <2>1 DEF Training!Members
      <4> QED BY <2>1, <2>4, <4>1 DEF Kept, Places
    <3>2. \A k \in Training!Job : tWorker'[k] = "running" => k \in Training!Members(tActive')
      BY <2>3, <2>4 DEF Kept, Places
    <3>3. /\ Training!Members(tPending') \cap Training!Members(tActive') = {}
          /\ Training!Members(tTrained) \cap Training!Members(tPending') = {}
             /\ Training!Members(tTrained) \cap Training!Members(tActive') = {}
      BY <2>1, <2>2, <2>3 DEF Kept, Places
    <3>4. Training!Members(tPending') \cup Training!Members(tActive') \cup Training!Members(tTrained) = Training!Job
      BY <1>2, <2>1, <2>3 DEF Kept, Places
    <3>5. tTrained' = tTrained /\ Once(tTrained) /\ tOutcome' # "failed" /\ tPc' = "submit"
      BY <1>1, <1>2, <1>3 DEF Kept, Places
    <3> QED BY <2>1, <2>3, <3>1, <3>2, <3>3, <3>4, <3>5 DEF Places
  <2> QED BY <2>5, <2>6, <2>7, <2>8 DEF Kept
<1>4. CASE /\ tPc' = "abort" /\ tOutcome' = "failed"
           /\ UNCHANGED <<tPending, tActive, tWorker, tEpoch>>
  <2>1. Training!TypeOK' BY <1>1, <1>4 DEF Kept, Training!TypeOK, Training!controller, Training!history
  <2>2. Levels' BY <1>1, LevelsStay DEF Kept, Training!controller, Training!history
  <2>3. Evidence' BY <1>1, <1>4, EvidenceStays DEF Kept, Training!controller, Training!history
  <2>4. Places' BY <1>1, <1>4, PlacesStay DEF Kept, Training!queues
  <2> QED BY <2>1, <2>2, <2>3, <2>4 DEF Kept
<1> QED BY <1>3, <1>4 DEF Training!Admit

(* The workers answer for what is owned, and for nothing else. *)
LEMMA ReturnKept == ASSUME Training!WaveAssumption, Kept, NEW j \in Training!Job,
      Training!Return(j) PROVE Kept'
<1>1. /\ tWorker[j] = "running"
      /\ UNCHANGED <<tPlan, Training!controller, tPc, Training!queues, tEpoch, tStop, tBlocked, tRechecked, tOutcome, Training!history>>
  BY DEF Training!Return
<1>2. PICK answer \in {"done", "failed", "cancelled"} : tWorker' = [tWorker EXCEPT ![j] = answer]
  BY DEF Training!Return
<1>3. /\ tWorker' \in [Training!Job -> {"none", "running", "done", "failed", "cancelled"}]
      /\ \A k \in Training!Job : k # j => tWorker'[k] = tWorker[k]
      /\ tWorker'[j] # "running"
  BY <1>2 DEF Kept, Training!TypeOK
<1>4. j \notin Training!Members(tPending) BY <1>1 DEF Kept, Places
<1>5. Training!Members(tPending) \subseteq Training!Job BY DEF Kept, Training!TypeOK, Training!Members
<1>6. Training!TypeOK' BY <1>1, <1>3
  DEF Kept, Training!TypeOK, Training!controller, Training!queues, Training!history
<1>7. Levels' BY <1>1, LevelsStay DEF Kept, Training!controller, Training!history
<1>8. Evidence' BY <1>1, EvidenceStays DEF Kept, Training!controller, Training!queues, Training!history
<1>9. Places'
  <2>1. UNCHANGED <<tPending, tActive, tTrained, tOutcome, tPc>> BY <1>1 DEF Training!queues
  <2>2. \A k \in Training!Members(tPending) : tWorker'[k] \in {"none", "cancelled"}
    BY <1>3, <1>4, <1>5 DEF Kept, Places
  <2>3. \A k \in Training!Job : tWorker'[k] = "running" => tWorker[k] = "running" BY <1>3
  <2> QED BY <2>1, <2>2, <2>3 DEF Kept, Places, Training!Members, Once
<1> QED BY <1>6, <1>7, <1>8, <1>9 DEF Kept

LEMMA ReportKept == ASSUME Training!WaveAssumption, Kept, NEW j \in Training!Job,
      Training!ReportPhase(j) PROVE Kept'
<1>1. UNCHANGED <<tPlan, Training!controller, tPc, Training!queues, tWorker, tStop, tBlocked, tRechecked, tOutcome, Training!history>>
      /\ tEpoch' \subseteq tEpoch \cup {j}
  BY DEF Training!ReportPhase
<1>2. Training!TypeOK' BY <1>1
  DEF Kept, Training!TypeOK, Training!controller, Training!queues, Training!history
<1>3. Levels' BY <1>1, LevelsStay DEF Kept, Training!controller, Training!history
<1>4. Evidence' BY <1>1, EvidenceStays DEF Kept, Training!controller, Training!queues, Training!history
<1>5. Places' BY <1>1, PlacesStay DEF Kept, Places
<1> QED BY <1>2, <1>3, <1>4, <1>5 DEF Kept

LEMMA StutterKept == ASSUME Kept, UNCHANGED Training!vars PROVE Kept'
<1>1. Training!TypeOK'
  BY DEF Kept, Training!TypeOK, Training!vars, Training!controller, Training!queues, Training!runs,
     Training!history
<1>2. Levels' BY LevelsStay DEF Kept, Training!vars, Training!controller, Training!history
<1>3. Evidence' BY EvidenceStays
  DEF Kept, Training!vars, Training!controller, Training!queues, Training!history
<1>4. Places' BY PlacesStay DEF Kept, Places, Training!vars, Training!runs
<1> QED BY <1>1, <1>2, <1>3, <1>4 DEF Kept

LEMMA NextKept == ASSUME Training!WaveAssumption, Kept, [Training!Next]_(Training!vars) PROVE Kept'
<1>1. CASE Training!Scheduler
  BY <1>1, LoopTopKept, CollectKept, BlindKept, UnsafeKept, SafeKept, MoveKept, DemoteKept, AdmitKept
     DEF Training!Scheduler
<1>2. CASE \E j \in Training!Job : Training!Return(j) \/ Training!ReportPhase(j)
  BY <1>2, ReturnKept, ReportKept
<1>3. CASE UNCHANGED Training!vars BY <1>3, StutterKept
<1> QED BY <1>1, <1>2, <1>3 DEF Training!Next, Training!Done

LEMMA KeptRun == Training!WaveAssumption /\ Training!Spec => []Kept
<1> SUFFICES ASSUME Training!WaveAssumption PROVE Training!Spec => []Kept
  BY DEF Training!WaveAssumption
<1>1. Training!Init => Kept BY InitKept
<1>2. Kept /\ [Training!Next]_(Training!vars) => Kept' BY NextKept
<1> QED BY <1>1, <1>2, PTL DEF Training!Spec

LEMMA KeptIsSafe == Kept => Training!NoRunLostOrDoubled /\ Training!NothingLeftRunning
      /\ Training!BackoffIsEarned
<1> SUFFICES ASSUME Kept
  PROVE Training!NoRunLostOrDoubled /\ Training!NothingLeftRunning /\ Training!BackoffIsEarned
  OBVIOUS
<1>1. Cardinality(Training!Members(tPending)) = Len(tPending)
      /\ Cardinality(Training!Members(tTrained)) = Len(tTrained)
  BY OnceCounts DEF Kept, Training!TypeOK, Places
<1>2. Training!NoRunLostOrDoubled BY <1>1, CountsAlike
  DEF Kept, Places, Training!NoRunLostOrDoubled, Training!ActiveRuns
<1> QED BY <1>2 DEF Kept, Places, Evidence, Training!NothingLeftRunning, Training!BackoffIsEarned

(* Only an admission adds to what is owned: it stays at the level that is   *)
(* admitted into, and the latest observation was safe.                      *)
LEMMA AdmissionIsEarned ==
  ASSUME Training!WaveAssumption, Kept, [Training!Next]_(Training!vars), Len(tActive') > Len(tActive)
  PROVE  Len(tActive') < tDisproven /\ tLast = "safe"
<1>0. Len(tActive) \in Nat /\ tActive \in Seq(Training!Job) BY DEF Kept, Training!TypeOK
<1>1. CASE Training!Admit
  <2>1. ~tBlocked /\ Training!Owned < tTarget /\ tPending # <<>>
        /\ tActive' \in {tActive, Append(tActive, Head(tPending))}
    BY <1>1 DEF Training!Admit, Training!Admissible
  <2>2. tLast = "safe" BY <2>1 DEF Kept, Evidence
  <2>3. Head(tPending) \in Training!Job BY <2>1 DEF Kept, Training!TypeOK
  <2>4. Len(tActive') = Len(tActive) + 1 BY <1>0, <2>1, <2>3
  <2>5. tTarget \in 0 .. Jobs /\ tCeiling \in 0 .. Jobs /\ tDisproven \in 1 .. Jobs + 1
    BY DEF Kept, Training!TypeOK, Training!Level
  <2> QED BY <1>0, <2>1, <2>2, <2>4, <2>5 DEF Kept, Levels, Training!Owned, Training!WaveAssumption
<1>2. CASE Training!Demote
  <2>1. tActive # <<>> /\ tActive' = SubSeq(tActive, 1, Len(tActive) - 1)
    BY <1>2 DEF Training!Demote, Training!Owned, Kept, Evidence
  <2>2. Len(tActive') = Len(tActive) - 1 BY <1>0, <2>1, ButLastHolds DEF Kept, Places
  <2> QED BY <1>0, <2>2
<1>3. CASE Training!Collect
  <2>1. PICK left \in Training!Orders(Training!ActiveRuns \ Training!Finished) : tActive' = left
    BY <1>3 DEF Training!Collect
  <2>2. Training!ActiveRuns \in SUBSET Training!Job
    BY DEF Kept, Training!TypeOK, Training!ActiveRuns, Training!Members
  <2>3. left \in Seq(Training!Job) /\ Once(left)
        /\ Training!Members(left) \subseteq Training!Members(tActive)
    BY <2>2, OrdersHoldEachOnce DEF Training!ActiveRuns
  <2>4. Cardinality(Training!Members(left)) = Len(left)
        /\ Cardinality(Training!Members(tActive)) = Len(tActive)
    BY <1>0, <2>3, OnceCounts DEF Kept, Places
  <2>5. IsFiniteSet(Training!Members(tActive)) BY <2>2, JobsAreFinite DEF Training!ActiveRuns
  <2>6. Len(left) <= Len(tActive) BY <2>3, <2>4, <2>5, FS_Subset
  <2>7. Len(left) \in Nat BY <2>3
  <2> QED BY <1>0, <2>1, <2>6, <2>7
<1>4. CASE tActive' = tActive BY <1>0, <1>4
<1>5. Training!Admit \/ Training!Demote \/ Training!Collect \/ tActive' = tActive
  BY DEF Training!Next, Training!Scheduler, Training!LoopTop, Training!SkipSample,
     Training!ObserveNothing, Training!ObserveBlind, Training!ObserveUnsafe, Training!ObserveSafe,
     Training!SubmitEnd, Training!Abort, Training!Reap, Training!Return, Training!ReportPhase,
           Training!Done, Training!vars, Training!queues
<1> QED BY <1>1, <1>2, <1>3, <1>4, <1>5

(* Every run is pending, owned, or trained, each at most once, and a worker *)
(* runs only for an owned run (_train_post_selection_pending_runs).        *)
THEOREM WaveIsSafe ==
  Training!WaveAssumption
        /\ Training!Spec => [](Training!TypeOK /\ Training!NoRunLostOrDoubled /\ Training!NothingLeftRunning)
<1>1. Kept => Training!TypeOK BY DEF Kept
<1> QED BY <1>1, KeptIsSafe, KeptRun, PTL

(* The ceiling stays below what was disproved and the target below the      *)
(* ceiling; pressure closes admission until a safe observation, and a      *)
(* backoff uses up its evidence (AdaptiveTrainingConcurrency).             *)
THEOREM LevelsStayEarned ==
  Training!WaveAssumption /\ Training!Spec => []Training!BackoffIsEarned
        /\ Training!DisprovenLevelStaysClosed /\ Training!AdmitsOnSafeEvidence
<1> SUFFICES ASSUME Training!WaveAssumption
             PROVE  Training!Spec => []Training!BackoffIsEarned /\ Training!DisprovenLevelStaysClosed
                   /\ Training!AdmitsOnSafeEvidence
  BY DEF Training!WaveAssumption
<1>1. Kept /\ [Training!Next]_(Training!vars) => [Len(tActive') > Len(tActive) => Len(tActive') < tDisproven]_(Training!vars)
  BY AdmissionIsEarned
<1>2. Kept /\ [Training!Next]_(Training!vars) => [Len(tActive') > Len(tActive) => tLast = "safe"]_(Training!vars)
  BY AdmissionIsEarned
<1> QED
  BY <1>1, <1>2, KeptIsSafe, KeptRun, PTL
    DEF Training!Spec, Training!DisprovenLevelStaysClosed, Training!AdmitsOnSafeEvidence

-----------------------------------------------------------------------------
(* Whatever the setting, the variables of the wave take its steps. *)
LEMMA SettingHasWave == SettingSpec => Training!Spec
<1>1. SettingInit => Training!Init BY DEF SettingInit
<1>2. [SettingNext]_<<vars, trainingVars, setting>> => [Training!Next]_(Training!vars)
  BY DEF SettingNext, trainingVars, Training!vars, Training!controller, Training!queues, Training!runs,
     Training!history
<1> QED BY <1>1, <1>2, PTL DEF SettingSpec, Training!Spec

(* Whatever the setting, the variables of the pass take its steps. *)
LEMMA SettingHasPass == SettingSpec => Spec
<1>1. SettingInit => Init BY DEF SettingInit
<1>2. [SettingNext]_<<vars, trainingVars, setting>> => [Next]_vars
  BY DEF SettingNext, vars, loop
<1> QED BY <1>1, <1>2, PTL DEF SettingSpec, Spec

(* build_target_coverage_geometry: what is charged are the prepared        *)
(* families, what is queued, runs or waits in a reducer stays bounded, and *)
(* the loop finds nothing to wait for only when every family is finished.  *)
THEOREM GeometryStaysCharged == SettingSpec => []GeometryIsCharged
<1>1. SettingSpec => [](TypeOK /\ StatesAreCharged /\ HeldResultsBounded /\ WorkLasts)
  BY SettingHasPass, GeometryHolds
<1>2. TypeOK /\ StatesAreCharged /\ HeldResultsBounded /\ WorkLasts => GeometryIsCharged
  BY DEF GeometryIsCharged
<1> QED BY <1>1, <1>2, PTL

(* _train_post_selection_pending_runs: no run is lost or doubled, and when  *)
(* the wave has ended nothing it started is still running.                 *)
THEOREM RunsStayInOnePlace == SettingSpec => []RunsInOnePlace
<1>1. SettingSpec => [](Training!TypeOK /\ Training!NoRunLostOrDoubled /\ Training!NothingLeftRunning)
  BY SettingHasWave, WaveIsSafe, WaveConstants
<1>2. Training!TypeOK /\ Training!NoRunLostOrDoubled /\ Training!NothingLeftRunning => RunsInOnePlace
  BY DEF RunsInOnePlace
<1> QED BY <1>1, <1>2, PTL

(* AdaptiveTrainingConcurrency.observe, submit_available: every backoff has *)
(* its own evidence, a disproved level stays closed, and only a safe       *)
(* observation admits.                                                     *)
THEOREM LevelsRemainEarned == SettingSpec => LevelsAreEarned
BY SettingHasWave, LevelsStayEarned, WaveConstants DEF LevelsAreEarned

=============================================================================
