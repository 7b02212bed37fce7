-------------------------- MODULE WorkQueue_proofs --------------------------
(***************************************************************************)
(* The memory account of the queue, for any tasks, bounds and budget.      *)
(***************************************************************************)
EXTENDS WorkQueue, FiniteSetTheorems, TLAPS

(* Draining forgets the memory of results, so it must not be negative. *)
Account == TypeOK /\ mem.completed >= 0 /\ AccountedFitsBudget

(* Taking one item out of a sequence of tasks leaves a sequence of tasks. *)
LEMMA RemoveKeepsType ==
  ASSUME NEW S, NEW s \in Seq(S), NEW i \in DOMAIN s
  PROVE  RemoveAt(s, i) \in Seq(S)
<1>1. i \in 1 .. Len(s) /\ Len(s) \in Nat
  OBVIOUS
<1>2. SubSeq(s, 1, i - 1) \in Seq(S) /\ SubSeq(s, i + 1, Len(s)) \in Seq(S)
  BY <1>1
<1> QED BY <1>2 DEF RemoveAt

LEMMA PopTypes ==
  ASSUME TypeOK, NEW t \in Task, PopFuture(t)
  PROVE  inflight' \in Seq(Task)
BY RemoveKeepsType DEF TypeOK, PopFuture

LEMMA CancelTypes ==
  ASSUME TypeOK, CancelPending
  PROVE  outcome' \in [Task -> {"none", "ok", "failed", "cancelled"}]
BY DEF TypeOK, CancelPending

(* The three counters of the account. *)
Counters == [inflight : Int, completed : Int, reserved : Int]

(* Steps that move tasks and leave the account alone. *)
LEMMA AccountAlone ==
  ASSUME Account, TypeOK', UNCHANGED mem
  PROVE  Account'
BY DEF Account, AccountedFitsBudget, Accounted

LEMMA SubmitAccount == ASSUME Account, NEW t \in Task, Submit(t) PROVE Account'
<1>1. TypeOK' BY DEF Account, TypeOK, Submit, Queued
<1> QED BY <1>1, AccountAlone DEF Submit, Queued

LEMMA ReserveAccount ==
  ASSUME Account, NEW r \in Reservation, NEW amount \in Amounts, NEW then \in {"free", "dispatch"},
         Reserve(r, amount, then)
  PROVE  Account'
<1>1. amount \in Nat /\ Budget \in Nat BY QueueAssumption
<1>2. /\ mem' \in Counters
      /\ mem'.inflight = mem.inflight /\ mem'.completed = mem.completed
      /\ mem'.reserved = mem.reserved + amount
  BY <1>1 DEF Account, TypeOK, Counters, Reserve, Reserved
<1>3. /\ held' = [x \in DOMAIN held \cup {r} |-> IF x = r THEN amount ELSE held[x]]
      /\ amount <= Available
  BY DEF Reserve, Reserved
<1>4. DOMAIN held' \subseteq Reservation /\ \A x \in DOMAIN held' : held'[x] \in Amounts
  BY <1>3 DEF Account, TypeOK
<1>5. TypeOK' BY <1>2, <1>4 DEF Account, TypeOK, Counters, Reserve, Reserved, tasks
<1>6. Accounted' <= Budget
  BY <1>1, <1>2, <1>3 DEF Account, TypeOK, Accounted, Available
<1> QED BY <1>2, <1>5, <1>6 DEF Account, AccountedFitsBudget

LEMMA ReleaseAccount == ASSUME Account, NEW r \in Reservation, Release(r) PROVE Account'
<1>1. held[r] \in Nat /\ Budget \in Nat BY QueueAssumption DEF Account, TypeOK, Release
<1>2. /\ mem' \in Counters
      /\ mem'.inflight = mem.inflight /\ mem'.completed = mem.completed
      /\ mem'.reserved = mem.reserved - held[r]
  BY <1>1 DEF Account, TypeOK, Counters, Release
<1>3. TypeOK' BY <1>1, <1>2 DEF Account, TypeOK, Counters, Release, tasks
<1>4. Accounted' <= Budget
  BY <1>1, <1>2 DEF Account, TypeOK, AccountedFitsBudget, Accounted
<1> QED BY <1>2, <1>3, <1>4 DEF Account, AccountedFitsBudget

LEMMA DispatchOneAccount == ASSUME Account, DispatchOne PROVE Account'
<1>1. PICK i \in DOMAIN ready :
        /\ Fits(i)
        /\ inflight' = Append(inflight, ready[i])
        /\ mem' = [mem EXCEPT !.inflight = @ + Memory[ready[i]]]
        /\ ready' = RemoveAt(ready, i)
  BY DEF DispatchOne
<1>2. ready[i] \in Task /\ Memory[ready[i]] \in Nat /\ Budget \in Nat
  BY QueueAssumption DEF Account, TypeOK
<1>3. ready' \in Seq(Task) /\ inflight' \in Seq(Task)
  BY <1>1, <1>2, RemoveKeepsType DEF Account, TypeOK
<1>4. /\ mem' \in Counters
      /\ mem'.inflight = mem.inflight + Memory[ready[i]]
      /\ mem'.completed = mem.completed /\ mem'.reserved = mem.reserved
  BY <1>1, <1>2 DEF Account, TypeOK, Counters
<1>5. TypeOK'
  BY <1>3, <1>4 DEF Account, TypeOK, Counters, DispatchOne
<1>6. Accounted' <= Budget
  BY <1>1, <1>2, <1>4 DEF Account, TypeOK, Accounted, Available, Fits
<1> QED BY <1>4, <1>5, <1>6 DEF Account, AccountedFitsBudget

LEMMA ArriveAccount == ASSUME Account, Arrive PROVE Account'
<1>1. Done \subseteq Task BY DEF Account, TypeOK, Done, Range
<1>2. TypeOK' BY <1>1 DEF Account, TypeOK, Arrive, Arrival
<1> QED BY <1>2, AccountAlone DEF Arrive, Arrival

LEMMA CollectAccount == ASSUME Account, NEW t \in Task, Collect(t) PROVE Account'
<1>1. Memory[t] \in Nat /\ Budget \in Nat BY QueueAssumption
<1>2. /\ mem' \in Counters
      /\ mem'.inflight = mem.inflight - Memory[t]
      /\ mem'.completed = mem.completed + Memory[t] /\ mem'.reserved = mem.reserved
  <2>1. mem \in Counters BY DEF Account, TypeOK, Counters
  <2>2. mem' = [[mem EXCEPT !.inflight = @ - Memory[t]] EXCEPT !.completed = @ + Memory[t]]
    BY DEF Collect
  <2>3. /\ mem.inflight \in Int /\ mem.completed \in Int /\ mem.reserved \in Int
        /\ mem = [inflight |-> mem.inflight, completed |-> mem.completed, reserved |-> mem.reserved]
    BY <2>1 DEF Counters
  <2>4. mem' = [inflight |-> mem.inflight - Memory[t], completed |-> mem.completed + Memory[t],
                reserved |-> mem.reserved]
    BY <2>2, <2>3
  <2> QED BY <1>1, <2>3, <2>4 DEF Counters
<1>3. inflight' \in Seq(Task) BY PopTypes DEF Account, Collect
<1>4. TypeOK' BY <1>2, <1>3 DEF Account, TypeOK, Counters, Collect
<1>5. Accounted' <= Budget
  BY <1>1, <1>2 DEF Account, TypeOK, AccountedFitsBudget, Accounted
<1> QED BY <1>1, <1>2, <1>4, <1>5 DEF Account, TypeOK, AccountedFitsBudget

LEMMA TaskFailsAccount == ASSUME Account, NEW t \in Task, TaskFails(t) PROVE Account'
<1>1. Memory[t] \in Nat /\ Budget \in Nat BY QueueAssumption
<1>2. /\ mem' \in Counters
      /\ mem'.inflight = mem.inflight - Memory[t]
      /\ mem'.completed = mem.completed /\ mem'.reserved = mem.reserved
  BY <1>1 DEF Account, TypeOK, Counters, TaskFails
<1>3. inflight' \in Seq(Task) /\ outcome' \in [Task -> {"none", "ok", "failed", "cancelled"}]
  BY PopTypes, CancelTypes DEF Account, TaskFails
<1>4. Range(ready) \subseteq Task BY DEF Account, TypeOK, Range
<1>5. TypeOK' BY <1>2, <1>3, <1>4 DEF Account, TypeOK, Counters, TaskFails
<1>6. Accounted' <= Budget
  BY <1>1, <1>2 DEF Account, TypeOK, AccountedFitsBudget, Accounted
<1> QED BY <1>2, <1>5, <1>6 DEF Account, AccountedFitsBudget

LEMMA DrainAccount ==
  ASSUME Account, NEW then \in {"free", "dispatch"}, DrainCompleted(then)
  PROVE  Account'
<1>1. /\ mem' \in Counters /\ Budget \in Nat
      /\ mem'.inflight = mem.inflight
      /\ mem'.completed = 0 /\ mem'.reserved = mem.reserved
  <2>1. mem \in Counters BY DEF Account, TypeOK, Counters
  <2>2. mem' = [mem EXCEPT !.completed = 0] BY DEF DrainCompleted
  <2> QED BY <2>1, <2>2, QueueAssumption DEF Counters
<1>2. TypeOK' BY <1>1 DEF Account, TypeOK, Counters, DrainCompleted
<1>3. Accounted' <= Budget
  BY <1>1 DEF Account, TypeOK, AccountedFitsBudget, Accounted
<1> QED BY <1>1, <1>2, <1>3 DEF Account, AccountedFitsBudget

LEMMA InitAccount == Init => Account
<1> SUFFICES ASSUME Init PROVE Account
  OBVIOUS
<1>1. TypeOK BY DEF Init, TypeOK
<1> QED BY <1>1, QueueAssumption DEF Init, Account, AccountedFitsBudget, Accounted

LEMMA StepAccount == Account /\ [Next]_queue => Account'
<1> SUFFICES ASSUME Account, [Next]_queue PROVE Account'
  OBVIOUS
<1>1. CASE Pool
  <2>1. TypeOK' BY <1>1 DEF Account, TypeOK, Pool, Finish
  <2> QED BY <1>1, <2>1, AccountAlone DEF Pool, Finish
<1>2. CASE DispatchEnd \/ WaitReturns \/ CollectEnd \/ WaitForCompletion \/ DispatchReady \/ Closed
  <2>1. UNCHANGED <<tasks, held, mem>> /\ at' \in {"free", "waiting", "dispatch", "admit", "closed"}
    BY <1>2 DEF DispatchEnd, WaitReturns, CollectEnd, WaitForCompletion, DispatchReady, Closed
  <2>2. TypeOK' BY <2>1 DEF Account, TypeOK, tasks
  <2> QED BY <2>1, <2>2, AccountAlone
<1>3. CASE Shutdown
  <2>1. TypeOK' BY <1>3, CancelTypes DEF Account, TypeOK, Shutdown
  <2> QED BY <1>3, <2>1, AccountAlone DEF Shutdown
<1>4. CASE UNCHANGED queue
  <2>1. TypeOK' BY <1>4 DEF Account, TypeOK, queue, tasks
  <2> QED BY <1>4, <2>1, AccountAlone DEF queue
<1> QED
  BY <1>1, <1>2, <1>3, <1>4, SubmitAccount, ReserveAccount, ReleaseAccount, DispatchOneAccount,
     ArriveAccount, CollectAccount, TaskFailsAccount, DrainAccount
  DEF Next, Inside

(* Every operation of the queue keeps its tables and counters well typed. *)
THEOREM QueueTypes == Spec => []TypeOK
<1>1. Account => TypeOK BY DEF Account
<1> QED BY <1>1, InitAccount, StepAccount, PTL DEF Spec

(* Whatever a coordinator does and in whatever order tasks end, what runs, *)
(* what waits to be drained and what is reserved fits the memory budget.   *)
THEOREM BudgetIsKept == Spec => []AccountedFitsBudget
<1>1. Account => AccountedFitsBudget BY DEF Account
<1> QED BY <1>1, InitAccount, StepAccount, PTL DEF Spec

-----------------------------------------------------------------------------
(* Sequences without repetition.                                           *)

Distinct(s) == \A i, j \in DOMAIN s : s[i] = s[j] => i = j

LEMMA RemoveElements ==
  ASSUME NEW S, NEW s \in Seq(S), NEW i \in DOMAIN s
  PROVE  /\ Len(RemoveAt(s, i)) = Len(s) - 1
         /\ \A j \in 1 .. Len(s) - 1 : RemoveAt(s, i)[j] = IF j < i THEN s[j] ELSE s[j + 1]
<1>1. i \in 1 .. Len(s) /\ Len(s) \in Nat
  OBVIOUS
<1> DEFINE head == SubSeq(s, 1, i - 1)
           tail == SubSeq(s, i + 1, Len(s))
<1>2. /\ head \in Seq(S) /\ Len(head) = i - 1
      /\ \A j \in 1 .. i - 1 : head[j] = s[j]
  BY <1>1
<1>3. /\ tail \in Seq(S) /\ Len(tail) = Len(s) - i
      /\ \A j \in 1 .. Len(s) - i : tail[j] = s[i + j]
  BY <1>1
<1> HIDE DEF head, tail
<1>4. /\ Len(head \o tail) = Len(head) + Len(tail)
      /\ \A j \in 1 .. Len(head) + Len(tail) :
           (head \o tail)[j] = IF j <= Len(head) THEN head[j] ELSE tail[j - Len(head)]
  BY <1>2, <1>3
<1>5. ASSUME NEW j \in 1 .. Len(s) - 1
      PROVE  (head \o tail)[j] = IF j < i THEN s[j] ELSE s[j + 1]
  <2>1. (head \o tail)[j] = IF j <= i - 1 THEN head[j] ELSE tail[j - (i - 1)]
    <3>1. j \in 1 .. Len(head) + Len(tail)
      BY <1>1, <1>2, <1>3
    <3> QED BY <1>2, <1>4, <3>1
  <2>2. CASE j < i
    BY <1>1, <1>2, <2>1, <2>2
  <2>3. CASE ~(j < i)
    <3>1. j - (i - 1) \in 1 .. Len(s) - i /\ i + (j - (i - 1)) = j + 1
      BY <1>1, <2>3
    <3>2. tail[j - (i - 1)] = s[j + 1]
      BY <1>3, <3>1
    <3>3. ~(j <= i - 1)
      BY <1>1, <2>3
    <3> QED BY <2>1, <2>3, <3>2, <3>3
  <2> QED BY <2>2, <2>3
<1>6. RemoveAt(s, i) = head \o tail
  BY DEF RemoveAt, head, tail
<1>7. Len(RemoveAt(s, i)) = Len(s) - 1
  BY <1>1, <1>2, <1>3, <1>4, <1>6
<1> QED BY <1>5, <1>6, <1>7

(* Taking one item out of a sequence without repetition takes it out of    *)
(* what the sequence holds.                                                *)
LEMMA RemoveKeepsDistinct ==
  ASSUME NEW S, NEW s \in Seq(S), NEW i \in DOMAIN s, Distinct(s)
  PROVE  /\ Distinct(RemoveAt(s, i))
         /\ Range(RemoveAt(s, i)) = Range(s) \ {s[i]}
<1> DEFINE r == RemoveAt(s, i)
<1>1. i \in 1 .. Len(s) /\ Len(s) \in Nat /\ DOMAIN s = 1 .. Len(s)
  OBVIOUS
<1>2. r \in Seq(S) BY RemoveKeepsType
<1>3. /\ Len(r) = Len(s) - 1
      /\ \A j \in 1 .. Len(s) - 1 : r[j] = IF j < i THEN s[j] ELSE s[j + 1]
  BY RemoveElements
<1> HIDE DEF r
<1>4. DOMAIN r = 1 .. Len(s) - 1 BY <1>2, <1>3
<1>5. Distinct(r) BY <1>1, <1>3, <1>4 DEF Distinct
<1>6. \A j \in DOMAIN r : r[j] \in Range(s) \ {s[i]}
  BY <1>1, <1>3, <1>4 DEF Distinct, Range
<1>7. \A k \in DOMAIN s : k # i => s[k] \in Range(r)
  <2> SUFFICES ASSUME NEW k \in DOMAIN s, k # i PROVE \E j \in DOMAIN r : r[j] = s[k]
    BY DEF Range
  <2>1. CASE k < i
    <3>1. k \in DOMAIN r /\ r[k] = s[k] BY <1>1, <1>3, <1>4, <2>1
    <3> QED BY <3>1
  <2>2. CASE k > i
    <3>1. k - 1 \in DOMAIN r /\ r[k - 1] = s[k] BY <1>1, <1>3, <1>4, <2>2
    <3> QED BY <3>1
  <2> QED BY <1>1, <2>1, <2>2
<1> QED BY <1>5, <1>6, <1>7 DEF r, Range

LEMMA AppendKeepsDistinct ==
  ASSUME NEW S, NEW s \in Seq(S), NEW x \in S, Distinct(s), x \notin Range(s)
  PROVE  Distinct(Append(s, x)) /\ Range(Append(s, x)) = Range(s) \cup {x}
<1>1. /\ Len(s) \in Nat /\ DOMAIN s = 1 .. Len(s)
      /\ DOMAIN Append(s, x) = 1 .. Len(s) + 1
      /\ Append(s, x)[Len(s) + 1] = x
      /\ \A i \in 1 .. Len(s) : Append(s, x)[i] = s[i]
  OBVIOUS
<1>2. Distinct(Append(s, x)) BY <1>1 DEF Distinct, Range
<1>3. Range(Append(s, x)) \subseteq Range(s) \cup {x} BY <1>1 DEF Range
<1>4. Range(s) \subseteq Range(Append(s, x)) BY <1>1 DEF Range
<1>5. x \in Range(Append(s, x))
  <2>1. Len(s) + 1 \in DOMAIN Append(s, x) BY <1>1
  <2> QED BY <1>1, <2>1 DEF Range
<1> QED BY <1>2, <1>3, <1>4, <1>5

(* It holds as many items as it is long. *)
LEMMA DistinctCounts ==
  ASSUME NEW S, NEW s \in Seq(S), Distinct(s)
  PROVE  IsFiniteSet(Range(s)) /\ Cardinality(Range(s)) = Len(s)
<1>1. Len(s) \in Nat /\ DOMAIN s = 1 .. Len(s)
  OBVIOUS
<1>2. IsFiniteSet(1 .. Len(s)) /\ Cardinality(1 .. Len(s)) = Len(s)
  <2>1. Len(s) \in Int /\ 1 \in Int BY <1>1
  <2>2. /\ IsFiniteSet(1 .. Len(s))
        /\ Cardinality(1 .. Len(s)) = IF 1 > Len(s) THEN 0 ELSE Len(s) - 1 + 1
    BY <2>1, FS_Interval
  <2> QED BY <1>1, <2>2
<1> DEFINE f == [i \in 1 .. Len(s) |-> s[i]]
<1>3. f \in Bijection(1 .. Len(s), Range(s))
  BY <1>1 DEF Distinct, Range, Bijection, Injection, IsInjective, Surjection
<1>4. ExistsBijection(1 .. Len(s), Range(s))
  BY <1>3 DEF ExistsBijection
<1> QED BY <1>2, <1>4, FS_Bijection

(* Of finished tasks no more have fewer than n before them than n: the     *)
(* number of those before tells them apart.                                *)
LEMMA EarliestFit ==
  ASSUME NEW D \in SUBSET Task, IsFiniteSet(D), NEW n \in Nat
  PROVE  LET A == {t \in D : Cardinality({u \in D : Rank[u] < Rank[t]}) < n}
         IN  IsFiniteSet(A) /\ Cardinality(A) <= n
<1> DEFINE Prior(t) == {u \in D : Rank[u] < Rank[t]}
           A == {t \in D : Cardinality(Prior(t)) < n}
           f == [t \in A |-> Cardinality(Prior(t))]
<1>1. \A t \in D : Rank[t] \in Nat
  BY QueueAssumption
<1>2. \A t \in D : IsFiniteSet(Prior(t)) /\ Cardinality(Prior(t)) \in Nat
  <2> SUFFICES ASSUME NEW t \in D PROVE IsFiniteSet(Prior(t)) /\ Cardinality(Prior(t)) \in Nat
    OBVIOUS
  <2>1. IsFiniteSet(Prior(t)) BY FS_Subset
  <2> QED BY <2>1, FS_CardinalityType
<1>3. ASSUME NEW t \in D, NEW u \in D, Rank[t] < Rank[u]
      PROVE  Cardinality(Prior(t)) < Cardinality(Prior(u))
  <2>1. Prior(t) \cup {t} \subseteq Prior(u) /\ t \notin Prior(t)
    BY <1>1, <1>3
  <2> HIDE DEF Prior
  <2>2. Cardinality(Prior(t) \cup {t}) = Cardinality(Prior(t)) + 1
    BY <1>2, <2>1, FS_AddElement
  <2>3. Cardinality(Prior(t) \cup {t}) <= Cardinality(Prior(u))
    BY <1>2, <2>1, FS_Subset
  <2> QED BY <1>2, <2>2, <2>3
<1>4. ASSUME NEW t \in A, NEW u \in A, Cardinality(Prior(t)) = Cardinality(Prior(u))
      PROVE  t = u
  <2>1. t \in Task /\ u \in Task /\ t \in D /\ u \in D OBVIOUS
  <2> HIDE DEF Prior, A
  <2>2. ~(Rank[t] < Rank[u]) /\ ~(Rank[u] < Rank[t]) BY <1>2, <1>3, <1>4, <2>1
  <2>3. Rank[t] = Rank[u] BY <1>1, <2>1, <2>2
  <2> QED BY <2>1, <2>3, QueueAssumption
<1>5. \A t \in A : Cardinality(Prior(t)) \in 0 .. n - 1
  <2> SUFFICES ASSUME NEW t \in A PROVE Cardinality(Prior(t)) \in 0 .. n - 1
    OBVIOUS
  <2>1. Cardinality(Prior(t)) \in Nat /\ Cardinality(Prior(t)) < n BY <1>2
  <2> QED BY <2>1
<1> HIDE DEF Prior, A
<1>6. f \in Injection(A, 0 .. n - 1)
  BY <1>4, <1>5 DEF Injection, IsInjective
<1> HIDE DEF f
<1>7. IsFiniteSet(0 .. n - 1) /\ Cardinality(0 .. n - 1) = n
  <2>1. 0 \in Int /\ n - 1 \in Int OBVIOUS
  <2>2. /\ IsFiniteSet(0 .. n - 1)
        /\ Cardinality(0 .. n - 1) = IF 0 > n - 1 THEN 0 ELSE n - 1 - 0 + 1
    BY <2>1, FS_Interval
  <2> QED BY <2>2
<1>8. IsFiniteSet(A) /\ Cardinality(A) <= n
  BY <1>6, <1>7, FS_Injection
<1> QED BY <1>8 DEF A, Prior

-----------------------------------------------------------------------------
(* Where the tasks are.                                                    *)

(* No task is at two places, and every one that was submitted is at one. *)
Apart ==
  /\ Distinct(ready) /\ Distinct(inflight)
  /\ IsFiniteSet(completed) /\ IsFiniteSet(drained) /\ IsFiniteSet(dropped)
  /\ seen = Range(ready) \cup Range(inflight) \cup completed \cup drained \cup dropped
  /\ Range(ready) \cap (Range(inflight) \cup completed \cup drained \cup dropped) = {}
  /\ Range(inflight) \cap (completed \cup drained \cup dropped) = {}
  /\ completed \cap (drained \cup dropped) = {}
  /\ drained \cap dropped = {}

(* What a wait has still to collect is in flight, and there is a slot for it. *)
Collectable ==
  /\ arrived \subseteq Range(inflight)
  /\ arrived # {} => at = "collect"
  /\ Cardinality(completed) <= MaxCompleted
  /\ at = "collect" => Cardinality(completed) + Cardinality(arrived) <= MaxCompleted

Exact == TypeOK /\ Apart /\ Collectable

LEMMA ExactCounts == Exact => QueueIsExact
<1> SUFFICES ASSUME Exact PROVE TasksInOnePlace
  BY DEF Exact, Collectable, QueueIsExact, ResultsBounded
<1> DEFINE places == <<Range(ready), Range(inflight), completed, drained, dropped>>
           R == Range(ready)
           F == Range(inflight)
<1>1. UNION Range(places) = R \cup F \cup completed \cup drained \cup dropped
  <2>1. /\ DOMAIN places = 1 .. 5
        /\ places[1] = R /\ places[2] = F /\ places[3] = completed /\ places[4] = drained
        /\ places[5] = dropped
    OBVIOUS
  <2> HIDE DEF places, R, F
  <2>2. Range(places) = {R, F, completed, drained, dropped}
    BY <2>1 DEF Range
  <2> QED BY <2>2
<1>2. /\ IsFiniteSet(R) /\ Cardinality(R) = Len(ready) /\ Len(ready) \in Nat
      /\ IsFiniteSet(F) /\ Cardinality(F) = Len(inflight) /\ Len(inflight) \in Nat
  BY DistinctCounts DEF Exact, TypeOK, Apart
<1>3. /\ IsFiniteSet(completed) /\ IsFiniteSet(drained) /\ IsFiniteSet(dropped)
      /\ Cardinality(completed) \in Nat /\ Cardinality(drained) \in Nat
      /\ Cardinality(dropped) \in Nat
  BY FS_CardinalityType DEF Exact, Apart
<1>4. /\ seen = R \cup F \cup completed \cup drained \cup dropped
      /\ R \cap F = {} /\ (R \cup F) \cap completed = {}
      /\ (R \cup F \cup completed) \cap drained = {}
      /\ (R \cup F \cup completed \cup drained) \cap dropped = {}
  BY DEF Exact, Apart
<1> HIDE DEF places, R, F
<1>5. \A S, T : IsFiniteSet(S) /\ IsFiniteSet(T) /\ S \cap T = {} =>
        IsFiniteSet(S \cup T) /\ Cardinality(S \cup T) = Cardinality(S) + Cardinality(T)
  <2> SUFFICES ASSUME NEW S, NEW T, IsFiniteSet(S), IsFiniteSet(T), S \cap T = {}
               PROVE  IsFiniteSet(S \cup T)
                      /\ Cardinality(S \cup T) = Cardinality(S) + Cardinality(T)
    OBVIOUS
  <2>1. IsFiniteSet(S \cup T)
        /\ Cardinality(S \cup T) = Cardinality(S) + Cardinality(T) - Cardinality(S \cap T)
    BY FS_Union
  <2>2. Cardinality(S \cap T) = 0 /\ Cardinality(S) \in Nat /\ Cardinality(T) \in Nat
    BY FS_EmptySet, FS_CardinalityType
  <2> QED BY <2>1, <2>2
<1>6. IsFiniteSet(R \cup F) /\ Cardinality(R \cup F) = Len(ready) + Len(inflight)
  <2>1. R \cap F = {} BY <1>4
  <2>2. IsFiniteSet(R \cup F) /\ Cardinality(R \cup F) = Cardinality(R) + Cardinality(F)
    BY <1>2, <1>5, <2>1
  <2> QED BY <1>2, <2>2
<1>7. IsFiniteSet(R \cup F \cup completed)
      /\ Cardinality(R \cup F \cup completed) = Len(ready) + Len(inflight) + Cardinality(completed)
  BY <1>3, <1>4, <1>5, <1>6
<1>8. IsFiniteSet(R \cup F \cup completed \cup drained)
      /\ Cardinality(R \cup F \cup completed \cup drained) =
           Len(ready) + Len(inflight) + Cardinality(completed) + Cardinality(drained)
  BY <1>3, <1>4, <1>5, <1>7
<1>9. Cardinality(R \cup F \cup completed \cup drained \cup dropped) =
        Len(ready) + Len(inflight) + Cardinality(completed) + Cardinality(drained)
          + Cardinality(dropped)
  BY <1>3, <1>4, <1>5, <1>8
<1> QED BY <1>1, <1>4, <1>9 DEF TasksInOnePlace, places, R, F

-----------------------------------------------------------------------------
(* Each step keeps tasks apart; that it keeps the types was shown above.   *)

LEMMA InitExact == Init => Exact
<1> SUFFICES ASSUME Init PROVE Exact
  OBVIOUS
<1>1. TypeOK BY InitAccount DEF Account
<1>2. Range(ready) = {} /\ Range(inflight) = {} BY DEF Init, Range
<1>3. Apart BY <1>2, FS_EmptySet DEF Init, Apart, Distinct
<1>4. Collectable BY FS_EmptySet, QueueAssumption DEF Init, Collectable
<1> QED BY <1>1, <1>3, <1>4 DEF Exact

(* A task that leaves a sequence of tasks for somewhere else. *)
LEMMA PopIsExact ==
  ASSUME Exact, NEW t \in Task, PopFuture(t)
  PROVE  Distinct(inflight)' /\ Range(inflight') = Range(inflight) \ {t} /\ t \in Range(inflight)
<1>1. PICK i \in DOMAIN inflight : inflight[i] = t /\ inflight' = RemoveAt(inflight, i)
  BY DEF PopFuture
<1>2. Distinct(inflight) /\ inflight \in Seq(Task) BY DEF Exact, TypeOK, Apart
<1>3. Distinct(inflight') /\ Range(inflight') = Range(inflight) \ {t}
  BY <1>1, <1>2, RemoveKeepsDistinct
<1>4. t \in Range(inflight) BY <1>1 DEF Range
<1> QED BY <1>3, <1>4 DEF Distinct

LEMMA SubmitExact == ASSUME Exact, TypeOK', NEW t \in Task, Submit(t) PROVE Exact'
<1>1. ready' = Append(ready, t) /\ seen' = seen \cup {t} /\ t \notin seen /\ at = "free"
      /\ at' = "dispatch"
      /\ UNCHANGED <<inflight, arrived, completed, drained, dropped>>
  BY DEF Submit, Queued
<1>2. t \notin Range(ready) /\ Distinct(ready) /\ ready \in Seq(Task)
  BY <1>1 DEF Exact, TypeOK, Apart
<1>3. Distinct(ready') /\ Range(ready') = Range(ready) \cup {t}
  BY <1>1, <1>2, AppendKeepsDistinct
<1>4. Apart' BY <1>1, <1>3 DEF Exact, Apart, Distinct
<1>5. Collectable' BY <1>1 DEF Exact, Collectable
<1> QED BY <1>4, <1>5 DEF Exact

LEMMA DispatchOneExact == ASSUME Exact, TypeOK', DispatchOne PROVE Exact'
<1>1. PICK i \in DOMAIN ready :
        inflight' = Append(inflight, ready[i]) /\ ready' = RemoveAt(ready, i)
  BY DEF DispatchOne
<1>2. /\ ready \in Seq(Task) /\ inflight \in Seq(Task) /\ ready[i] \in Task
      /\ Distinct(ready) /\ Distinct(inflight)
      /\ ready[i] \in Range(ready) /\ ready[i] \notin Range(inflight)
  BY DEF Exact, TypeOK, Apart, Range
<1>3. Distinct(ready') /\ Range(ready') = Range(ready) \ {ready[i]}
  BY <1>1, <1>2, RemoveKeepsDistinct
<1>4. Distinct(inflight') /\ Range(inflight') = Range(inflight) \cup {ready[i]}
  BY <1>1, <1>2, AppendKeepsDistinct
<1>5. UNCHANGED <<seen, arrived, completed, drained, dropped, at>>
  BY DEF DispatchOne
<1>6. Apart'
  <2>1. Distinct(ready)' /\ Distinct(inflight)'
    BY <1>3, <1>4 DEF Distinct
  <2> QED BY <1>2, <1>3, <1>4, <1>5, <2>1 DEF Exact, Apart
<1>7. Collectable' BY <1>4, <1>5 DEF Exact, Collectable
<1> QED BY <1>6, <1>7 DEF Exact

LEMMA ArriveExact == ASSUME Exact, TypeOK', Arrive PROVE Exact'
<1>1. /\ completed = {} /\ at' = "collect"
      /\ arrived' = {t \in Done : Cardinality({u \in Done : Rank[u] < Rank[t]})
                                    < MaxCompleted - Cardinality(completed)}
      /\ UNCHANGED <<seen, ready, inflight, outcome, completed, drained, dropped>>
  BY DEF Arrive, Arrival
<1>2. Done \subseteq Range(inflight) /\ Done \subseteq Task
  BY DEF Exact, TypeOK, Done, Range
<1>3. IsFiniteSet(Done)
  BY <1>2, DistinctCounts, FS_Subset DEF Exact, TypeOK, Apart
<1>4. Cardinality(completed) = 0 /\ MaxCompleted \in Nat
  BY <1>1, FS_EmptySet, QueueAssumption
<1>5. MaxCompleted - Cardinality(completed) = MaxCompleted
  BY <1>4
<1>6. IsFiniteSet(arrived') /\ Cardinality(arrived') <= MaxCompleted
  BY <1>1, <1>2, <1>3, <1>4, <1>5, EarliestFit
<1>7. Cardinality(arrived') \in Nat BY <1>6, FS_CardinalityType
<1>8. Apart' BY <1>1 DEF Exact, Apart, Distinct
<1>9. Collectable' BY <1>1, <1>2, <1>4, <1>6, <1>7 DEF Exact, Collectable
<1> QED BY <1>8, <1>9 DEF Exact

(* What is collected had its slot. *)
LEMMA CollectExact == ASSUME Exact, TypeOK', NEW t \in Task, Collect(t) PROVE Exact'
<1>1. /\ at = "collect" /\ t \in arrived /\ PopFuture(t)
      /\ arrived' = arrived \ {t} /\ completed' = completed \cup {t}
      /\ UNCHANGED <<seen, ready, drained, dropped, at>>
  BY DEF Collect, Foremost
<1>2. Distinct(inflight)' /\ Range(inflight') = Range(inflight) \ {t} /\ t \in Range(inflight)
  BY <1>1, PopIsExact
<1>3. t \notin completed /\ IsFiniteSet(completed) /\ IsFiniteSet(arrived)
  <2>1. IsFiniteSet(Range(inflight)) BY DistinctCounts DEF Exact, TypeOK, Apart
  <2>2. arrived \subseteq Range(inflight) BY DEF Exact, Collectable
  <2>3. IsFiniteSet(arrived) BY <2>1, <2>2, FS_Subset
  <2> QED BY <1>2, <2>3 DEF Exact, Apart
<1>4. /\ IsFiniteSet(completed') /\ Cardinality(completed') = Cardinality(completed) + 1
      /\ Cardinality(arrived') = Cardinality(arrived) - 1
      /\ Cardinality(completed) \in Nat /\ Cardinality(arrived) \in Nat
      /\ Cardinality(arrived') \in Nat
  <2>1. IsFiniteSet(completed') /\ Cardinality(completed') = Cardinality(completed) + 1
    BY <1>1, <1>3, FS_AddElement
  <2>2. IsFiniteSet(arrived') /\ Cardinality(arrived') = Cardinality(arrived) - 1
    BY <1>1, <1>3, FS_RemoveElement
  <2> QED BY <1>3, <2>1, <2>2, FS_CardinalityType
<1>5. Apart' BY <1>1, <1>2, <1>4 DEF Exact, Apart, Distinct
<1>6. Collectable'
  <2>1. Cardinality(completed) + Cardinality(arrived) <= MaxCompleted
    BY <1>1 DEF Exact, Collectable
  <2>2. MaxCompleted \in Nat BY QueueAssumption
  <2>3. Cardinality(completed') + Cardinality(arrived') <= MaxCompleted
        /\ Cardinality(completed') <= MaxCompleted
    BY <1>4, <2>1, <2>2
  <2> QED BY <1>1, <1>2, <2>3 DEF Exact, Collectable
<1> QED BY <1>5, <1>6 DEF Exact

(* A failure drops what is ready, and the task that failed. *)
LEMMA TaskFailsExact == ASSUME Exact, TypeOK', NEW t \in Task, TaskFails(t) PROVE Exact'
<1>1. /\ PopFuture(t) /\ ready' = <<>> /\ arrived' = {} /\ at' = "free"
      /\ dropped' = dropped \cup Range(ready) \cup {t}
      /\ UNCHANGED <<seen, completed, drained>>
  BY DEF TaskFails
<1>2. Distinct(inflight)' /\ Range(inflight') = Range(inflight) \ {t} /\ t \in Range(inflight)
  BY <1>1, PopIsExact
<1>3. Range(ready') = {} /\ Distinct(ready)' BY <1>1 DEF Range, Distinct
<1>4. IsFiniteSet(dropped')
  <2>1. IsFiniteSet(Range(ready)) BY DistinctCounts DEF Exact, TypeOK, Apart
  <2>2. IsFiniteSet(dropped) BY DEF Exact, Apart
  <2>3. IsFiniteSet(dropped \cup Range(ready)) BY <2>1, <2>2, FS_Union
  <2> QED BY <1>1, <2>3, FS_AddElement
<1>5. Apart'
  <2>1. t \notin Range(ready) /\ t \notin completed /\ t \notin drained /\ t \notin dropped
    BY <1>2 DEF Exact, Apart
  <2> QED BY <1>1, <1>2, <1>3, <1>4, <2>1 DEF Exact, Apart
<1>6. Collectable' BY <1>1 DEF Exact, Collectable
<1> QED BY <1>5, <1>6 DEF Exact

LEMMA DrainExact ==
  ASSUME Exact, TypeOK', NEW then \in {"free", "dispatch"}, DrainCompleted(then)
  PROVE  Exact'
<1>1. /\ at = "free" /\ at' = then /\ drained' = drained \cup completed /\ completed' = {}
      /\ UNCHANGED <<seen, ready, inflight, arrived, dropped>>
  BY DEF DrainCompleted
<1>2. IsFiniteSet(drained') /\ IsFiniteSet(completed') /\ Cardinality(completed') = 0
  BY <1>1, FS_Union, FS_EmptySet DEF Exact, Apart
<1>3. Apart' BY <1>1, <1>2 DEF Exact, Apart, Distinct
<1>4. Collectable' BY <1>1, <1>2, QueueAssumption DEF Exact, Collectable
<1> QED BY <1>3, <1>4 DEF Exact

(* Steps that move no task and begin no collection. *)
LEMMA StandingExact ==
  ASSUME Exact, TypeOK',
         UNCHANGED <<seen, ready, inflight, arrived, completed, drained, dropped>>,
         at' = at \/ (at' # "collect" /\ (at = "collect" => arrived = {}))
  PROVE  Exact'
<1>1. Apart' BY DEF Exact, Apart, Distinct
<1>2. Collectable' BY DEF Exact, Collectable
<1> QED BY <1>1, <1>2 DEF Exact

LEMMA StepExact == ASSUME Exact, TypeOK', [Next]_queue PROVE Exact'
<1>1. CASE Pool
  BY <1>1, StandingExact DEF Pool, Finish
<1>2. CASE DispatchEnd \/ WaitReturns \/ CollectEnd \/ WaitForCompletion \/ DispatchReady \/ Closed
  <2>1. /\ UNCHANGED <<seen, ready, inflight, arrived, completed, drained, dropped>>
        /\ at' \in {"free", "waiting", "dispatch", "admit", "closed"}
        /\ at = "collect" => arrived = {}
    BY <1>2 DEF DispatchEnd, WaitReturns, CollectEnd, WaitForCompletion, DispatchReady, Closed,
                tasks, Dispatching
  <2> QED BY <2>1, StandingExact
<1>3. CASE Shutdown
  BY <1>3, StandingExact DEF Shutdown
<1>4. CASE \E r \in Reservation :
             Release(r) \/ \E amount \in Amounts, then \in {"free", "dispatch"} : Reserve(r, amount, then)
  <2>1. /\ UNCHANGED <<seen, ready, inflight, arrived, completed, drained, dropped>>
        /\ at = "free" /\ at' \in {"free", "dispatch"}
    BY <1>4 DEF Release, Reserve, Reserved, tasks
  <2> QED BY <2>1, StandingExact
<1>5. CASE UNCHANGED queue
  BY <1>5, StandingExact DEF queue, tasks
<1> QED
  BY <1>1, <1>2, <1>3, <1>4, <1>5, SubmitExact, DispatchOneExact, ArriveExact, CollectExact,
     TaskFailsExact, DrainExact
  DEF Next, Inside

(* Whatever fails, is cancelled, comes at once or is never drained, every  *)
(* submitted task is at exactly one place, and the coordinator never holds *)
(* more results than it may (_dispatch, wait_for_completion,               *)
(* drain_completed).                                                       *)
THEOREM TasksAreExact == Spec => []QueueIsExact
<1>1. Init => Account /\ Exact
  BY InitAccount, InitExact
<1>2. (Account /\ Exact) /\ [Next]_queue => (Account /\ Exact)'
  BY StepAccount, StepExact DEF Account
<1>3. Exact => QueueIsExact
  BY ExactCounts
<1> QED BY <1>1, <1>2, <1>3, PTL DEF Spec

-----------------------------------------------------------------------------
(* The counters of the account.                                            *)

LEMMA UnitsOfOne ==
  ASSUME NEW x, NEW n \in Nat
  PROVE  IsFiniteSet({x} \X (1 .. n)) /\ Cardinality({x} \X (1 .. n)) = n
<1>1. IsFiniteSet(1 .. n) /\ Cardinality(1 .. n) = n
  <2>1. /\ IsFiniteSet(1 .. n)
        /\ Cardinality(1 .. n) = IF 1 > n THEN 0 ELSE n - 1 + 1
    BY FS_Interval
  <2> QED BY <2>1
<1>2. IsFiniteSet({x}) /\ Cardinality({x}) = 1
  BY FS_Singleton
<1>3. IsFiniteSet({x} \X (1 .. n)) /\ Cardinality({x} \X (1 .. n)) = 1 * n
  BY <1>1, <1>2, FS_Product
<1> QED BY <1>3

(* Another member adds what it is worth. *)
LEMMA UnitsAdd ==
  ASSUME NEW f, NEW S, NEW x, x \notin S, f[x] \in Nat, IsFiniteSet(Units(f, S))
  PROVE  /\ IsFiniteSet(Units(f, S \cup {x}))
         /\ Cardinality(Units(f, S \cup {x})) = Cardinality(Units(f, S)) + f[x]
<1> DEFINE U == Units(f, S)
           V == {x} \X (1 .. f[x])
<1>1. Units(f, S \cup {x}) = U \cup V
  BY DEF Units
<1>2. U \cap V = {}
  BY DEF Units
<1>3. IsFiniteSet(V) /\ Cardinality(V) = f[x]
  BY UnitsOfOne
<1> HIDE DEF U, V
<1>4. /\ IsFiniteSet(U \cup V)
      /\ Cardinality(U \cup V) = Cardinality(U) + Cardinality(V) - Cardinality(U \cap V)
  BY <1>3, FS_Union DEF U
<1>5. Cardinality(U \cap V) = 0 /\ Cardinality(U) \in Nat
  BY <1>2, FS_EmptySet, FS_CardinalityType DEF U
<1>6. Cardinality(U \cup V) = Cardinality(U) + f[x]
  BY <1>3, <1>4, <1>5
<1> QED BY <1>1, <1>4, <1>6 DEF U

(* A member that goes takes what it is worth with it. *)
LEMMA UnitsRemove ==
  ASSUME NEW f, NEW S, NEW x \in S, f[x] \in Nat, IsFiniteSet(Units(f, S))
  PROVE  /\ IsFiniteSet(Units(f, S \ {x}))
         /\ Cardinality(Units(f, S \ {x})) = Cardinality(Units(f, S)) - f[x]
<1>1. Units(f, S \ {x}) \subseteq Units(f, S)
  BY DEF Units
<1>2. IsFiniteSet(Units(f, S \ {x}))
  BY <1>1, FS_Subset
<1>3. (S \ {x}) \cup {x} = S /\ x \notin S \ {x}
  OBVIOUS
<1>4. Cardinality(Units(f, S)) = Cardinality(Units(f, S \ {x})) + f[x]
  BY <1>2, <1>3, UnitsAdd
<1> QED BY <1>2, <1>4, FS_CardinalityType

LEMMA UnitsSame ==
  ASSUME NEW f, NEW g, NEW S, \A x \in S : f[x] = g[x]
  PROVE  Units(f, S) = Units(g, S)
BY DEF Units

LEMMA UnitsOfNone == ASSUME NEW f PROVE IsFiniteSet(Units(f, {})) /\ Cardinality(Units(f, {})) = 0
<1>1. Units(f, {}) = {} BY DEF Units
<1> QED BY <1>1, FS_EmptySet

(* A coordinator that waits dispatched all it could; no task is larger     *)
(* than the budget.                                                        *)
Dispatched ==
  /\ at = "waiting" /\ Room => \A i \in DOMAIN ready : ~Fits(i)
  /\ \A t \in Range(ready) : Memory[t] <= Budget

Charged ==
  /\ AccountIsTrue /\ Dispatched
  /\ IsFiniteSet(Units(Memory, Range(inflight)))
  /\ IsFiniteSet(Units(Memory, completed))
  /\ IsFiniteSet(Units(held, DOMAIN held))

LEMMA ChargedIsExact == Account /\ Exact /\ Charged => AccountIsExact
<1> SUFFICES ASSUME Account, Exact, Charged, Blocked PROVE mem.reserved > 0
  BY DEF AccountIsExact, BlockedByReservation, Charged
<1>1. at = "waiting" /\ completed = {} /\ inflight = <<>> /\ ready # <<>>
  BY DEF Blocked
<1>2. Room
  <2>1. Cardinality(completed) = 0 /\ Len(inflight) = 0
    BY <1>1, FS_EmptySet
  <2> QED BY <2>1, QueueAssumption DEF Room
<1>3. 1 \in DOMAIN ready /\ ready[1] \in Task
  BY <1>1 DEF Account, TypeOK
<1>4. ~Fits(1) /\ Memory[ready[1]] <= Budget
  BY <1>1, <1>2, <1>3 DEF Charged, Dispatched, Range
<1>5. mem.inflight = 0 /\ mem.completed = 0
  <2>1. Range(inflight) = {} BY <1>1 DEF Range
  <2> QED BY <1>1, <2>1, UnitsOfNone DEF Charged, AccountIsTrue
<1>6. mem.reserved \in Int /\ Memory[ready[1]] \in Nat /\ Budget \in Nat
  BY <1>3, QueueAssumption DEF Account, TypeOK
<1> QED BY <1>4, <1>5, <1>6 DEF Fits, Available, Accounted

LEMMA InitCharged == Init => Charged
<1> SUFFICES ASSUME Init PROVE Charged
  OBVIOUS
<1>1. /\ Range(inflight) = {} /\ completed = {} /\ DOMAIN held = {} /\ Range(ready) = {}
      /\ at = "free" /\ mem = [inflight |-> 0, completed |-> 0, reserved |-> 0]
  BY DEF Init, Range
<1>2. AccountIsTrue BY <1>1, UnitsOfNone DEF AccountIsTrue
<1>3. Dispatched BY <1>1 DEF Dispatched
<1> QED BY <1>1, <1>2, <1>3, UnitsOfNone DEF Charged

(* Steps that leave the account alone and do not begin a wait. *)
LEMMA StandingCharged ==
  ASSUME Charged, UNCHANGED <<inflight, completed, held, mem>>,
         \A t \in Range(ready') : Memory[t] <= Budget,
         at' = "waiting" => (Room' => \A i \in DOMAIN ready' : ~Fits(i)')
  PROVE  Charged'
<1>1. AccountIsTrue' BY DEF Charged, AccountIsTrue
<1>2. Dispatched' BY DEF Dispatched
<1> QED BY <1>1, <1>2 DEF Charged

LEMMA SubmitCharged ==
  ASSUME Account, Exact, Charged, NEW t \in Task, Submit(t)
  PROVE  Charged'
<1>1. /\ t \notin seen /\ Memory[t] <= Budget /\ at' = "dispatch" /\ ready' = Append(ready, t)
      /\ UNCHANGED <<inflight, completed, held, mem>>
  BY DEF Submit, Queued
<1>2. ready \in Seq(Task) /\ Distinct(ready) /\ t \notin Range(ready)
  BY <1>1 DEF Account, TypeOK, Exact, Apart
<1>3. Range(ready') = Range(ready) \cup {t}
  BY <1>1, <1>2, AppendKeepsDistinct
<1> QED BY <1>1, <1>3, StandingCharged DEF Charged, Dispatched

LEMMA ReserveCharged ==
  ASSUME Account, Exact, Charged, NEW r \in Reservation, NEW amount \in Amounts,
         NEW then \in {"free", "dispatch"}, Reserve(r, amount, then)
  PROVE  Charged'
<1>1. /\ r \notin DOMAIN held /\ at' = then
      /\ held' = [x \in DOMAIN held \cup {r} |-> IF x = r THEN amount ELSE held[x]]
      /\ mem' = [mem EXCEPT !.reserved = @ + amount]
      /\ UNCHANGED <<inflight, completed, ready>>
  BY DEF Reserve, Reserved, tasks
<1>2. amount \in Nat /\ mem \in Counters
  BY QueueAssumption DEF Account, TypeOK, Counters
<1>3. /\ DOMAIN held' = DOMAIN held \cup {r} /\ held'[r] = amount
      /\ \A x \in DOMAIN held : held'[x] = held[x]
  BY <1>1
<1>4. Units(held', DOMAIN held) = Units(held, DOMAIN held)
  BY <1>3, UnitsSame
<1>5. IsFiniteSet(Units(held', DOMAIN held)) BY <1>4 DEF Charged
<1>6. /\ IsFiniteSet(Units(held', DOMAIN held \cup {r}))
      /\ Cardinality(Units(held', DOMAIN held \cup {r}))
           = Cardinality(Units(held', DOMAIN held)) + amount
  BY <1>1, <1>2, <1>3, <1>5, UnitsAdd
<1>7. /\ mem'.inflight = mem.inflight /\ mem'.completed = mem.completed
      /\ mem'.reserved = mem.reserved + amount
  BY <1>1, <1>2 DEF Counters
<1>8. AccountIsTrue' BY <1>1, <1>3, <1>4, <1>6, <1>7 DEF Charged, AccountIsTrue
<1>9. Dispatched' BY <1>1 DEF Charged, Dispatched
<1> QED BY <1>1, <1>3, <1>6, <1>8, <1>9 DEF Charged

LEMMA ReleaseCharged ==
  ASSUME Account, Exact, Charged, NEW r \in Reservation, Release(r)
  PROVE  Charged'
<1>1. /\ r \in DOMAIN held /\ at' = "dispatch"
      /\ held' = [x \in DOMAIN held \ {r} |-> held[x]]
      /\ mem' = [mem EXCEPT !.reserved = @ - held[r]]
      /\ UNCHANGED <<inflight, completed, ready>>
  BY DEF Release, tasks
<1>2. held[r] \in Nat /\ mem \in Counters
  BY <1>1, QueueAssumption DEF Account, TypeOK, Counters
<1>3. DOMAIN held' = DOMAIN held \ {r} /\ \A x \in DOMAIN held' : held'[x] = held[x]
  BY <1>1
<1>4. Units(held', DOMAIN held') = Units(held, DOMAIN held')
  BY <1>3, UnitsSame
<1>5. /\ IsFiniteSet(Units(held, DOMAIN held \ {r}))
      /\ Cardinality(Units(held, DOMAIN held \ {r})) = Cardinality(Units(held, DOMAIN held)) - held[r]
  BY <1>1, <1>2, UnitsRemove DEF Charged
<1>6. /\ mem'.inflight = mem.inflight /\ mem'.completed = mem.completed
      /\ mem'.reserved = mem.reserved - held[r]
  BY <1>1, <1>2 DEF Counters
<1>7. AccountIsTrue' BY <1>1, <1>3, <1>4, <1>5, <1>6 DEF Charged, AccountIsTrue
<1>8. Dispatched' BY <1>1 DEF Charged, Dispatched
<1> QED BY <1>1, <1>3, <1>4, <1>5, <1>7, <1>8 DEF Charged

LEMMA DispatchOneCharged == ASSUME Account, Exact, Charged, DispatchOne PROVE Charged'
<1>1. PICK i \in DOMAIN ready :
        /\ inflight' = Append(inflight, ready[i]) /\ ready' = RemoveAt(ready, i)
        /\ mem' = [mem EXCEPT !.inflight = @ + Memory[ready[i]]]
  BY DEF DispatchOne
<1>2. /\ at' # "waiting" /\ UNCHANGED <<completed, held>>
  BY DEF DispatchOne, Dispatching
<1>3. /\ ready \in Seq(Task) /\ inflight \in Seq(Task) /\ ready[i] \in Task
      /\ Distinct(ready) /\ Distinct(inflight)
      /\ ready[i] \in Range(ready) /\ ready[i] \notin Range(inflight)
  BY DEF Exact, TypeOK, Apart, Range
<1>4. /\ Range(ready') = Range(ready) \ {ready[i]}
      /\ Range(inflight') = Range(inflight) \cup {ready[i]}
  BY <1>1, <1>3, RemoveKeepsDistinct, AppendKeepsDistinct
<1>5. Memory[ready[i]] \in Nat /\ mem \in Counters
  BY <1>3, QueueAssumption DEF Account, TypeOK, Counters
<1>6. /\ IsFiniteSet(Units(Memory, Range(inflight')))
      /\ Cardinality(Units(Memory, Range(inflight')))
           = Cardinality(Units(Memory, Range(inflight))) + Memory[ready[i]]
  BY <1>3, <1>4, <1>5, UnitsAdd DEF Charged
<1>7. /\ mem'.inflight = mem.inflight + Memory[ready[i]] /\ mem'.completed = mem.completed
      /\ mem'.reserved = mem.reserved
  BY <1>1, <1>5 DEF Counters
<1>8. AccountIsTrue' BY <1>2, <1>6, <1>7 DEF Charged, AccountIsTrue
<1>9. Dispatched' BY <1>2, <1>4 DEF Charged, Dispatched
<1> QED BY <1>2, <1>6, <1>8, <1>9 DEF Charged

LEMMA CollectCharged ==
  ASSUME Account, Exact, Charged, NEW t \in Task, Collect(t)
  PROVE  Charged'
<1>1. /\ PopFuture(t) /\ at' = "collect" /\ completed' = completed \cup {t}
      /\ mem' = [[mem EXCEPT !.inflight = @ - Memory[t]] EXCEPT !.completed = @ + Memory[t]]
      /\ UNCHANGED <<ready, held>>
  BY DEF Collect
<1>2. Range(inflight') = Range(inflight) \ {t} /\ t \in Range(inflight) /\ t \notin completed
  BY <1>1, PopIsExact DEF Exact, Apart
<1>3. Memory[t] \in Nat /\ mem \in Counters
  BY QueueAssumption DEF Account, TypeOK, Counters
<1>4. /\ IsFiniteSet(Units(Memory, Range(inflight')))
      /\ Cardinality(Units(Memory, Range(inflight')))
           = Cardinality(Units(Memory, Range(inflight))) - Memory[t]
  BY <1>2, <1>3, UnitsRemove DEF Charged
<1>5. /\ IsFiniteSet(Units(Memory, completed'))
      /\ Cardinality(Units(Memory, completed'))
           = Cardinality(Units(Memory, completed)) + Memory[t]
  BY <1>1, <1>2, <1>3, UnitsAdd DEF Charged
<1>6. /\ mem'.inflight = mem.inflight - Memory[t] /\ mem'.completed = mem.completed + Memory[t]
      /\ mem'.reserved = mem.reserved
  BY <1>1, <1>3 DEF Counters
<1>7. AccountIsTrue' BY <1>1, <1>4, <1>5, <1>6 DEF Charged, AccountIsTrue
<1>8. Dispatched' BY <1>1 DEF Charged, Dispatched
<1> QED BY <1>1, <1>4, <1>5, <1>7, <1>8 DEF Charged

(* The failed task is charged no more. *)
LEMMA TaskFailsCharge ==
  ASSUME Account, Exact, Charged, NEW t \in Task, TaskFails(t)
  PROVE  Charged'
<1>1. /\ PopFuture(t) /\ at' = "free" /\ ready' = <<>>
      /\ mem' = [mem EXCEPT !.inflight = @ - Memory[t]]
      /\ UNCHANGED <<completed, held>>
  BY DEF TaskFails
<1>2. Range(inflight') = Range(inflight) \ {t} /\ t \in Range(inflight)
  BY <1>1, PopIsExact
<1>3. Memory[t] \in Nat /\ mem \in Counters
  BY QueueAssumption DEF Account, TypeOK, Counters
<1>4. /\ IsFiniteSet(Units(Memory, Range(inflight')))
      /\ Cardinality(Units(Memory, Range(inflight')))
           = Cardinality(Units(Memory, Range(inflight))) - Memory[t]
  BY <1>2, <1>3, UnitsRemove DEF Charged
<1>5. /\ mem'.inflight = mem.inflight - Memory[t] /\ mem'.completed = mem.completed
      /\ mem'.reserved = mem.reserved
  BY <1>1, <1>3 DEF Counters
<1>6. AccountIsTrue' BY <1>1, <1>4, <1>5 DEF Charged, AccountIsTrue
<1>7. Range(ready') = {} BY <1>1 DEF Range
<1>8. Dispatched' BY <1>1, <1>7 DEF Dispatched
<1> QED BY <1>1, <1>4, <1>6, <1>8 DEF Charged

LEMMA DrainCharged ==
  ASSUME Account, Exact, Charged, NEW then \in {"free", "dispatch"}, DrainCompleted(then)
  PROVE  Charged'
<1>1. /\ at' = then /\ completed' = {} /\ mem' = [mem EXCEPT !.completed = 0]
      /\ UNCHANGED <<ready, inflight, held>>
  BY DEF DrainCompleted
<1>2. /\ mem'.inflight = mem.inflight /\ mem'.completed = 0 /\ mem'.reserved = mem.reserved
  BY <1>1 DEF Account, TypeOK
<1>3. AccountIsTrue' BY <1>1, <1>2, UnitsOfNone DEF Charged, AccountIsTrue
<1>4. Dispatched' BY <1>1 DEF Charged, Dispatched
<1> QED BY <1>1, <1>3, <1>4, UnitsOfNone DEF Charged

LEMMA StepCharged == ASSUME Account, Exact, Charged, [Next]_queue PROVE Charged'
<1>1. CASE Pool \/ UNCHANGED queue
  <2>1. UNCHANGED <<inflight, completed, held, mem, ready, at>>
    BY <1>1 DEF Pool, Finish, queue, tasks
  <2> QED BY <2>1, StandingCharged DEF Charged, Dispatched, Room, Fits, Available, Accounted
<1>2. CASE DispatchEnd
  <2>1. /\ UNCHANGED <<inflight, completed, held, mem, ready>>
        /\ Room => \A i \in DOMAIN ready : ~Fits(i)
    BY <1>2 DEF DispatchEnd, tasks
  <2> QED BY <2>1, StandingCharged DEF Charged, Dispatched, Room, Fits, Available, Accounted
<1>3. CASE WaitReturns \/ Arrive \/ CollectEnd \/ WaitForCompletion \/ DispatchReady
           \/ Shutdown \/ Closed
  <2>1. UNCHANGED <<inflight, completed, held, mem, ready>> /\ at' # "waiting"
    BY <1>3 DEF WaitReturns, Arrive, Arrival, CollectEnd, WaitForCompletion, DispatchReady,
                Shutdown, Closed, tasks
  <2> QED BY <2>1, StandingCharged DEF Charged, Dispatched
<1>4. CASE Next /\ ~Pool /\ ~DispatchEnd
  BY <1>3, <1>4, SubmitCharged, ReserveCharged, ReleaseCharged, DispatchOneCharged,
     CollectCharged, TaskFailsCharge, DrainCharged
  DEF Next, Inside
<1> QED BY <1>1, <1>2, <1>4

(* What the argument keeps, for the settings that the queue is used in. *)
LEMMA QueueKept == Spec => [](Account /\ Exact /\ Charged)
<1>1. Init => Account /\ Exact /\ Charged
  BY InitAccount, InitExact, InitCharged
<1>2. (Account /\ Exact /\ Charged) /\ [Next]_queue => (Account /\ Exact /\ Charged)'
  BY StepAccount, StepExact, StepCharged DEF Account
<1> QED BY <1>1, <1>2, PTL DEF Spec

(* After any order of submissions, reservations, completions, failures and *)
(* drains the three counters are the memory of what runs, of the results   *)
(* that nobody drained and of what is reserved; and a wait raises the      *)
(* memory error only while a reservation is held (reserve_memory,          *)
(* wait_for_completion).                                                   *)
THEOREM CountersStayTrue == Spec => []AccountIsExact
BY QueueKept, ChargedIsExact, PTL

=============================================================================
