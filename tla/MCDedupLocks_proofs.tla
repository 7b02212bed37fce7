------------------------ MODULE MCDedupLocks_proofs --------------------------
(***************************************************************************)
(* Theorems of OwnerLocks for any storage commands, owners, runs, attempts *)
(* and generations, and of the settings in which files are deduplicated,   *)
(* for any inodes and values.                                              *)
(***************************************************************************)
EXTENDS MCDedupLocks, FiniteSetTheorems, TLAPS

Runs == Len(RunOf)
Attempts == Len(AttemptOf)

LEMMA Counts ==
  /\ Runs \in Nat /\ Attempts \in Nat /\ Generations \in Nat
  /\ Run = 1 .. Runs /\ Attempt = 1 .. Attempts
  /\ \A r \in Run : RunOf[r] \in Generation
  /\ \A a \in Attempt : AttemptOf[a] \in Generation
BY LockAssumption DEF Runs, Attempts, Run, Attempt, Generation

(* The one order in which everybody takes the locks. *)
Height(l) ==
  CASE l[1] = "storage" -> 0
    [] l[1] = "run" -> l[2]
    [] l[1] = "p5" -> Runs + l[2]
    [] l[1] = "p7" -> Runs + Generations + l[2]
    [] l[1] = "attempt" -> Runs + Generations + Generations + l[2]
    [] l[1] = "gate" -> Runs + Generations + Generations + Attempts + 1

Top == Runs + Generations + Generations + Attempts + 1

LEMMA Heights ==
  /\ Height(Lease) = 0 /\ Height(Gate) = Top
  /\ \A r \in Run : Height(Activity(r)) = r /\ r \in 1 .. Runs
  /\ \A g \in Generation : /\ g \in 1 .. Generations
                           /\ Height(P5Barrier(g)) = Runs + g
                           /\ Height(P7Barrier(g)) = Runs + Generations + g
  /\ \A a \in Attempt : /\ a \in 1 .. Attempts
                        /\ Height(StateLock(a)) = Runs + Generations + Generations + a
BY Counts DEF Height, Top, Lease, Gate, Activity, P5Barrier, P7Barrier, StateLock, Generation

LEMMA HeightBounded ==
  ASSUME NEW l \in Lock
  PROVE  Height(l) \in 0 .. Top
<1>1. Top \in Nat BY Counts DEF Top
<1>2. CASE l \in {Lease, Gate} BY <1>1, <1>2, Heights
<1>3. ASSUME NEW r \in Run, l = Activity(r) PROVE Height(l) \in 0 .. Top
  BY <1>3, Counts, Heights DEF Top
<1>4. ASSUME NEW a \in Attempt, l = StateLock(a) PROVE Height(l) \in 0 .. Top
  BY <1>4, Counts, Heights DEF Top
<1>5. ASSUME NEW g \in Generation, l \in {P5Barrier(g), P7Barrier(g)}
      PROVE  Height(l) \in 0 .. Top
  <2>1. g \in 1 .. Generations /\ Height(l) \in {Runs + g, Runs + Generations + g}
    BY <1>5, Heights
  <2> QED BY <2>1, Counts DEF Top
<1> QED BY <1>2, <1>3, <1>4, <1>5 DEF Lock

(* What a process has to take, at the places of the code. *)
Asked == (1 .. 5) \X Lock

(* The places and the paths follow the order of the locks. *)
Sorted(locks) ==
  \A at \in locks, other \in locks :
    at[1] < other[1] \/ (at[1] = other[1] /\ at[2][2] <= other[2][2])
      => at[2] = other[2] \/ Height(at[2]) < Height(other[2])

(* What storage asks for at each place. *)
Seated(at) ==
  /\ at[1] \in 1 .. 5 /\ at[2] \in Lock /\ at = <<at[1], at[2]>> /\ at[2][2] \in Nat
  /\ at[1] = 1 => at[2] = Lease /\ Height(at[2]) = 0
  /\ at[1] = 2 => /\ at[2] = Activity(at[2][2]) /\ at[2][2] \in 1 .. Runs
                  /\ Height(at[2]) = at[2][2]
  /\ at[1] = 3 => /\ at[2] = P5Barrier(at[2][2]) /\ at[2][2] \in 1 .. Generations
                  /\ Height(at[2]) = Runs + at[2][2]
  /\ at[1] = 4 => /\ at[2] = P7Barrier(at[2][2]) /\ at[2][2] \in 1 .. Generations
                  /\ Height(at[2]) = Runs + Generations + at[2][2]
  /\ at[1] = 5 => /\ at[2] = StateLock(at[2][2]) /\ at[2][2] \in 1 .. Attempts
                  /\ Height(at[2]) = Runs + Generations + Generations + at[2][2]

LEMMA SeatedBelow ==
  ASSUME NEW at, NEW other, Seated(at), Seated(other),
         at[1] < other[1] \/ (at[1] = other[1] /\ at[2][2] <= other[2][2])
  PROVE  at[2] = other[2] \/ Height(at[2]) < Height(other[2])
<1>1. CASE at[1] = other[1]
  <2>1. at[2][2] < other[2][2] \/ at[2][2] = other[2][2] BY <1>1 DEF Seated
  <2>2. CASE at[2][2] = other[2][2] BY <1>1, <2>2 DEF Seated
  <2>3. CASE at[2][2] < other[2][2]
    <3> DEFINE i == at[2][2]
               j == other[2][2]
               h == Height(at[2])
               k == Height(other[2])
    <3>1. /\ at[1] \in 1 .. 5 /\ i \in Nat /\ j \in Nat /\ i < j
          /\ at[1] = 1 => i = 0 /\ j = 0
          /\ at[1] = 2 => h = i /\ k = j
          /\ at[1] = 3 => h = Runs + i /\ k = Runs + j
          /\ at[1] = 4 => h = Runs + Generations + i /\ k = Runs + Generations + j
          /\ at[1] = 5 => h = Runs + Generations + Generations + i
                          /\ k = Runs + Generations + Generations + j
      BY <1>1, <2>3 DEF Seated, Lease
    <3> HIDE DEF i, j, h, k
    <3>2. h < k BY <3>1, Counts
    <3> QED BY <3>2 DEF h, k
  <2> QED BY <2>1, <2>2, <2>3
<1>2. CASE at[1] < other[1]
  <2> DEFINE i == at[2][2]
             j == other[2][2]
             h == Height(at[2])
             k == Height(other[2])
             a == at[1]
             b == other[1]
  <2>1. /\ a \in 1 .. 5 /\ b \in 1 .. 5 /\ a < b
        /\ a = 1 => h = 0
        /\ a = 2 => i \in 1 .. Runs /\ h = i
        /\ a = 3 => i \in 1 .. Generations /\ h = Runs + i
        /\ a = 4 => i \in 1 .. Generations /\ h = Runs + Generations + i
        /\ b = 2 => j \in 1 .. Runs /\ k = j
        /\ b = 3 => j \in 1 .. Generations /\ k = Runs + j
        /\ b = 4 => j \in 1 .. Generations /\ k = Runs + Generations + j
        /\ b = 5 => j \in 1 .. Attempts /\ k = Runs + Generations + Generations + j
    BY <1>2 DEF Seated
  <2> HIDE DEF i, j, h, k, a, b
  <2>2. h < k BY <2>1, Counts
  <2> QED BY <2>2 DEF h, k
<1> QED BY <1>1, <1>2

LEMMA SeamsSorted ==
  ASSUME NEW runs \in SUBSET Run, NEW attempts \in SUBSET Attempt
  PROVE  Seams(runs, attempts) \subseteq Asked /\ Sorted(Seams(runs, attempts))
<1>1. Touched(runs, attempts) \subseteq Generation
  BY Counts, LockAssumption DEF Touched, Generation
<1>2. ASSUME NEW at \in Seams(runs, attempts) PROVE Seated(at)
  <2>1. CASE at = <<1, Lease>>
    <3>1. Lease[2] = 0 BY DEF Lease
    <3> QED BY <2>1, <3>1, Heights DEF Lock, Seated
  <2>2. ASSUME NEW r \in runs, at = <<2, Activity(r)>> PROVE Seated(at)
    <3>1. Activity(r)[2] = r BY DEF Activity
    <3> QED BY <2>2, <3>1, Heights DEF Lock, Seated
  <2>3. ASSUME NEW g \in Generation, at = <<3, P5Barrier(g)>> PROVE Seated(at)
    <3>1. P5Barrier(g)[2] = g BY DEF P5Barrier
    <3> QED BY <2>3, <3>1, Heights DEF Lock, Seated
  <2>4. ASSUME NEW g \in Generation, at = <<4, P7Barrier(g)>> PROVE Seated(at)
    <3>1. P7Barrier(g)[2] = g BY DEF P7Barrier
    <3> QED BY <2>4, <3>1, Heights DEF Lock, Seated
  <2>5. ASSUME NEW a \in attempts, at = <<5, StateLock(a)>> PROVE Seated(at)
    <3>1. StateLock(a)[2] = a BY DEF StateLock
    <3> QED BY <2>5, <3>1, Heights DEF Lock, Seated
  <2> QED BY <1>1, <1>2, <2>1, <2>2, <2>3, <2>4, <2>5 DEF Seams, At
<1>3. Seams(runs, attempts) \subseteq Asked BY <1>2 DEF Seated, Asked
<1>4. Sorted(Seams(runs, attempts)) BY <1>2, SeatedBelow DEF Sorted
<1> QED BY <1>3, <1>4

(* An owner asks for one lock, *)
LEMMA OneSorted ==
  ASSUME NEW l \in Lock
  PROVE  At(1, {l}) \subseteq Asked /\ Sorted(At(1, {l}))
BY DEF At, Asked, Sorted

(* or for both barriers of a generation and the gate. *)
LEMMA PublicationSorted ==
  ASSUME NEW g \in Generation
  PROVE  LET locks == At(1, {P5Barrier(g)}) \cup At(2, {P7Barrier(g)}) \cup At(3, {Gate})
         IN  locks \subseteq Asked /\ Sorted(locks)
<1> DEFINE locks == At(1, {P5Barrier(g)}) \cup At(2, {P7Barrier(g)}) \cup At(3, {Gate})
<1>1. locks = {<<1, P5Barrier(g)>>, <<2, P7Barrier(g)>>, <<3, Gate>>} BY DEF At
<1>2. Height(P5Barrier(g)) < Height(P7Barrier(g)) /\ Height(P7Barrier(g)) < Height(Gate)
      /\ Height(P5Barrier(g)) < Height(Gate)
  BY Counts, Heights DEF Top
<1>3. locks \subseteq Asked BY <1>1 DEF Asked, Lock
<1> HIDE DEF locks
<1>4. Sorted(locks) BY <1>1, <1>2 DEF Sorted
<1> QED BY <1>3, <1>4 DEF locks

-----------------------------------------------------------------------------
Job == [kind : {"idle", "mutate", "write", "publish"}, what : SUBSET Lock]

Types ==
  /\ held \in [Lock -> Proc \cup {Nobody}]
  /\ ask \in [Proc -> SUBSET Asked]
  /\ job \in [Proc -> Job]
  /\ open \subseteq Proc

(* A process that wants nothing holds nothing; one that wants something     *)
(* holds the locks of it, or has yet to take them; the locks it has yet to *)
(* take come after those it holds; and one that publishes has all.         *)
Disciplined(p) ==
  /\ job[p] = Idle => ask[p] = {} /\ \A l \in Lock : held[l] # p
  /\ \A l \in job[p].what : held[l] = p \/ \E at \in ask[p] : at[2] = l
  /\ \A l \in Lock, at \in ask[p] : held[l] = p => Height(l) < Height(at[2])
  /\ Sorted(ask[p])
  /\ p \in open => Working(p)

Fenced == Types /\ \A p \in Proc : Disciplined(p)

(* A set of numbers with a bound has a greatest one: else whatever is at    *)
(* most one of them would fit, one up, into itself without zero.           *)
LEMMA GreatestNumber ==
  ASSUME NEW top \in Nat, NEW H \in SUBSET (0 .. top), H # {}
  PROVE  \E h \in H : \A k \in H : k <= h
<1> SUFFICES ASSUME \A h \in H : \E k \in H : h < k PROVE FALSE
  OBVIOUS
<1> DEFINE U == {k \in 0 .. top : \E h \in H : k <= h}
           up == [k \in U |-> k + 1]
<1>1. IsFiniteSet(U)
  <2>1. IsFiniteSet(0 .. top) BY FS_Interval
  <2> QED BY <2>1, FS_Subset
<1>2. 0 \in U
  <2>1. PICK h \in H : h \in 0 .. top OBVIOUS
  <2>2. 0 <= h /\ 0 \in 0 .. top BY <2>1
  <2> QED BY <2>2
<1>3. \A k \in U : k + 1 \in U \ {0}
  <2> SUFFICES ASSUME NEW k \in U PROVE k + 1 \in U \ {0}
    OBVIOUS
  <2>1. PICK h \in H : k <= h OBVIOUS
  <2>2. PICK j \in H : h < j OBVIOUS
  <2>3. k + 1 <= j /\ k + 1 \in 0 .. top /\ k + 1 # 0 BY <2>1, <2>2
  <2> QED BY <2>2, <2>3
<1>4. U \subseteq Nat OBVIOUS
<1> HIDE DEF U
<1>5. up \in Injection(U, U \ {0}) BY <1>3, <1>4 DEF Injection, IsInjective
<1>6. IsFiniteSet(U \ {0}) /\ Cardinality(U \ {0}) = Cardinality(U) - 1
  BY <1>1, <1>2, FS_RemoveElement
<1> HIDE DEF up
<1>7. Cardinality(U) <= Cardinality(U \ {0}) BY <1>5, <1>6, FS_Injection
<1>8. Cardinality(U) \in Nat BY <1>1, FS_CardinalityType
<1> QED BY <1>6, <1>7, <1>8

LEMMA FencedAlone == Fenced => StorageIsAlone
<1> SUFFICES ASSUME Fenced, NEW s \in Storage, NEW p \in Owner, Working(s),
                    NEW l \in job[p].what \cap job[s].what,
                    p \in open \/ Working(p)
             PROVE  FALSE
  BY DEF StorageIsAlone
<1>1. s \in Proc /\ p \in Proc /\ s # p BY LockAssumption DEF Proc, Owner
<1>2. held[l] = s BY <1>1 DEF Fenced, Disciplined, Working
<1>3. Working(p) BY <1>1 DEF Fenced, Disciplined
<1>4. held[l] = p BY <1>1, <1>3 DEF Fenced, Disciplined, Working
<1> QED BY <1>1, <1>2, <1>4

(* Of the locks somebody in a circle waits for, the last in the order is    *)
(* held by somebody who waits for a later one.                             *)
LEMMA FencedNoCircle == Fenced => NoCircle
<1> SUFFICES ASSUME Fenced, NEW S \in (SUBSET Proc) \ {{}},
                    ~ \E p \in S : \A l \in Lock : Awaits(p, l) => held[l] \notin S
             PROVE  FALSE
  BY Zenon DEF NoCircle
<1> DEFINE wanted == {l \in Lock : held[l] \in S /\ \E p \in S : Awaits(p, l)}
           heights == {Height(l) : l \in wanted}
<1>1. wanted # {} OBVIOUS
<1>2. Top \in Nat BY Counts DEF Top
<1>3. heights \in SUBSET (0 .. Top) BY HeightBounded
<1>4. heights # {} BY <1>1
<1> HIDE DEF heights
<1>5. PICK n \in heights : \A k \in heights : k <= n BY <1>2, <1>3, <1>4, GreatestNumber
<1>6. PICK l \in wanted : n = Height(l) BY <1>5 DEF heights
<1>7. PICK m \in Lock : Awaits(held[l], m) /\ held[m] \in S BY <1>6
<1>8. Height(l) < Height(m)
  <2>1. held[l] \in Proc BY <1>6
  <2>2. PICK at \in ask[held[l]] : at[2] = m BY <1>7 DEF Awaits
  <2> QED BY <1>6, <2>1, <2>2 DEF Fenced, Disciplined
<1>9. Height(m) <= n
  <2>1. m \in wanted BY <1>6, <1>7
  <2> QED BY <1>5, <2>1 DEF heights
<1>10. Height(l) \in 0 .. Top /\ Height(m) \in 0 .. Top BY <1>6, HeightBounded
<1> QED BY <1>2, <1>6, <1>8, <1>9, <1>10

-----------------------------------------------------------------------------
(* A process asks for the locks of what it wants, in their order. *)
LEMMA AskFenced ==
  ASSUME Fenced, NEW p \in Proc, NEW kind \in {"mutate", "write", "publish"},
         NEW what \in SUBSET Lock, NEW locks \in SUBSET Asked, Sorted(locks),
         \A l \in what : \E at \in locks : at[2] = l,
         Ask(p, kind, what, locks)
  PROVE  Fenced'
<1> DEFINE wish == [kind |-> kind, what |-> what]
<1>1. /\ job[p] = Idle /\ job' = [job EXCEPT ![p] = wish]
      /\ ask' = [ask EXCEPT ![p] = locks] /\ held' = held /\ open' = open
  BY DEF Ask
<1>2. wish \in Job /\ wish # Idle /\ wish.what = what BY DEF Job, Idle
<1> HIDE DEF wish
<1>3. Types' BY <1>1, <1>2 DEF Fenced, Types
<1>4. ASSUME NEW q \in Proc PROVE Disciplined(q)'
  <2>1. CASE q = p
    <3>1. ask'[p] = locks /\ job'[p] = wish BY <1>1 DEF Fenced, Types
    <3>2. p \notin open /\ \A l \in Lock : held[l] # p
      BY <1>1 DEF Fenced, Disciplined, Working
    <3>3. what \subseteq Lock OBVIOUS
    <3> QED BY <1>1, <1>2, <2>1, <3>1, <3>2, <3>3 DEF Disciplined
  <2>2. CASE q # p
    <3>1. ask'[q] = ask[q] /\ job'[q] = job[q] BY <1>1, <2>2 DEF Fenced, Types
    <3> QED BY <1>1, <3>1 DEF Fenced, Disciplined, Working
  <2> QED BY <2>1, <2>2
<1> QED BY <1>3, <1>4 DEF Fenced

LEMMA LeaveFenced ==
  ASSUME Fenced, NEW p \in Proc, Leave(p)
  PROVE  Fenced'
<1>1. Idle \in Job BY DEF Idle, Job
<1>2. Types' BY <1>1 DEF Leave, Fenced, Types
<1>3. ASSUME NEW q \in Proc PROVE Disciplined(q)'
  <2>1. CASE q = p
    <3>1. ask'[p] = {} /\ job'[p] = Idle /\ p \notin open'
      BY DEF Leave, Fenced, Types
    <3>2. \A l \in Lock : held'[l] # p BY LockAssumption DEF Leave, Proc, Owner
    <3> QED BY <2>1, <3>1, <3>2 DEF Disciplined, Sorted, Idle
  <2>2. CASE q # p
    <3>1. ask'[q] = ask[q] /\ job'[q] = job[q] /\ (q \in open' <=> q \in open)
      BY <2>2 DEF Leave, Fenced, Types
    <3>2. \A l \in Lock : held'[l] = q <=> held[l] = q
      BY <2>2, LockAssumption DEF Leave, Proc, Owner
    <3>3. job[q].what \subseteq Lock BY DEF Fenced, Types, Job
    <3> QED BY <3>1, <3>2, <3>3 DEF Fenced, Disciplined, Working
  <2> QED BY <2>1, <2>2
<1> QED BY <1>2, <1>3 DEF Fenced

(* The lock that is taken comes after those held and before those left. *)
LEMMA TakeFenced ==
  ASSUME Fenced, NEW p \in Proc, NEW l \in Lock, Take(p, l)
  PROVE  Fenced'
<1> DEFINE left == {at \in ask[p] : at[2] # l}
<1>1. /\ held[l] = Nobody /\ held' = [held EXCEPT ![l] = p]
      /\ ask' = [ask EXCEPT ![p] = left] /\ job' = job /\ open' = open
  BY DEF Take
<1>2. PICK at \in ask[p] :
        /\ at[2] = l
        /\ \A other \in ask[p] :
             at[1] < other[1] \/ (at[1] = other[1] /\ l[2] <= other[2][2])
  BY DEF Take, Awaits
<1>3. Types' BY <1>1 DEF Fenced, Types
<1>4. ASSUME NEW q \in Proc PROVE Disciplined(q)'
  <2>1. CASE q = p
    <3>1. ask'[p] = left /\ job[p] # Idle BY <1>1, <1>2 DEF Fenced, Types, Disciplined
    <3>2. \A other \in left : Height(l) < Height(other[2])
      BY <1>2 DEF Fenced, Disciplined, Sorted
    <3>3. \A k \in Lock : held'[k] = p <=> k = l \/ held[k] = p
      BY <1>1 DEF Fenced, Types
    <3>4. \A k \in Lock, other \in left : held'[k] = p => Height(k) < Height(other[2])
      BY <3>2, <3>3 DEF Fenced, Disciplined
    <3>5. Sorted(left) BY DEF Fenced, Disciplined, Sorted
    <3>6. \A k \in job[p].what : held'[k] = p \/ \E other \in left : other[2] = k
      <4>1. job[p].what \subseteq Lock BY DEF Fenced, Types, Job
      <4> QED BY <3>3, <4>1 DEF Fenced, Disciplined
    <3>7. p \notin open BY <1>2 DEF Fenced, Disciplined, Working
    <3> HIDE DEF left
    <3> QED BY <1>1, <2>1, <3>1, <3>4, <3>5, <3>6, <3>7 DEF Disciplined
  <2>2. CASE q # p
    <3>1. ask'[q] = ask[q] BY <1>1, <2>2 DEF Fenced, Types
    <3>2. q # Nobody BY LockAssumption DEF Proc, Owner
    <3>3. \A k \in Lock : held'[k] = q <=> held[k] = q
      BY <1>1, <2>2, <3>2 DEF Fenced, Types
    <3>4. job[q].what \subseteq Lock BY DEF Fenced, Types, Job
    <3> QED BY <1>1, <3>1, <3>3, <3>4 DEF Fenced, Disciplined, Working
  <2> QED BY <2>1, <2>2
<1> QED BY <1>3, <1>4 DEF Fenced

LEMMA PutObjectFenced ==
  ASSUME Fenced, NEW p \in Proc, PutObject(p)
  PROVE  Fenced'
BY DEF PutObject, Fenced, Types, Disciplined, Working

LEMMA MutateFenced ==
  ASSUME Fenced, NEW s \in Storage, NEW runs \in SUBSET Run, NEW attempts \in SUBSET Attempt,
         Mutate(s, runs, attempts)
  PROVE  Fenced'
<1> DEFINE what == {Activity(r) : r \in runs} \cup {P5Barrier(RunOf[r]) : r \in runs}
                   \cup {StateLock(a) : a \in attempts}
                   \cup {P5Barrier(AttemptOf[a]) : a \in attempts}
           locks == Seams(runs, attempts)
<1>1. what \in SUBSET Lock BY Counts DEF Lock
<1>2. ASSUME NEW l \in what PROVE \E at \in locks : at[2] = l
  <2>1. ASSUME NEW r \in runs
        PROVE  <<2, Activity(r)>> \in locks /\ <<3, P5Barrier(RunOf[r])>> \in locks
    BY DEF Seams, At, Touched
  <2>2. ASSUME NEW a \in attempts
        PROVE  <<5, StateLock(a)>> \in locks /\ <<3, P5Barrier(AttemptOf[a])>> \in locks
    BY DEF Seams, At, Touched
  <2> HIDE DEF locks
  <2>3. CASE \E r \in runs : l = Activity(r) \/ l = P5Barrier(RunOf[r]) BY <2>1, <2>3
  <2>4. CASE \E a \in attempts : l = StateLock(a) \/ l = P5Barrier(AttemptOf[a])
    BY <2>2, <2>4
  <2> QED BY <2>3, <2>4
<1>3. Ask(s, "mutate", what, locks) /\ s \in Proc BY DEF Mutate, Proc
<1>4. locks \in SUBSET Asked /\ Sorted(locks) BY SeamsSorted
<1> HIDE DEF what, locks
<1> QED BY <1>1, <1>2, <1>3, <1>4, AskFenced

LEMMA OneLockFenced ==
  ASSUME Fenced, NEW p \in Proc, NEW kind \in {"write", "publish"}, NEW l \in Lock,
         Ask(p, kind, {l}, At(1, {l}))
  PROVE  Fenced'
<1>1. <<1, l>> \in At(1, {l}) BY DEF At
<1>2. {l} \in SUBSET Lock /\ kind \in {"mutate", "write", "publish"} OBVIOUS
<1>3. At(1, {l}) \in SUBSET Asked /\ Sorted(At(1, {l})) BY OneSorted
<1> HIDE DEF At
<1>4. \A k \in {l} : \E at \in At(1, {l}) : at[2] = k BY <1>1
<1> QED BY <1>2, <1>3, <1>4, AskFenced

LEMMA PublishP7Fenced ==
  ASSUME Fenced, NEW q \in Qualifier, NEW g \in Generation, PublishP7(q, g)
  PROVE  Fenced'
<1> DEFINE locks == At(1, {P5Barrier(g)}) \cup At(2, {P7Barrier(g)}) \cup At(3, {Gate})
<1>1. Ask(q, "publish", {P5Barrier(g)}, locks) /\ q \in Proc BY DEF PublishP7, Proc, Owner
<1>2. <<1, P5Barrier(g)>> \in locks BY DEF At
<1>3. locks \in SUBSET Asked /\ Sorted(locks) BY PublicationSorted
<1>4. {P5Barrier(g)} \in SUBSET Lock BY DEF Lock
<1> HIDE DEF locks
<1>5. \A l \in {P5Barrier(g)} : \E at \in locks : at[2] = l BY <1>2
<1> QED BY <1>1, <1>3, <1>4, <1>5, AskFenced

LEMMA InitFenced == Init => Fenced
BY LockAssumption DEF Init, Fenced, Types, Disciplined, Idle, Job, Sorted, Proc, Owner

LEMMA StepFenced == Fenced /\ [Next]_vars => Fenced'
<1> SUFFICES ASSUME Fenced, [Next]_vars PROVE Fenced'
  OBVIOUS
<1>1. Storage \subseteq Proc /\ Trainer \subseteq Proc /\ Qualifier \subseteq Proc
  BY DEF Proc, Owner
<1>2. CASE \E s \in Storage :
             \/ \E runs \in SUBSET Run, attempts \in SUBSET Attempt : Mutate(s, runs, attempts)
             \/ LeaseTimeout(s)
  BY <1>1, <1>2, MutateFenced, LeaveFenced DEF LeaseTimeout
<1>3. ASSUME NEW t \in Trainer,
             (\E r \in Run : Train(t, r)) \/ (\E g \in Generation : PublishP5(t, g))
      PROVE  Fenced'
  BY <1>1, <1>3, OneLockFenced DEF Train, PublishP5, Lock
<1>4. ASSUME NEW q \in Qualifier,
             (\E g \in Generation : PublishP7(q, g)) \/ (\E a \in Attempt : ChangeAttempt(q, a))
      PROVE  Fenced'
  BY <1>1, <1>4, PublishP7Fenced, OneLockFenced DEF ChangeAttempt, Lock
<1>5. ASSUME NEW p \in Proc,
             (\E l \in Lock : Take(p, l)) \/ PutObject(p) \/ Finish(p) \/ Crash(p)
      PROVE  Fenced'
  BY <1>5, TakeFenced, PutObjectFenced, LeaveFenced DEF Finish, Crash
<1>6. CASE UNCHANGED vars BY <1>6 DEF vars, Fenced, Types, Disciplined, Working
<1> QED BY <1>2, <1>3, <1>4, <1>5, <1>6 DEF Next

(* Whatever storage commands and owners run over whatever runs, attempts   *)
(* and generations, and whoever dies: no owner writes or publishes what    *)
(* storage is changing, and nobody waits in a circle.                      *)
THEOREM OwnersStayFenced == Spec => []OwnersAreFenced
<1>1. Fenced => OwnersAreFenced BY FencedAlone, FencedNoCircle DEF OwnersAreFenced
<1> QED BY <1>1, InitFenced, StepFenced, PTL DEF Spec

-----------------------------------------------------------------------------
(***************************************************************************)
(* Deduplication in the settings of the run (DedupLinks).                  *)
(***************************************************************************)
TrioProven == INSTANCE DedupLinks_proofs WITH
  Process <- {first}, Names <- 3, Faults <- {"raise", "crash", "outsider"},
  file <- tFile, value <- tValue, outside <- tOutside, abandoned <- tAbandoned,
  lease <- tLease, pc <- tPc, plan <- tPlan, todo <- tTodo, current <- tCurrent,
  staged <- tStaged, outcome <- tOutcome, late <- tLate, written <- tWritten

(* What the two instances compute is the same. *)
LEMMA TrioAlike ==
  /\ \A i : Trio!Links(i) = TrioProven!Links(i)
  /\ \A w : Trio!GroupActions(w) = TrioProven!GroupActions(w)
  /\ \A p, a : Trio!KnownLinks(p, a) = TrioProven!KnownLinks(p, a)
  /\ \A n : Trio!Fenced(n) <=> TrioProven!Fenced(n)
<1>1. \A S : Trio!Cardinality(S) = TrioProven!Cardinality(S)
  BY DEF Trio!Cardinality, TrioProven!Cardinality
<1>2. \A S : Trio!Min(S) = TrioProven!Min(S) BY DEF Trio!Min, TrioProven!Min
<1>3. Trio!Name = TrioProven!Name BY DEF Trio!Name, TrioProven!Name
<1>4. \A i : Trio!Links(i) = TrioProven!Links(i) BY <1>1, <1>3 DEF Trio!Links, TrioProven!Links
<1>5. \A w : Trio!Group(w) = TrioProven!Group(w) BY <1>3 DEF Trio!Group, TrioProven!Group
<1>6. \A n, g : Trio!Closed(n, g) <=> TrioProven!Closed(n, g)
  BY <1>1, <1>4 DEF Trio!Closed, TrioProven!Closed
<1>7. ASSUME NEW w PROVE Trio!GroupActions(w) = TrioProven!GroupActions(w)
  <2>1. {n \in Trio!Group(w) : Trio!Closed(n, Trio!Group(w))}
        = {n \in TrioProven!Group(w) : TrioProven!Closed(n, TrioProven!Group(w))}
    BY <1>5, <1>6
  <2> QED BY <1>2, <1>5, <2>1 DEF Trio!GroupActions, TrioProven!GroupActions
<1>8. \A p, a : Trio!KnownLinks(p, a) = TrioProven!KnownLinks(p, a)
  BY <1>1 DEF Trio!KnownLinks, TrioProven!KnownLinks
<1>9. \A n : Trio!Fenced(n) <=> TrioProven!Fenced(n)
  BY DEF Trio!Fenced, TrioProven!Fenced, Trio!Applying, TrioProven!Applying
<1> QED BY <1>4, <1>7, <1>8, <1>9

LEMMA TrioStepsAlike == Trio!Next => TrioProven!Next
<1> SUFFICES ASSUME Trio!Next PROVE TrioProven!Next
  OBVIOUS
<1> USE DEF Trio!Go, TrioProven!Go, Trio!Leave, TrioProven!Leave, Trio!Applying,
            TrioProven!Applying, Trio!Name, TrioProven!Name, Trio!command, TrioProven!command
<1>1. ASSUME NEW p \in {first}, Trio!PlanGroups(p) PROVE TrioProven!PlanGroups(p)
  BY <1>1, TrioAlike DEF Trio!PlanGroups, TrioProven!PlanGroups
<1>2. ASSUME NEW p \in {first}, Trio!Bind(p) PROVE TrioProven!Bind(p)
  BY <1>2 DEF Trio!Bind, TrioProven!Bind
<1>3. ASSUME NEW p \in {first}, Trio!AcquireLease(p) PROVE TrioProven!AcquireLease(p)
  BY <1>3 DEF Trio!AcquireLease, TrioProven!AcquireLease
<1>4. ASSUME NEW p \in {first}, Trio!Begin(p) PROVE TrioProven!Begin(p)
  BY <1>4 DEF Trio!Begin, TrioProven!Begin
<1>5. ASSUME NEW p \in {first}, NEW a \in tPlan[p],
             Trio!Check(p, a) \/ Trio!Link(p, a) \/ Trio!Replace(p, a)
      PROVE  TrioProven!Check(p, a) \/ TrioProven!Link(p, a) \/ TrioProven!Replace(p, a)
  <2>1. CASE Trio!Check(p, a)
    BY <2>1, TrioAlike DEF Trio!Check, TrioProven!Check, Trio!Record, TrioProven!Record
  <2>2. CASE Trio!Link(p, a) BY <2>2 DEF Trio!Link, TrioProven!Link
  <2>3. CASE Trio!Replace(p, a)
    BY <2>3 DEF Trio!Replace, TrioProven!Replace, Trio!Record, TrioProven!Record
  <2> QED BY <1>5, <2>1, <2>2, <2>3
<1>6. ASSUME NEW p \in {first}, Trio!Interrupt(p) PROVE TrioProven!Interrupt(p)
  BY <1>6 DEF Trio!Interrupt, TrioProven!Interrupt
<1>7. ASSUME NEW p \in {first}, Trio!Report(p) PROVE TrioProven!Report(p)
  BY <1>7 DEF Trio!Report, TrioProven!Report
<1>8. ASSUME NEW p \in {first}, Trio!Crash(p) PROVE TrioProven!Crash(p)
  BY <1>8 DEF Trio!Crash, TrioProven!Crash
<1>9. Trio!Sweep => TrioProven!Sweep BY DEF Trio!Sweep, TrioProven!Sweep
<1>10. ASSUME NEW n, NEW w, Trio!OwnerWrite(n, w) PROVE TrioProven!OwnerWrite(n, w)
  BY <1>10, TrioAlike DEF Trio!OwnerWrite, TrioProven!OwnerWrite
<1>11. ASSUME NEW n, Trio!LinkOutside(n) PROVE TrioProven!LinkOutside(n)
  BY <1>11 DEF Trio!LinkOutside, TrioProven!LinkOutside
<1>12. ASSUME NEW i, Trio!UnlinkOutside(i) PROVE TrioProven!UnlinkOutside(i)
  BY <1>12 DEF Trio!UnlinkOutside, TrioProven!UnlinkOutside
<1> HIDE DEF Trio!Go, TrioProven!Go, Trio!Leave, TrioProven!Leave, Trio!Applying,
             TrioProven!Applying, Trio!command, TrioProven!command
<1> QED
  BY <1>1, <1>2, <1>3, <1>4, <1>5, <1>6, <1>7, <1>8, <1>9, <1>10, <1>11, <1>12
  DEF Trio!Next, TrioProven!Next

LEMMA SettingHasTrio == SettingSpec => TrioProven!Spec
<1>1. SettingInit => TrioProven!Init
  BY DEF SettingInit, Trio!Init, TrioProven!Init, Trio!Name, TrioProven!Name
<1>2. [SettingNext]_<<vars, tVars, pVars, setting>> => [TrioProven!Next]_(TrioProven!vars)
  BY TrioStepsAlike DEF SettingNext, tVars, TrioProven!vars, TrioProven!command
<1> QED BY <1>1, <1>2, PTL DEF SettingSpec, TrioProven!Spec

LEMMA TrioAssumed == TrioProven!DedupAssumption
BY DedupAssumption
   DEF Trio!DedupAssumption, TrioProven!DedupAssumption, Trio!IsFiniteSet,
         TrioProven!IsFiniteSet

LEMMA TrioIsSafe == SettingSpec => []Trio!DedupIsSafe
<1>1. SettingSpec => []TrioProven!DedupIsSafe
  BY TrioAssumed, SettingHasTrio, TrioProven!AliasesAreSafe
<1>2. TrioProven!DedupIsSafe => Trio!DedupIsSafe
  BY DEF Trio!DedupIsSafe, TrioProven!DedupIsSafe, Trio!TypeOK, TrioProven!TypeOK,
         Trio!NamesKeepTheirBytes, TrioProven!NamesKeepTheirBytes, Trio!OutcomeIsOnDisk,
         TrioProven!OutcomeIsOnDisk, Trio!Name, TrioProven!Name, Trio!Action,
         TrioProven!Action, Trio!Outcome, TrioProven!Outcome, Trio!Applying,
         TrioProven!Applying
<1> QED BY <1>1, <1>2, PTL

LEMMA TrioIsClosed == SettingSpec => Trio!ClosedInodesOnly
<1> DEFINE Kept == \A p \in {first} :
             tPc[p] = "replace" /\ tPc'[p] = "apply" /\ tFile' # tFile
               => {tStaged[p]} \cap tOutside \subseteq tLate[p]
<1>1. SettingSpec => TrioProven!ClosedInodesOnly
  BY TrioAssumed, SettingHasTrio, TrioProven!AliasesAreClosed
<1>2. UNCHANGED TrioProven!vars => UNCHANGED Trio!vars
  BY DEF Trio!vars, TrioProven!vars, Trio!command, TrioProven!command
<1>3. [Kept]_(TrioProven!vars) => [Kept]_(Trio!vars) BY <1>2
<1> QED BY <1>1, <1>3, PTL DEF Trio!ClosedInodesOnly, TrioProven!ClosedInodesOnly

PairProven == INSTANCE DedupLinks_proofs WITH
  Process <- {first, second}, Names <- 2, Inode <- PairInode, Faults <- {},
  file <- pFile, value <- pValue, outside <- pOutside, abandoned <- pAbandoned,
  lease <- pLease, pc <- pPc, plan <- pPlan, todo <- pTodo, current <- pCurrent,
  staged <- pStaged, outcome <- pOutcome, late <- pLate, written <- pWritten

(* What the two instances compute is the same. *)
LEMMA PairAlike ==
  /\ \A i : Pair!Links(i) = PairProven!Links(i)
  /\ \A w : Pair!GroupActions(w) = PairProven!GroupActions(w)
  /\ \A p, a : Pair!KnownLinks(p, a) = PairProven!KnownLinks(p, a)
  /\ \A n : Pair!Fenced(n) <=> PairProven!Fenced(n)
<1>1. \A S : Pair!Cardinality(S) = PairProven!Cardinality(S)
  BY DEF Pair!Cardinality, PairProven!Cardinality
<1>2. \A S : Pair!Min(S) = PairProven!Min(S) BY DEF Pair!Min, PairProven!Min
<1>3. Pair!Name = PairProven!Name BY DEF Pair!Name, PairProven!Name
<1>4. \A i : Pair!Links(i) = PairProven!Links(i) BY <1>1, <1>3 DEF Pair!Links, PairProven!Links
<1>5. \A w : Pair!Group(w) = PairProven!Group(w) BY <1>3 DEF Pair!Group, PairProven!Group
<1>6. \A n, g : Pair!Closed(n, g) <=> PairProven!Closed(n, g)
  BY <1>1, <1>4 DEF Pair!Closed, PairProven!Closed
<1>7. ASSUME NEW w PROVE Pair!GroupActions(w) = PairProven!GroupActions(w)
  <2>1. {n \in Pair!Group(w) : Pair!Closed(n, Pair!Group(w))}
        = {n \in PairProven!Group(w) : PairProven!Closed(n, PairProven!Group(w))}
    BY <1>5, <1>6
  <2> QED BY <1>2, <1>5, <2>1 DEF Pair!GroupActions, PairProven!GroupActions
<1>8. \A p, a : Pair!KnownLinks(p, a) = PairProven!KnownLinks(p, a)
  BY <1>1 DEF Pair!KnownLinks, PairProven!KnownLinks
<1>9. \A n : Pair!Fenced(n) <=> PairProven!Fenced(n)
  BY DEF Pair!Fenced, PairProven!Fenced, Pair!Applying, PairProven!Applying
<1> QED BY <1>4, <1>7, <1>8, <1>9

LEMMA PairStepsAlike == Pair!Next => PairProven!Next
<1> SUFFICES ASSUME Pair!Next PROVE PairProven!Next
  OBVIOUS
<1> USE DEF Pair!Go, PairProven!Go, Pair!Leave, PairProven!Leave, Pair!Applying,
            PairProven!Applying, Pair!Name, PairProven!Name, Pair!command, PairProven!command
<1>1. ASSUME NEW p \in {first, second}, Pair!PlanGroups(p) PROVE PairProven!PlanGroups(p)
  BY <1>1, PairAlike DEF Pair!PlanGroups, PairProven!PlanGroups
<1>2. ASSUME NEW p \in {first, second}, Pair!Bind(p) PROVE PairProven!Bind(p)
  BY <1>2 DEF Pair!Bind, PairProven!Bind
<1>3. ASSUME NEW p \in {first, second}, Pair!AcquireLease(p) PROVE PairProven!AcquireLease(p)
  BY <1>3 DEF Pair!AcquireLease, PairProven!AcquireLease
<1>4. ASSUME NEW p \in {first, second}, Pair!Begin(p) PROVE PairProven!Begin(p)
  BY <1>4 DEF Pair!Begin, PairProven!Begin
<1>5. ASSUME NEW p \in {first, second}, NEW a \in pPlan[p],
             Pair!Check(p, a) \/ Pair!Link(p, a) \/ Pair!Replace(p, a)
      PROVE  PairProven!Check(p, a) \/ PairProven!Link(p, a) \/ PairProven!Replace(p, a)
  <2>1. CASE Pair!Check(p, a)
    BY <2>1, PairAlike DEF Pair!Check, PairProven!Check, Pair!Record, PairProven!Record
  <2>2. CASE Pair!Link(p, a) BY <2>2 DEF Pair!Link, PairProven!Link
  <2>3. CASE Pair!Replace(p, a)
    BY <2>3 DEF Pair!Replace, PairProven!Replace, Pair!Record, PairProven!Record
  <2> QED BY <1>5, <2>1, <2>2, <2>3
<1>6. ASSUME NEW p \in {first, second}, Pair!Interrupt(p) PROVE PairProven!Interrupt(p)
  BY <1>6 DEF Pair!Interrupt, PairProven!Interrupt
<1>7. ASSUME NEW p \in {first, second}, Pair!Report(p) PROVE PairProven!Report(p)
  BY <1>7 DEF Pair!Report, PairProven!Report
<1>8. ASSUME NEW p \in {first, second}, Pair!Crash(p) PROVE PairProven!Crash(p)
  BY <1>8 DEF Pair!Crash, PairProven!Crash
<1>9. Pair!Sweep => PairProven!Sweep BY DEF Pair!Sweep, PairProven!Sweep
<1>10. ASSUME NEW n, NEW w, Pair!OwnerWrite(n, w) PROVE PairProven!OwnerWrite(n, w)
  BY <1>10, PairAlike DEF Pair!OwnerWrite, PairProven!OwnerWrite
<1>11. ASSUME NEW n, Pair!LinkOutside(n) PROVE PairProven!LinkOutside(n)
  BY <1>11 DEF Pair!LinkOutside, PairProven!LinkOutside
<1>12. ASSUME NEW i, Pair!UnlinkOutside(i) PROVE PairProven!UnlinkOutside(i)
  BY <1>12 DEF Pair!UnlinkOutside, PairProven!UnlinkOutside
<1> HIDE DEF Pair!Go, PairProven!Go, Pair!Leave, PairProven!Leave, Pair!Applying,
             PairProven!Applying, Pair!command, PairProven!command
<1> QED
  BY <1>1, <1>2, <1>3, <1>4, <1>5, <1>6, <1>7, <1>8, <1>9, <1>10, <1>11, <1>12
  DEF Pair!Next, PairProven!Next

LEMMA SettingHasPair == SettingSpec => PairProven!Spec
<1>1. SettingInit => PairProven!Init
  BY DEF SettingInit, Pair!Init, PairProven!Init, Pair!Name, PairProven!Name
<1>2. [SettingNext]_<<vars, tVars, pVars, setting>> => [PairProven!Next]_(PairProven!vars)
  BY PairStepsAlike DEF SettingNext, pVars, PairProven!vars, PairProven!command
<1> QED BY <1>1, <1>2, PTL DEF SettingSpec, PairProven!Spec

LEMMA PairAssumed == PairProven!DedupAssumption
BY DedupAssumption
   DEF Pair!DedupAssumption, PairProven!DedupAssumption, Pair!IsFiniteSet,
         PairProven!IsFiniteSet

LEMMA PairIsSafe == SettingSpec => []Pair!DedupIsSafe
<1>1. SettingSpec => []PairProven!DedupIsSafe
  BY PairAssumed, SettingHasPair, PairProven!AliasesAreSafe
<1>2. PairProven!DedupIsSafe => Pair!DedupIsSafe
  BY DEF Pair!DedupIsSafe, PairProven!DedupIsSafe, Pair!TypeOK, PairProven!TypeOK,
         Pair!NamesKeepTheirBytes, PairProven!NamesKeepTheirBytes, Pair!OutcomeIsOnDisk,
         PairProven!OutcomeIsOnDisk, Pair!Name, PairProven!Name, Pair!Action,
         PairProven!Action, Pair!Outcome, PairProven!Outcome, Pair!Applying,
         PairProven!Applying
<1> QED BY <1>1, <1>2, PTL

LEMMA PairIsClosed == SettingSpec => Pair!ClosedInodesOnly
<1> DEFINE Kept == \A p \in {first, second} :
             pPc[p] = "replace" /\ pPc'[p] = "apply" /\ pFile' # pFile
               => {pStaged[p]} \cap pOutside \subseteq pLate[p]
<1>1. SettingSpec => PairProven!ClosedInodesOnly
  BY PairAssumed, SettingHasPair, PairProven!AliasesAreClosed
<1>2. UNCHANGED PairProven!vars => UNCHANGED Pair!vars
  BY DEF Pair!vars, PairProven!vars, Pair!command, PairProven!command
<1>3. [Kept]_(PairProven!vars) => [Kept]_(Pair!vars) BY <1>2
<1> QED BY <1>1, <1>3, PTL DEF Pair!ClosedInodesOnly, PairProven!ClosedInodesOnly

LEMMA SettingHasLocks == SettingSpec => Spec
<1>1. SettingInit => Init BY DEF SettingInit
<1>2. [SettingNext]_<<vars, tVars, pVars, setting>> => [Next]_vars BY DEF SettingNext
<1> QED BY <1>1, <1>2, PTL DEF SettingSpec, Spec

(* plan_dedup_groups, dedup_engine: whatever one command, or two, make one *)
(* inode with what, while owners write, links come and go and commands     *)
(* die, every name reads what its owner wrote last and a name recorded as  *)
(* aliased is aliased.                                                     *)
THEOREM FilesStaySafe == SettingSpec => []DedupIsSafe
BY TrioIsSafe, PairIsSafe, PTL DEF DedupIsSafe

(* _choose_canonical, dedup_engine: no name is put on an inode that        *)
(* somebody else linked before the checks of that action.                  *)
THEOREM InodesStayClosed == SettingSpec => ClosedInodesOnly
BY TrioIsClosed, PairIsClosed, PTL DEF ClosedInodesOnly

(* owner_mutation_barrier, synchronization_for: beside deduplication too,  *)
(* no owner writes or publishes what storage changes, and storage and the  *)
(* owners never wait in a circle.                                          *)
THEOREM FencesHold == SettingSpec => []OwnersAreFenced
BY SettingHasLocks, OwnersStayFenced

=============================================================================
