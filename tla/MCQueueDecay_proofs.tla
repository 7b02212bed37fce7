------------------------ MODULE MCQueueDecay_proofs ------------------------
(***************************************************************************)
(* The density scheduler in its setting keeps the scene budget, for any    *)
(* tasks, declared sizes and parents, workers, memory and parallelism; and *)
(* archives that decay there never lose a member its last copy.            *)
(***************************************************************************)
EXTENDS MCQueueDecay, WorkQueue_proofs, Integers

-----------------------------------------------------------------------------
(* Sums as numbers of units (Units, of WorkQueue), and greatest numbers.   *)

LEMMA CardinalityAlike == \A S : Density!Cardinality(S) = Cardinality(S)
BY DEF Density!Cardinality, Cardinality

LEMMA RemoveAtAlike == \A s, i : Density!RemoveAt(s, i) = RemoveAt(s, i)
BY DEF Density!RemoveAt, RemoveAt

LEMMA UnitsAlike == \A f, S : Density!Units(f, S) = Units(f, S)
BY DEF Density!Units, Units

LEMMA UnitsFinite ==
  ASSUME NEW S, IsFiniteSet(S), NEW f, \A x \in S : f[x] \in Nat
  PROVE  IsFiniteSet(Units(f, S)) /\ Cardinality(Units(f, S)) \in Nat
<1> DEFINE Own(x) == {x} \X (1 .. f[x])
           own == [x \in S |-> Own(x)]
           All == {Own(x) : x \in S}
<1>1. ASSUME NEW x \in S PROVE IsFiniteSet(Own(x))
  BY UnitsOfOne
<1>2. own \in Surjection(S, All)
  BY DEF Surjection
<1> HIDE DEF own
<1>3. IsFiniteSet(All)
  BY <1>2, FS_Surjection
<1>4. IsFiniteSet(UNION All)
  BY <1>1, <1>3, FS_UNION
<1>5. Units(f, S) = UNION All
  BY DEF Units
<1> QED BY <1>4, <1>5, FS_CardinalityType

LEMMA UnitsSplit ==
  ASSUME NEW S, NEW T, NEW f, S \cap T = {}, IsFiniteSet(Units(f, S)), IsFiniteSet(Units(f, T))
  PROVE  Cardinality(Units(f, S \cup T)) = Cardinality(Units(f, S)) + Cardinality(Units(f, T))
<1> DEFINE U == Units(f, S)
           V == Units(f, T)
<1>1. Units(f, S \cup T) = U \cup V
  BY DEF Units
<1>2. U \cap V = {}
  BY DEF Units
<1> HIDE DEF U, V
<1>3. Cardinality(U \cup V) = Cardinality(U) + Cardinality(V) - Cardinality(U \cap V)
  BY FS_Union DEF U, V
<1>4. Cardinality(U \cap V) = 0 /\ Cardinality(U) \in Nat /\ Cardinality(V) \in Nat
  BY <1>2, FS_EmptySet, FS_CardinalityType DEF U, V
<1>5. Cardinality(U \cup V) = Cardinality(U) + Cardinality(V)
  BY <1>3, <1>4
<1> QED BY <1>1, <1>5 DEF U, V

LEMMA UnitsMore ==
  ASSUME NEW S, NEW f, NEW g, \A x \in S : f[x] \in Nat /\ g[x] \in Nat /\ f[x] <= g[x],
         IsFiniteSet(Units(g, S))
  PROVE  Cardinality(Units(f, S)) <= Cardinality(Units(g, S))
<1>1. \A x \in S : 1 .. f[x] \subseteq 1 .. g[x]
  OBVIOUS
<1>2. Units(f, S) \subseteq Units(g, S)
  BY <1>1 DEF Units
<1> QED BY <1>2, FS_Subset

(* One more for each member of E adds as much as E has members. *)
LEMMA UnitsRaise ==
  ASSUME NEW S, NEW E \in SUBSET S, NEW f, NEW g, IsFiniteSet(E), IsFiniteSet(Units(f, S)),
         \A x \in S : f[x] \in Nat /\ g[x] = IF x \in E THEN f[x] + 1 ELSE f[x]
  PROVE  Cardinality(Units(g, S)) <= Cardinality(Units(f, S)) + Cardinality(E)
<1> DEFINE V == {<<x, f[x] + 1>> : x \in E}
           raise == [x \in E |-> <<x, f[x] + 1>>]
<1>1. Units(g, S) \subseteq Units(f, S) \cup V
  <2> SUFFICES ASSUME NEW x \in S, NEW n \in 1 .. g[x] PROVE <<x, n>> \in Units(f, S) \cup V
    BY DEF Units
  <2>1. CASE n \in 1 .. f[x]
    <3>1. <<x, n>> \in {x} \X (1 .. f[x]) BY <2>1
    <3> QED BY <3>1 DEF Units
  <2>2. CASE n \notin 1 .. f[x]
    <3>1. x \in E /\ n = f[x] + 1 BY <2>2
    <3> QED BY <3>1
  <2> QED BY <2>1, <2>2
<1>2. raise \in Surjection(E, V)
  BY DEF Surjection
<1> HIDE DEF raise
<1>3. IsFiniteSet(V) /\ Cardinality(V) <= Cardinality(E)
  BY <1>2, FS_Surjection
<1> HIDE DEF V
<1>4. /\ IsFiniteSet(Units(f, S) \cup V)
      /\ Cardinality(Units(f, S) \cup V)
           = Cardinality(Units(f, S)) + Cardinality(V) - Cardinality(Units(f, S) \cap V)
  BY <1>3, FS_Union
<1>5. Cardinality(Units(g, S)) <= Cardinality(Units(f, S) \cup V)
  BY <1>1, <1>4, FS_Subset
<1>6. IsFiniteSet(Units(f, S) \cap V) BY FS_Intersection
<1>7. /\ Cardinality(Units(f, S)) \in Nat /\ Cardinality(V) \in Nat /\ Cardinality(E) \in Nat
      /\ Cardinality(Units(f, S) \cap V) \in Nat /\ Cardinality(Units(f, S) \cup V) \in Nat
  BY <1>3, <1>4, <1>6, FS_CardinalityType
<1>8. IsFiniteSet(Units(g, S)) BY <1>1, <1>4, FS_Subset
<1>9. Cardinality(Units(g, S)) \in Nat BY <1>8, FS_CardinalityType
<1> QED BY <1>3, <1>4, <1>5, <1>7, <1>9

-----------------------------------------------------------------------------
(* Greatest and smallest numbers.                                          *)

LEMMA GreatestNumber ==
  ASSUME NEW top \in Nat, NEW H \in SUBSET (0 .. top), H # {}
  PROVE  \E h \in H : \A k \in H : k <= h
<1> SUFFICES ASSUME \A h \in H : \E k \in H : h < k PROVE FALSE
  OBVIOUS
<1> DEFINE U == {k \in 0 .. top : \E h \in H : k <= h}
           up == [k \in U |-> k + 1]
<1>1. IsFiniteSet(U)
  <2>1. IsFiniteSet(0 .. top) BY FS_Interval
  <2> QED BY <2>1, FS_Subset
<1>2. 0 \in U
  <2>1. PICK h \in H : h \in 0 .. top OBVIOUS
  <2>2. 0 <= h /\ 0 \in 0 .. top BY <2>1
  <2> QED BY <2>2
<1>3. \A k \in U : k + 1 \in U \ {0}
  <2> SUFFICES ASSUME NEW k \in U PROVE k + 1 \in U \ {0}
    OBVIOUS
  <2>1. PICK h \in H : k <= h OBVIOUS
  <2>2. PICK j \in H : h < j OBVIOUS
  <2>3. k + 1 <= j /\ k + 1 \in 0 .. top /\ k + 1 # 0 BY <2>1, <2>2
  <2> QED BY <2>2, <2>3
<1>4. U \subseteq Nat OBVIOUS
<1> HIDE DEF U
<1>5. up \in Injection(U, U \ {0}) BY <1>3, <1>4 DEF Injection, IsInjective
<1>6. IsFiniteSet(U \ {0}) /\ Cardinality(U \ {0}) = Cardinality(U) - 1
  BY <1>1, <1>2, FS_RemoveElement
<1> HIDE DEF up
<1>7. Cardinality(U) <= Cardinality(U \ {0}) BY <1>5, <1>6, FS_Injection
<1>8. Cardinality(U) \in Nat BY <1>1, FS_CardinalityType
<1> QED BY <1>6, <1>7, <1>8

LEMMA SmallestNumber ==
  ASSUME NEW top \in Nat, NEW H \in SUBSET (0 .. top), H # {}
  PROVE  \E h \in H : \A k \in H : h <= k
<1> DEFINE M == {top - h : h \in H}
<1>1. M \subseteq 0 .. top /\ M # {}
  <2>1. ASSUME NEW h \in H PROVE top - h \in 0 .. top OBVIOUS
  <2> QED BY <2>1
<1>2. PICK m \in M : \A k \in M : k <= m
  <2> HIDE DEF M
  <2> QED BY <1>1, GreatestNumber
<1>3. PICK h \in H : m = top - h BY <1>2
<1>4. \A k \in H : top - k <= top - h BY <1>2, <1>3
<1>5. \A k \in H : h <= k BY <1>4
<1> QED BY <1>5

LEMMA MaxIsGreatest ==
  ASSUME NEW top \in Nat, NEW H \in SUBSET (0 .. top), H # {}
  PROVE  Density!Max(H) \in H /\ \A k \in H : k <= Density!Max(H)
<1>1. PICK h \in H : \A k \in H : k <= h BY GreatestNumber
<1>2. \E h_1 \in H : \A k \in H : h_1 >= k
  <2>1. \A k \in H : h >= k BY <1>1
  <2> QED BY <2>1
<1>3. Density!Max(H) \in H /\ \A k \in H : Density!Max(H) >= k BY <1>2 DEF Density!Max
<1> QED BY <1>3

LEMMA MinIsSmallest ==
  ASSUME NEW top \in Nat, NEW H \in SUBSET (0 .. top), H # {}
  PROVE  Density!Min(H) \in H /\ \A k \in H : Density!Min(H) <= k
<1>1. \E h \in H : \A k \in H : h <= k BY SmallestNumber
<1> QED BY <1>1 DEF Density!Min

(* At most n members have at most n members of the set up to themselves.    *)
LEMMA FirstOnes ==
  ASSUME NEW W, IsFiniteSet(W), W \subseteq Nat, NEW n \in Nat
  PROVE  LET E == {i \in W : Cardinality({j \in W : j <= i}) <= n} IN
         IsFiniteSet(E) /\ Cardinality(E) <= n
<1> DEFINE Upto(i) == {j \in W : j <= i}
           E == {i \in W : Cardinality(Upto(i)) <= n}
           place == [i \in E |-> Cardinality(Upto(i))]
<1>1. ASSUME NEW i \in W PROVE IsFiniteSet(Upto(i)) /\ Cardinality(Upto(i)) \in Nat
  BY FS_Subset, FS_CardinalityType
<1>2. ASSUME NEW i \in W PROVE Cardinality(Upto(i)) # 0
  <2>1. i \in Upto(i) OBVIOUS
  <2> QED BY <1>1, <2>1, FS_EmptySet
<1>3. ASSUME NEW i \in W, NEW k \in W, i < k PROVE Cardinality(Upto(i)) < Cardinality(Upto(k))
  <2>1. i \in Nat /\ k \in Nat OBVIOUS
  <2>2. ASSUME NEW j \in W, j <= i PROVE j <= k
    <3>1. j \in Nat OBVIOUS
    <3> QED BY <1>3, <2>1, <2>2, <3>1
  <2>3. Upto(i) \subseteq Upto(k) BY <2>2
  <2>4. k \in Upto(k) /\ k \notin Upto(i) BY <1>3, <2>1
  <2> HIDE DEF Upto
  <2>5. Cardinality(Upto(i)) <= Cardinality(Upto(k)) /\ Cardinality(Upto(i)) # Cardinality(Upto(k))
    BY <1>1, <2>3, <2>4, FS_Subset
  <2> QED BY <1>1, <2>5
<1> HIDE DEF Upto
<1>4. place \in Injection(E, 1 .. n)
  <2>1. \A i \in E : Cardinality(Upto(i)) \in 1 .. n BY <1>1, <1>2
  <2>2. \A i, k \in E : Cardinality(Upto(i)) = Cardinality(Upto(k)) => i = k
    <3> SUFFICES ASSUME NEW i \in E, NEW k \in E, Cardinality(Upto(i)) = Cardinality(Upto(k))
                 PROVE i = k
      OBVIOUS
    <3>1. i \in W /\ k \in W /\ i \in Nat /\ k \in Nat OBVIOUS
    <3>2. ~(i < k) /\ ~(k < i) BY <1>1, <1>3, <3>1
    <3> QED BY <3>1, <3>2
  <2> QED BY <2>1, <2>2 DEF Injection, IsInjective
<1> HIDE DEF place
<1>5. IsFiniteSet(1 .. n) /\ Cardinality(1 .. n) = n
  <2>1. /\ IsFiniteSet(1 .. n)
        /\ Cardinality(1 .. n) = IF 1 > n THEN 0 ELSE n - 1 + 1
    BY FS_Interval
  <2> QED BY <2>1
<1> HIDE DEF E
<1>6. IsFiniteSet(E) /\ Cardinality(E) <= n
  BY <1>4, <1>5, FS_Injection
<1> QED BY <1>6 DEF E, Upto

-----------------------------------------------------------------------------
(* Sharing out workers.                                                    *)

LEMMA TotalIs == \A f, S : Density!Total(f, S) = Cardinality(Units(f, S))
BY UnitsAlike, CardinalityAlike DEF Density!Total

(* What each task declares. *)
Declared ==
  /\ dResources \in [Density!SceneTask -> Profiles]
  /\ \A i \in Density!SceneTask : Density!Least[i] <= Threads

LEMMA DeclaredNumbers ==
  ASSUME Density!SceneAssumption, dResources \in [Density!SceneTask -> Profiles]
  PROVE  /\ Tasks \in Nat /\ Threads \in Nat /\ DensityMemory \in Nat /\ Parallel \in Nat
         /\ \A i \in Density!SceneTask :
              /\ Density!Least[i] = dResources[i].least /\ Density!Least[i] \in Nat
                 /\ Density!Least[i] >= 1
              /\ dResources[i].wanted \in Nat /\ dResources[i].retained \in Nat
              /\ dResources[i].transient \in Nat
              /\ Density!Retained[i] = dResources[i].retained /\ Density!Retained[i] \in Nat
              /\ Density!Peak[i] = dResources[i].retained + dResources[i].transient
                 /\ Density!Peak[i] \in Nat
<1>1. Tasks \in Nat /\ Threads \in Nat /\ DensityMemory \in Nat /\ Parallel \in Nat
  BY DEF Density!SceneAssumption
<1>2. ASSUME NEW i \in Density!SceneTask
      PROVE  /\ dResources[i].least \in Nat \ {0} /\ dResources[i].wanted \in Nat
             /\ dResources[i].retained \in Nat /\ dResources[i].transient \in Nat
  BY DEF Density!SceneAssumption
<1>3. ASSUME NEW i \in Density!SceneTask
      PROVE  /\ Density!Least[i] = dResources[i].least /\ Density!Retained[i] = dResources[i].retained
             /\ Density!Peak[i] = dResources[i].retained + dResources[i].transient
  BY DEF Density!Least, Density!Retained, Density!Peak
<1> QED BY <1>1, <1>2, <1>3

LEMMA SceneFinite ==
  ASSUME Density!SceneAssumption
  PROVE  IsFiniteSet(Density!SceneTask) /\ Cardinality(Density!SceneTask) = Tasks
        /\ Density!SceneTask \subseteq Nat
<1>1. Tasks \in Nat BY DEF Density!SceneAssumption
<1>2. /\ IsFiniteSet(1 .. Tasks)
      /\ Cardinality(1 .. Tasks) = IF 1 > Tasks THEN 0 ELSE Tasks - 1 + 1
  BY <1>1, FS_Interval
<1> QED BY <1>1, <1>2 DEF Density!SceneTask

(* A level is what the rounds make of the minimum, and at most the budget. *)
LEMMA LevelIs ==
  ASSUME Density!SceneAssumption, Declared, NEW i \in Density!SceneTask, NEW r \in Nat
  PROVE  /\ Density!Level(i, r) \in Nat /\ Density!Least[i] <= Density!Level(i, r)
            /\ Density!Level(i, r) <= Threads
         /\ Density!Level(i, r) <= Density!Least[i] + r
<1> DEFINE least == Density!Least[i]
           wanted == dResources[i].wanted
           low == Density!Min({wanted, Threads, least + r})
           high == Density!Max({least, low})
<1>1. /\ least \in Nat /\ wanted \in Nat /\ Threads \in Nat /\ least <= Threads
  BY DeclaredNumbers DEF Declared
<1>2. high = Density!Level(i, r)
  BY DEF Density!Level
<1> HIDE DEF least, wanted
<1>3. low \in {wanted, Threads, least + r} /\ low <= Threads /\ low <= least + r
  <2>1. {wanted, Threads, least + r} \in SUBSET (0 .. wanted + Threads + least + r)
    BY <1>1
  <2>2. wanted + Threads + least + r \in Nat BY <1>1
  <2> HIDE DEF low
  <2>3. /\ Density!Min({wanted, Threads, least + r}) \in {wanted, Threads, least + r}
        /\ \A k \in {wanted, Threads, least + r} : Density!Min({wanted, Threads, least + r}) <= k
    BY <2>1, <2>2, MinIsSmallest
  <2> QED BY <2>3 DEF low
<1>4. low \in Nat BY <1>1, <1>3
<1> HIDE DEF low
<1>5. high \in {least, low} /\ least <= high
  <2>1. {least, low} \in SUBSET (0 .. least + low) /\ least + low \in Nat
    BY <1>1, <1>4
  <2>2. Density!Max({least, low}) \in {least, low}
        /\ \A k \in {least, low} : k <= Density!Max({least, low})
    BY <2>1, MaxIsGreatest
  <2> QED BY <2>2
<1>6. high \in Nat /\ high <= Threads /\ high <= least + r
  BY <1>1, <1>3, <1>4, <1>5
<1> QED BY <1>2, <1>5, <1>6 DEF least

(* In as many rounds as there are workers for the levels stay in the        *)
(* budget, and what is left raises as many tasks by one.                   *)
LEMMA Rebalanced ==
  ASSUME Density!SceneAssumption, Declared, NEW A \in SUBSET Density!SceneTask,
        Density!Total(Density!Least, A) <= Threads
  PROVE  /\ DOMAIN Density!Rebalance(A) = A
         /\ \A i \in A : Density!Rebalance(A)[i] \in Density!Least[i] .. Threads
         /\ Density!Total(Density!Rebalance(A), A) <= Threads
<1> DEFINE fitting == {r \in 0 .. Threads : Density!Total(Density!Levels(A, r), A) <= Threads}
           n == Density!Rounds(A)
           level == Density!Levels(A, n)
           left == Threads - Density!Total(level, A)
           wanting == {i \in A : Density!Level(i, n) < Density!Level(i, n + 1)}
           raised == {i \in wanting : Cardinality({j \in wanting : j <= i}) <= left}
           shares == [i \in A |-> IF i \in raised THEN level[i] + 1 ELSE level[i]]
<1>1. IsFiniteSet(A) /\ A \subseteq Nat
  BY SceneFinite, FS_Subset
<1>2. Threads \in Nat /\ \A i \in A : Density!Least[i] \in Nat
  BY DeclaredNumbers DEF Declared
<1>3. ASSUME NEW r \in Nat
      PROVE  /\ \A i \in A : Density!Levels(A, r)[i] = Density!Level(i, r)
                /\ Density!Level(i, r) \in Nat
             /\ IsFiniteSet(Units(Density!Levels(A, r), A))
                /\ Density!Total(Density!Levels(A, r), A) \in Nat
  <2>1. \A i \in A : Density!Levels(A, r)[i] = Density!Level(i, r) /\ Density!Level(i, r) \in Nat
    BY LevelIs DEF Density!Levels
  <2> QED BY <1>1, <2>1, UnitsFinite, TotalIs
<1>4. n \in Nat /\ Density!Total(level, A) <= Threads
  <2>1. ASSUME NEW i \in A
    PROVE Density!Levels(A, 0)[i] \in Nat /\ Density!Levels(A, 0)[i] <= Density!Least[i]
    BY <1>2, <1>3, LevelIs
  <2>2. IsFiniteSet(Units(Density!Least, A)) BY <1>1, <1>2, UnitsFinite
  <2>3. Cardinality(Units(Density!Levels(A, 0), A)) <= Cardinality(Units(Density!Least, A))
    BY <1>2, <2>1, <2>2, UnitsMore
  <2>4. Density!Total(Density!Levels(A, 0), A) <= Threads
    <3>1. Density!Total(Density!Levels(A, 0), A) <= Density!Total(Density!Least, A) BY <2>3, TotalIs
    <3>2. Density!Total(Density!Least, A) \in Nat BY <1>1, <1>2, UnitsFinite, TotalIs
    <3> QED BY <1>2, <1>3, <3>1, <3>2
  <2>5. 0 \in fitting BY <1>2, <2>4
  <2>6. fitting \in SUBSET (0 .. Threads) /\ n = Density!Max(fitting) BY DEF Density!Rounds
  <2> HIDE DEF fitting, n
  <2>7. n \in fitting BY <1>2, <2>5, <2>6, MaxIsGreatest
  <2> QED BY <2>7 DEF fitting
<1>5. Density!Rebalance(A) = shares
  BY <1>3, <1>4, CardinalityAlike DEF Density!Rebalance
<1>6. ASSUME NEW i \in A
      PROVE  /\ level[i] = Density!Level(i, n) /\ level[i] \in Nat /\ Density!Least[i] <= level[i]
             /\ level[i] <= Threads /\ (i \in wanting => level[i] + 1 <= Threads)
  <2>1. /\ n + 1 \in Nat /\ Density!Level(i, n + 1) \in Nat /\ Density!Level(i, n + 1) <= Threads
        /\ Density!Level(i, n) \in Nat /\ Density!Least[i] <= Density!Level(i, n)
           /\ Density!Level(i, n) <= Threads
    BY <1>4, LevelIs
  <2> QED BY <1>2, <1>3, <1>4, <2>1
<1>7. left \in Nat /\ IsFiniteSet(Units(level, A)) /\ Density!Total(level, A) \in Nat
  BY <1>2, <1>3, <1>4
<1>8. IsFiniteSet(wanting) /\ wanting \subseteq Nat /\ wanting \subseteq A
  BY <1>1, FS_Subset
<1> HIDE DEF n, level, left, wanting
<1>9. IsFiniteSet(raised) /\ Cardinality(raised) <= left
  BY <1>7, <1>8, FirstOnes
<1>10. raised \in SUBSET A BY <1>8
<1>11. \A i \in raised : i \in wanting OBVIOUS
<1> HIDE DEF raised
<1>12. /\ DOMAIN shares = A
       /\ \A i \in A : shares[i] = IF i \in raised THEN level[i] + 1 ELSE level[i]
  OBVIOUS
<1> HIDE DEF shares
<1>13. \A i \in A : shares[i] \in Density!Least[i] .. Threads
  BY <1>2, <1>6, <1>11, <1>12
<1>14. Cardinality(Units(shares, A)) <= Cardinality(Units(level, A)) + Cardinality(raised)
  BY <1>6, <1>7, <1>9, <1>10, <1>12, UnitsRaise
<1>15. Density!Total(shares, A) <= Threads
  <2>1. Cardinality(raised) \in Nat BY <1>9, FS_CardinalityType
  <2>2. Density!Total(shares, A) \in Nat
    <3>1. \A i \in A : shares[i] \in Nat BY <1>6, <1>12
    <3> QED BY <1>1, <3>1, UnitsFinite, TotalIs
  <2>3. Density!Total(shares, A) <= Density!Total(level, A) + Cardinality(raised) BY <1>14, TotalIs
  <2> QED BY <1>2, <1>7, <1>9, <2>1, <2>2, <2>3 DEF left
<1> QED BY <1>5, <1>12, <1>13, <1>15

-----------------------------------------------------------------------------
(* The scene.                                                              *)

Settled == Density!SceneTask \ (Density!Queued \cup Density!Active)
Started == {i \in Density!Active : dWorker[i] # "none"}

(* A task is pending, once, or active with at least its minimum, or settled. *)
SceneTypes ==
  /\ dResources \in [Density!SceneTask -> Profiles]
     /\ dParent \in [Density!SceneTask -> Density!None .. Tasks] /\ Density!Valid
  /\ dPc \in {"scan", "wait", "ended"}
  /\ dPending \in Seq(Density!SceneTask) /\ Distinct(dPending) /\ dCursor \in 1 .. Len(dPending) + 1
  /\ Density!Active \subseteq Density!SceneTask \ Density!Queued
  /\ \A i \in Density!Active : dLease[i] \in Density!Least[i] .. Threads
  /\ dWorker \in [Density!SceneTask -> {"none", "running", "done", "failed"}]
  /\ dCommitted \in Nat
  /\ dOutcome \in {"none", "done", "failed", "complexity"} \X (Density!None .. Tasks)

(* What the future of a task tells at each of these places. *)
Course ==
  /\ \A i \in Density!Queued : dWorker[i] = "none"
  /\ \A i \in Settled : dWorker[i] \in {"done", "failed"}
  /\ dFailures = {i \in Settled : dWorker[i] = "failed"}
  /\ dPc = "wait" => Started = Density!Active
  /\ dPc = "ended" => Density!Active = {}

(* The sums that admission and water filling keep. *)
Shared ==
  /\ dCommitted + Density!ActivePeak <= DensityMemory
  /\ Density!Total(Density!Least, Density!Active) <= Threads
  /\ Density!Total(dLease, Started) <= Threads

(* What the scan has passed by cannot be admitted any more. *)
Scanned ==
  /\ dPc = "scan" => \A k \in 1 .. dCursor - 1 : ~Density!CanAdmit(dPending[k])
  /\ Density!WorkConserving

(* What the end of a run rests on. *)
Ending == (dOutcome[1] # "none" => dPc = "ended") /\ Density!EndIsJustified

Scene == SceneTypes /\ Course /\ Shared /\ Density!ChildAfterParent /\ Scanned /\ Ending

LEMMA QueuedIs == Density!Queued = Range(dPending)
BY DEF Density!Queued, Density!ToSet, Range

LEMMA PendingCounts ==
  ASSUME SceneTypes
  PROVE  /\ Len(dPending) \in Nat /\ DOMAIN dPending = 1 .. Len(dPending)
         /\ Cardinality(Density!Queued) = Len(dPending)
         /\ \A k \in 1 .. Len(dPending) : dPending[k] \in Density!Queued
         /\ \A i \in Density!Queued : \E k \in 1 .. Len(dPending) : dPending[k] = i
         /\ Density!Queued \subseteq Density!SceneTask
<1>1. Len(dPending) \in Nat /\ DOMAIN dPending = 1 .. Len(dPending)
      /\ dPending \in Seq(Density!SceneTask)
  BY DEF SceneTypes
<1>2. Cardinality(Range(dPending)) = Len(dPending)
  BY <1>1, DistinctCounts DEF SceneTypes
<1>3. \A k \in 1 .. Len(dPending) : dPending[k] \in Density!SceneTask
  BY <1>1
<1>4. Density!Queued = {dPending[k] : k \in 1 .. Len(dPending)}
  BY <1>1, QueuedIs DEF Range
<1> QED BY <1>1, <1>2, <1>3, <1>4, QueuedIs

LEMMA SceneNumbers ==
  ASSUME Density!SceneAssumption, SceneTypes
  PROVE  /\ Declared
         /\ \A i \in Density!SceneTask : Density!Peak[i] \in Nat /\ Density!Retained[i] \in Nat
            /\ Density!Least[i] \in Nat /\ Density!Least[i] >= 1
         /\ \A i \in Density!SceneTask : Density!Retained[i] <= Density!Peak[i]
         /\ \A i \in Density!Active : i \in Density!SceneTask /\ dLease[i] \in Nat
         /\ IsFiniteSet(Density!Active)
<1>1. Declared BY DEF SceneTypes, Declared, Density!Valid
<1>2. \A i \in Density!SceneTask : /\ Density!Peak[i] \in Nat /\ Density!Retained[i] \in Nat
      /\ Density!Least[i] \in Nat
                           /\ Density!Least[i] >= 1 /\ Density!Retained[i] <= Density!Peak[i]
  BY DeclaredNumbers DEF SceneTypes
<1>3. \A i \in Density!Active : i \in Density!SceneTask
  BY DEF SceneTypes
<1>4. \A i \in Density!Active : dLease[i] \in Nat
  <2>1. Threads \in Nat BY DEF Density!SceneAssumption
  <2> QED BY <1>2, <1>3, <2>1 DEF SceneTypes
<1>5. IsFiniteSet(Density!Active) BY <1>3, SceneFinite, FS_Subset
<1> QED BY <1>1, <1>2, <1>3, <1>4, <1>5

LEMMA LimitIs == ASSUME Density!SceneAssumption PROVE Density!Limit \in Nat /\ Density!Limit >= 1
<1> DEFINE least == Density!Min({Tasks, Threads, Parallel})
<1>1. Tasks \in Nat /\ Threads \in Nat /\ Parallel \in Nat BY DEF Density!SceneAssumption
<1>2. least \in {Tasks, Threads, Parallel}
  <2>1. {Tasks, Threads, Parallel} \in SUBSET (0 .. Tasks + Threads + Parallel)
    BY <1>1
  <2>2. Tasks + Threads + Parallel \in Nat BY <1>1
  <2> QED BY <2>1, <2>2, MinIsSmallest
<1> HIDE DEF least
<1>3. least \in Nat BY <1>1, <1>2
<1>4. {1, least} \in SUBSET (0 .. least + 1) /\ least + 1 \in Nat BY <1>3
<1>5. Density!Max({1, least}) \in {1, least} /\ Density!Max({1, least}) >= 1
  BY <1>4, MaxIsGreatest
<1> QED BY <1>3, <1>5 DEF Density!Limit, least

(* What is declared does not change. *)
LEMMA DeclaredStays ==
  ASSUME UNCHANGED Density!declared
  PROVE  /\ Density!Least' = Density!Least /\ Density!Peak' = Density!Peak
            /\ Density!Retained' = Density!Retained
         /\ dResources' = dResources /\ dParent' = dParent /\ (Density!Valid => Density!Valid')
<1>1. Density!Least' = Density!Least /\ Density!Peak' = Density!Peak
      /\ Density!Retained' = Density!Retained
  BY DEF Density!declared, Density!Least, Density!Peak, Density!Retained
<1> QED BY <1>1 DEF Density!declared, Density!Valid

-----------------------------------------------------------------------------
(* Admission.                                                              *)

LEMMA AdmitFacts ==
  ASSUME Density!SceneAssumption, Scene, Density!ScanAdmit
  PROVE  LET i == dPending[dCursor] IN
         /\ i \in Density!Queued /\ i \in Density!SceneTask /\ i \notin Density!Active
            /\ Density!Active' = Density!Active \cup {i}
         /\ Density!Queued' = Density!Queued \ {i} /\ Settled' = Settled /\ Started' = Started
         /\ dLease'[i] = Density!Least[i] /\ \A j \in Density!Active : dLease'[j] = dLease[j]
         /\ UNCHANGED Density!declared
            /\ UNCHANGED <<dPc, dCursor, dWorker, Density!accounts, dOutcome>>
         /\ dPending' = RemoveAt(dPending, dCursor) /\ dCursor \in DOMAIN dPending
         /\ Density!CanAdmit(i) /\ dPc = "scan"
<1> DEFINE i == dPending[dCursor]
<1>1. /\ dPc = "scan" /\ dCursor <= Len(dPending) /\ Density!CanAdmit(i)
      /\ dLease' = [j \in Density!Active \cup {i} |->
                     IF j \in Density!Active THEN dLease[j] ELSE Density!Least[j]]
      /\ dPending' = RemoveAt(dPending, dCursor)
      /\ UNCHANGED <<Density!declared, dPc, dCursor, dWorker, Density!accounts, dOutcome>>
  BY RemoveAtAlike DEF Density!ScanAdmit
<1>2. dCursor \in 1 .. Len(dPending) /\ dCursor \in DOMAIN dPending
  BY <1>1, PendingCounts DEF Scene, SceneTypes
<1>3. i \in Density!Queued /\ i \in Density!SceneTask /\ i \notin Density!Active
  BY <1>2, PendingCounts DEF Scene, SceneTypes
<1>4. Density!Active' = Density!Active \cup {i} BY <1>1 DEF Density!Active
<1>5. dLease'[i] = Density!Least[i] /\ \A j \in Density!Active : dLease'[j] = dLease[j] BY <1>1, <1>3
<1>6. Density!Queued' = Density!Queued \ {i}
  <2>1. Range(RemoveAt(dPending, dCursor)) = Range(dPending) \ {dPending[dCursor]}
    BY <1>2, RemoveKeepsDistinct DEF Scene, SceneTypes
  <2>2. Density!Queued' = Range(dPending') BY DEF Density!Queued, Density!ToSet, Range
  <2> QED BY <1>1, <2>1, <2>2, QueuedIs
<1>7. dWorker'[i] = "none" /\ dWorker' = dWorker BY <1>1, <1>3 DEF Scene, Course
<1> HIDE DEF i
<1>8. Settled' = Settled BY <1>3, <1>4, <1>6 DEF Settled
<1>9. Started' = Started BY <1>3, <1>4, <1>7 DEF Started
<1> QED BY <1>1, <1>2, <1>3, <1>4, <1>5, <1>6, <1>8, <1>9 DEF i

LEMMA AdmitTypes == ASSUME Density!SceneAssumption, Scene, Density!ScanAdmit PROVE SceneTypes'
<1> DEFINE i == dPending[dCursor]
<1>1. /\ i \in Density!Queued /\ i \in Density!SceneTask /\ i \notin Density!Active
         /\ Density!Active' = Density!Active \cup {i}
      /\ Density!Queued' = Density!Queued \ {i} /\ dLease'[i] = Density!Least[i]
         /\ \A j \in Density!Active : dLease'[j] = dLease[j]
      /\ UNCHANGED Density!declared /\ UNCHANGED <<dPc, dCursor, dWorker, Density!accounts, dOutcome>>
      /\ dPending' = RemoveAt(dPending, dCursor) /\ dCursor \in DOMAIN dPending
  BY AdmitFacts
<1> HIDE DEF i
<1>2. Density!Least' = Density!Least /\ dResources' = dResources /\ dParent' = dParent /\ Density!Valid'
  BY <1>1, DeclaredStays DEF Scene, SceneTypes
<1>3. /\ dPending' \in Seq(Density!SceneTask) /\ Distinct(dPending')
         /\ Len(dPending') = Len(dPending) - 1
  BY <1>1, RemoveKeepsType, RemoveKeepsDistinct, RemoveElements DEF Scene, SceneTypes
<1>4. dCursor' \in 1 .. Len(dPending') + 1
  BY <1>1, <1>3, PendingCounts DEF Scene, SceneTypes
<1>5. \A j \in Density!Active' : dLease'[j] \in Density!Least'[j] .. Threads
  <2>1. Density!Least[i] \in Density!Least[i] .. Threads
    BY <1>1, SceneNumbers, DeclaredNumbers DEF Scene, Declared
  <2> QED BY <1>1, <1>2, <2>1 DEF Scene, SceneTypes
<1>6. Density!Active' \subseteq Density!SceneTask \ Density!Queued' BY <1>1 DEF Scene, SceneTypes
<1> QED BY <1>1, <1>2, <1>3, <1>4, <1>5, <1>6 DEF Scene, SceneTypes, Density!accounts

(* What is admitted was counted, and fits. *)
LEMMA AdmitShared == ASSUME Density!SceneAssumption, Scene, Density!ScanAdmit PROVE Shared'
<1> DEFINE i == dPending[dCursor]
<1>1. /\ i \in Density!SceneTask /\ i \notin Density!Active
         /\ Density!Active' = Density!Active \cup {i} /\ Started' = Started
      /\ dLease'[i] = Density!Least[i] /\ \A j \in Density!Active : dLease'[j] = dLease[j]
      /\ UNCHANGED Density!declared /\ dCommitted' = dCommitted /\ Density!CanAdmit(i)
  BY AdmitFacts DEF Density!accounts
<1>2. /\ Density!Total(Density!Least, Density!Active) + Density!Least[i] <= Threads
      /\ dCommitted + Density!ActivePeak + Density!Peak[i] <= DensityMemory
  BY <1>1 DEF Density!CanAdmit, Density!Fits
<1> HIDE DEF i
<1>3. Density!Least' = Density!Least /\ Density!Peak' = Density!Peak
  BY <1>1, DeclaredStays
<1>4. /\ \A j \in Density!SceneTask : Density!Peak[j] \in Nat /\ Density!Least[j] \in Nat
      /\ \A j \in Density!Active : j \in Density!SceneTask /\ dLease[j] \in Nat
      /\ IsFiniteSet(Density!Active)
  BY SceneNumbers DEF Scene
<1>5. /\ IsFiniteSet(Units(Density!Peak, Density!Active))
         /\ IsFiniteSet(Units(Density!Least, Density!Active))
  BY <1>4, UnitsFinite
<1>6. Density!Total(Density!Peak, Density!Active')
        = Density!Total(Density!Peak, Density!Active) + Density!Peak[i]
  BY <1>1, <1>4, <1>5, UnitsAdd, TotalIs
<1>7. Density!Total(Density!Least, Density!Active')
        = Density!Total(Density!Least, Density!Active) + Density!Least[i]
  BY <1>1, <1>4, <1>5, UnitsAdd, TotalIs
<1>8. Density!Total(dLease', Started') = Density!Total(dLease, Started)
  <2>1. \A j \in Started : dLease'[j] = dLease[j] BY <1>1 DEF Started
  <2>2. Units(dLease', Started) = Units(dLease, Started) BY <2>1, UnitsSame
  <2> QED BY <1>1, <2>2, TotalIs
<1>9. Density!Total(Density!Peak, Density!Active) \in Nat /\ dCommitted \in Nat
  BY <1>4, UnitsFinite, TotalIs DEF Scene, SceneTypes
<1>10. dCommitted' + Density!ActivePeak' <= DensityMemory
  <2>1. Density!ActivePeak' = Density!Total(Density!Peak, Density!Active) + Density!Peak[i]
    BY <1>3, <1>6 DEF Density!ActivePeak
  <2>2. Density!ActivePeak = Density!Total(Density!Peak, Density!Active) BY DEF Density!ActivePeak
  <2> QED BY <1>1, <1>2, <1>4, <1>9, <2>1, <2>2
<1>11. Density!Total(Density!Least', Density!Active') <= Threads BY <1>2, <1>3, <1>7
<1>12. Density!Total(dLease', Started') <= Threads BY <1>8 DEF Scene, Shared
<1> QED BY <1>10, <1>11, <1>12 DEF Shared

LEMMA AdmitCourse == ASSUME Density!SceneAssumption, Scene, Density!ScanAdmit
  PROVE Course' /\ Density!ChildAfterParent'
<1> DEFINE i == dPending[dCursor]
<1>1. /\ i \in Density!Queued /\ i \in Density!SceneTask /\ i \notin Density!Active
         /\ Density!Active' = Density!Active \cup {i}
      /\ Density!Queued' = Density!Queued \ {i} /\ Settled' = Settled /\ Started' = Started
      /\ UNCHANGED Density!declared /\ UNCHANGED <<dPc, dWorker, Density!accounts>>
         /\ Density!CanAdmit(i) /\ dPc = "scan"
  BY AdmitFacts
<1>2. dParent[i] \notin Density!Queued \cup Density!Active \cup dFailures
  BY <1>1 DEF Density!CanAdmit, Density!ParentReady
<1> HIDE DEF i
<1>3. dParent' = dParent BY <1>1, DeclaredStays
<1>4. Course' BY <1>1 DEF Scene, Course, Density!accounts
<1>5. ASSUME dParent[i] # Density!None PROVE dWorker[dParent[i]] = "done"
  <2>1. dParent[i] \in Settled BY <1>1, <1>2, <1>5
    DEF Scene, SceneTypes, Settled, Density!SceneTask, Density!None
  <2> QED BY <1>2, <2>1 DEF Scene, Course
<1>6. \A j \in Density!Active : dParent[j] # Density!None => dWorker[dParent[j]] = "done"
      /\ dParent[j] \notin Density!Active
  BY DEF Scene, Density!ChildAfterParent
<1>7. dWorker[i] = "none" BY <1>1 DEF Scene, Course
<1>8. \A j \in Density!Active' : dParent[j] # Density!None => dWorker[dParent[j]] = "done"
      /\ dParent[j] \notin Density!Active'
  BY <1>1, <1>2, <1>5, <1>6, <1>7
<1>9. Density!ChildAfterParent' BY <1>1, <1>3, <1>8 DEF Density!ChildAfterParent
<1> QED BY <1>4, <1>9

(* As long as nothing is collected, what cannot be admitted cannot be later. *)
LEMMA StaysRefused ==
  ASSUME Density!SceneAssumption, Scene, UNCHANGED Density!declared, UNCHANGED Density!accounts,
         Density!Active \subseteq Density!Active', Density!Active' \subseteq Density!SceneTask,
               Density!Queued' \subseteq Density!Queued,
         Density!Queued' \cup Density!Active' = Density!Queued \cup Density!Active,
         NEW i \in Density!SceneTask, ~Density!CanAdmit(i)
  PROVE  ~(/\ Cardinality(Density!Active') < Density!Limit
           /\ Density!Total(Density!Least, Density!Active') + Density!Least[i] <= Threads
           /\ dCommitted' + Density!Total(Density!Peak, Density!Active') + Density!Peak[i] <= DensityMemory
           /\ dParent[i] \notin Density!Queued' \cup Density!Active' \cup dFailures')
<1>1. /\ \A j \in Density!SceneTask : Density!Peak[j] \in Nat /\ Density!Least[j] \in Nat
      /\ IsFiniteSet(Density!Active) /\ IsFiniteSet(Density!Active') /\ dCommitted \in Nat
  BY SceneNumbers, SceneFinite, FS_Subset DEF Scene, SceneTypes
<1>2. Cardinality(Density!Active) <= Cardinality(Density!Active')
      /\ Cardinality(Density!Active) \in Nat /\ Cardinality(Density!Active') \in Nat
  BY <1>1, FS_Subset, FS_CardinalityType
<1>3. ASSUME NEW f, \A j \in Density!SceneTask : f[j] \in Nat
      PROVE  Density!Total(f, Density!Active) \in Nat /\ Density!Total(f, Density!Active') \in Nat
            /\ Density!Total(f, Density!Active) <= Density!Total(f, Density!Active')
  <2>1. Density!Active \subseteq Density!SceneTask
        /\ Units(f, Density!Active) \subseteq Units(f, Density!Active')
    BY DEF Units
  <2>2. /\ IsFiniteSet(Units(f, Density!Active')) /\ Cardinality(Units(f, Density!Active')) \in Nat
        /\ IsFiniteSet(Units(f, Density!Active)) /\ Cardinality(Units(f, Density!Active)) \in Nat
    BY <1>1, <1>3, <2>1, UnitsFinite
  <2>3. Cardinality(Units(f, Density!Active)) <= Cardinality(Units(f, Density!Active'))
    BY <2>1, <2>2, FS_Subset
  <2> QED BY <2>2, <2>3, TotalIs
<1>4. /\ Density!Total(Density!Least, Density!Active) \in Nat
         /\ Density!Total(Density!Least, Density!Active') \in Nat
      /\ Density!Total(Density!Least, Density!Active) <= Density!Total(Density!Least, Density!Active')
  BY <1>1, <1>3
<1>5. /\ Density!Total(Density!Peak, Density!Active) \in Nat
         /\ Density!Total(Density!Peak, Density!Active') \in Nat
      /\ Density!Total(Density!Peak, Density!Active) <= Density!Total(Density!Peak, Density!Active')
  BY <1>1, <1>3
<1>6. Threads \in Nat /\ DensityMemory \in Nat /\ dCommitted' = dCommitted /\ dFailures' = dFailures
  BY DEF Density!SceneAssumption, Density!accounts
<1>7. ~(Cardinality(Density!Active) < Density!Limit) => ~(Cardinality(Density!Active') < Density!Limit)
  BY <1>2, LimitIs
<1>8. ~(Density!Total(Density!Least, Density!Active) + Density!Least[i] <= Threads)
        => ~(Density!Total(Density!Least, Density!Active') + Density!Least[i] <= Threads)
  BY <1>1, <1>4, <1>6
<1>9. ~(dCommitted + Density!Total(Density!Peak, Density!Active) + Density!Peak[i] <= DensityMemory)
        => ~(dCommitted' + Density!Total(Density!Peak, Density!Active') + Density!Peak[i] <= DensityMemory)
  BY <1>1, <1>5, <1>6
<1> QED BY <1>6, <1>7, <1>8, <1>9, CardinalityAlike
  DEF Density!CanAdmit, Density!Fits, Density!ParentReady, Density!ActivePeak

LEMMA AdmitScanned == ASSUME Density!SceneAssumption, Scene, Density!ScanAdmit PROVE Scanned'
<1>1. /\ dPending[dCursor] \in Density!Queued /\ dPending[dCursor] \in Density!SceneTask
      /\ Density!Active' = Density!Active \cup {dPending[dCursor]}
         /\ Density!Queued' = Density!Queued \ {dPending[dCursor]}
      /\ UNCHANGED Density!declared /\ UNCHANGED <<dPc, dCursor, dWorker, Density!accounts, dOutcome>>
      /\ dPending' = RemoveAt(dPending, dCursor) /\ dCursor \in DOMAIN dPending /\ dPc = "scan"
  BY AdmitFacts
<1>2. ASSUME NEW k \in 1 .. dCursor - 1 PROVE ~Density!CanAdmit(dPending[k])'
  <2>1. dCursor \in 1 .. Len(dPending) /\ Len(dPending) \in Nat
    BY <1>1, PendingCounts DEF Scene
  <2>2. k \in 1 .. Len(dPending) - 1 /\ k < dCursor BY <2>1
  <2>3. dPending'[k] = dPending[k]
    BY <1>1, <2>1, <2>2, RemoveElements DEF Scene, SceneTypes
  <2>4. dPending[k] \in Density!SceneTask /\ ~Density!CanAdmit(dPending[k])
    BY <1>1, <2>1, <2>2, PendingCounts DEF Scene, Scanned
  <2>5. Density!Active' \subseteq Density!SceneTask BY <1>1 DEF Scene, SceneTypes
  <2>6. LET i == dPending[k] IN
        ~(/\ Cardinality(Density!Active') < Density!Limit
          /\ Density!Total(Density!Least, Density!Active') + Density!Least[i] <= Threads
          /\ dCommitted' + Density!Total(Density!Peak, Density!Active') + Density!Peak[i] <= DensityMemory
          /\ dParent[i] \notin Density!Queued' \cup Density!Active' \cup dFailures')
    BY <1>1, <2>4, <2>5, StaysRefused
  <2>7. Density!Least' = Density!Least /\ Density!Peak' = Density!Peak /\ dParent' = dParent
    BY <1>1, DeclaredStays
  <2> QED BY <2>3, <2>6, <2>7, CardinalityAlike
    DEF Density!CanAdmit, Density!Fits, Density!ParentReady, Density!ActivePeak, Density!Limit
<1> QED BY <1>1, <1>2 DEF Scanned, Density!WorkConserving

(* While the scheduler goes on there is no outcome. *)
LEMMA GoesOn ==
  ASSUME Scene, UNCHANGED dOutcome, dPc # "ended", dPc' # "ended"
  PROVE  Ending'
<1>1. dOutcome'[1] = "none" BY DEF Scene, Ending, SceneTypes
<1> QED BY <1>1 DEF Ending, Density!EndIsJustified

LEMMA AdmitScene == ASSUME Density!SceneAssumption, Scene, Density!ScanAdmit PROVE Scene'
<1>1. Ending' BY GoesOn DEF Density!ScanAdmit
<1> QED BY <1>1, AdmitTypes, AdmitShared, AdmitCourse, AdmitScanned DEF Scene

LEMMA SkipScene == ASSUME Density!SceneAssumption, Scene, Density!ScanSkip PROVE Scene'
<1>1. /\ dPc = "scan" /\ dCursor <= Len(dPending) /\ ~Density!CanAdmit(dPending[dCursor])
         /\ dCursor' = dCursor + 1
      /\ UNCHANGED Density!declared
         /\ UNCHANGED <<dPc, dPending, dLease, dWorker, Density!accounts, dOutcome>>
  BY DEF Density!ScanSkip
<1>2. /\ Density!Least' = Density!Least /\ Density!Peak' = Density!Peak /\ dParent' = dParent
         /\ dResources' = dResources /\ Density!Valid'
  BY <1>1, DeclaredStays DEF Scene, SceneTypes
<1>3. /\ Density!Active' = Density!Active /\ Density!Queued' = Density!Queued /\ Settled' = Settled
         /\ Started' = Started
      /\ dCommitted' = dCommitted /\ dFailures' = dFailures
  BY <1>1 DEF Density!Active, Density!Queued, Settled, Started, Density!accounts
<1>4. SceneTypes'
  <2>1. dCursor' \in 1 .. Len(dPending) + 1 BY <1>1, PendingCounts DEF Scene, SceneTypes
  <2> QED BY <1>1, <1>2, <1>3, <2>1 DEF Scene, SceneTypes
<1>5. Course' BY <1>1, <1>3 DEF Scene, Course
<1>6. Shared' BY <1>1, <1>2, <1>3 DEF Scene, Shared, Density!ActivePeak
<1>7. Density!ChildAfterParent' BY <1>1, <1>2, <1>3 DEF Scene, Density!ChildAfterParent
<1>8. ASSUME NEW k \in 1 .. dCursor' - 1 PROVE ~Density!CanAdmit(dPending[k])'
  <2>1. k \in 1 .. dCursor - 1 \/ k = dCursor BY <1>1 DEF Scene, SceneTypes
  <2>2. ~Density!CanAdmit(dPending[k]) BY <1>1, <2>1 DEF Scene, Scanned
  <2> QED BY <1>1, <1>2, <1>3, <2>2
    DEF Density!CanAdmit, Density!Fits, Density!ParentReady, Density!ActivePeak, Density!Limit
<1>9. Scanned' BY <1>1, <1>8 DEF Scanned, Density!WorkConserving
<1>10. Ending' BY <1>1, GoesOn
<1> QED BY <1>4, <1>5, <1>6, <1>7, <1>9, <1>10 DEF Scene

LEMMA SubmitScene == ASSUME Density!SceneAssumption, Scene, Density!Submit PROVE Scene'
<1>1. /\ dPc = "scan" /\ dCursor > Len(dPending) /\ dLease' = Density!Rebalance(Density!Active)
         /\ dPc' = "wait"
      /\ dWorker' = [i \in Density!SceneTask |->
                      IF i \in Density!Active /\ dWorker[i] = "none" THEN "running" ELSE dWorker[i]]
      /\ UNCHANGED Density!declared /\ UNCHANGED <<dPending, dCursor, Density!accounts, dOutcome>>
  BY DEF Density!Submit
<1>2. /\ Density!Least' = Density!Least /\ Density!Peak' = Density!Peak /\ dParent' = dParent
         /\ dResources' = dResources /\ Density!Valid'
  BY <1>1, DeclaredStays DEF Scene, SceneTypes
<1>3. /\ DOMAIN dLease' = Density!Active /\ Density!Total(dLease', Density!Active) <= Threads
      /\ \A i \in Density!Active : dLease'[i] \in Density!Least[i] .. Threads
  <2>1. Density!Active \in SUBSET Density!SceneTask BY DEF Scene, SceneTypes
  <2> QED BY <1>1, <2>1, SceneNumbers, Rebalanced DEF Scene, Shared
<1>4. /\ Density!Active' = Density!Active /\ Density!Queued' = Density!Queued
         /\ dCommitted' = dCommitted /\ dFailures' = dFailures
  BY <1>1, <1>3 DEF Density!Active, Density!Queued, Density!accounts
<1>5. Settled' = Settled BY <1>4 DEF Settled
<1>6. /\ \A i \in Density!SceneTask : dWorker'[i] = IF i \in Density!Active
         /\ dWorker[i] = "none" THEN "running" ELSE dWorker[i]
      /\ dWorker' \in [Density!SceneTask -> {"none", "running", "done", "failed"}]
  BY <1>1 DEF Scene, SceneTypes
<1>7. Density!Active \subseteq Density!SceneTask \ Density!Queued BY DEF Scene, SceneTypes
<1>8. Started' = Density!Active BY <1>4, <1>6, <1>7 DEF Started
<1>9. SceneTypes' BY <1>1, <1>2, <1>3, <1>4, <1>6 DEF Scene, SceneTypes
<1>10. Course'
  <2>1. \A i \in Density!Queued : i \in Density!SceneTask /\ i \notin Density!Active
    BY <1>7, PendingCounts DEF Scene
  <2>2. \A i \in Settled : i \in Density!SceneTask /\ i \notin Density!Active BY DEF Settled
  <2>3. /\ \A i \in Density!Queued : dWorker'[i] = dWorker[i]
        /\ \A i \in Settled : dWorker'[i] = dWorker[i]
    BY <1>6, <2>1, <2>2
  <2> QED BY <1>1, <1>4, <1>5, <1>8, <2>3 DEF Scene, Course
<1>11. Shared'
  <2>1. Density!ActivePeak' = Density!ActivePeak BY <1>2, <1>4 DEF Density!ActivePeak
  <2> QED BY <1>2, <1>3, <1>4, <1>8, <2>1 DEF Scene, Shared
<1>12. Density!ChildAfterParent'
  <2>1. ASSUME NEW i \in Density!Active, dParent[i] # Density!None
        PROVE  dWorker'[dParent[i]] = "done" /\ dParent[i] \notin Density!Active
    <3>1. dWorker[dParent[i]] = "done" /\ dParent[i] \notin Density!Active
      BY <2>1 DEF Scene, Density!ChildAfterParent
    <3>2. dParent[i] \in Density!SceneTask BY <2>1, <1>7
      DEF Scene, SceneTypes, Density!SceneTask, Density!None
    <3> QED BY <1>6, <3>1, <3>2
  <2> QED BY <1>2, <1>4, <2>1 DEF Density!ChildAfterParent
<1>13. Scanned'
  <2>1. ASSUME NEW i \in Density!Queued PROVE ~Density!CanAdmit(i)'
    <3>1. PICK k \in 1 .. Len(dPending) : dPending[k] = i BY PendingCounts DEF Scene
    <3>2. k \in 1 .. dCursor - 1 BY <1>1, PendingCounts DEF Scene, SceneTypes
    <3>3. ~Density!CanAdmit(i) BY <1>1, <3>1, <3>2 DEF Scene, Scanned
    <3> QED BY <1>2, <1>4, <3>3
      DEF Density!CanAdmit, Density!Fits, Density!ParentReady, Density!ActivePeak
  <2> QED BY <1>1, <1>4, <2>1 DEF Scanned, Density!WorkConserving
<1>14. Ending' BY <1>1, GoesOn
<1> QED BY <1>9, <1>10, <1>11, <1>12, <1>13, <1>14 DEF Scene

(* What is collected goes on counting with what it retains. *)
LEMMA CollectScene == ASSUME Density!SceneAssumption, Scene, Density!Collect PROVE Scene'
<1>1. /\ dPc = "wait" /\ dPc' = "scan" /\ dCursor' = 1
         /\ dLease' = Density!Rebalance(Density!Active \ Density!Finished)
      /\ dCommitted' = dCommitted + Density!Total(Density!Retained, Density!Finished)
      /\ dFailures' = dFailures \cup {i \in Density!Finished : dWorker[i] = "failed"}
      /\ UNCHANGED Density!declared /\ UNCHANGED <<dPending, dWorker, dOutcome>>
  BY DEF Density!Collect
<1> DEFINE rest == Density!Active \ Density!Finished
<1>2. /\ Density!Least' = Density!Least /\ Density!Peak' = Density!Peak /\ dParent' = dParent
         /\ dResources' = dResources /\ Density!Valid'
  BY <1>1, DeclaredStays DEF Scene, SceneTypes
<1>3. /\ \A j \in Density!SceneTask : /\ Density!Peak[j] \in Nat /\ Density!Least[j] \in Nat
         /\ Density!Retained[j] \in Nat
                              /\ Density!Retained[j] <= Density!Peak[j]
      /\ Declared /\ Density!Active \subseteq Density!SceneTask \ Density!Queued
         /\ Density!Active \in SUBSET Density!SceneTask
      /\ IsFiniteSet(Density!Active)
  BY SceneNumbers DEF Scene, SceneTypes
<1>4. Density!Finished \subseteq Density!Active /\ rest \subseteq Density!Active
      /\ rest \cap Density!Finished = {} /\ Density!Active = rest \cup Density!Finished
  BY DEF Density!Finished
<1>5. IsFiniteSet(rest) /\ IsFiniteSet(Density!Finished) BY <1>3, <1>4, FS_Subset
<1>6. ASSUME NEW f, \A j \in Density!SceneTask : f[j] \in Nat
      PROVE  /\ Density!Total(f, Density!Active) = Density!Total(f, rest) + Density!Total(f, Density!Finished)
             /\ Density!Total(f, rest) \in Nat /\ Density!Total(f, Density!Finished) \in Nat
             /\ IsFiniteSet(Units(f, rest)) /\ IsFiniteSet(Units(f, Density!Finished))
  <2>1. (\A j \in rest : f[j] \in Nat) /\ (\A j \in Density!Finished : f[j] \in Nat)
    BY <1>3, <1>4, <1>6
  <2>2. /\ IsFiniteSet(Units(f, rest)) /\ Cardinality(Units(f, rest)) \in Nat
        /\ IsFiniteSet(Units(f, Density!Finished)) /\ Cardinality(Units(f, Density!Finished)) \in Nat
    BY <1>5, <2>1, UnitsFinite
  <2>3. Cardinality(Units(f, rest \cup Density!Finished))
          = Cardinality(Units(f, rest)) + Cardinality(Units(f, Density!Finished))
    BY <1>4, <2>2, UnitsSplit
  <2> QED BY <1>4, <2>2, <2>3, TotalIs
<1> HIDE DEF rest
<1>7. Threads \in Nat /\ DensityMemory \in Nat /\ dCommitted \in Nat
  BY DEF Density!SceneAssumption, Scene, SceneTypes
<1>8. Density!Total(Density!Least, rest) <= Threads
  <2>1. /\ Density!Total(Density!Least, Density!Active)
             = Density!Total(Density!Least, rest) + Density!Total(Density!Least, Density!Finished)
        /\ Density!Total(Density!Least, rest) \in Nat
           /\ Density!Total(Density!Least, Density!Finished) \in Nat
    BY <1>3, <1>6
  <2> QED BY <1>7, <2>1 DEF Scene, Shared
<1>9. /\ DOMAIN dLease' = rest /\ Density!Total(dLease', rest) <= Threads
      /\ \A i \in rest : dLease'[i] \in Density!Least[i] .. Threads
  <2>1. rest \in SUBSET Density!SceneTask BY <1>3, <1>4
  <2>2. dLease' = Density!Rebalance(rest) BY <1>1 DEF rest
  <2> QED BY <1>3, <1>8, <2>1, <2>2, Rebalanced
<1>10. Density!Active' = rest /\ Density!Queued' = Density!Queued BY <1>1, <1>9
  DEF Density!Active, Density!Queued
<1>11. Settled' = Settled \cup Density!Finished
  BY <1>3, <1>4, <1>10 DEF Settled
<1>12. Started' = rest
  <2>1. \A i \in Density!Active : dWorker[i] # "none" BY <1>1 DEF Scene, Course, Started
  <2> QED BY <1>1, <1>4, <1>10, <2>1 DEF Started
<1>13. dCommitted' + Density!Total(Density!Peak, rest) <= DensityMemory /\ dCommitted' \in Nat
  <2>1. /\ Density!Total(Density!Peak, Density!Active)
             = Density!Total(Density!Peak, rest) + Density!Total(Density!Peak, Density!Finished)
        /\ Density!Total(Density!Peak, rest) \in Nat
           /\ Density!Total(Density!Peak, Density!Finished) \in Nat
        /\ IsFiniteSet(Units(Density!Peak, Density!Finished))
    BY <1>3, <1>6
  <2>2. Density!Total(Density!Retained, Density!Finished) \in Nat BY <1>3, <1>6
  <2>3. Density!Total(Density!Retained, Density!Finished) <= Density!Total(Density!Peak, Density!Finished)
    <3>1. \A j \in Density!Finished : Density!Retained[j] \in Nat /\ Density!Peak[j] \in Nat
          /\ Density!Retained[j] <= Density!Peak[j]
      BY <1>3, <1>4
    <3> QED BY <2>1, <3>1, UnitsMore, TotalIs
  <2>4. dCommitted + Density!Total(Density!Peak, Density!Active) <= DensityMemory
    BY DEF Scene, Shared, Density!ActivePeak
  <2> QED BY <1>1, <1>7, <2>1, <2>2, <2>3, <2>4
<1>14. SceneTypes'
  <2>1. 1 \in 1 .. Len(dPending) + 1 BY PendingCounts DEF Scene
  <2> QED BY <1>1, <1>2, <1>3, <1>4, <1>9, <1>10, <1>13, <2>1 DEF Scene, SceneTypes
<1>15. Course'
  <2>1. \A i \in Density!Finished : dWorker[i] \in {"done", "failed"} BY DEF Density!Finished
  <2>2. dFailures' = {i \in Settled \cup Density!Finished : dWorker[i] = "failed"}
    BY <1>1 DEF Scene, Course
  <2> QED BY <1>1, <1>10, <1>11, <2>1, <2>2 DEF Scene, Course
<1>16. Shared'
  <2>1. Density!ActivePeak' = Density!Total(Density!Peak, rest) BY <1>2, <1>10 DEF Density!ActivePeak
  <2> QED BY <1>2, <1>8, <1>9, <1>10, <1>12, <1>13, <2>1 DEF Shared
<1>17. Density!ChildAfterParent' BY <1>1, <1>2, <1>4, <1>10 DEF Scene, Density!ChildAfterParent
<1>18. Scanned' BY <1>1 DEF Scanned, Density!WorkConserving
<1>19. Ending' BY <1>1, GoesOn
<1> QED BY <1>14, <1>15, <1>16, <1>17, <1>18, <1>19 DEF Scene

(* A task that a complete scan left with nothing running waits for another *)
(* one, or lacks memory: every task fits the workers and the memory alone. *)
LEMMA LeftForAReason ==
  ASSUME Density!SceneAssumption, Scene, Density!NothingRunning, NEW i \in Density!Queued
  PROVE  \/ dParent[i] \in Density!Queued \cup dFailures
         \/ dCommitted + Density!Peak[i] > DensityMemory
<1>1. dPc = "scan" /\ dCursor > Len(dPending) /\ Density!Active = {} BY DEF Density!NothingRunning
<1>2. PICK k \in 1 .. Len(dPending) : dPending[k] = i BY PendingCounts DEF Scene
<1>3. k \in 1 .. dCursor - 1 BY <1>1, <1>2, PendingCounts DEF Scene, SceneTypes
<1>4. ~Density!CanAdmit(i) BY <1>1, <1>2, <1>3 DEF Scene, Scanned
<1>5. i \in Density!SceneTask BY PendingCounts DEF Scene
<1>6. \A f : Density!Total(f, Density!Active) = 0
  <2>1. \A f : Units(f, {}) = {} BY DEF Units
  <2> QED BY <1>1, <2>1, TotalIs, FS_EmptySet
<1>7. Cardinality(Density!Active) < Density!Limit BY <1>1, LimitIs, FS_EmptySet
<1>8. Density!Total(Density!Least, Density!Active) + Density!Least[i] <= Threads
  <2>1. Density!Least[i] <= Threads /\ Density!Least[i] \in Nat
    BY <1>5, SceneNumbers DEF Scene, SceneTypes, Density!Valid
  <2> QED BY <1>6, <2>1
<1>9. dCommitted + Density!ActivePeak + Density!Peak[i] = dCommitted + Density!Peak[i]
  <2>1. dCommitted \in Nat /\ Density!Peak[i] \in Nat /\ Density!ActivePeak = 0
    BY <1>5, <1>6, SceneNumbers DEF Scene, SceneTypes, Density!ActivePeak
  <2> QED BY <2>1
<1>10. dCommitted + Density!Peak[i] \in Nat /\ DensityMemory \in Nat
  <2>1. dCommitted \in Nat /\ Density!Peak[i] \in Nat BY <1>5, SceneNumbers DEF Scene, SceneTypes
  <2>2. DensityMemory \in Nat BY DEF Density!SceneAssumption
  <2> QED BY <2>1, <2>2
<1>11. ~Density!Fits(i) \/ dParent[i] \in Density!Queued \cup dFailures
  BY <1>1, <1>4 DEF Density!CanAdmit, Density!ParentReady
<1>12. ~Density!Fits(i) => dCommitted + Density!Peak[i] > DensityMemory
  BY <1>7, <1>8, <1>9, <1>10, CardinalityAlike DEF Density!Fits
<1> QED BY <1>11, <1>12

(* The first task that is left waits for none that is left: its parent is  *)
(* earlier.  Without failures it lacks memory.                             *)
LEMMA SomeoneLacksMemory ==
  ASSUME Density!SceneAssumption, Scene, dFailures = {}, \E i \in Density!Queued : TRUE,
         \A i \in Density!Queued : \/ dParent[i] \in Density!Queued \cup dFailures
                                 \/ dCommitted + Density!Peak[i] > DensityMemory
  PROVE  \E i \in Density!Queued : dCommitted + Density!Peak[i] > DensityMemory
<1> DEFINE first == Density!Min(Density!Queued)
<1>1. Density!Queued \subseteq Density!SceneTask /\ Tasks \in Nat
  BY PendingCounts DEF Scene, Density!SceneAssumption
<1>2. first \in Density!Queued /\ \A j \in Density!Queued : first <= j
  <2>1. Density!Queued \in SUBSET (0 .. Tasks) /\ Density!Queued # {}
    BY <1>1 DEF Density!SceneTask
  <2> QED BY <1>1, <2>1, MinIsSmallest
<1> HIDE DEF first
<1>3. dParent[first] < first /\ dParent[first] \in Nat /\ first \in Nat
  BY <1>1, <1>2 DEF Scene, SceneTypes, Density!Valid, Density!SceneTask, Density!None
<1>4. dParent[first] \notin Density!Queued BY <1>2, <1>3
<1> QED BY <1>2, <1>4

(* Nothing runs: what is queued has a failed parent, or the run is refused. *)
LEMMA NothingRunningScene == ASSUME Density!SceneAssumption, Scene, Density!NothingRunning PROVE Scene'
<1> DEFINE refused == \E i \in Density!Queued : dFailures = {} \/ dParent[i] \notin dFailures
<1>1. /\ Density!Active = {} /\ dPc' = "ended"
      /\ dOutcome' = IF refused THEN <<"complexity", dPending[1]>>
                    ELSE IF dFailures = {} THEN <<"done", Density!None>> ELSE <<"failed", Density!Min(dFailures)>>
      /\ UNCHANGED Density!declared
         /\ UNCHANGED <<dPending, dCursor, dLease, dWorker, Density!accounts>>
  BY DEF Density!NothingRunning
<1>2. /\ Density!Least' = Density!Least /\ Density!Peak' = Density!Peak /\ dParent' = dParent
         /\ dResources' = dResources /\ Density!Valid'
  BY <1>1, DeclaredStays DEF Scene, SceneTypes
<1>3. /\ Density!Active' = Density!Active /\ Density!Queued' = Density!Queued /\ Settled' = Settled
         /\ Started' = Started
      /\ dCommitted' = dCommitted /\ dFailures' = dFailures
  BY <1>1 DEF Density!Active, Density!Queued, Settled, Started, Density!accounts
<1>4. dFailures # {} => Density!Min(dFailures) \in dFailures
  <2>1. Tasks \in Nat /\ dFailures \in SUBSET (0 .. Tasks)
    BY DEF Density!SceneAssumption, Scene, Course, Settled, Density!SceneTask
  <2> QED BY <2>1, MinIsSmallest
<1>5. dOutcome' \in {"done", "failed", "complexity"} \X (Density!None .. Tasks)
  <2>1. CASE refused
    <3>1. PICK i \in Density!Queued : TRUE BY <2>1
    <3>2. PICK k \in 1 .. Len(dPending) : dPending[k] = i BY PendingCounts DEF Scene
    <3>3. 1 \in 1 .. Len(dPending) BY <3>2, PendingCounts DEF Scene
    <3>4. dPending[1] \in Density!SceneTask BY <3>3, PendingCounts DEF Scene
    <3>5. dPending[1] \in Density!None .. Tasks BY <3>4
      DEF Density!SceneAssumption, Density!SceneTask, Density!None
    <3> QED BY <1>1, <2>1, <3>5
  <2>2. CASE ~refused /\ dFailures = {}
    <3>1. Density!None \in Density!None .. Tasks BY DEF Density!SceneAssumption, Density!None
    <3> HIDE DEF refused
    <3> QED BY <1>1, <2>2, <3>1
  <2>3. CASE ~refused /\ dFailures # {}
    <3>1. Density!Min(dFailures) \in Density!None .. Tasks
      BY <1>4, <2>3 DEF Density!SceneAssumption, Scene, Course, Settled, Density!SceneTask, Density!None
    <3> HIDE DEF refused
    <3> QED BY <1>1, <2>3, <3>1
  <2> QED BY <2>1, <2>2, <2>3
<1>6. SceneTypes' BY <1>1, <1>2, <1>3, <1>5 DEF Scene, SceneTypes
<1>7. Course' BY <1>1, <1>3 DEF Scene, Course
<1>8. Shared' BY <1>1, <1>2, <1>3 DEF Scene, Shared, Density!ActivePeak
<1>9. Density!ChildAfterParent' BY <1>1, <1>2, <1>3 DEF Scene, Density!ChildAfterParent
<1>10. Scanned' BY <1>1 DEF Scanned, Density!WorkConserving
<1>11. Density!EndIsJustified'
  <2>1. Density!Queued = {i \in Density!SceneTask : dWorker[i] = "none"}
    <3>1. \A i \in Density!SceneTask : i \in Density!Queued \/ i \in Settled BY <1>1 DEF Settled
    <3>2. Density!Queued \subseteq Density!SceneTask BY PendingCounts DEF Scene
    <3> QED BY <3>1, <3>2 DEF Scene, Course
  <2>2. dFailures = {i \in Density!SceneTask : dWorker[i] = "failed"}
    <3>1. \A i \in Density!SceneTask : dWorker[i] = "failed" => i \in Settled
      BY <1>1 DEF Scene, Course, Settled
    <3>2. Settled \subseteq Density!SceneTask BY DEF Settled
    <3> QED BY <3>1, <3>2 DEF Scene, Course
  <2>3. \A i \in Density!Queued : \/ dParent[i] \in Density!Queued \cup dFailures
                                 \/ dCommitted + Density!Peak[i] > DensityMemory
    BY LeftForAReason
  <2>4. CASE refused
    <3>1. \E i \in Density!Queued : TRUE BY <2>4
    <3>2. dPending[1] \in Density!Queued
      <4>1. PICK k \in 1 .. Len(dPending) : TRUE BY <3>1, PendingCounts DEF Scene
      <4>2. 1 \in 1 .. Len(dPending) BY <4>1, PendingCounts DEF Scene
      <4> QED BY <4>2, PendingCounts DEF Scene
    <3>3. \E i \in Density!Queued : dParent[i] \notin dFailures BY <2>4
    <3>4. dFailures = {} => \E i \in Density!Queued : dCommitted + Density!Peak[i] > DensityMemory
      BY <2>3, <3>1, SomeoneLacksMemory
    <3>5. dOutcome' = <<"complexity", dPending[1]>> BY <1>1, <2>4
    <3> HIDE DEF refused
    <3> QED BY <1>1, <1>2, <1>3, <2>1, <2>2, <2>3, <3>2, <3>3, <3>4, <3>5 DEF Density!EndIsJustified
  <2>5. CASE ~refused /\ dFailures = {}
    <3>1. Density!Queued = {} BY <2>5
    <3>2. dOutcome' = <<"done", Density!None>>
      <4> HIDE DEF refused
      <4> QED BY <1>1, <2>5
    <3> HIDE DEF refused
    <3> QED BY <1>1, <1>2, <1>3, <2>1, <2>2, <2>3, <2>5, <3>1, <3>2 DEF Density!EndIsJustified
  <2>6. CASE ~refused /\ dFailures # {}
    <3>1. \A i \in Density!Queued : dParent[i] \in dFailures BY <2>6
    <3>2. dOutcome' = <<"failed", Density!Min(dFailures)>>
      <4> HIDE DEF refused
      <4> QED BY <1>1, <2>6
    <3> HIDE DEF refused
    <3> QED BY <1>1, <1>2, <1>3, <2>1, <2>2, <2>3, <2>6, <3>1, <3>2 DEF Density!EndIsJustified
  <2> QED BY <2>4, <2>5, <2>6
<1>12. Ending' BY <1>1, <1>11 DEF Ending
<1> QED BY <1>6, <1>7, <1>8, <1>9, <1>10, <1>12 DEF Scene

LEMMA ReturnScene ==
  ASSUME Density!SceneAssumption, Scene, NEW i \in Density!SceneTask, Density!Return(i)
  PROVE  Scene'
<1>1. PICK answer \in {"done", "failed"} : dWorker' = [dWorker EXCEPT ![i] = answer]
  BY DEF Density!Return
<1>2. /\ dWorker[i] = "running" /\ UNCHANGED Density!declared
      /\ UNCHANGED <<dPc, dPending, dCursor, dLease, Density!accounts, dOutcome>>
  BY DEF Density!Return
<1>3. /\ Density!Least' = Density!Least /\ Density!Peak' = Density!Peak /\ dParent' = dParent
         /\ dResources' = dResources /\ Density!Valid'
  BY <1>2, DeclaredStays DEF Scene, SceneTypes
<1>4. /\ Density!Active' = Density!Active /\ Density!Queued' = Density!Queued /\ Settled' = Settled
      /\ dCommitted' = dCommitted /\ dFailures' = dFailures
  BY <1>2 DEF Density!Active, Density!Queued, Settled, Density!accounts
<1>5. i \in Density!Active
  BY <1>2 DEF Scene, Course, Settled
<1>6. /\ dWorker'[i] = answer /\ \A j \in Density!SceneTask \ {i} : dWorker'[j] = dWorker[j]
      /\ dWorker' \in [Density!SceneTask -> {"none", "running", "done", "failed"}]
  BY <1>1 DEF Scene, SceneTypes
<1>7. Density!Active \subseteq Density!SceneTask \ Density!Queued BY DEF Scene, SceneTypes
<1>8. Started' = Started
  <2>1. \A j \in Density!Active : dWorker'[j] # "none" <=> dWorker[j] # "none"
    BY <1>2, <1>6, <1>7
  <2> QED BY <1>4, <2>1 DEF Started
<1>9. SceneTypes' BY <1>2, <1>3, <1>4, <1>6 DEF Scene, SceneTypes
<1>10. Course'
  <2>1. \A j \in Density!Queued \cup Settled : dWorker'[j] = dWorker[j]
    <3>1. i \notin Density!Queued \cup Settled BY <1>5, <1>7 DEF Settled
    <3>2. Density!Queued \cup Settled \subseteq Density!SceneTask BY PendingCounts DEF Scene, Settled
    <3> QED BY <1>6, <3>1, <3>2
  <2> QED BY <1>2, <1>4, <1>8, <2>1 DEF Scene, Course
<1>11. Shared'
  <2>1. Density!ActivePeak' = Density!ActivePeak BY <1>3, <1>4 DEF Density!ActivePeak
  <2> QED BY <1>2, <1>3, <1>4, <1>8, <2>1 DEF Scene, Shared
<1>12. Density!ChildAfterParent'
  <2>1. ASSUME NEW j \in Density!Active, dParent[j] # Density!None
        PROVE  dWorker'[dParent[j]] = "done" /\ dParent[j] \notin Density!Active
    <3>1. dWorker[dParent[j]] = "done" /\ dParent[j] \notin Density!Active
      BY <2>1 DEF Scene, Density!ChildAfterParent
    <3>2. dParent[j] \in Density!SceneTask BY <2>1, <1>7
      DEF Scene, SceneTypes, Density!SceneTask, Density!None
    <3> QED BY <1>2, <1>6, <3>1, <3>2
  <2> QED BY <1>3, <1>4, <2>1 DEF Density!ChildAfterParent
<1>13. Scanned'
  <2>1. ASSUME NEW j PROVE Density!CanAdmit(j)' <=> Density!CanAdmit(j)
    BY <1>3, <1>4 DEF Density!CanAdmit, Density!Fits, Density!ParentReady, Density!ActivePeak
  <2>2. \A j : Density!CanAdmit(j)' <=> Density!CanAdmit(j) BY <2>1
  <2> QED BY <1>2, <1>4, <2>2 DEF Scene, Scanned, Density!WorkConserving
<1>14. Ending'
  <2>1. dPc # "ended" BY <1>5 DEF Scene, Course
  <2> QED BY <1>2, <2>1, GoesOn
<1> QED BY <1>9, <1>10, <1>11, <1>12, <1>13, <1>14 DEF Scene

LEMMA SceneStays == ASSUME Scene, UNCHANGED Density!vars PROVE Scene'
<1>1. /\ Density!Least' = Density!Least /\ Density!Peak' = Density!Peak /\ dParent' = dParent
         /\ dResources' = dResources /\ Density!Valid'
      /\ UNCHANGED Density!declared
  BY DeclaredStays DEF Scene, SceneTypes, Density!vars
<1>2. UNCHANGED <<dPc, dPending, dCursor, dLease, dWorker, dCommitted, dFailures, dOutcome>>
  BY DEF Density!vars, Density!accounts
<1>3. Density!Active' = Density!Active /\ Density!Queued' = Density!Queued /\ Settled' = Settled
      /\ Started' = Started
  BY <1>2 DEF Density!Active, Density!Queued, Settled, Started
<1>4. SceneTypes' BY <1>1, <1>2, <1>3 DEF Scene, SceneTypes
<1>5. Course' BY <1>2, <1>3 DEF Scene, Course
<1>6. Shared' BY <1>1, <1>2, <1>3 DEF Scene, Shared, Density!ActivePeak
<1>7. Density!ChildAfterParent' BY <1>1, <1>2, <1>3 DEF Scene, Density!ChildAfterParent
<1>8. Scanned'
  <2>1. ASSUME NEW j PROVE Density!CanAdmit(j)' <=> Density!CanAdmit(j)
    BY <1>1, <1>2, <1>3 DEF Density!CanAdmit, Density!Fits, Density!ParentReady, Density!ActivePeak
  <2>2. \A j : Density!CanAdmit(j)' <=> Density!CanAdmit(j) BY <2>1
  <2> QED BY <1>2, <1>3, <2>2 DEF Scene, Scanned, Density!WorkConserving
<1>9. Ending' BY <1>1, <1>2, <1>3 DEF Scene, Ending, Density!EndIsJustified
<1> QED BY <1>4, <1>5, <1>6, <1>7, <1>8, <1>9 DEF Scene

(* Sorted by a strict order, every task is pending once.                   *)
LEMMA InitScene == ASSUME Density!SceneAssumption, Density!Init PROVE Scene
<1>1. /\ dResources \in [Density!SceneTask -> Profiles]
         /\ dParent \in [Density!SceneTask -> Density!None .. Tasks] /\ Density!Valid
      /\ dPc = "scan" /\ dCursor = 1 /\ dPending \in [Density!SceneTask -> Density!SceneTask]
      /\ \A i, j \in Density!SceneTask : i < j => Density!LargestFirst(dPending[i], dPending[j])
      /\ dLease = <<>> /\ dWorker = [i \in Density!SceneTask |-> "none"]
      /\ dCommitted = 0 /\ dFailures = {} /\ dOutcome = <<"none", Density!None>>
  BY DEF Density!Init
<1>2. Tasks \in Nat /\ Threads \in Nat /\ DensityMemory \in Nat BY DEF Density!SceneAssumption
<1>3. dPending \in Seq(Density!SceneTask) /\ Len(dPending) = Tasks
      /\ DOMAIN dPending = Density!SceneTask
  BY <1>1, <1>2 DEF Density!SceneTask
<1>4. ASSUME NEW i \in Density!SceneTask, NEW j \in Density!SceneTask, i # j
  PROVE dPending[i] # dPending[j]
  <2>1. \A k \in Density!SceneTask : Density!Peak[k] \in Nat BY <1>1, DeclaredNumbers
  <2>2. dPending[i] \in Density!SceneTask /\ dPending[j] \in Density!SceneTask BY <1>1
  <2>3. i < j \/ j < i BY <1>2, <1>4 DEF Density!SceneTask
  <2>4. Density!LargestFirst(dPending[i], dPending[j])
        \/ Density!LargestFirst(dPending[j], dPending[i]) BY <1>1, <2>3
  <2>5. ~Density!LargestFirst(dPending[i], dPending[i])
    BY <1>2, <2>1, <2>2 DEF Density!LargestFirst, Density!SceneTask
  <2> QED BY <2>4, <2>5
<1>5. Distinct(dPending) BY <1>3, <1>4 DEF Distinct
<1>6. Density!Active = {} BY <1>1 DEF Density!Active
<1>7. Density!Queued = Density!SceneTask
  <2>1. Density!Queued \subseteq Density!SceneTask /\ Density!Queued = Range(dPending)
    BY <1>1, <1>3, QueuedIs DEF Range
  <2>2. Cardinality(Density!Queued) = Tasks BY <1>3, <1>5, <2>1, DistinctCounts
  <2>3. IsFiniteSet(Density!SceneTask) /\ Cardinality(Density!SceneTask) = Tasks BY SceneFinite
  <2>4. Cardinality(Density!SceneTask \ Density!Queued)
          = Cardinality(Density!SceneTask) - Cardinality(Density!Queued)
    <3>1. Density!SceneTask \cap Density!Queued = Density!Queued BY <2>1
    <3> QED BY <2>3, <3>1, FS_Difference
  <2>5. Cardinality(Density!SceneTask \ Density!Queued) = 0 BY <1>2, <2>2, <2>3, <2>4
  <2>6. IsFiniteSet(Density!SceneTask \ Density!Queued) BY <2>3, FS_Difference
  <2>7. Density!SceneTask \ Density!Queued = {} BY <2>5, <2>6, FS_EmptySet
  <2> QED BY <2>1, <2>7
<1>8. \A f : Density!Total(f, {}) = 0
  <2>1. \A f : Units(f, {}) = {} BY DEF Units
  <2> QED BY <2>1, TotalIs, FS_EmptySet
<1>9. Settled = {} /\ Started = {} BY <1>6, <1>7 DEF Settled, Started
<1>10. SceneTypes
  <2>1. dCursor \in 1 .. Len(dPending) + 1 BY <1>1, <1>2, <1>3
  <2>2. dOutcome \in {"none", "done", "failed", "complexity"} \X (Density!None .. Tasks)
    BY <1>1, <1>2 DEF Density!None
  <2> QED BY <1>1, <1>3, <1>5, <1>6, <2>1, <2>2 DEF SceneTypes
<1>11. Course BY <1>1, <1>6, <1>7, <1>9 DEF Course
<1>12. Shared BY <1>1, <1>2, <1>6, <1>8, <1>9 DEF Shared, Density!ActivePeak
<1>13. Density!ChildAfterParent BY <1>6 DEF Density!ChildAfterParent
<1>14. Scanned BY <1>1 DEF Scanned, Density!WorkConserving
<1>15. Ending BY <1>1 DEF Ending, Density!EndIsJustified
<1> QED BY <1>10, <1>11, <1>12, <1>13, <1>14, <1>15 DEF Scene

LEMMA StepScene == ASSUME Density!SceneAssumption, Scene, [Density!Next]_(Density!vars) PROVE Scene'
BY AdmitScene, SkipScene, SubmitScene, NothingRunningScene, CollectScene, ReturnScene, SceneStays
   DEF Density!Next, Density!Scheduler, Density!Done

LEMMA SceneTells ==
  ASSUME Density!SceneAssumption, Scene
  PROVE  Density!TypeOK /\ Density!InBudget /\ Density!EndIsJustified /\ Density!ChildAfterParent
        /\ Density!WorkConserving
<1>1. /\ \A i \in Density!SceneTask : Density!Peak[i] \in Nat /\ Density!Least[i] \in Nat
         /\ Density!Least[i] >= 1
      /\ IsFiniteSet(Density!Active) /\ \A i \in Density!Active : i \in Density!SceneTask
         /\ dLease[i] \in Nat
  BY SceneNumbers DEF Scene
<1>2. Density!ActivePeak \in Nat BY <1>1, UnitsFinite, TotalIs DEF Density!ActivePeak
<1>3. DensityMemory \in Nat /\ Threads \in Nat BY DEF Density!SceneAssumption
<1>4. dCommitted \in 0 .. DensityMemory BY <1>2, <1>3 DEF Scene, SceneTypes, Shared
<1>5. \A i \in Density!Active : dLease[i] \in 1 .. Threads /\ dLease[i] >= Density!Least[i]
  BY <1>1, <1>3 DEF Scene, SceneTypes
<1>6. dFailures \subseteq Density!SceneTask \ (Density!Queued \cup Density!Active)
  BY DEF Scene, Course, Settled
<1>7. Density!Queued \subseteq Density!SceneTask /\ Len(dPending) = Cardinality(Density!Queued)
  BY PendingCounts DEF Scene
<1>8. Density!TypeOK BY <1>4, <1>5, <1>6, <1>7, CardinalityAlike DEF Scene, SceneTypes, Density!TypeOK
<1>9. Density!InBudget BY <1>5 DEF Scene, Shared, Density!InBudget, Started
<1> QED BY <1>8, <1>9 DEF Scene, Scanned, Ending

-----------------------------------------------------------------------------
LEMMA SceneHolds == SettingSpec => []Scene
<1>1. SettingInit => Scene
  BY InitScene, SceneConstants DEF SettingInit
<1>2. Scene /\ [SettingNext]_<<queue, densityVars, decayVars, setting>> => Scene'
  <2> SUFFICES ASSUME Scene, [SettingNext]_<<queue, densityVars, decayVars, setting>> PROVE Scene'
    OBVIOUS
  <2>1. UNCHANGED densityVars => UNCHANGED Density!vars
    BY DEF densityVars, Density!vars, Density!declared, Density!accounts
  <2>2. [Density!Next]_(Density!vars) BY <2>1 DEF SettingNext
  <2> QED BY <2>2, StepScene, SceneConstants
<1> QED BY <1>1, <1>2, PTL DEF SettingSpec

(* DensitySceneScheduler.run, _rebalance_leases in the setting of the run: *)
(* what is retained and the peaks of the active tasks fit the memory, and  *)
(* their leases the threads; a child starts after its parent's success,    *)
(* and the scheduler waits only with nothing left to admit.                *)
THEOREM SceneStaysInBudget == SettingSpec => []DensityInBudget
<1>1. Scene => DensityInBudget
  BY SceneTells, SceneConstants DEF DensityInBudget
<1> QED BY <1>1, SceneHolds, PTL

(* DensitySceneScheduler.run in the setting of the run, for each of its    *)
(* three ends: what a run leaves cannot run, a failure is raised only as   *)
(* the first of all that failed and only when children of failed tasks are *)
(* all that is left, and a refusal, which may stand in place of a failure, *)
(* comes without failures only where a task lacks memory.                  *)
THEOREM EndStaysJustified == SettingSpec => []DensityEndIsJustified
<1>1. Scene => DensityEndIsJustified
  BY SceneTells, SceneConstants DEF DensityEndIsJustified
<1> QED BY <1>1, SceneHolds, PTL

-----------------------------------------------------------------------------
(***************************************************************************)
(* Archives that decay while storage commands wait (ColdArchive).          *)
(***************************************************************************)
DecayProven == INSTANCE ColdArchive_proofs WITH
  Member <- {a}, Content <- {c1}, Stamp <- {s1}, Faults <- {"crash", "rot"},
  Commands <- {"archive", "archive_keep_hot", "reclaim", "sweep"},
  JournalKeep <- 1,
  cache <- cCache, kept <- cKept, truth <- cTruth, lease <- cLease,
  pc <- cPc, plan <- cPlan, todo <- cTodo, moved <- cMoved,
  hot <- cCache.hot, cold <- Decay!ColdBytes, latest <- cTruth

(* What a plan binds is the same in both instances. *)
LEMMA BindAlike ==
  ASSUME NEW p, NEW op, NEW r, NEW authority, NEW targets,
         Decay!Bind(p, op, r, authority, targets)
  PROVE  DecayProven!Bind(p, op, r, authority, targets)
BY DEF Decay!Bind, DecayProven!Bind, Decay!CurrentViews, DecayProven!CurrentViews,
    Decay!Residue, DecayProven!Residue, Decay!OpenJournals, DecayProven!OpenJournals,
    Decay!TerminalJournals, DecayProven!TerminalJournals, Decay!Staged, DecayProven!Staged,
    Decay!Rep, DecayProven!Rep, Decay!Bytes, DecayProven!Bytes

LEMMA PlansAlike ==
  ASSUME NEW p, Decay!Request(p)
  PROVE  DecayProven!Request(p)
<1>1. \A S : Decay!Cardinality(S) = DecayProven!Cardinality(S)
  BY DEF Decay!Cardinality, DecayProven!Cardinality
<1>2. Decay!Rep = DecayProven!Rep /\ Decay!Op = DecayProven!Op
  BY DEF Decay!Rep, DecayProven!Rep, Decay!Bytes, DecayProven!Bytes, Decay!Op, DecayProven!Op
<1>3. /\ Decay!Residue = DecayProven!Residue /\ Decay!TerminalJournals = DecayProven!TerminalJournals
      /\ Decay!Staged = DecayProven!Staged /\ Decay!OpenJournals = DecayProven!OpenJournals
  BY <1>2 DEF Decay!Residue, DecayProven!Residue, Decay!TerminalJournals,
      DecayProven!TerminalJournals, Decay!Staged, DecayProven!Staged, Decay!OpenJournals,
      DecayProven!OpenJournals
<1>4. ASSUME NEW op, Decay!PlanArchive(p, op) PROVE DecayProven!PlanArchive(p, op)
  BY <1>4, BindAlike DEF Decay!PlanArchive, DecayProven!PlanArchive
<1>5. ASSUME NEW r, Decay!PlanReclaim(p, r) PROVE DecayProven!PlanReclaim(p, r)
  BY <1>5, BindAlike DEF Decay!PlanReclaim, DecayProven!PlanReclaim, Decay!Authentic,
      DecayProven!Authentic, Decay!BlobMatchesManifest, DecayProven!BlobMatchesManifest,
      Decay!StillHot, DecayProven!StillHot
<1>6. ASSUME NEW r, Decay!PlanRestore(p, r) PROVE DecayProven!PlanRestore(p, r)
  BY <1>6, BindAlike DEF Decay!PlanRestore, DecayProven!PlanRestore, Decay!Authentic,
      DecayProven!Authentic, Decay!BlobMatchesManifest, DecayProven!BlobMatchesManifest
<1>7. ASSUME Decay!PlanSweep(p) PROVE DecayProven!PlanSweep(p)
  BY <1>1, <1>3, <1>7, BindAlike DEF Decay!PlanSweep, DecayProven!PlanSweep
<1> QED BY <1>2, <1>4, <1>5, <1>6, <1>7 DEF Decay!Request, DecayProven!Request

LEMMA EngineAlike ==
  ASSUME NEW p, Decay!Engine(p)
  PROVE  DecayProven!Engine(p)
<1> USE DEF Decay!Leave, DecayProven!Leave, Decay!Goto, DecayProven!Goto, Decay!Touch,
    DecayProven!Touch, Decay!Synced, DecayProven!Synced, Decay!Write, DecayProven!Write,
    Decay!Skip, DecayProven!Skip, Decay!Refuse, DecayProven!Refuse, Decay!Bytes,
    DecayProven!Bytes, Decay!Rep, DecayProven!Rep
<1>1. ASSUME Decay!AcquireLease(p) PROVE DecayProven!AcquireLease(p)
  BY <1>1 DEF Decay!AcquireLease, DecayProven!AcquireLease
<1>2. ASSUME Decay!LeaseTimeout(p) PROVE DecayProven!LeaseTimeout(p)
  BY <1>2 DEF Decay!LeaseTimeout, DecayProven!LeaseTimeout
<1>3. ASSUME Decay!Begin(p) PROVE DecayProven!Begin(p)
  BY <1>3 DEF Decay!Begin, DecayProven!Begin, Decay!PlanHolds, DecayProven!PlanHolds,
      Decay!Admitted, DecayProven!Admitted, Decay!FirstStep, DecayProven!FirstStep,
      Decay!Reauthentic, DecayProven!Reauthentic, Decay!Authentic, DecayProven!Authentic,
      Decay!BlobMatchesManifest, DecayProven!BlobMatchesManifest, Decay!CurrentViews,
      DecayProven!CurrentViews, Decay!Residue, DecayProven!Residue, Decay!OpenJournals,
      DecayProven!OpenJournals, Decay!TerminalJournals, DecayProven!TerminalJournals,
      Decay!Staged, DecayProven!Staged
<1>4. ASSUME Decay!PublishBlob(p) PROVE DecayProven!PublishBlob(p)
  BY <1>4 DEF Decay!PublishBlob, DecayProven!PublishBlob
<1>5. ASSUME Decay!PublishManifest(p) PROVE DecayProven!PublishManifest(p)
  BY <1>5 DEF Decay!PublishManifest, DecayProven!PublishManifest
<1>6. ASSUME Decay!PublishCatalog(p) PROVE DecayProven!PublishCatalog(p)
  BY <1>6 DEF Decay!PublishCatalog, DecayProven!PublishCatalog, Decay!BlobMatchesManifest,
      DecayProven!BlobMatchesManifest
<1>7. ASSUME NEW m, Decay!ReclaimMember(p, m) PROVE DecayProven!ReclaimMember(p, m)
  BY <1>7 DEF Decay!ReclaimMember, DecayProven!ReclaimMember
<1>8. ASSUME NEW m, Decay!InstallMember(p, m) PROVE DecayProven!InstallMember(p, m)
  BY <1>8 DEF Decay!InstallMember, DecayProven!InstallMember
<1>9. ASSUME Decay!PublishStatus(p) PROVE DecayProven!PublishStatus(p)
  BY <1>9 DEF Decay!PublishStatus, DecayProven!PublishStatus, Decay!Refusal,
      DecayProven!Refusal, Decay!ReclaimStatus, DecayProven!ReclaimStatus, Decay!StillHot,
      DecayProven!StillHot
<1>10. ASSUME Decay!OpenJournal(p) PROVE DecayProven!OpenJournal(p)
  BY <1>10 DEF Decay!OpenJournal, DecayProven!OpenJournal
<1>11. ASSUME Decay!StageMembers(p) PROVE DecayProven!StageMembers(p)
  BY <1>11 DEF Decay!StageMembers, DecayProven!StageMembers
<1>12. ASSUME Decay!CloseJournal(p) PROVE DecayProven!CloseJournal(p)
  BY <1>12 DEF Decay!CloseJournal, DecayProven!CloseJournal, Decay!Installed,
      DecayProven!Installed
<1>13. ASSUME Decay!ClearStaging(p) PROVE DecayProven!ClearStaging(p)
  BY <1>13 DEF Decay!ClearStaging, DecayProven!ClearStaging
<1>14. ASSUME NEW t, Decay!SweepTarget(p, t) PROVE DecayProven!SweepTarget(p, t)
  BY <1>14 DEF Decay!SweepTarget, DecayProven!SweepTarget
<1>15. ASSUME Decay!EndSweep(p) PROVE DecayProven!EndSweep(p)
  BY <1>15 DEF Decay!EndSweep, DecayProven!EndSweep
<1>16. ASSUME Decay!Finish(p) PROVE DecayProven!Finish(p)
  BY <1>16 DEF Decay!Finish, DecayProven!Finish
<1> HIDE DEF Decay!Leave, DecayProven!Leave, Decay!Goto, DecayProven!Goto, Decay!Touch,
    DecayProven!Touch, Decay!Synced, DecayProven!Synced, Decay!Write, DecayProven!Write,
    Decay!Skip, DecayProven!Skip, Decay!Refuse, DecayProven!Refuse, Decay!Bytes,
    DecayProven!Bytes, Decay!Rep, DecayProven!Rep
<1> QED
  BY <1>1, <1>2, <1>3, <1>4, <1>5, <1>6, <1>7, <1>8, <1>9, <1>10, <1>11, <1>12, <1>13, <1>14, <1>15, <1>16
  DEF Decay!Engine, DecayProven!Engine

LEMMA EnvironmentAlike == Decay!Environment => DecayProven!Environment
<1> SUFFICES ASSUME Decay!Environment PROVE DecayProven!Environment
  OBVIOUS
<1>1. ASSUME NEW m, NEW c, Decay!OwnerWrite(m, c) PROVE DecayProven!OwnerWrite(m, c)
  BY <1>1 DEF Decay!OwnerWrite, DecayProven!OwnerWrite, Decay!Fenced, DecayProven!Fenced,
      Decay!Touch, DecayProven!Touch
<1>2. ASSUME NEW p, Decay!Crash(p) PROVE DecayProven!Crash(p)
  BY <1>2 DEF Decay!Crash, DecayProven!Crash, Decay!Touch, DecayProven!Touch, Decay!Leave,
      DecayProven!Leave
<1>3. ~Decay!PowerLoss BY DEF Decay!PowerLoss
<1>4. ASSUME NEW r, Decay!Rot(r) PROVE DecayProven!Rot(r)
  BY <1>4 DEF Decay!Rot, DecayProven!Rot, Decay!Touch, DecayProven!Touch
<1>5. Decay!Rep = DecayProven!Rep BY DEF Decay!Rep, DecayProven!Rep, Decay!Bytes,
    DecayProven!Bytes
<1> QED BY <1>1, <1>2, <1>3, <1>4, <1>5 DEF Decay!Environment, DecayProven!Environment

LEMMA SettingHasDecay == SettingSpec => DecayProven!Spec
<1>1. SettingInit => DecayProven!Init
  BY DEF SettingInit, Decay!Init, DecayProven!Init, Decay!EmptyStore, DecayProven!EmptyStore,
      Decay!Rep, DecayProven!Rep, Decay!Bytes, DecayProven!Bytes
<1>2. [SettingNext]_<<queue, densityVars, decayVars, setting>> => [DecayProven!Next]_(DecayProven!vars)
  <2>1. Decay!Next => DecayProven!Next
    BY PlansAlike, EngineAlike, EnvironmentAlike DEF Decay!Next, DecayProven!Next
  <2>2. UNCHANGED decayVars => UNCHANGED DecayProven!vars BY DEF decayVars, DecayProven!vars
  <2> QED BY <2>1, <2>2 DEF SettingNext
<1> QED BY <1>1, <1>2, PTL DEF SettingSpec, DecayProven!Spec

(* reauthenticate_representation in that setting: however archives decay   *)
(* after a plan was made, and whatever crashes, a step that takes the hot  *)
(* bytes of a member leaves them in an archive that gives them back.       *)
THEOREM DecayTakesNoLastCopy == SettingSpec => LastCopyNeverReclaimed
<1> DEFINE Cold == \A m \in {a} : cCache.hot[m] = cTruth[m] /\ cCache'.hot[m] = Absent
                                => Decay!ColdIn(cCache', m)
           ColdProven == \A m \in {a} : cCache.hot[m] = cTruth[m] /\ cCache'.hot[m] = Absent
                                       => DecayProven!ColdIn(cCache', m)
<1>1. DecayProven!ConstantAssumption
  BY DecayConstants
     DEF Decay!ConstantAssumption, DecayProven!ConstantAssumption, Decay!Bytes,
         DecayProven!Bytes, Decay!Rep, DecayProven!Rep, Decay!Blob, DecayProven!Blob,
         Decay!Entry, DecayProven!Entry, Decay!Reclamation, DecayProven!Reclamation, Decay!Plan,
         DecayProven!Plan, Decay!Op, DecayProven!Op, Decay!Target, DecayProven!Target,
         Decay!Views, DecayProven!Views
<1>2. DecayProven!OneLoss BY DEF DecayProven!OneLoss
<1>3. SettingSpec => DecayProven!LastCopyNeverReclaimed
  BY <1>1, <1>2, SettingHasDecay, DecayProven!LastCopyStays
<1>4. [ColdProven]_(DecayProven!vars) => [Cold]_(Decay!vars)
  BY DEF Decay!vars, DecayProven!vars, Decay!ColdIn, DecayProven!ColdIn, Decay!Authentic,
      DecayProven!Authentic, Decay!BlobMatchesManifest, DecayProven!BlobMatchesManifest,
      Decay!Rep, DecayProven!Rep, Decay!Bytes, DecayProven!Bytes
<1> QED BY <1>3, <1>4, PTL
    DEF LastCopyNeverReclaimed, Decay!LastCopyNeverReclaimed, DecayProven!LastCopyNeverReclaimed

=============================================================================
