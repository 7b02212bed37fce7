----------------------------- MODULE OwnerLocks ------------------------------
(***************************************************************************)
(* The locks that storage commands share with the owners of what they      *)
(* change: the storage lease, the activity lease of each P5 run, the       *)
(* publication barriers of P5 and P7 for each generation, the state lock   *)
(* of each P7 attempt and the writer gate of the campaign store.           *)
(***************************************************************************)
EXTENDS Naturals, Sequences

CONSTANTS
  Storage,     \* storage commands
  Trainer,     \* P5 processes
  Qualifier,   \* P7 processes
  RunOf,       \* the generation of each run, by the path order of the runs
  AttemptOf,   \* the generation of each attempt, by the path order of these
  Current,     \* the current generation
  Generations, \* how many there are
  Nobody

ASSUME LockAssumption ==
  /\ Generations \in Nat /\ Current \in 1 .. Generations
  /\ RunOf \in Seq(1 .. Generations) /\ AttemptOf \in Seq(1 .. Generations)
  /\ Storage \cap (Trainer \cup Qualifier) = {}
  /\ Nobody \notin Storage \cup Trainer \cup Qualifier

Owner == Trainer \cup Qualifier
Proc == Storage \cup Owner
Generation == 1 .. Generations
Run == DOMAIN RunOf
Attempt == DOMAIN AttemptOf

Lease == <<"storage", 0>>
Activity(r) == <<"run", r>>
P5Barrier(g) == <<"p5", g>>
P7Barrier(g) == <<"p7", g>>
StateLock(a) == <<"attempt", a>>
Gate == <<"gate", 0>>
Lock ==
  {Lease, Gate} \cup {Activity(r) : r \in Run} \cup {StateLock(a) : a \in Attempt}
  \cup {P5Barrier(g) : g \in Generation} \cup {P7Barrier(g) : g \in Generation}

Idle == [kind |-> "idle", what |-> {}]

VARIABLES
  held,   \* who holds each lock
  ask,    \* the locks a process has yet to take, each at its place in the code
  job,    \* what it wants to do under them
  open    \* the publishers between an object and the pointer to it

vars == <<held, ask, job, open>>

-----------------------------------------------------------------------------
(* The generations of a plan: those it touches, and the current one. *)
Touched(runs, attempts) ==
  {Current} \cup {RunOf[r] : r \in runs} \cup {AttemptOf[a] : a \in attempts}

(* What owner_mutation_barrier takes at one place: the locks of one kind, *)
(* sorted by path.                                                         *)
At(place, locks) == {place} \X locks

(* Mutant of Seams: the state locks come before the barriers. *)
SeamsAttemptsFirst(runs, attempts) ==
  At(1, {Lease}) \cup At(2, {StateLock(a) : a \in attempts})
  \cup At(3, {Activity(r) : r \in runs})
  \cup At(4, {P7Barrier(g) : g \in Touched(runs, attempts)})
  \cup At(5, {P5Barrier(g) : g \in Touched(runs, attempts)})

(* The seams of a plan, in the one order owner_mutation_barrier takes them. *)
Seams(runs, attempts) ==
  At(1, {Lease}) \cup At(2, {Activity(r) : r \in runs})
  \cup At(3, {P5Barrier(g) : g \in Touched(runs, attempts)})
  \cup At(4, {P7Barrier(g) : g \in Touched(runs, attempts)})
  \cup At(5, {StateLock(a) : a \in attempts})

Ask(p, kind, what, locks) ==
  /\ job[p] = Idle
  /\ job' = [job EXCEPT ![p] = [kind |-> kind, what |-> what]]
  /\ ask' = [ask EXCEPT ![p] = locks]
  /\ UNCHANGED <<held, open>>

(* A storage command applies a plan that touches, or links to, some runs and *)
(* attempts.                                                               *)
Mutate(s, runs, attempts) ==
  Ask(s, "mutate",
      {Activity(r) : r \in runs} \cup {P5Barrier(RunOf[r]) : r \in runs}
      \cup {StateLock(a) : a \in attempts} \cup {P5Barrier(AttemptOf[a]) : a \in attempts},
      Seams(runs, attempts))

(* A run is trained and evaluated under its activity lease, *)
Train(t, r) == Ask(t, "write", {Activity(r)}, At(1, {Activity(r)}))

(* what P5 makes of its runs is published after the lease was given back, *)
PublishP5(t, g) == Ask(t, "publish", {P5Barrier(g)}, At(1, {P5Barrier(g)}))

(* P7 publishes under both barriers and the gate of the campaign store,      *)
PublishP7(q, g) ==
  Ask(q, "publish", {P5Barrier(g)},
      At(1, {P5Barrier(g)}) \cup At(2, {P7Barrier(g)}) \cup At(3, {Gate}))

(* and pins, releases and reopens an attempt under its state lock alone. *)
ChangeAttempt(q, a) == Ask(q, "write", {StateLock(a)}, At(1, {StateLock(a)}))

-----------------------------------------------------------------------------
Working(p) == job[p] # Idle /\ ask[p] = {}

(* The next lock of p: at the first place that is left, the first by path. *)
Awaits(p, l) ==
  \E at \in ask[p] :
    /\ at[2] = l
    /\ \A other \in ask[p] :
         at[1] < other[1] \/ (at[1] = other[1] /\ l[2] <= other[2][2])

Take(p, l) ==
  /\ Awaits(p, l) /\ held[l] = Nobody
  /\ held' = [held EXCEPT ![l] = p]
  /\ ask' = [ask EXCEPT ![p] = {at \in @ : at[2] # l}]
  /\ UNCHANGED <<job, open>>

Leave(p) ==
  /\ held' = [l \in Lock |-> IF held[l] = p THEN Nobody ELSE held[l]]
  /\ ask' = [ask EXCEPT ![p] = {}]
  /\ job' = [job EXCEPT ![p] = Idle]
  /\ open' = open \ {p}

(* Only the storage lease has a deadline; every other lock is waited for. *)
LeaseTimeout(s) ==
  /\ Awaits(s, Lease) /\ held[Lease] # Nobody
  /\ Leave(s)

(* A publisher puts its objects, then the pointer that makes them current. *)
PutObject(p) ==
  /\ Working(p) /\ job[p].kind = "publish" /\ p \notin open
  /\ open' = open \cup {p}
  /\ UNCHANGED <<held, ask, job>>

Finish(p) ==
  /\ Working(p) /\ (job[p].kind = "publish" => p \in open)
  /\ Leave(p)

(* The kernel gives back what a dead process held. *)
Crash(p) == job[p] # Idle /\ Leave(p)

Init ==
  /\ held = [l \in Lock |-> Nobody]
  /\ ask = [p \in Proc |-> {}] /\ job = [p \in Proc |-> Idle] /\ open = {}

Next ==
  \/ \E s \in Storage :
       \/ \E runs \in SUBSET Run, attempts \in SUBSET Attempt : Mutate(s, runs, attempts)
       \/ LeaseTimeout(s)
  \/ \E t \in Trainer :
       \/ \E r \in Run : Train(t, r)
       \/ \E g \in Generation : PublishP5(t, g)
  \/ \E q \in Qualifier :
       \/ \E g \in Generation : PublishP7(q, g)
       \/ \E a \in Attempt : ChangeAttempt(q, a)
  \/ \E p \in Proc :
       \/ \E l \in Lock : Take(p, l)
       \/ PutObject(p) \/ Finish(p) \/ Crash(p)

Spec == Init /\ [][Next]_vars

-----------------------------------------------------------------------------
(* While a storage command changes files, no owner writes a run or an      *)
(* attempt it touches, and no owner is between an object and its pointer in *)
(* a generation it touches (owner_mutation_barrier, synchronization_for).  *)
StorageIsAlone ==
  \A s \in Storage, p \in Owner :
    Working(s) /\ job[p].what \cap job[s].what # {}
      => p \notin open /\ ~(Working(p) /\ job[p].kind = "write")

(* No processes, however few, wait in a circle for each other's locks, in  *)
(* whatever order storage and the owners come (the lock order of           *)
(* owner_mutation_barrier and of both publication barriers).               *)
NoCircle ==
  \A S \in (SUBSET Proc) \ {{}} :
    \E p \in S : \A l \in Lock : Awaits(p, l) => held[l] \notin S

(* While storage changes files no owner writes or publishes what it touches, *)
(* and storage and the owners never wait in a circle for each other        *)
(* (owner_mutation_barrier, synchronization_for).                          *)
OwnersAreFenced == StorageIsAlone /\ NoCircle

=============================================================================
