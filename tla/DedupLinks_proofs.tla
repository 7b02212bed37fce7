-------------------------- MODULE DedupLinks_proofs --------------------------
(***************************************************************************)
(* What is proved of DedupLinks, for any number of files, commands and     *)
(* inodes and whatever fails: every name keeps the bytes of its owner, an  *)
(* alias that is recorded is one, and no inode with a link that somebody   *)
(* else holds is chosen.                                                   *)
(***************************************************************************)
EXTENDS DedupLinks, FiniteSetTheorems, TLAPS

-----------------------------------------------------------------------------
(* The least number of a set of numbers with a bound exists: else whatever *)
(* is at least one of them would fit, one down, into itself without the    *)
(* bound.                                                                  *)
LEMMA LeastNumber ==
  ASSUME NEW top \in Nat, NEW H \in SUBSET (1 .. top), H # {}
  PROVE  Min(H) \in H /\ \A h \in H : Min(H) <= h
<1>0. SUFFICES \E x \in H : \A y \in H : x <= y
  BY DEF Min
<1> SUFFICES ASSUME \A h \in H : \E k \in H : k < h PROVE FALSE
  OBVIOUS
<1> DEFINE U == {k \in 1 .. top : \E h \in H : h <= k}
           down == [k \in U |-> k - 1]
<1>1. IsFiniteSet(U)
  <2>1. IsFiniteSet(1 .. top) BY FS_Interval
  <2> QED BY <2>1, FS_Subset
<1>2. top \in U
  <2>1. PICK h \in H : h \in 1 .. top OBVIOUS
  <2>2. h <= top /\ top \in 1 .. top BY <2>1
  <2> QED BY <2>2
<1>3. \A k \in U : k - 1 \in U \ {top}
  <2> SUFFICES ASSUME NEW k \in U PROVE k - 1 \in U \ {top}
    OBVIOUS
  <2>1. PICK h \in H : h <= k OBVIOUS
  <2>2. PICK j \in H : j < h OBVIOUS
  <2>3. j <= k - 1 /\ k - 1 \in 1 .. top /\ k - 1 # top BY <2>1, <2>2
  <2> QED BY <2>2, <2>3
<1>4. U \subseteq Nat OBVIOUS
<1> HIDE DEF U
<1>5. down \in Injection(U, U \ {top}) BY <1>3, <1>4 DEF Injection, IsInjective
<1>6. IsFiniteSet(U \ {top}) /\ Cardinality(U \ {top}) = Cardinality(U) - 1
  BY <1>1, <1>2, FS_RemoveElement
<1> HIDE DEF down
<1>7. Cardinality(U) <= Cardinality(U \ {top}) BY <1>5, <1>6, FS_Injection
<1>8. Cardinality(U) \in Nat BY <1>1, FS_CardinalityType
<1> QED BY <1>6, <1>7, <1>8

-----------------------------------------------------------------------------
(* What the link count of an inode says.                                   *)

NamesOf(i) == {n \in Name : file[n] = i}
StagedBy(i) == {p \in Process : staged[p] = i}

LEMMA Counted ==
  ASSUME DedupAssumption, NEW i
  PROVE  /\ IsFiniteSet(NamesOf(i)) /\ IsFiniteSet(StagedBy(i))
         /\ Cardinality(NamesOf(i)) \in Nat /\ Cardinality(StagedBy(i)) \in Nat
         /\ Links(i) = Cardinality(NamesOf(i)) + Cardinality(StagedBy(i))
              + (IF i \in outside THEN 1 ELSE 0) + (IF i \in abandoned THEN 1 ELSE 0)
<1>1. IsFiniteSet(Name)
  BY FS_Interval DEF DedupAssumption, Name
<1>2. IsFiniteSet(NamesOf(i))
  BY <1>1, FS_Subset DEF NamesOf
<1>3. IsFiniteSet(StagedBy(i))
  BY FS_Subset DEF DedupAssumption, StagedBy
<1>4. Cardinality(NamesOf(i)) \in Nat /\ Cardinality(StagedBy(i)) \in Nat
  BY <1>2, <1>3, FS_CardinalityType
<1>5. QED
  BY <1>2, <1>3, <1>4 DEF Links, NamesOf, StagedBy

(* An inode without links has no name and is in no staging area. *)
LEMMA Unlinked ==
  ASSUME DedupAssumption, NEW i, Links(i) = 0
  PROVE  (\A n \in Name : file[n] # i) /\ (\A p \in Process : staged[p] # i)
<1>1. Cardinality(NamesOf(i)) = 0 /\ Cardinality(StagedBy(i)) = 0
  BY Counted
<1>2. NamesOf(i) = {} /\ StagedBy(i) = {}
  BY <1>1, Counted, FS_EmptySet
<1>3. QED
  BY <1>2 DEF NamesOf, StagedBy

-----------------------------------------------------------------------------
(* The inductive invariant.                                                *)

(* Whoever has got the storage lease runs the only engine.                  *)
OneEngine ==
  \A p \in Process : lease = p <=> pc[p] \in Applying \cup {"begin"}

(* A plan has one action for a name, and replaces no canonical source. *)
WellPlanned(p) ==
  \A a, b \in plan[p] : a.name # b.canonical /\ (a.name = b.name => a = b)

(* Outside its engine a command has nothing to do and recorded nothing, and *)
(* what it is at, and what it staged, is there from its checks to its      *)
(* replacement only.                                                       *)
Tidy(p) ==
  /\ pc[p] \notin Applying => todo[p] = {} /\ outcome[p] = [n \in Name |-> "none"]
  /\ pc[p] \notin {"link", "replace"} => current[p] = {} /\ staged[p] = NoInode

(* From the checks on, both files of the action are what was planned, and  *)
(* an outside link of the canonical inode is later than the checks.        *)
Checked(p) ==
  pc[p] \in {"link", "replace"} =>
    \A a \in current[p] :
      /\ value[file[a.canonical]] = a.value /\ value[file[a.name]] = a.value
      /\ file[a.canonical] \in outside => file[a.canonical] \in late[p]
      /\ pc[p] = "replace" => staged[p] = file[a.canonical]

(* What is recorded as an alias is one. *)
Aliased(p) ==
  \A a \in plan[p] :
    outcome[p][a.name] \in {"aliased", "already"} => file[a.name] = file[a.canonical]

(* An engine is at one action at a time. *)
OneAction(p) == \A a, b \in current[p] : a = b

(* What is staged at a replacement has something to replace. *)
AtSomething(p) == pc[p] = "replace" => current[p] # {}

Sound(p) == WellPlanned(p) /\ Tidy(p) /\ Checked(p) /\ Aliased(p) /\ OneAction(p) /\ AtSomething(p)

Linked ==
  /\ TypeOK
  /\ NamesKeepTheirBytes
  /\ OneEngine
  /\ \A p \in Process : Sound(p)

LEMMA InitIsLinked == DedupAssumption /\ Init => Linked
<1> SUFFICES ASSUME DedupAssumption, Init PROVE Linked
  OBVIOUS
<1>1. TypeOK
  BY DEF Init, TypeOK, Outcome
<1>2. NamesKeepTheirBytes /\ OneEngine
  BY DEF DedupAssumption, Init, NamesKeepTheirBytes, OneEngine, Applying
<1>3. \A p \in Process : Sound(p)
  BY DEF Init, Sound, WellPlanned, Tidy, Checked, Aliased, OneAction, AtSomething, Applying
<1>4. QED
  BY <1>1, <1>2, <1>3 DEF Linked

(* What a command holds does not change with a step of somebody else that  *)
(* leaves the names it fences, and what their inodes hold, alone.          *)
LEMMA Undisturbed ==
  ASSUME NEW q \in Process, Linked, Sound(q),
         pc'[q] = pc[q], plan'[q] = plan[q], todo'[q] = todo[q], current'[q] = current[q],
         staged'[q] = staged[q], outcome'[q] = outcome[q], late'[q] = late[q],
         outside' \subseteq outside,
         pc[q] \in Applying =>
           \A a \in plan[q] : \A n \in {a.name, a.canonical} :
             file'[n] = file[n] /\ value'[file[n]] = value[file[n]]
  PROVE  Sound(q)'
<1>1. current[q] \subseteq plan[q]
  BY DEF Linked, TypeOK
<1>2. WellPlanned(q)' /\ Tidy(q)' /\ OneAction(q)' /\ AtSomething(q)'
  BY DEF Sound, WellPlanned, Tidy, OneAction, AtSomething
<1>3. Checked(q)'
  BY <1>1 DEF Sound, Checked, Applying
<1>4. Aliased(q)'
  <2>1. CASE pc[q] \in Applying
    BY <2>1 DEF Sound, Aliased
  <2>2. CASE pc[q] \notin Applying
    <3>1. outcome[q] = [n \in Name |-> "none"]
      BY <2>2 DEF Sound, Tidy
    <3>2. \A a \in plan[q] : a.name \in Name
      BY DEF Linked, TypeOK, Action
    <3>3. QED
      BY <3>1, <3>2 DEF Aliased
  <2>3. QED
    BY <2>1, <2>2
<1>5. QED
  BY <1>2, <1>3, <1>4 DEF Sound

(* A command that leaves, by itself or because it died, frees the lease if *)
(* it had it and takes what it recorded along.                             *)
LEMMA LeaveKeepsLinked ==
  ASSUME DedupAssumption, Linked, NEW p \in Process, Leave(p),
         UNCHANGED <<file, value, outside, written>>, abandoned' \subseteq Inode
  PROVE  Linked'
<1>1. /\ pc'[p] = "idle" /\ plan'[p] = {} /\ todo'[p] = {} /\ current'[p] = {}
      /\ staged'[p] = NoInode /\ outcome'[p] = [n \in Name |-> "none"] /\ late'[p] = {}
  BY DEF Linked, TypeOK, Leave, Go
<1>2. \A q \in Process \ {p} :
        /\ pc'[q] = pc[q] /\ plan'[q] = plan[q] /\ todo'[q] = todo[q]
        /\ current'[q] = current[q] /\ staged'[q] = staged[q]
        /\ outcome'[q] = outcome[q] /\ late'[q] = late[q]
  BY DEF Linked, TypeOK, Leave, Go
<1>3. TypeOK'
  <2>1. \A q \in Process : todo'[q] \subseteq plan'[q] /\ current'[q] \subseteq todo'[q]
    BY <1>1, <1>2 DEF Linked, TypeOK
  <2>2. /\ pc' \in [Process -> Applying \cup {"idle", "bind", "waiting", "begin"}]
        /\ plan' \in [Process -> SUBSET Action] /\ todo' \in [Process -> SUBSET Action]
        /\ current' \in [Process -> SUBSET Action]
        /\ staged' \in [Process -> Inode \cup {NoInode}] /\ late' \in [Process -> SUBSET Inode]
        /\ lease' \in Process \cup {Nobody}
    BY DEF Linked, TypeOK, Leave, Go
  <2>3. outcome' \in [Process -> [Name -> Outcome]]
    BY DEF Linked, TypeOK, Leave, Outcome
  <2>4. QED
    BY <2>1, <2>2, <2>3 DEF Linked, TypeOK
<1>4. NamesKeepTheirBytes'
  BY DEF Linked, NamesKeepTheirBytes
<1>5. OneEngine'
  BY <1>1, <1>2 DEF DedupAssumption, Linked, TypeOK, OneEngine, Leave, Applying
<1>6. Sound(p)'
  BY <1>1 DEF Sound, WellPlanned, Tidy, Checked, Aliased, OneAction, AtSomething, Applying
<1>7. \A q \in Process \ {p} : Sound(q)'
  BY <1>2, Undisturbed DEF Linked
<1>8. QED
  BY <1>3, <1>4, <1>5, <1>6, <1>7 DEF Linked

-----------------------------------------------------------------------------
(* A group has one canonical source, of the bytes of the group, and what it *)
(* replaces is another inode of the same bytes.                            *)
CanonicalOf(v) == Min({n \in Group(v) : Closed(n, Group(v))})

LEMMA GroupIsPlanned ==
  ASSUME DedupAssumption, TypeOK, NEW v \in Value, NEW a \in GroupActions(v)
  PROVE  /\ a \in Action
         /\ a.value = v /\ a.canonical = CanonicalOf(v) /\ a.inode = file[a.name]
         /\ a.name \in Group(v) /\ a.canonical \in Group(v)
         /\ file[a.name] # file[a.canonical]
<1> DEFINE closed == {n \in Group(v) : Closed(n, Group(v))}
<1>1. closed # {}
  BY DEF GroupActions
<1>2. Min(closed) \in closed
  BY <1>1, LeastNumber DEF DedupAssumption, Group, Name
<1>3. PICK n \in {m \in Group(v) : file[m] # file[Min(closed)]} :
        a = [name |-> n, canonical |-> Min(closed), inode |-> file[n], value |-> v]
  BY <1>1 DEF GroupActions
<1> HIDE DEF closed
<1>4. n \in Name /\ Min(closed) \in Name /\ Min(closed) \in Group(v) /\ file[n] \in Inode
  BY <1>2, <1>3 DEF closed, Group, TypeOK
<1>5. QED
  BY <1>3, <1>4 DEF Action, CanonicalOf, closed

LEMMA PlanIsWellPlanned ==
  ASSUME DedupAssumption, TypeOK,
         NEW a \in UNION {GroupActions(v) : v \in Value},
         NEW b \in UNION {GroupActions(v) : v \in Value}
  PROVE  a \in Action /\ a.name # b.canonical /\ (a.name = b.name => a = b)
<1>1. PICK v \in Value : a \in GroupActions(v)
  OBVIOUS
<1>2. PICK w \in Value : b \in GroupActions(w)
  OBVIOUS
<1>3. /\ a \in Action /\ a.value = v /\ a.canonical = CanonicalOf(v) /\ a.inode = file[a.name]
      /\ a.name \in Group(v) /\ file[a.name] # file[a.canonical]
  BY <1>1, GroupIsPlanned
<1>4. /\ b \in Action /\ b.value = w /\ b.canonical = CanonicalOf(w) /\ b.inode = file[b.name]
      /\ b.name \in Group(w) /\ b.canonical \in Group(w)
  BY <1>2, GroupIsPlanned
<1>5. a.name # b.canonical
  BY <1>3, <1>4 DEF Group
<1>6. ASSUME a.name = b.name PROVE a = b
  <2>1. v = w
    BY <1>3, <1>4, <1>6 DEF Group
  <2>2. QED
    BY <1>3, <1>4, <1>6, <2>1 DEF Action
<1>7. QED
  BY <1>3, <1>5, <1>6

(* With no more links than the engine knows of, nobody else holds one: the *)
(* canonical name and the targets that share its inode are as many names.  *)
LEMMA NoOtherLinks ==
  ASSUME DedupAssumption, TypeOK, NEW p \in Process, NEW a \in plan[p], WellPlanned(p),
         Links(file[a.canonical]) <= KnownLinks(p, a)
  PROVE  file[a.canonical] \notin outside
<1> DEFINE i == file[a.canonical]
           known == {b \in plan[p] : b.canonical = a.canonical /\ file[b.name] = i}
           names == NamesOf(i)
           nameOf == [b \in known |-> b.name]
<1>1. \A b \in plan[p] : b.name \in Name /\ b.canonical \in Name
  BY DEF TypeOK, Action
<1>2. \A b \in known : b.name \in names \ {a.canonical}
  BY <1>1 DEF NamesOf, WellPlanned
<1>3. \A b, c \in known : b.name = c.name => b = c
  BY DEF WellPlanned
<1> HIDE DEF known, names, i
<1>4. nameOf \in Injection(known, names \ {a.canonical})
  BY <1>2, <1>3 DEF Injection, IsInjective
<1>5. a.canonical \in names
  BY <1>1 DEF names, i, NamesOf
<1>6. IsFiniteSet(names) /\ Cardinality(names) \in Nat
  BY Counted DEF names
<1>7. /\ IsFiniteSet(names \ {a.canonical})
      /\ Cardinality(names \ {a.canonical}) = Cardinality(names) - 1
  BY <1>5, <1>6, FS_RemoveElement
<1> HIDE DEF nameOf
<1>8. IsFiniteSet(known) /\ Cardinality(known) <= Cardinality(names) - 1
  BY <1>4, <1>7, FS_Injection
<1>9. Cardinality(known) \in Nat
  BY <1>8, FS_CardinalityType
<1>10. KnownLinks(p, a) = 1 + Cardinality(known)
  BY DEF KnownLinks, known, i
<1>11. CASE i \in outside
  <2>1. Links(i) >= Cardinality(names) + 1
    BY <1>11, Counted DEF names
  <2>2. Links(i) \in Nat
    BY Counted
  <2>3. Links(i) <= KnownLinks(p, a)
    BY DEF i
  <2>4. QED
    BY <1>6, <1>8, <1>9, <1>10, <2>1, <2>2, <2>3
<1>12. QED
  BY <1>11 DEF i

-----------------------------------------------------------------------------
(* The steps of a command before its engine.                               *)

(* Somebody else's step moves neither what a command has nor any name.      *)
LEMMA OthersStaySound ==
  ASSUME Linked, NEW p \in Process, NEW q \in Process \ {p},
         pc'[q] = pc[q], plan'[q] = plan[q], todo'[q] = todo[q], current'[q] = current[q],
         staged'[q] = staged[q], outcome'[q] = outcome[q], late'[q] = late[q],
         UNCHANGED <<file, value, outside>>
  PROVE  Sound(q)'
BY Undisturbed DEF Linked

LEMMA PlanGroupsKeepsLinked ==
  ASSUME DedupAssumption, Linked, NEW p \in Process, PlanGroups(p)
  PROVE  Linked'
<1> DEFINE new == UNION {GroupActions(v) : v \in Value}
<1>1. \A a, b \in new : a \in Action /\ a.name # b.canonical /\ (a.name = b.name => a = b)
  BY PlanIsWellPlanned DEF Linked
<1>2. plan' = [plan EXCEPT ![p] = new] /\ pc' = [pc EXCEPT ![p] = "bind"] /\ pc[p] = "idle"
  BY DEF PlanGroups, Go
<1> HIDE DEF new
<1>3. /\ pc'[p] = "bind" /\ plan'[p] = new /\ todo[p] = {} /\ current[p] = {}
      /\ staged[p] = NoInode /\ outcome[p] = [n \in Name |-> "none"]
  BY <1>2 DEF Linked, TypeOK, Sound, Tidy, Applying
<1>4. TypeOK'
  <2>1. plan' \in [Process -> SUBSET Action]
    BY <1>1, <1>2 DEF Linked, TypeOK
  <2>2. pc' \in [Process -> Applying \cup {"idle", "bind", "waiting", "begin"}]
    BY <1>2 DEF Linked, TypeOK
  <2>3. QED
    BY <1>2, <1>3, <2>1, <2>2 DEF Linked, TypeOK, PlanGroups
<1>5. NamesKeepTheirBytes' /\ OneEngine'
  BY <1>2 DEF Linked, TypeOK, NamesKeepTheirBytes, OneEngine, PlanGroups, Applying
<1>6. Sound(p)'
  <2>1. \A a \in new : a.name \in Name
    BY <1>1 DEF Action
  <2>2. QED
    BY <1>1, <1>3, <2>1 DEF Sound, WellPlanned, Tidy, Checked, Aliased, OneAction, AtSomething,
                            Applying, PlanGroups
<1>7. \A q \in Process \ {p} : Sound(q)'
  BY <1>2, OthersStaySound DEF Linked, TypeOK, PlanGroups
<1>8. QED
  BY <1>4, <1>5, <1>6, <1>7 DEF Linked

LEMMA BindKeepsLinked ==
  ASSUME DedupAssumption, Linked, NEW p \in Process, Bind(p)
  PROVE  Linked'
<1> DEFINE new == {[a EXCEPT !.inode = file[a.name]] : a \in plan[p]}
<1>1. \A a, b \in new : a \in Action /\ a.name # b.canonical /\ (a.name = b.name => a = b)
  <2>1. \A a \in plan[p] : a \in Action /\ file[a.name] \in Inode
    BY DEF Linked, TypeOK, Action
  <2>2. SUFFICES ASSUME NEW c \in new, NEW d \in new
                 PROVE  c \in Action /\ c.name # d.canonical /\ (c.name = d.name => c = d)
    OBVIOUS
  <2>3. PICK a \in plan[p] : c = [a EXCEPT !.inode = file[a.name]]
    OBVIOUS
  <2>4. PICK b \in plan[p] : d = [b EXCEPT !.inode = file[b.name]]
    OBVIOUS
  <2>5. a.name # b.canonical /\ (a.name = b.name => a = b)
    BY DEF Linked, Sound, WellPlanned
  <2> HIDE DEF new
  <2>6. c.name = a.name /\ d.name = b.name /\ d.canonical = b.canonical
    BY <2>1, <2>3, <2>4 DEF Action
  <2>7. c \in Action
    BY <2>1, <2>3 DEF Action
  <2>8. c.name = d.name => c = d
    BY <2>3, <2>4, <2>5, <2>6
  <2>9. QED
    BY <2>5, <2>6, <2>7, <2>8
<1>2. plan' = [plan EXCEPT ![p] = new] /\ pc' = [pc EXCEPT ![p] = "waiting"] /\ pc[p] = "bind"
  BY DEF Bind, Go
<1> HIDE DEF new
<1>3. /\ pc'[p] = "waiting" /\ plan'[p] = new /\ todo[p] = {} /\ current[p] = {}
      /\ staged[p] = NoInode /\ outcome[p] = [n \in Name |-> "none"]
  BY <1>2 DEF Linked, TypeOK, Sound, Tidy, Applying
<1>4. TypeOK'
  <2>1. plan' \in [Process -> SUBSET Action]
    BY <1>1, <1>2 DEF Linked, TypeOK
  <2>2. pc' \in [Process -> Applying \cup {"idle", "bind", "waiting", "begin"}]
    BY <1>2 DEF Linked, TypeOK
  <2>3. QED
    BY <1>2, <1>3, <2>1, <2>2 DEF Linked, TypeOK, Bind
<1>5. NamesKeepTheirBytes' /\ OneEngine'
  BY <1>2 DEF Linked, TypeOK, NamesKeepTheirBytes, OneEngine, Bind, Applying
<1>6. Sound(p)'
  <2>1. \A a \in new : a.name \in Name
    BY <1>1 DEF Action
  <2>2. QED
    BY <1>1, <1>3, <2>1 DEF Sound, WellPlanned, Tidy, Checked, Aliased, OneAction, AtSomething,
                            Applying, Bind
<1>7. \A q \in Process \ {p} : Sound(q)'
  BY <1>2, OthersStaySound DEF Linked, TypeOK, Bind
<1>8. QED
  BY <1>4, <1>5, <1>6, <1>7 DEF Linked

LEMMA AcquireLeaseKeepsLinked ==
  ASSUME DedupAssumption, Linked, NEW p \in Process, AcquireLease(p)
  PROVE  Linked'
<1>1. TypeOK'
  BY DEF Linked, TypeOK, AcquireLease, Go
<1>2. NamesKeepTheirBytes'
  BY DEF Linked, NamesKeepTheirBytes, AcquireLease
<1>3. OneEngine'
  BY DEF DedupAssumption, Linked, TypeOK, OneEngine, AcquireLease, Go, Applying
<1>4. Sound(p)'
  <2>1. pc[p] = "waiting" /\ pc'[p] = "begin" /\ Sound(p)
    BY DEF Linked, TypeOK, AcquireLease, Go
  <2>2. QED
    BY <2>1 DEF Sound, WellPlanned, Tidy, Checked, Aliased, OneAction, AtSomething,
                Applying, AcquireLease
<1>5. \A q \in Process \ {p} : Sound(q)'
  BY OthersStaySound DEF Linked, TypeOK, AcquireLease, Go
<1>6. QED
  BY <1>1, <1>2, <1>3, <1>4, <1>5 DEF Linked

LEMMA BeginKeepsLinked ==
  ASSUME DedupAssumption, Linked, NEW p \in Process, Begin(p)
  PROVE  Linked'
<1>1. CASE Leave(p)
  <2>1. abandoned' \subseteq Inode
    BY DEF Begin, Linked, TypeOK
  <2>2. QED
    BY <1>1, <2>1, LeaveKeepsLinked DEF Begin
<1>2. CASE ~Leave(p)
  <2>1. /\ pc[p] = "begin" /\ todo' = [todo EXCEPT ![p] = plan[p]]
        /\ pc' = [pc EXCEPT ![p] = "apply"]
        /\ UNCHANGED <<lease, plan, current, staged, outcome, late,
                       file, value, outside, abandoned, written>>
    BY <1>2 DEF Begin, Go
  <2>2. current[p] = {}
    BY <2>1 DEF Linked, Sound, Tidy
  <2>3. TypeOK'
    BY <2>1, <2>2 DEF Linked, TypeOK, Applying
  <2>4. NamesKeepTheirBytes' /\ OneEngine'
    BY <2>1 DEF Linked, TypeOK, NamesKeepTheirBytes, OneEngine, Applying
  <2>5. Sound(p)'
    <3>1. Sound(p) /\ pc'[p] = "apply"
      BY <2>1 DEF Linked, TypeOK
    <3>2. QED
      BY <2>1, <3>1 DEF Sound, WellPlanned, Tidy, Checked, Aliased, OneAction, AtSomething, Applying
  <2>6. \A q \in Process \ {p} : Sound(q)'
    BY <2>1, OthersStaySound DEF Linked, TypeOK
  <2>7. QED
    BY <2>3, <2>4, <2>5, <2>6 DEF Linked
<1>3. QED
  BY <1>1, <1>2

-----------------------------------------------------------------------------
(* The steps of the engine, which is the only one.                         *)

(* What a step of the engine of p must show: its own part, and that no     *)
(* other command is in an engine, so what they have does not depend on     *)
(* files at all.                                                           *)
LEMMA EngineIsAlone ==
  ASSUME DedupAssumption, Linked, NEW p \in Process, pc[p] \in Applying,
         NEW q \in Process \ {p}
  PROVE  pc[q] \notin Applying
BY DEF DedupAssumption, Linked, OneEngine

LEMMA OthersOutOfEngine ==
  ASSUME DedupAssumption, Linked, NEW p \in Process, pc[p] \in Applying,
         outside' \subseteq outside,
         \A q \in Process \ {p} :
           /\ pc'[q] = pc[q] /\ plan'[q] = plan[q] /\ todo'[q] = todo[q]
           /\ current'[q] = current[q] /\ staged'[q] = staged[q]
           /\ outcome'[q] = outcome[q] /\ late'[q] = late[q]
  PROVE  \A q \in Process \ {p} : Sound(q)'
<1> SUFFICES ASSUME NEW q \in Process \ {p} PROVE Sound(q)'
  OBVIOUS
<1>1. pc[q] \notin Applying
  BY EngineIsAlone
<1>2. QED
  BY <1>1, Undisturbed DEF Linked

LEMMA CheckKeepsLinked ==
  ASSUME DedupAssumption, Linked, NEW p \in Process, NEW a \in plan[p], Check(p, a)
  PROVE  Linked'
<1> DEFINE i == file[a.canonical]
<1>1. /\ pc[p] = "apply" /\ a \in todo[p] /\ a \in Action /\ a.name \in Name
      /\ current[p] = {} /\ staged[p] = NoInode
      /\ outcome \in [Process -> [Name -> Outcome]]
  BY DEF Check, Linked, TypeOK, Sound, Tidy, Action
<1>2. UNCHANGED <<file, value, outside, abandoned, lease, plan, staged, late, written>>
  BY DEF Check
<1>3. NamesKeepTheirBytes'
  BY <1>2 DEF Linked, NamesKeepTheirBytes
(* The action is not to be carried out, or was before. *)
<1>4. ASSUME NEW what \in Outcome, Record(p, a, what), UNCHANGED <<pc, current>>,
             what \in {"aliased", "already"} => file[a.name] = file[a.canonical]
      PROVE  Linked'
  <2>1. /\ outcome' = [outcome EXCEPT ![p] = [outcome[p] EXCEPT ![a.name] = what]]
        /\ todo' = [todo EXCEPT ![p] = todo[p] \ {a}]
    BY <1>4 DEF Record
  <2>2. TypeOK'
    <3>1. outcome' \in [Process -> [Name -> Outcome]]
      BY <1>1, <1>4, <2>1
    <3>2. todo' \in [Process -> SUBSET Action]
          /\ \A q \in Process : todo'[q] \subseteq plan[q] /\ current[q] \subseteq todo'[q]
      BY <1>1, <2>1 DEF Linked, TypeOK
    <3>3. QED
      BY <1>2, <1>4, <3>1, <3>2 DEF Linked, TypeOK
  <2>3. OneEngine'
    BY <1>2, <1>4 DEF Linked, OneEngine
  <2>4. Sound(p)'
    <3>1. WellPlanned(p)' /\ Tidy(p)' /\ Checked(p)' /\ OneAction(p)' /\ AtSomething(p)'
      BY <1>1, <1>2, <1>4
      DEF Linked, Sound, WellPlanned, Tidy, Checked, OneAction, AtSomething, Applying
    <3>2. Aliased(p)'
      <4>1. ASSUME NEW b \in plan[p], outcome'[p][b.name] \in {"aliased", "already"}
            PROVE  file[b.name] = file[b.canonical]
        <5>1. CASE b.name = a.name
          BY <1>1, <1>4, <2>1, <4>1, <5>1 DEF Linked, Sound, WellPlanned
        <5>2. CASE b.name # a.name
          BY <1>1, <2>1, <4>1, <5>2 DEF Linked, Sound, Aliased
        <5>3. QED
          BY <5>1, <5>2
      <4>2. QED
        BY <1>2, <4>1 DEF Aliased
    <3>3. QED
      BY <3>1, <3>2 DEF Sound
  <2>5. \A q \in Process \ {p} : Sound(q)'
    BY <1>1, <1>2, <1>4, <2>1, OthersOutOfEngine DEF Linked, TypeOK, Applying
  <2>6. QED
    BY <1>3, <2>2, <2>3, <2>4, <2>5 DEF Linked
<1>5. CASE file[a.name] = i /\ Record(p, a, "already") /\ UNCHANGED <<pc, current>>
  BY <1>4, <1>5 DEF Outcome
<1>6. CASE Record(p, a, "links") /\ UNCHANGED <<pc, current>>
  BY <1>4, <1>6 DEF Outcome
<1>7. CASE Record(p, a, "changed") /\ UNCHANGED <<pc, current>>
  BY <1>4, <1>7 DEF Outcome
<1>8. CASE /\ Links(i) <= KnownLinks(p, a)
           /\ value[i] = a.value /\ value[file[a.name]] = a.value
           /\ current' = [current EXCEPT ![p] = {a}]
           /\ Go(p, "link") /\ UNCHANGED <<todo, outcome>>
  <2>1. i \notin outside
    BY <1>8, NoOtherLinks DEF Linked, Sound
  <2>2. pc' = [pc EXCEPT ![p] = "link"] /\ current' = [current EXCEPT ![p] = {a}]
    BY <1>8 DEF Go
  <2>3. TypeOK'
    BY <1>1, <1>2, <1>8, <2>2 DEF Linked, TypeOK, Applying
  <2>4. OneEngine'
    BY <1>1, <1>2, <2>2 DEF Linked, TypeOK, OneEngine, Applying
  <2>5. Sound(p)'
    <3>1. pc'[p] = "link" /\ current'[p] = {a} /\ Sound(p)
      BY <2>2 DEF Linked, TypeOK
    <3>2. QED
      BY <1>1, <1>2, <1>8, <2>1, <3>1
      DEF Sound, WellPlanned, Tidy, Checked, Aliased, OneAction, AtSomething, Applying
  <2>6. \A q \in Process \ {p} : Sound(q)'
    BY <1>1, <1>2, <1>8, <2>2, OthersOutOfEngine DEF Linked, TypeOK, Applying
  <2>7. QED
    BY <1>3, <2>3, <2>4, <2>5, <2>6 DEF Linked
<1>9. QED
  BY <1>5, <1>6, <1>7, <1>8 DEF Check

LEMMA LinkKeepsLinked ==
  ASSUME DedupAssumption, Linked, NEW p \in Process, NEW a \in plan[p], Link(p, a)
  PROVE  Linked'
<1>1. /\ pc[p] = "link" /\ a \in current[p] /\ file[a.canonical] \in Inode
      /\ pc' = [pc EXCEPT ![p] = "replace"]
      /\ staged' = [staged EXCEPT ![p] = file[a.canonical]]
      /\ UNCHANGED <<file, value, outside, abandoned, lease, plan, todo, current,
                     outcome, late, written>>
  BY DEF Link, Go, Linked, TypeOK, Action
<1>2. TypeOK'
  BY <1>1 DEF Linked, TypeOK, Applying
<1>3. NamesKeepTheirBytes' /\ OneEngine'
  BY <1>1 DEF Linked, TypeOK, NamesKeepTheirBytes, OneEngine, Applying
<1>4. Sound(p)'
  <2>1. pc'[p] = "replace" /\ staged'[p] = file[a.canonical] /\ Sound(p)
    BY <1>1 DEF Linked, TypeOK
  <2>2. \A b \in current[p] : b = a
    BY <1>1 DEF Linked, Sound, OneAction
  <2>3. QED
    BY <1>1, <2>1, <2>2
    DEF Sound, WellPlanned, Tidy, Checked, Aliased, OneAction, AtSomething, Applying
<1>5. \A q \in Process \ {p} : Sound(q)'
  BY <1>1, OthersOutOfEngine DEF Linked, TypeOK, Applying
<1>6. QED
  BY <1>2, <1>3, <1>4, <1>5 DEF Linked

(* The name that is replaced reads the same bytes from the canonical inode, *)
(* and is no canonical source itself.                                      *)
LEMMA ReplaceKeepsLinked ==
  ASSUME DedupAssumption, Linked, NEW p \in Process, NEW a \in plan[p], Replace(p, a)
  PROVE  Linked'
<1>1. /\ pc[p] = "replace" /\ a \in current[p] /\ a.name \in Name /\ a.canonical \in Name
      /\ a \in Action
      /\ staged[p] = file[a.canonical] /\ staged[p] \in Inode
      /\ value[staged[p]] = a.value /\ value[file[a.name]] = a.value
  BY DEF Replace, Linked, TypeOK, Sound, Checked, Action
<1>2. /\ file' = [file EXCEPT ![a.name] = staged[p]]
      /\ staged' = [staged EXCEPT ![p] = NoInode]
      /\ outcome' = [outcome EXCEPT ![p] = [outcome[p] EXCEPT ![a.name] = "aliased"]]
      /\ todo' = [todo EXCEPT ![p] = todo[p] \ {a}]
      /\ current' = [current EXCEPT ![p] = {}]
      /\ late' = [late EXCEPT ![p] = {}]
      /\ pc' = [pc EXCEPT ![p] = "apply"]
      /\ UNCHANGED <<value, outside, abandoned, lease, plan, written>>
  BY DEF Replace, Record, Go, Linked, TypeOK
<1>3. TypeOK'
  <2>1. outcome' \in [Process -> [Name -> Outcome]]
    BY <1>1, <1>2 DEF Linked, TypeOK, Outcome
  <2>2. \A q \in Process : todo'[q] \subseteq plan'[q] /\ current'[q] \subseteq todo'[q]
    BY <1>2 DEF Linked, TypeOK
  <2>3. /\ file' \in [Name -> Inode] /\ staged' \in [Process -> Inode \cup {NoInode}]
        /\ todo' \in [Process -> SUBSET Action] /\ current' \in [Process -> SUBSET Action]
        /\ late' \in [Process -> SUBSET Inode]
        /\ pc' \in [Process -> Applying \cup {"idle", "bind", "waiting", "begin"}]
    BY <1>1, <1>2 DEF Linked, TypeOK, Applying
  <2>4. QED
    BY <1>2, <2>1, <2>2, <2>3 DEF Linked, TypeOK
<1>4. NamesKeepTheirBytes'
  BY <1>1, <1>2 DEF Linked, TypeOK, NamesKeepTheirBytes
<1>5. OneEngine'
  BY <1>1, <1>2 DEF Linked, TypeOK, OneEngine, Applying
<1>6. Sound(p)'
  <2>1. /\ pc'[p] = "apply" /\ staged'[p] = NoInode /\ current'[p] = {} /\ Sound(p)
        /\ outcome'[p] = [outcome[p] EXCEPT ![a.name] = "aliased"]
    BY <1>2 DEF Linked, TypeOK
  <2>2. WellPlanned(p)' /\ Tidy(p)' /\ Checked(p)' /\ OneAction(p)' /\ AtSomething(p)'
    BY <1>2, <2>1 DEF Sound, WellPlanned, Tidy, Checked, OneAction, AtSomething, Applying
  <2>3. ASSUME NEW b \in plan[p], outcome'[p][b.name] \in {"aliased", "already"}
        PROVE  file'[b.name] = file'[b.canonical]
    <3>1. /\ b.name \in Name /\ b.canonical \in Name
          /\ outcome[p] \in [Name -> Outcome] /\ file \in [Name -> Inode]
      BY DEF Linked, TypeOK, Action
    <3>2. file'[b.canonical] = file[b.canonical]
      BY <1>2, <2>1, <3>1 DEF Sound, WellPlanned
    <3>3. CASE b.name = a.name
      <4>1. b = a
        BY <2>1, <3>3 DEF Sound, WellPlanned
      <4>2. QED
        BY <1>1, <1>2, <3>1, <3>2, <4>1
    <3>4. CASE b.name # a.name
      BY <1>2, <2>1, <2>3, <3>1, <3>2, <3>4 DEF Sound, Aliased
    <3>5. QED
      BY <3>3, <3>4
  <2>4. Aliased(p)'
    BY <1>2, <2>3 DEF Aliased
  <2>5. QED
    BY <2>2, <2>4 DEF Sound
<1>7. ASSUME NEW q \in Process \ {p} PROVE Sound(q)'
  <2>1. pc[q] \notin Applying
    BY <1>1, EngineIsAlone DEF Applying
  <2>2. QED
    BY <1>2, <2>1, Undisturbed DEF Linked, TypeOK
<1>8. QED
  BY <1>3, <1>4, <1>5, <1>6, <1>7 DEF Linked

LEMMA InterruptKeepsLinked ==
  ASSUME DedupAssumption, Linked, NEW p \in Process, Interrupt(p)
  PROVE  Linked'
<1>1. /\ pc[p] \in Applying /\ pc' = [pc EXCEPT ![p] = "apply"]
      /\ staged' = [staged EXCEPT ![p] = NoInode]
      /\ todo' = [todo EXCEPT ![p] = {}] /\ current' = [current EXCEPT ![p] = {}]
      /\ late' = [late EXCEPT ![p] = {}]
      /\ UNCHANGED <<file, value, outside, abandoned, lease, plan, outcome, written>>
  BY DEF Interrupt, Go
<1>2. TypeOK'
  BY <1>1 DEF Linked, TypeOK, Applying
<1>3. NamesKeepTheirBytes' /\ OneEngine'
  BY <1>1 DEF Linked, TypeOK, NamesKeepTheirBytes, OneEngine, Applying
<1>4. Sound(p)'
  <2>1. pc'[p] = "apply" /\ staged'[p] = NoInode /\ current'[p] = {} /\ Sound(p)
    BY <1>1 DEF Linked, TypeOK
  <2>2. QED
    BY <1>1, <2>1
    DEF Sound, WellPlanned, Tidy, Checked, Aliased, OneAction, AtSomething, Applying
<1>5. \A q \in Process \ {p} : Sound(q)'
  BY <1>1, OthersOutOfEngine DEF Linked, TypeOK
<1>6. QED
  BY <1>2, <1>3, <1>4, <1>5 DEF Linked

-----------------------------------------------------------------------------
(* What happens around the engine.                                         *)

(* An owner writes a new file on an inode without links, so no other name  *)
(* and nothing that is staged changes, and no run that an engine has leased *)
(* is written.                                                             *)
LEMMA OwnerWriteKeepsLinked ==
  ASSUME DedupAssumption, Linked, NEW n \in Name, NEW v \in Value, OwnerWrite(n, v)
  PROVE  Linked'
<1>1. PICK i \in Inode : /\ Links(i) = 0
                         /\ file' = [file EXCEPT ![n] = i] /\ value' = [value EXCEPT ![i] = v]
  BY DEF OwnerWrite
<1>2. ~Fenced(n) /\ written' = [written EXCEPT ![n] = v]
      /\ UNCHANGED <<outside, abandoned, lease, pc, plan, todo, current, staged, outcome, late>>
  BY DEF OwnerWrite, command
<1>3. \A m \in Name : file[m] # i
  BY <1>1, Unlinked
<1>4. TypeOK'
  BY <1>1, <1>2 DEF Linked, TypeOK
<1>5. NamesKeepTheirBytes'
  <2>1. /\ file \in [Name -> Inode] /\ value \in [Inode -> Value] /\ written \in [Name -> Value]
        /\ \A m \in Name : value[file[m]] = written[m]
    BY DEF Linked, TypeOK, NamesKeepTheirBytes
  <2>2. ASSUME NEW m \in Name PROVE value'[file'[m]] = written'[m]
    <3>1. CASE m = n
      BY <1>1, <1>2, <2>1, <3>1
    <3>2. CASE m # n
      BY <1>1, <1>2, <1>3, <2>1, <3>2
    <3>3. QED
      BY <3>1, <3>2
  <2>3. QED
    BY <2>2 DEF NamesKeepTheirBytes
<1>6. OneEngine'
  BY <1>2 DEF Linked, OneEngine
<1>7. ASSUME NEW q \in Process PROVE Sound(q)'
  <2>1. ASSUME pc[q] \in Applying, NEW a \in plan[q], NEW m \in {a.name, a.canonical}
        PROVE  file'[m] = file[m] /\ value'[file[m]] = value[file[m]]
    <3>1. m \in Name /\ file[m] \in Inode
      BY DEF Linked, TypeOK, Action
    <3>2. m # n
      BY <1>2, <2>1 DEF Fenced
    <3>3. QED
      BY <1>1, <1>3, <3>1, <3>2 DEF Linked, TypeOK
  <2>2. QED
    BY <1>2, <2>1, Undisturbed DEF Linked
<1>8. QED
  BY <1>4, <1>5, <1>6, <1>7 DEF Linked

(* A link that somebody takes between the checks and the replacement is late. *)
LEMMA LinkOutsideKeepsLinked ==
  ASSUME DedupAssumption, Linked, NEW n \in Name, LinkOutside(n)
  PROVE  Linked'
<1>1. /\ outside = {} /\ outside' = {file[n]} /\ file[n] \in Inode
      /\ late' = [p \in Process |-> IF pc[p] \in {"link", "replace"} THEN late[p] \cup {file[n]}
                                    ELSE late[p]]
      /\ UNCHANGED <<file, value, abandoned, lease, pc, plan, todo, current, staged,
                     outcome, written>>
  BY DEF LinkOutside, command, Linked, TypeOK
<1>2. TypeOK'
  BY <1>1 DEF Linked, TypeOK
<1>3. NamesKeepTheirBytes' /\ OneEngine'
  BY <1>1 DEF Linked, NamesKeepTheirBytes, OneEngine
<1>4. ASSUME NEW q \in Process PROVE Sound(q)'
  BY <1>1 DEF Linked, Sound, WellPlanned, Tidy, Checked, Aliased, OneAction, AtSomething
<1>5. QED
  BY <1>2, <1>3, <1>4 DEF Linked

(* Other links go, and the staging of the dead is swept. *)
LEMMA LetGoKeepsLinked ==
  ASSUME DedupAssumption, Linked, outside' \subseteq outside, abandoned' \subseteq abandoned,
         UNCHANGED <<file, value, command, late, written>>
  PROVE  Linked'
<1>1. TypeOK' /\ NamesKeepTheirBytes' /\ OneEngine'
  BY DEF Linked, TypeOK, NamesKeepTheirBytes, OneEngine, command
<1>2. \A q \in Process : Sound(q)'
  BY Undisturbed DEF Linked, command
<1>3. QED
  BY <1>1, <1>2 DEF Linked

LEMMA NextKeepsLinked ==
  ASSUME DedupAssumption, Linked, [Next]_vars
  PROVE  Linked'
<1>1. ASSUME NEW p \in Process, PlanGroups(p) \/ Bind(p) \/ AcquireLease(p) \/ Begin(p)
      PROVE  Linked'
  BY <1>1, PlanGroupsKeepsLinked, BindKeepsLinked, AcquireLeaseKeepsLinked, BeginKeepsLinked
<1>2. ASSUME NEW p \in Process, NEW a \in plan[p], Check(p, a) \/ Link(p, a) \/ Replace(p, a)
      PROVE  Linked'
  BY <1>2, CheckKeepsLinked, LinkKeepsLinked, ReplaceKeepsLinked
<1>3. ASSUME NEW p \in Process, Interrupt(p) PROVE Linked'
  BY <1>3, InterruptKeepsLinked
<1>4. ASSUME NEW p \in Process, Report(p) \/ Crash(p) PROVE Linked'
  <2>1. abandoned' \subseteq Inode
    BY <1>4 DEF Linked, TypeOK, Report, Crash
  <2>2. QED
    BY <1>4, <2>1, LeaveKeepsLinked DEF Report, Crash
<1>5. ASSUME NEW n \in Name, NEW v \in Value, OwnerWrite(n, v) PROVE Linked'
  BY <1>5, OwnerWriteKeepsLinked
<1>6. ASSUME NEW n \in Name, LinkOutside(n) PROVE Linked'
  BY <1>6, LinkOutsideKeepsLinked
<1>7. ASSUME NEW i \in Inode, UnlinkOutside(i) PROVE Linked'
  BY <1>7, LetGoKeepsLinked DEF UnlinkOutside
<1>8. ASSUME Sweep PROVE Linked'
  BY <1>8, LetGoKeepsLinked DEF Sweep
<1>9. ASSUME UNCHANGED vars PROVE Linked'
  BY <1>9, LetGoKeepsLinked DEF vars
<1>10. QED
  BY <1>1, <1>2, <1>3, <1>4, <1>5, <1>6, <1>7, <1>8, <1>9 DEF Next

LEMMA LinkedRun == DedupAssumption /\ Spec => []Linked
<1> SUFFICES ASSUME DedupAssumption PROVE Spec => []Linked
  BY DEF DedupAssumption
<1>1. Init => Linked
  BY InitIsLinked
<1>2. Linked /\ [Next]_vars => Linked'
  BY NextKeepsLinked
<1>3. QED
  BY <1>1, <1>2, PTL DEF Spec

(* Whatever is made one inode with what, by whom and whatever fails, every *)
(* name reads what its owner wrote last, and a name recorded as aliased is *)
(* aliased (plan_dedup_groups, dedup_engine).                              *)
THEOREM AliasesAreSafe == DedupAssumption /\ Spec => []DedupIsSafe
<1>1. Linked => DedupIsSafe
  BY DEF Linked, DedupIsSafe, OutcomeIsOnDisk, Sound, Aliased
<1>2. QED
  BY <1>1, LinkedRun, PTL

(* No name is put on an inode that somebody else links, but for a link that *)
(* was taken after the checks of that very action (_choose_canonical,      *)
(* dedup_engine).                                                          *)
THEOREM AliasesAreClosed == DedupAssumption /\ Spec => ClosedInodesOnly
<1>1. ASSUME Linked, NEW p \in Process, pc[p] = "replace"
      PROVE  {staged[p]} \cap outside \subseteq late[p]
  <2>1. PICK a \in current[p] : TRUE
    BY <1>1 DEF Linked, Sound, AtSomething
  <2>2. staged[p] = file[a.canonical]
        /\ (file[a.canonical] \in outside => file[a.canonical] \in late[p])
    BY <1>1, <2>1 DEF Linked, Sound, Checked
  <2>3. QED
    BY <2>2
<1>2. Linked => [\A p \in Process : pc[p] = "replace" /\ pc'[p] = "apply" /\ file' # file
                   => {staged[p]} \cap outside \subseteq late[p]]_vars
  BY <1>1
<1>3. QED
  BY <1>2, LinkedRun, PTL DEF ClosedInodesOnly

=============================================================================
