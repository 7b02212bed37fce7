----------------------------- MODULE DedupLinks ------------------------------
(***************************************************************************)
(* Deduplication by hard links: a plan groups the files of equal bytes,    *)
(* chooses one inode for each group, and an engine that holds the storage  *)
(* lease and the owners' run leases replaces the other names one by one,   *)
(* each through a link in storage's own staging area.  Owners rewrite      *)
(* files, anybody else may hold links, processes die.                      *)
(***************************************************************************)
EXTENDS Naturals, FiniteSets, FiniteSetsExt

CONSTANTS
  Process,   \* storage commands
  Names,     \* how many eligible files, each in a run of its own
  Value,     \* size, bytes and metadata of a file
  Inode,     \* bound: inodes of the file system
  Faults,    \* subset of {"raise", "crash", "outsider"}
  Nobody,
  NoInode

Name == 1 .. Names
Action == [name : Name, canonical : Name, inode : Inode, value : Value]
Outcome == {"none", "aliased", "already", "links", "changed"}

(* Finitely many files and commands, and two marks that are nothing else.  *)
DedupAssumption ==
  /\ Names \in Nat /\ IsFiniteSet(Process)
  /\ Nobody \notin Process /\ NoInode \notin Inode

VARIABLES
  file,       \* the inode behind each name
  value,      \* what each inode holds
  outside,    \* the inodes with a link that no owner reports
  abandoned,  \* the inodes with a link in the staging of a command that died
  lease,      \* the holder of the storage-operation lease
  pc,         \* where each command is
  plan,       \* its actions
  todo,       \* the ones its engine has not reached
  current,    \* the action it is at
  staged,     \* the inode of its staged link
  outcome,    \* what it recorded for each name
  late,       \* history: outside links taken since the checks of that action
  written     \* history: what each owner wrote last

command == <<lease, pc, plan, todo, current, staged, outcome>>
vars == <<file, value, outside, abandoned, command, late, written>>

Links(i) ==
  Cardinality({n \in Name : file[n] = i}) + Cardinality({p \in Process : staged[p] = i})
  + (IF i \in outside THEN 1 ELSE 0) + (IF i \in abandoned THEN 1 ELSE 0)

Applying == {"apply", "link", "replace"}

-----------------------------------------------------------------------------
(* Names whose bytes and metadata are the same. *)
Group(v) == {n \in Name : value[file[n]] = v}

(* The inode of n has no link but those of the group. *)
Closed(n, group) == Links(file[n]) <= Cardinality({m \in group : file[m] = file[n]})

(* The first of the group by path whose inode has closed link ownership; the *)
(* names of every other inode are to be replaced.                          *)
GroupActions(v) ==
  LET closed == {n \in Group(v) : Closed(n, Group(v))}
  IN IF closed = {} THEN {}
     ELSE {[name |-> n, canonical |-> Min(closed), inode |-> file[n], value |-> v] :
             n \in {m \in Group(v) : file[m] # file[Min(closed)]}}

Go(p, next) == pc' = [pc EXCEPT ![p] = next]

(* Statistics and digests of the candidates are read without the lease. *)
PlanGroups(p) ==
  /\ pc[p] = "idle"
  /\ plan' = [plan EXCEPT ![p] = UNION {GroupActions(v) : v \in Value}]
  /\ plan'[p] # {}
  /\ Go(p, "bind")
  /\ UNCHANGED <<file, value, outside, abandoned, lease, todo, current, staged,
                 outcome, late, written>>

(* planned_action reads the identity of each target afterwards. *)
Bind(p) ==
  /\ pc[p] = "bind"
  /\ plan' = [plan EXCEPT ![p] = {[a EXCEPT !.inode = file[a.name]] : a \in plan[p]}]
  /\ Go(p, "waiting")
  /\ UNCHANGED <<file, value, outside, abandoned, lease, todo, current, staged,
                 outcome, late, written>>

AcquireLease(p) ==
  /\ pc[p] = "waiting" /\ lease = Nobody
  /\ lease' = p
  /\ Go(p, "begin")
  /\ UNCHANGED <<file, value, outside, abandoned, plan, todo, current, staged,
                 outcome, late, written>>

Leave(p) ==
  /\ lease' = IF lease = p THEN Nobody ELSE lease
  /\ Go(p, "idle")
  /\ plan' = [plan EXCEPT ![p] = {}] /\ todo' = [todo EXCEPT ![p] = {}]
  /\ current' = [current EXCEPT ![p] = {}]
  /\ staged' = [staged EXCEPT ![p] = NoInode]
  /\ outcome' = [outcome EXCEPT ![p] = [n \in Name |-> "none"]]
  /\ late' = [late EXCEPT ![p] = {}]

(* With the runs of every target and canonical source leased, a target that *)
(* is another inode now makes the whole plan stale.                        *)
Begin(p) ==
  /\ pc[p] = "begin"
  /\ \/ /\ \A a \in plan[p] : file[a.name] = a.inode
        /\ todo' = [todo EXCEPT ![p] = plan[p]] /\ Go(p, "apply")
        /\ UNCHANGED <<lease, plan, current, staged, outcome, late>>
     \/ /\ \E a \in plan[p] : file[a.name] # a.inode
        /\ Leave(p)
  /\ UNCHANGED <<file, value, outside, abandoned, written>>

-----------------------------------------------------------------------------
(* The engine.                                                             *)

Record(p, a, what) ==
  /\ outcome' = [outcome EXCEPT ![p][a.name] = what]
  /\ todo' = [todo EXCEPT ![p] = @ \ {a}]

(* Mutant of KnownLinks: every target of the group counts, aliased or not. *)
KnownTargets(p, a) == 1 + Cardinality({b \in plan[p] : b.canonical = a.canonical})

(* The links of the canonical inode that the engine knows of: its own name, *)
(* and the targets of this plan that share it by now.                      *)
KnownLinks(p, a) ==
  1 + Cardinality({b \in plan[p] : b.canonical = a.canonical /\ file[b.name] = file[a.canonical]})

(* An action that is done already, one whose canonical inode has links the *)
(* engine does not know of, one whose files are not what was planned, or one *)
(* to carry out.                                                           *)
Check(p, a) ==
  /\ pc[p] = "apply" /\ a \in todo[p]
  /\ LET i == file[a.canonical]
         same == value[i] = a.value /\ value[file[a.name]] = a.value
     IN
     \/ file[a.name] = i /\ Record(p, a, "already") /\ UNCHANGED <<pc, current>>
     \/ /\ file[a.name] # i /\ Links(i) > KnownLinks(p, a)
        /\ Record(p, a, "links") /\ UNCHANGED <<pc, current>>
     \/ /\ file[a.name] # i /\ Links(i) <= KnownLinks(p, a) /\ ~same
        /\ Record(p, a, "changed") /\ UNCHANGED <<pc, current>>
     \/ /\ file[a.name] # i /\ Links(i) <= KnownLinks(p, a) /\ same
        /\ current' = [current EXCEPT ![p] = {a}]
        /\ Go(p, "link") /\ UNCHANGED <<todo, outcome>>
  /\ UNCHANGED <<file, value, outside, abandoned, lease, plan, staged, late, written>>

(* os.link gives the canonical inode a name in the staging area, *)
Link(p, a) ==
  /\ pc[p] = "link" /\ a \in current[p]
  /\ staged' = [staged EXCEPT ![p] = file[a.canonical]]
  /\ Go(p, "replace")
  /\ UNCHANGED <<file, value, outside, abandoned, lease, plan, todo, current,
                 outcome, late, written>>

(* and os.replace moves that name over the target, which is recorded. *)
Replace(p, a) ==
  /\ pc[p] = "replace" /\ a \in current[p]
  /\ file' = [file EXCEPT ![a.name] = staged[p]]
  /\ staged' = [staged EXCEPT ![p] = NoInode]
  /\ Record(p, a, "aliased")
  /\ current' = [current EXCEPT ![p] = {}]
  /\ late' = [late EXCEPT ![p] = {}]
  /\ Go(p, "apply")
  /\ UNCHANGED <<value, outside, abandoned, lease, plan, written>>

(* A link, a rename or the fsync of the directory raises: the engine removes *)
(* the link it staged, and what was recorded is reported.                  *)
Interrupt(p) ==
  /\ "raise" \in Faults /\ pc[p] \in Applying
  /\ staged' = [staged EXCEPT ![p] = NoInode]
  /\ todo' = [todo EXCEPT ![p] = {}] /\ current' = [current EXCEPT ![p] = {}]
  /\ late' = [late EXCEPT ![p] = {}]
  /\ Go(p, "apply")
  /\ UNCHANGED <<file, value, outside, abandoned, lease, plan, outcome, written>>

Report(p) ==
  /\ pc[p] = "apply" /\ todo[p] = {}
  /\ Leave(p)
  /\ UNCHANGED <<file, value, outside, abandoned, written>>

(* A cleanup that has the lease retires the staging of commands that died. *)
Sweep ==
  /\ lease = Nobody /\ abandoned # {}
  /\ abandoned' = {}
  /\ UNCHANGED <<file, value, outside, command, late, written>>

-----------------------------------------------------------------------------
(* Mutant of Fenced: only the runs of the targets are leased. *)
FencedTargets(n) ==
  \E p \in Process : pc[p] \in Applying /\ \E a \in plan[p] : n = a.name

(* A command holds the run lease of every target and canonical source. *)
Fenced(n) ==
  \E p \in Process : pc[p] \in Applying /\ \E a \in plan[p] : n \in {a.name, a.canonical}

(* The owner of n publishes other bytes, or other metadata, in its place. *)
OwnerWrite(n, v) ==
  /\ ~Fenced(n) /\ v # written[n]
  /\ \E i \in {j \in Inode : Links(j) = 0} :
       file' = [file EXCEPT ![n] = i] /\ value' = [value EXCEPT ![i] = v]
  /\ written' = [written EXCEPT ![n] = v]
  /\ UNCHANGED <<outside, abandoned, command, late>>

(* Somebody links a file from elsewhere (bound: one such link at a time), or *)
(* lets go of it.                                                          *)
LinkOutside(n) ==
  /\ "outsider" \in Faults /\ outside = {}
  /\ outside' = {file[n]}
  /\ late' = [p \in Process |-> IF pc[p] \in {"link", "replace"} THEN late[p] \cup {file[n]}
                                ELSE late[p]]
  /\ UNCHANGED <<file, value, abandoned, command, written>>

UnlinkOutside(i) ==
  /\ i \in outside /\ outside' = outside \ {i}
  /\ UNCHANGED <<file, value, abandoned, command, late, written>>

(* The kernel releases the lease of a process that dies; a staged link stays. *)
Crash(p) ==
  /\ "crash" \in Faults /\ pc[p] # "idle"
  /\ abandoned' = abandoned \cup ({staged[p]} \ {NoInode})
  /\ Leave(p)
  /\ UNCHANGED <<file, value, outside, written>>

-----------------------------------------------------------------------------
Init ==
  /\ value \in [Inode -> Value]
  /\ file \in {f \in [Name -> Inode] : \A n, m \in Name : f[n] = f[m] => n = m}
  /\ written = [n \in Name |-> value[file[n]]]
  /\ outside = {} /\ abandoned = {} /\ lease = Nobody
  /\ pc = [p \in Process |-> "idle"]
  /\ plan = [p \in Process |-> {}] /\ todo = plan /\ current = plan /\ late = plan
  /\ staged = [p \in Process |-> NoInode]
  /\ outcome = [p \in Process |-> [n \in Name |-> "none"]]

Next ==
  \/ \E p \in Process :
       \/ PlanGroups(p) \/ Bind(p) \/ AcquireLease(p) \/ Begin(p)
       \/ \E a \in plan[p] : Check(p, a) \/ Link(p, a) \/ Replace(p, a)
       \/ Interrupt(p) \/ Report(p) \/ Crash(p)
  \/ Sweep
  \/ \E n \in Name, v \in Value : OwnerWrite(n, v)
  \/ \E n \in Name : LinkOutside(n)
  \/ \E i \in Inode : UnlinkOutside(i)

Spec == Init /\ [][Next]_vars

-----------------------------------------------------------------------------
(* Types of the state (dedup_engine). *)
TypeOK ==
  /\ file \in [Name -> Inode] /\ value \in [Inode -> Value] /\ written \in [Name -> Value]
  /\ outside \subseteq Inode /\ abandoned \subseteq Inode
  /\ lease \in Process \cup {Nobody}
  /\ pc \in [Process -> Applying \cup {"idle", "bind", "waiting", "begin"}]
  /\ plan \in [Process -> SUBSET Action] /\ todo \in [Process -> SUBSET Action]
  /\ current \in [Process -> SUBSET Action]
  /\ \A p \in Process : todo[p] \subseteq plan[p] /\ current[p] \subseteq todo[p]
  /\ staged \in [Process -> Inode \cup {NoInode}] /\ late \in [Process -> SUBSET Inode]
  /\ outcome \in [Process -> [Name -> Outcome]]

(* Every name reads what its owner wrote last, whatever was made one inode *)
(* with what, in whatever order owners and commands went (dedup_engine).   *)
NamesKeepTheirBytes == \A n \in Name : value[file[n]] = written[n]

(* While the command runs, a name recorded as aliased, or as already       *)
(* aliased, is the canonical inode (result.completed of dedup_engine).     *)
OutcomeIsOnDisk ==
  \A p \in Process : \A a \in plan[p] :
    outcome[p][a.name] \in {"aliased", "already"} => file[a.name] = file[a.canonical]

(* No name is put on an inode that somebody else links, but for a link that *)
(* was taken after the checks of that very action (the link counts of      *)
(* _choose_canonical and dedup_engine).                                    *)
ClosedInodesOnly ==
  [][\A p \in Process : pc[p] = "replace" /\ pc'[p] = "apply" /\ file' # file
       => {staged[p]} \cap outside \subseteq late[p]]_vars

(* Whatever is made one inode with what, every name reads what its owner   *)
(* wrote last, and a name recorded as aliased is aliased                   *)
(* (plan_dedup_groups, dedup_engine).                                      *)
DedupIsSafe == TypeOK /\ NamesKeepTheirBytes /\ OutcomeIsOnDisk

=============================================================================
