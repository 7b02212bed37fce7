------------------------ MODULE QualificationAttempt ------------------------
(***************************************************************************)
(* The retention record of one qualification attempt: invocations that pin *)
(* what they need, write scratch and release, and storage that removes the *)
(* scratch of a released attempt through an authenticated session.         *)
(* A digest of the record is its kind and its second of writing: two       *)
(* records written within a second may be the same.                        *)
(***************************************************************************)
EXTENDS Naturals, FiniteSets

CONSTANTS
  Invocation, \* command invocations of this attempt
  Node,       \* top-level names of its scratch
  LastSecond, \* bound: the clock stops there
  Nobody,     \* the attempt lock is free
  Storage,    \* the storage command
  Nothing     \* there is no record, proof or plan

Second == 0 .. LastSecond
Released == {"aborted", "terminal"}
Stamp == [kind : {"active"} \cup Released, at : Second]
Record == [stamp : Stamp, refs : SUBSET Invocation]
Proof == [binds : Stamp, nodes : SUBSET Node]
Planned == [record : Stamp, proof : Proof, names : SUBSET Node]

(* What marks an absence is no record, and storage is no invocation. *)
MarksAreApart ==
  /\ Nobody # Storage /\ {Nobody, Storage} \cap Invocation = {}
  /\ Nothing \notin Record /\ Nothing \notin Proof
  /\ Nothing \notin Stamp /\ Nothing \notin Planned
  /\ LastSecond \in Nat

VARIABLES
  clock,    \* the second it is
  record,   \* the attempt record on disk
  proof,    \* the released-attempt proof on disk
  present,  \* the names that are in its scratch
  same,     \* those that stand for the object the plan saw
  lock,     \* the holder of the attempt lock
  pc,       \* where each invocation is
  read,     \* the record it read under the lock
  next,     \* the record it is about to write
  storage,  \* where storage is
  plan,     \* what its plan is bound to
  todo      \* the names its session has not reached

attempt == <<record, proof>>
invocations == <<pc, read, next>>
session == <<storage, plan, todo>>
scratch == <<present, same>>
vars == <<clock, attempt, scratch, lock, invocations, session>>

Now(kind) == [kind |-> kind, at |-> clock]

-----------------------------------------------------------------------------
(* acquire_attempt_reference: read, merge and write are one transaction.    *)

Lock(p) == lock = Nobody /\ lock' = p

Acquire(p) ==
  /\ pc[p] = "out" /\ Lock(p)
  /\ pc' = [pc EXCEPT ![p] = "merge"] /\ read' = [read EXCEPT ![p] = record]
  /\ UNCHANGED <<clock, attempt, scratch, next, session>>

(* Mutant of Pin: what the others pinned is dropped. *)
PinAlone(p) ==
  LET old == read[p] IN
  /\ pc[p] = "merge"
  /\ record' = IF old # Nothing /\ old.stamp.kind = "terminal" THEN record
               ELSE [stamp |-> Now("active"), refs |-> {p}]
  /\ pc' = [pc EXCEPT ![p] = "run"] /\ lock' = Nobody
  /\ read' = [read EXCEPT ![p] = Nothing]
  /\ UNCHANGED <<clock, proof, scratch, next, session>>

(* A terminal record is returned unchanged, and the invocation goes on.     *)
Pin(p) ==
  LET old == read[p] IN
  /\ pc[p] = "merge"
  /\ record' = IF old # Nothing /\ old.stamp.kind = "terminal" THEN record
               ELSE [stamp |-> Now("active"),
                     refs |-> {p} \cup (IF old = Nothing THEN {} ELSE old.refs)]
  /\ pc' = [pc EXCEPT ![p] = "run"] /\ lock' = Nobody
  /\ read' = [read EXCEPT ![p] = Nothing]
  /\ UNCHANGED <<clock, proof, scratch, next, session>>

(* A component writes its scratch, without any lock.                        *)
WriteScratch(p, n) ==
  /\ pc[p] = "run"
  /\ present' = present \cup {n} /\ same' = same \ {n}
  /\ UNCHANGED <<clock, attempt, lock, invocations, session>>

(* The verdict is not terminal: the invocation returns, the attempt stays.  *)
ReturnActive(p) ==
  /\ pc[p] = "run" /\ pc' = [pc EXCEPT ![p] = "out"]
  /\ UNCHANGED <<clock, attempt, scratch, lock, read, next, session>>

-----------------------------------------------------------------------------
(* release_attempt_reference: proof first, then the record that commits it. *)

(* A terminal record is validated and left alone; nothing is rebuilt.       *)
BeginRelease(p, kind) ==
  /\ pc[p] = "run" /\ record # Nothing
  /\ IF record.stamp.kind = "terminal"
     THEN lock = Nobody /\ pc' = [pc EXCEPT ![p] = "out"] /\ UNCHANGED <<lock, next>>
     ELSE /\ Lock(p) /\ pc' = [pc EXCEPT ![p] = "prove"]
          /\ next' = [next EXCEPT ![p] = Now(kind)]
  /\ UNCHANGED <<clock, attempt, scratch, read, session>>

(* Mutant of PublishProof: the record is written before its proof. *)
CommitFirst(p) ==
  /\ pc[p] = "prove"
  /\ record' = [stamp |-> next[p], refs |-> {}]
  /\ pc' = [pc EXCEPT ![p] = "commit"]
  /\ UNCHANGED <<clock, proof, scratch, lock, read, next, session>>

PublishProof(p) ==
  /\ pc[p] = "prove"
  /\ proof' = [binds |-> next[p], nodes |-> present]
  /\ pc' = [pc EXCEPT ![p] = "commit"]
  /\ UNCHANGED <<clock, record, scratch, lock, read, next, session>>

CommitRelease(p) ==
  /\ pc[p] = "commit"
  /\ record' = [stamp |-> next[p], refs |-> {}]
  /\ pc' = [pc EXCEPT ![p] = "out"] /\ lock' = Nobody
  /\ next' = [next EXCEPT ![p] = Nothing]
  /\ UNCHANGED <<clock, proof, scratch, read, session>>

(* The process dies or an error escapes it: its flock goes with it.         *)
Die(p) ==
  /\ pc[p] # "out" /\ pc' = [pc EXCEPT ![p] = "out"]
  /\ lock' = IF lock = p THEN Nobody ELSE lock
  /\ read' = [read EXCEPT ![p] = Nothing] /\ next' = [next EXCEPT ![p] = Nothing]
  /\ UNCHANGED <<clock, attempt, scratch, session>>

-----------------------------------------------------------------------------
(* Storage: a plan binds the release it saw and the identity of every name. *)

ProofBinds(r) == r # Nothing /\ r.stamp.kind \in Released /\ proof # Nothing /\ proof.binds = r.stamp

(* The proof is an upper bound: what is gone is gone, but one name more and *)
(* nothing of the attempt is certified.                                    *)
Certified == ProofBinds(record) /\ present \subseteq proof.nodes

PlanCleanup ==
  /\ storage = "idle" /\ Certified /\ present # {}
  /\ plan' = [record |-> record.stamp, proof |-> proof, names |-> present]
  /\ same' = present /\ storage' = "planned"
  /\ UNCHANGED <<clock, attempt, present, lock, invocations, todo>>

(* Mutant of SameRelease: the plan is taken at its word. *)
AnyRelease == TRUE

(* Nothing but the release the plan was made against authorizes it.         *)
SameRelease == Certified /\ record.stamp = plan.record /\ proof = plan.proof

(* The session authenticates on the open directory, under the attempt lock. *)
OpenSession ==
  /\ storage = "planned" /\ Lock(Storage)
  /\ todo' = IF SameRelease THEN plan.names ELSE {}
  /\ storage' = "session"
  /\ UNCHANGED <<clock, attempt, scratch, invocations, plan>>

Remove(n) ==
  /\ present' = present \ {n} /\ same' = same \ {n}
  /\ todo' = todo \ {n}

(* Another object behind the name withdraws the whole capability.           *)
RemoveMember(n) ==
  /\ storage = "session" /\ n \in todo
  /\ \/ n \notin present \ same /\ Remove(n)
     \/ n \in present \ same /\ todo' = {} /\ UNCHANGED scratch
  /\ UNCHANGED <<clock, attempt, lock, invocations, storage, plan>>

(* The command ends, is stopped, or dies. *)
EndStorage ==
  /\ storage # "idle" /\ storage' = "idle"
  /\ plan' = Nothing /\ todo' = {} /\ same' = {}
  /\ lock' = IF lock = Storage THEN Nobody ELSE lock
  /\ UNCHANGED <<clock, attempt, present, invocations>>

Tick ==
  /\ clock < LastSecond /\ clock' = clock + 1
  /\ UNCHANGED <<attempt, scratch, lock, invocations, session>>

Init ==
  /\ clock = 0 /\ record = Nothing /\ proof = Nothing
  /\ present = {} /\ same = {} /\ lock = Nobody
  /\ pc = [p \in Invocation |-> "out"]
  /\ read = [p \in Invocation |-> Nothing] /\ next = [p \in Invocation |-> Nothing]
  /\ storage = "idle" /\ plan = Nothing /\ todo = {}

Invoke(p) ==
  \/ Acquire(p) \/ Pin(p) \/ (\E n \in Node : WriteScratch(p, n)) \/ ReturnActive(p)
  \/ (\E kind \in Released : BeginRelease(p, kind))
  \/ PublishProof(p) \/ CommitRelease(p) \/ Die(p)

Clean == PlanCleanup \/ OpenSession \/ (\E n \in Node : RemoveMember(n)) \/ EndStorage

Next == (\E p \in Invocation : Invoke(p)) \/ Clean \/ Tick

Spec == Init /\ [][Next]_vars

-----------------------------------------------------------------------------
TypeOK ==
  /\ clock \in Second
  /\ record \in Record \cup {Nothing} /\ proof \in Proof \cup {Nothing}
  /\ present \subseteq Node /\ same \subseteq present
  /\ lock \in Invocation \cup {Storage, Nobody}
  /\ pc \in [Invocation -> {"out", "merge", "run", "prove", "commit"}]
  /\ read \in [Invocation -> Record \cup {Nothing}] /\ next \in [Invocation -> Stamp \cup {Nothing}]
  /\ storage \in {"idle", "planned", "session"}
  /\ plan \in Planned \cup {Nothing} /\ todo \subseteq Node

(* A terminal record is never without the proof that binds it, whoever dies *)
(* between the two writes: nothing would rebuild it, and the scratch would *)
(* be kept for ever (release_attempt_reference).                           *)
TerminalIsProven == record # Nothing /\ record.stamp.kind = "terminal" => ProofBinds(record)

(* A terminal attempt stays terminal: a late retry or an abort that was    *)
(* waiting for the lock does not reopen it ("a terminal state is           *)
(* monotonic").                                                            *)
TerminalIsFinal ==
  [][record # Nothing /\ record.stamp.kind = "terminal" => record' = record]_vars

(* Two invocations that acquire at the same time both keep their pins until *)
(* a release ("two independent workers can each read the old reference set *)
(* and silently lose the other's retention path").                         *)
PinsMerge ==
  [][record # Nothing /\ record'.stamp.kind = "active" => record.refs \subseteq record'.refs]_vars

(* At the moment storage removes a name the attempt is released, exactly as *)
(* it was when the plan was made: it was not opened again, and the name is *)
(* one its proof records.                                                  *)
RemovesReleasedOnly ==
  [][\A n \in present \ present' :
       /\ record.stamp = plan.record /\ record.stamp.kind \in Released
       /\ n \in proof.nodes /\ ProofBinds(record)]_vars

(* What was written after the plan was made is not removed, under whatever *)
(* name it was written.                                                    *)
LaterScratchStays ==
  [][present \ present' \subseteq same]_vars

=============================================================================
