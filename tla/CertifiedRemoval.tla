-------------------------- MODULE CertifiedRemoval --------------------------
(***************************************************************************)
(* The removal of one destructive unit: a directory that a plan bound is   *)
(* opened and emptied through descriptors, entry by entry, against what    *)
(* its owner certified, while others change the same names.                *)
(* A comparison and the system call that follows it are one step: "POSIX   *)
(* offers no compare-and-remove".                                          *)
(***************************************************************************)
EXTENDS Naturals, Sequences, FiniteSets

CONSTANTS
  Meddlings, \* bound: how many changes the others make
  None       \* no such entry

(* The unit "top" is the entry "u" of its parent; its certified contents   *)
(* are the file "a" and the directory "d" with the file "x".               *)
Dir == {"parent", "top", "sub", "alien"}
File == {"f", "g"}
Object == Dir \cup File \cup {"link"}
Names == <<"a", "d", "u", "x", "z">>
Name == {"a", "d", "u", "x", "z"}
Kind(o) == IF o \in Dir THEN "directory" ELSE IF o \in File THEN "file" ELSE "symlink"
Size(o) == IF o = "f" THEN 1 ELSE 2
Certified == {<<<<"a">>, "file">>, <<<<"d">>, "directory">>, <<<<"d", "x">>, "file">>}

(* What marks an absence is no entry. *)
NoneIsApart == None \notin Object /\ Meddlings \in Nat

VARIABLES
  tree,      \* the entries of each directory
  touched,   \* "top" was written to since the plan: its identity differs
  meddled,   \* how many changes the others made
  pc,        \* where the removal is
  frames,    \* the directories being emptied, the innermost last
  seen,      \* the ledger: files credited
  mutated,   \* the ledger: something was removed
  bytes,     \* the ledger: bytes removed
  outcome,   \* what the caller is told
  taken      \* history: the entries this removal took

ledger == <<seen, mutated, bytes>>
vars == <<tree, touched, meddled, pc, frames, ledger, outcome, taken>>

-----------------------------------------------------------------------------
Top == frames[Len(frames)]
Below == SubSeq(frames, 1, Len(frames) - 1)
Named == Head(Top.todo)
Found == tree[Top.dir][Named]
Relative == IF Len(frames) = 1 THEN <<Named>> ELSE <<"d", Named>>
Entries(d) == SelectSeq(Names, LAMBDA n : tree[d][n] # None)

Frame(d) == [dir |-> d, todo |-> Entries(d)]
Advance == Append(Below, [Top EXCEPT !.todo = Tail(@)])

(* The entry goes; history keeps the path it was reached by.                *)
Take(d, n, path) ==
  /\ tree' = [tree EXCEPT ![d][n] = None]
  /\ taken' = taken \cup {[path |-> path, object |-> tree[d][n]]}
  /\ touched' = (touched \/ d = "top")

End(said) ==
  /\ pc' = "ended" /\ frames' = <<>> /\ outcome' = said

Said(what) == [what |-> what, bytes |-> bytes]

(* MutationLedger.failure: the error carries what was removed, if anything. *)
Raise ==
  /\ End(Said(IF mutated THEN "partial_raised" ELSE "raised"))
  /\ UNCHANGED <<tree, touched, ledger, taken>>

(* MutationLedger.stop, behind the same durability step as a removal. *)
Stop ==
  /\ IF mutated
     THEN pc' = "persist_stop" /\ frames' = <<>> /\ UNCHANGED outcome
     ELSE End(Said("refused"))
  /\ UNCHANGED <<tree, touched, ledger, taken>>

-----------------------------------------------------------------------------
SameUnit == tree["parent"]["u"] = "top" /\ ~touched

(* The entry is compared with the plan, then the opened directory is.       *)
Observe ==
  /\ pc = "observe"
  /\ IF tree["parent"]["u"] = None THEN End(Said("absent"))
     ELSE IF SameUnit THEN pc' = "open" /\ UNCHANGED <<frames, outcome>>
     ELSE End(Said("refused"))
  /\ UNCHANGED <<tree, touched, meddled, ledger, taken>>

Open ==
  /\ pc = "open"
  /\ IF tree["parent"]["u"] = None THEN End(Said("absent"))
     ELSE IF SameUnit THEN pc' = "walk" /\ frames' = <<Frame("top")>> /\ UNCHANGED outcome
     ELSE End(Said("refused"))
  /\ UNCHANGED <<tree, touched, meddled, ledger, taken>>

Visiting == pc = "walk" /\ Top.todo # <<>>

(* An entry that is gone or that the owner did not certify stops the walk.  *)
Contradiction ==
  /\ Visiting /\ (Found = None \/ <<Relative, Kind(Found)>> \notin Certified)
  /\ Stop /\ UNCHANGED meddled

Credit(o) ==
  /\ mutated' = TRUE /\ seen' = seen \cup {o}
  /\ bytes' = IF o \in seen THEN bytes ELSE bytes + Size(o)

UnlinkFile ==
  /\ Visiting /\ Found \in File /\ <<Relative, "file">> \in Certified
  /\ \/ /\ Take(Top.dir, Named, Relative) /\ Credit(Found)
        /\ frames' = Advance /\ UNCHANGED <<pc, outcome>>
     \/ Raise
  /\ UNCHANGED meddled

ClassifyDirectory ==
  /\ Visiting /\ Found \in Dir /\ <<Relative, "directory">> \in Certified
  /\ pc' = "enter"
  /\ UNCHANGED <<tree, touched, meddled, frames, ledger, outcome, taken>>

(* The no-follow open: nothing there is passed over, a non-directory stops. *)
Enter ==
  /\ pc = "enter"
  /\ \/ /\ Found = None /\ frames' = Advance /\ pc' = "walk"
        /\ UNCHANGED <<tree, touched, ledger, outcome, taken>>
     \/ /\ Found \in Dir
        /\ frames' = Append(frames, Frame(Found)) /\ pc' = "walk"
        /\ UNCHANGED <<tree, touched, ledger, outcome, taken>>
     \/ Found \in Object \ Dir /\ Stop
  /\ UNCHANGED meddled

(* The directory is emptied; its removals are made durable, or it raises.   *)
Emptied ==
  /\ pc = "walk" /\ Top.todo = <<>>
  /\ \/ pc' = "finalize" /\ UNCHANGED <<tree, touched, frames, ledger, outcome, taken>>
     \/ Raise
  /\ UNCHANGED meddled

ParentDir == IF Len(frames) = 1 THEN "parent" ELSE frames[Len(frames) - 1].dir
OwnName == IF Len(frames) = 1 THEN "u" ELSE Head(frames[Len(frames) - 1].todo)
Empty(d) == \A n \in Name : tree[d][n] = None

(* Mutant of StillNamed: the name is removed, whoever answers to it. *)
AnyDirectory == tree[ParentDir][OwnName] \in Dir /\ Empty(tree[ParentDir][OwnName])

(* The descriptor is compared with the entry one last time; rmdir refuses  *)
(* what is not empty.                                                      *)
StillNamed == tree[ParentDir][OwnName] = Top.dir /\ Empty(Top.dir)

(* Mutant of Finalize: a directory that could not be removed is passed over. *)
FinalizeAnyway ==
  /\ pc = "finalize"
  /\ IF StillNamed THEN Take(ParentDir, OwnName, <<OwnName>>) /\ mutated' = TRUE
     ELSE UNCHANGED <<tree, touched, taken, mutated>>
  /\ IF Len(frames) = 1 THEN pc' = "persist" /\ frames' = <<>>
     ELSE pc' = "walk" /\ frames' = Append(SubSeq(frames, 1, Len(frames) - 2),
                          [frames[Len(frames) - 1] EXCEPT !.todo = Tail(@)])
  /\ UNCHANGED <<meddled, seen, bytes, outcome>>

Finalize ==
  /\ pc = "finalize"
  /\ \/ /\ StillNamed /\ Take(ParentDir, OwnName, <<OwnName>>)
        /\ mutated' = TRUE /\ UNCHANGED <<seen, bytes, outcome>>
        /\ IF Len(frames) = 1 THEN pc' = "persist" /\ frames' = <<>>
           ELSE pc' = "walk" /\ frames' = Append(SubSeq(frames, 1, Len(frames) - 2),
                                [frames[Len(frames) - 1] EXCEPT !.todo = Tail(@)])
     \/ Stop
  /\ UNCHANGED meddled

(* The removal of the unit, or of a part of it, is made durable.            *)
Persist ==
  /\ pc \in {"persist", "persist_stop"}
  /\ \/ End(Said(IF pc = "persist" THEN "removed" ELSE "partial"))
        /\ UNCHANGED <<tree, touched, ledger, taken>>
     \/ Raise
  /\ UNCHANGED meddled

(* Somebody else adds, replaces or removes an entry of the unit.            *)
Slots(d) ==
  CASE d = "parent" -> {"u"} [] d = "top" -> {"a", "d", "z"} [] OTHER -> {"x", "z"}

Meddle ==
  /\ meddled < Meddlings /\ meddled' = meddled + 1 /\ pc # "ended"
  /\ \E d \in Dir : \E n \in Slots(d), o \in {None, "g", "link", "alien"} :
       /\ o # tree[d][n] /\ (o = "alien" => d \notin {"sub", "alien"})
       /\ tree' = [tree EXCEPT ![d][n] = o]
       /\ touched' = (touched \/ d = "top")
  /\ UNCHANGED <<pc, frames, ledger, outcome, taken>>

EmptyDirectory == [n \in Name |-> None]

(* "x" is a second link to the file "a", or another file.                   *)
Init ==
  /\ \E o \in File : tree =
       [d \in Dir |-> CASE d = "parent" -> [EmptyDirectory EXCEPT !["u"] = "top"]
                        [] d = "top" -> [EmptyDirectory EXCEPT !["a"] = "f", !["d"] = "sub"]
                        [] d = "sub" -> [EmptyDirectory EXCEPT !["x"] = o]
                        [] OTHER -> [EmptyDirectory EXCEPT !["x"] = "g"]]
  /\ touched = FALSE /\ meddled = 0 /\ pc = "observe" /\ frames = <<>>
  /\ seen = {} /\ mutated = FALSE /\ bytes = 0
  /\ outcome = [what |-> "none", bytes |-> 0] /\ taken = {}

Done == pc = "ended" /\ UNCHANGED vars

Next ==
  \/ Observe \/ Open \/ Contradiction \/ UnlinkFile \/ ClassifyDirectory \/ Enter
  \/ Emptied \/ Finalize \/ Persist \/ Meddle \/ Done

Spec == Init /\ [][Next]_vars

-----------------------------------------------------------------------------
TakenObjects == {t.object : t \in taken}
TakenFiles == TakenObjects \cap File

TypeOK ==
  /\ tree \in [Dir -> [Name -> Object \cup {None}]]
  /\ touched \in BOOLEAN /\ meddled \in 0 .. Meddlings
  /\ pc \in {"observe", "open", "walk", "enter", "finalize", "persist", "persist_stop", "ended"}
  /\ Len(frames) \in 0 .. 2 /\ \A i \in DOMAIN frames : frames[i].dir \in Dir
  /\ seen \subseteq File /\ mutated \in BOOLEAN /\ bytes \in 0 .. 3

(* The outcome tells what this removal did itself, whoever else added or   *)
(* removed entries meanwhile: "removed" when it took the unit, "absent",   *)
(* "refused" or a plain error when it took nothing, a partial change in    *)
(* every other case (MutationLedger: "unlinking a zero-byte file, removing *)
(* an emptied directory ... are mutations").                               *)
OutcomeTruthful ==
  LET took == taken # {}
      unit == "top" \in TakenObjects
  IN CASE outcome.what = "removed" -> unit
       [] outcome.what \in {"absent", "refused", "raised"} -> ~took
       [] outcome.what = "partial" -> took /\ ~unit
       [] outcome.what = "partial_raised" -> took
       [] OTHER -> TRUE

(* The bytes it reports are those of the files it took, each counted once  *)
(* however many of its links were certified.                               *)
BytesOnce ==
  outcome.what # "none" =>
    outcome.bytes = (IF "f" \in TakenFiles THEN Size("f") ELSE 0)
                    + (IF "g" \in TakenFiles THEN Size("g") ELSE 0)

(* What it takes is the unit the plan bound, or has the path and the kind  *)
(* its owner certified; and a directory that goes is the one that was      *)
(* emptied, not one that took its name in the meantime.                    *)
UncertifiedStays ==
  [][\A t \in taken' \ taken :
       /\ IF t.path = <<"u">> THEN t.object = "top" ELSE <<t.path, Kind(t.object)>> \in Certified
       /\ t.object \in Dir => t.object = Top.dir]_vars

=============================================================================
