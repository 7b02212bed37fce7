-------------------------- MODULE LockedActivation --------------------------
(***************************************************************************)
(* The one-shot locked test: activations that open the reserved cohort,    *)
(* nonlocked qualifications that attach what was opened, the immutable     *)
(* disclosure history and the pointers that make results current, with     *)
(* several commands at once, crashes and changes of the current binding.   *)
(* Every activation and every command here is about the same cohort.       *)
(***************************************************************************)
EXTENDS Naturals, FiniteSets

CONSTANTS
  Process,     \* qualify commands
  Binding,     \* qualification bindings that may become current
  LastSecond,  \* bound: the clock stops there
  Nobody,      \* the publication window is free
  Nothing      \* there is none

(* An activation names its binding and the second it was built in.          *)
Activation == [binding : Binding, at : 0 .. LastSecond]
Result == [binding : Binding, activation : Activation \cup {Nothing}]

Place == {"out", "look", "components", "enter", "put", "reveal", "point",
          "evaluate", "run", "record", "release"}

(* The two marks are nothing that could be meant instead, and time passes.  *)
MarksAreApart ==
  /\ Nobody \notin Process
  /\ Nothing \notin Binding \cup Activation \cup Result
  /\ LastSecond \in Nat

VARIABLES
  clock,     \* the second it is
  current,   \* the binding that is current
  objects,   \* activation objects in the store
  reveal,    \* the disclosure record of the cohort
  pointer,   \* the current activation
  evidence,  \* the activations under which the cohort was evaluated
  record,    \* the current qualification record
  release,   \* the current release index
  window,    \* who holds the barriers and the writer gate
  pc,        \* where each command is
  bind,      \* the binding of its session
  act        \* the activation it works with

store == <<objects, reveal, evidence>>
published == <<pointer, record, release>>
commands == <<pc, bind, act>>
vars == <<clock, current, store, published, window, commands>>

-----------------------------------------------------------------------------
Goto(p, where) == pc' = [pc EXCEPT ![p] = where]

(* The command ends, or raises; its locks and its session go with it.       *)
Leave(p) ==
  /\ pc' = [pc EXCEPT ![p] = "out"]
  /\ bind' = [bind EXCEPT ![p] = Nothing] /\ act' = [act EXCEPT ![p] = Nothing]
  /\ window' = IF window = p THEN Nobody ELSE window

Start(p) ==
  /\ pc[p] = "out" /\ bind' = [bind EXCEPT ![p] = current]
  /\ pc' \in {[pc EXCEPT ![p] = "look"], [pc EXCEPT ![p] = "run"]}
  /\ UNCHANGED <<clock, current, store, published, window, act>>

(* locked_cohort_already_revealed: the disclosure record and the scan for  *)
(* objects of the role have to agree, or it raises.                        *)
Consistent ==
  /\ Cardinality(objects) <= 1
  /\ reveal # Nothing => reveal \in objects
Existing == IF objects = {} THEN Nothing ELSE CHOOSE a \in objects : TRUE

Completed(a) ==
  a \in evidence /\ record # Nothing /\ release # Nothing
  /\ record.activation = a /\ release.activation = a

Look(p) ==
  /\ pc[p] = "look"
  /\ IF /\ Consistent
        /\ Existing # Nothing => Existing.binding = bind[p] /\ ~Completed(Existing)
     THEN /\ act' = [act EXCEPT ![p] = Existing] /\ Goto(p, "components")
          /\ UNCHANGED <<bind, window>>
     ELSE Leave(p)
  /\ UNCHANGED <<clock, current, store, published>>

(* The nonlocked components took their time; an activation that was not    *)
(* there is built now.                                                     *)
Prepare(p) ==
  /\ pc[p] = "components" /\ Goto(p, "enter")
  /\ act' = [act EXCEPT ![p] =
       IF @ = Nothing THEN [binding |-> bind[p], at |-> clock] ELSE @]
  /\ UNCHANGED <<clock, current, store, published, window, bind>>

(* P5 barrier, P7 barrier and writer gate; the parents and the binding of  *)
(* the session have to be current still.                                   *)
Enter(p) ==
  /\ pc[p] = "enter" /\ window = Nobody
  /\ IF current = bind[p]
     THEN window' = p /\ Goto(p, "put") /\ UNCHANGED <<bind, act>>
     ELSE Leave(p)
  /\ UNCHANGED <<clock, current, store, published>>

PutActivation(p) ==
  /\ pc[p] = "put" /\ objects' = objects \cup {act[p]} /\ Goto(p, "reveal")
  /\ UNCHANGED <<clock, current, reveal, evidence, published, window, bind, act>>

(* Mutant of Reveal: an older disclosure is replaced. *)
RevealAgain(p) ==
  /\ pc[p] = "reveal" /\ reveal' = act[p] /\ Goto(p, "point")
  /\ UNCHANGED <<clock, current, objects, evidence, published, window, bind, act>>

(* The disclosure is created or verified; another one raises.               *)
Reveal(p) ==
  /\ pc[p] = "reveal"
  /\ IF reveal \in {Nothing, act[p]}
     THEN reveal' = act[p] /\ Goto(p, "point") /\ UNCHANGED <<window, bind, act>>
     ELSE UNCHANGED reveal /\ Leave(p)
  /\ UNCHANGED <<clock, current, objects, evidence, published>>

PublishPointer(p) ==
  /\ pc[p] = "point" /\ pointer' = act[p]
  /\ window' = Nobody /\ Goto(p, "evaluate")
  /\ UNCHANGED <<clock, current, store, record, release, bind, act>>

(* The locked test runs outside the window, or its evidence is reused.      *)
Evaluate(p) ==
  /\ pc[p] = "evaluate" /\ evidence' = evidence \cup {act[p]} /\ Goto(p, "record")
  /\ UNCHANGED <<clock, current, objects, reveal, published, window, bind, act>>

-----------------------------------------------------------------------------
(* A nonlocked qualification attaches an activation of its own binding.     *)
Attach(p) ==
  /\ pc[p] = "run"
  /\ IF Consistent
     THEN /\ act' = [act EXCEPT ![p] =
               IF Existing # Nothing /\ Existing.binding = bind[p] THEN Existing ELSE Nothing]
          /\ Goto(p, "record") /\ UNCHANGED <<bind, window>>
     ELSE Leave(p)
  /\ UNCHANGED <<clock, current, store, published>>

Outcome(p) == [binding |-> bind[p], activation |-> act[p]]

(* Mutant of Publishable: what the session was admitted on counts. *)
PublishableThen(p) == window = Nobody

(* Each publication has a window of its own and compares the parents in it. *)
Publishable(p) == window = Nobody /\ current = bind[p]

PublishRecord(p) ==
  /\ pc[p] = "record"
  /\ \/ Publishable(p) /\ record' = Outcome(p) /\ Goto(p, "release") /\ UNCHANGED <<bind, act, window>>
     \/ window = Nobody /\ ~Publishable(p) /\ UNCHANGED record /\ Leave(p)
  /\ UNCHANGED <<clock, current, store, pointer, release>>

PublishRelease(p) ==
  /\ pc[p] = "release"
  /\ \/ Publishable(p) /\ release' = Outcome(p)
     \/ window = Nobody /\ ~Publishable(p) /\ UNCHANGED release
  /\ Leave(p)
  /\ UNCHANGED <<clock, current, store, pointer, record>>

(* A command dies or is stopped. *)
Die(p) ==
  /\ pc[p] # "out" /\ Leave(p)
  /\ UNCHANGED <<clock, current, store, published>>

(* A successor is published by P5, behind the same barrier (an edit of the *)
(* campaign file between the comparison and the write is left out).        *)
Succeed ==
  /\ window = Nobody /\ current' \in Binding
  /\ UNCHANGED <<clock, store, published, window, commands>>

Tick ==
  /\ clock < LastSecond /\ clock' = clock + 1
  /\ UNCHANGED <<current, store, published, window, commands>>

Init ==
  /\ clock = 0 /\ current \in Binding
  /\ objects = {} /\ reveal = Nothing /\ evidence = {}
  /\ pointer = Nothing /\ record = Nothing /\ release = Nothing
  /\ window = Nobody /\ pc = [p \in Process |-> "out"]
  /\ bind = [p \in Process |-> Nothing] /\ act = [p \in Process |-> Nothing]

Step(p) ==
  \/ Start(p) \/ Look(p) \/ Prepare(p) \/ Enter(p) \/ PutActivation(p) \/ Reveal(p)
  \/ PublishPointer(p) \/ Evaluate(p) \/ Attach(p) \/ PublishRecord(p)
  \/ PublishRelease(p) \/ Die(p)

Next == (\E p \in Process : Step(p)) \/ Succeed \/ Tick

Spec == Init /\ [][Next]_vars

-----------------------------------------------------------------------------
(* The variables have their types, and the barriers and the gate are held  *)
(* for the disclosure and nothing else ("the numerical locked evaluation   *)
(* starts only after all three locks are released").                       *)
TypeOK ==
  /\ clock \in 0 .. LastSecond /\ current \in Binding
  /\ objects \subseteq Activation /\ evidence \subseteq Activation
  /\ reveal \in Activation \cup {Nothing} /\ pointer \in Activation \cup {Nothing}
  /\ record \in Result \cup {Nothing} /\ release \in Result \cup {Nothing}
  /\ window \in Process \cup {Nobody}
  /\ pc \in [Process -> Place]
  /\ bind \in [Process -> Binding \cup {Nothing}]
  /\ act \in [Process -> Activation \cup {Nothing}]
  /\ \A p \in Process : window = p <=> pc[p] \in {"put", "reveal", "point"}

(* The reserved cohort is evaluated under one activation at most, after its *)
(* disclosure, and no other one becomes current, however many commands open *)
(* it, die and resume ("a revealed cohort is never a fresh locked test     *)
(* again").                                                                *)
EvaluatedOnce == evidence \cup ({pointer} \ {Nothing}) \subseteq {reveal}

(* A disclosure that stands is never replaced, and its activation is in the *)
(* store: without it the test could not be completed any more              *)
(* (locked_cohort_already_revealed, record_locked_reveal).                 *)
DisclosureStands ==
  [][reveal # Nothing => reveal' = reveal /\ reveal \in objects']_vars

(* What becomes current was produced under the binding that is current at  *)
(* that moment, however long the command took                              *)
(* (publish_current_qualification_pointer, _require_admitted_p5_parents).  *)
StaleNeverPublished ==
  /\ [][pointer' # pointer => pointer'.binding = current]_vars
  /\ [][record' # record => record'.binding = current]_vars
  /\ [][release' # release => release'.binding = current]_vars

(* A disclosure that stands is never replaced, its activation stays in the *)
(* store, and what becomes current was produced under the binding that is  *)
(* current at that moment (record_locked_reveal,                           *)
(* publish_current_qualification_pointer).                                 *)
LockedMovesForward == DisclosureStands /\ StaleNeverPublished

(* The store holds one activation of the cohort at most: activate_locked_  *)
(* test is "one-shot, and crash-resumable", and "a resume converges on the *)
(* single already-published activation identity"; with two of them every   *)
(* later command finds that "the one-shot history is inconsistent".        *)
OneActivation == Cardinality(objects) <= 1

=============================================================================
