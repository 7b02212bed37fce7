------------------------- MODULE ScreenCoordinator -------------------------
(***************************************************************************)
(* The automatic target-size screen: `select-target-size --auto` trains a  *)
(* matrix of candidate sizes boundary by boundary, publishes one record    *)
(* for each cell, commits each complete matrix to an execution root of     *)
(* immutable files, and binds the committed head to the campaign, whose    *)
(* revisions are compared and set.  Commands run beside each other, beside *)
(* an operator who changes the design, and die at any point.               *)
(* A history of matrices stands for a reducer state, for the batch that    *)
(* leads to it and for the execution head that commits it: each of them    *)
(* is a digest over its predecessor and the outcomes.  One optimizer seed. *)
(***************************************************************************)
EXTENDS Naturals, Sequences, FiniteSets

CONSTANTS
  Command,   \* invocations that may run at one time
  Size,      \* the qualified candidate sizes, natural numbers
  Score,     \* what a trained candidate may score, smaller is better
  Keep,      \* how many candidates each boundary leaves
  Starts,    \* bound: how many invocations there are
  Decisions  \* bound: how many decisions the operator makes

Failed == 0  \* an authenticated numerical failure
NoOne == "no one"

ASSUME ScreenAssumption ==
  /\ Size \subseteq Nat /\ IsFiniteSet(Size) /\ Size # {}
  /\ Score \subseteq Nat \ {0}
  /\ Keep \in Seq(Nat \ {0}) /\ Keep # <<>>
  /\ NoOne \notin Command /\ Starts \in Nat /\ Decisions \in Nat

Boundary == DOMAIN Keep
Record == [at : Boundary, size : Size, score : Score \cup {Failed}]

VARIABLES
  completions, \* the completion records
  progress,    \* the progress pointers, each by the completion it names
  batches,     \* batches/
  heads,       \* heads/
  current,     \* current_head.json
  screenLock,  \* who holds .screen_commit.lock
  pairLock,    \* who holds .screen_publication.lock
  fence,       \* who holds the first-rung fence of each size
  log,         \* the campaign revisions
  pc,          \* where each command is
  held,        \* the revision each command holds
  baseline,    \* the design each command started from
  state,       \* the reducer state each command works from
  got,         \* the completions each command has of its boundary
  made,        \* the record each command is about to publish
  batch,       \* the batch each command commits
  repairing,   \* the commands that commit a batch they found
  torn,        \* history: completions whose writer died before the pointer
  starts,      \* invocations so far
  decisions    \* decisions so far

disk == <<completions, progress, batches, heads, current>>
locks == <<screenLock, pairLock, fence>>
locals == <<held, baseline, state, got, made, batch, repairing>>
bounds == <<torn, starts, decisions>>
vars == <<disk, locks, log, pc, locals, bounds>>

-----------------------------------------------------------------------------
(* The reducer. *)

Lower(a, b) == IF a < b THEN a ELSE b
Last(s) == s[Len(s)]
Before(s) == SubSeq(s, 1, Len(s) - 1)

Successful(outcomes) == {s \in DOMAIN outcomes : outcomes[s] # Failed}
Required(b, outcomes) ==
  IF b = 1 THEN Lower(Cardinality(DOMAIN outcomes), Keep[1]) ELSE 2
Better(outcomes, r, s) ==
  outcomes[r] < outcomes[s] \/ (outcomes[r] = outcomes[s] /\ r < s)

(* The candidates that boundary b leaves: the best of the successful ones, *)
(* none when too few can be compared, the winner at the last boundary.     *)
Survivors(b, outcomes) ==
  LET good == Successful(outcomes) IN
  IF Cardinality(good) < Required(b, outcomes) THEN {}
  ELSE {s \in good : Cardinality({r \in good : Better(outcomes, r, s)}) < Keep[b]}

Active(h) == IF h = <<>> THEN Size ELSE Survivors(Len(h), Last(h))
Terminal(h) == Len(h) = Len(Keep) \/ Active(h) = {}
Selected(h) == Len(h) = Len(Keep) /\ Active(h) # {}

(* The histories a reducer can have. *)
IsHistory(h) ==
  /\ Len(h) <= Len(Keep)
  /\ \A b \in 1 .. Len(h) :
       LET pre == SubSeq(h, 1, b - 1) IN
       ~Terminal(pre) /\ h[b] \in [Active(pre) -> Score \cup {Failed}]

-----------------------------------------------------------------------------
(* The execution root. *)

At(records, b) == {r \in records : r.at = b}
Of(records, c) == {r \in records : r.size = c.size /\ r.at = c.at}
Sizes(records) == {r.size : r \in records}

RecordsOf(h) ==
  UNION {{[at |-> b, size |-> s, score |-> h[b][s]] : s \in DOMAIN h[b]} : b \in DOMAIN h}

NextBoundary(c) == Len(state[c]) + 1
Missing(c) == Active(state[c]) \ Sizes(got[c])
NextSize(c) == CHOOSE s \in Missing(c) : \A r \in Missing(c) : s <= r
Matrix(c) ==
  [s \in Active(state[c]) |-> (CHOOSE r \in got[c] : r.size = s).score]

(* Completions that neither a progress pointer nor a batch names. *)
Orphans == completions \ (progress \cup UNION {RecordsOf(h) : h \in batches})

OneEach(records) == \A r \in records : Of(records, r) = {r}
OneChain(hs) ==
  /\ \A h \in hs : Len(h) = 1 \/ Before(h) \in hs
  /\ \A g, h \in hs : Len(g) = Len(h) => g = h
Tip(hs) == IF hs = {} THEN <<>> ELSE CHOOSE h \in hs : \A g \in hs : Len(g) <= Len(h)

-----------------------------------------------------------------------------
(* The campaign. *)

Fresh == [kind |-> "prepare", generation |-> 1, life |-> "bound", adopted |-> <<>>,
          design |-> {}, frozen |-> FALSE]
Revision == log[Len(log)]

Blank(c) ==
  /\ held' = [held EXCEPT ![c] = 0]
  /\ baseline' = [baseline EXCEPT ![c] = {}]
  /\ state' = [state EXCEPT ![c] = <<>>]
  /\ got' = [got EXCEPT ![c] = {}]
  /\ made' = [made EXCEPT ![c] = {}]
  /\ batch' = [batch EXCEPT ![c] = <<>>]
  /\ repairing' = repairing \ {c}

(* A command ends, is refused or dies: its locks go with it. *)
Leave(c) ==
  /\ pc' = [pc EXCEPT ![c] = "idle"]
  /\ screenLock' = IF screenLock = c THEN NoOne ELSE screenLock
  /\ pairLock' = IF pairLock = c THEN NoOne ELSE pairLock
  /\ fence' = [s \in Size |-> IF fence[s] = c THEN NoOne ELSE fence[s]]
  /\ Blank(c)

Goto(c, where) == pc' = [pc EXCEPT ![c] = where]

(* A transition is compared and set; a transition that the same predecessor *)
(* already made is returned, any other loser is refused.                   *)
Commit(c, revision, where) ==
  \/ /\ held[c] = Len(log)
     /\ log' = Append(log, revision)
     /\ held' = [held EXCEPT ![c] = Len(log) + 1]
     /\ Goto(c, where)
     /\ UNCHANGED <<locks, baseline, state, got, made, batch, repairing>>
  \/ /\ held[c] < Len(log) /\ log[held[c] + 1] = revision
     /\ held' = [held EXCEPT ![c] = held[c] + 1]
     /\ Goto(c, where)
     /\ UNCHANGED <<log, locks, baseline, state, got, made, batch, repairing>>
  \/ /\ held[c] < Len(log) /\ log[held[c] + 1] # revision
     /\ Leave(c)
     /\ UNCHANGED log

Init ==
  /\ completions = {} /\ progress = {} /\ batches = {} /\ heads = {} /\ current = <<>>
  /\ screenLock = NoOne /\ pairLock = NoOne /\ fence = [s \in Size |-> NoOne]
  /\ log = <<Fresh>>
  /\ pc = [c \in Command |-> "idle"]
  /\ held = [c \in Command |-> 0]
  /\ baseline = [c \in Command |-> {}]
  /\ state = [c \in Command |-> <<>>]
  /\ got = [c \in Command |-> {}]
  /\ made = [c \in Command |-> {}]
  /\ batch = [c \in Command |-> <<>>]
  /\ repairing = {}
  /\ torn = {} /\ starts = 0 /\ decisions = 0

(* The command starts: a frozen design refuses it, a complete diagnostic is *)
(* reused.  The root of a later generation is another one.                 *)
Start(c) ==
  /\ pc[c] = "idle" /\ starts < Starts
  /\ Revision.generation = 1 /\ ~Revision.frozen
  /\ starts' = starts + 1
  /\ held' = [held EXCEPT ![c] = Len(log)]
  /\ baseline' = [baseline EXCEPT ![c] = Revision.design]
  /\ Goto(c, IF Revision.life = "complete" THEN "install" ELSE "open")
  /\ UNCHANGED <<disk, locks, log, state, got, made, batch, repairing, torn, decisions>>

(* The attempt is opened from the revision read at the start; it keeps the *)
(* adopted head and the provisional design and carries no frozen one.      *)
Open(c) ==
  /\ pc[c] = "open"
  /\ LET r == log[held[c]] IN
     Commit(c, [r EXCEPT !.kind = "open", !.life = "active", !.frozen = FALSE], "replay")
  /\ UNCHANGED <<disk, bounds>>

-----------------------------------------------------------------------------
(* Reconciliation of the root, under the commit lock. *)

(* The whole root must be legible; the pointer is then put on the tip of *)
(* the chain.  (Completions are scanned before the pointers, which other *)
(* commands go on to write: what is read is the root at one moment.)     *)
Legible ==
  /\ OneEach(completions) /\ progress \subseteq completions /\ Orphans = {}
  /\ OneChain(heads) /\ heads \subseteq batches
  /\ current = <<>> \/ current \in heads

Replay(c) ==
  /\ pc[c] = "replay" /\ screenLock = NoOne
  /\ \/ /\ ~Legible
        /\ Leave(c)
        /\ UNCHANGED disk
     \/ /\ Legible
        /\ screenLock' = c
        /\ current' = Tip(heads)
        /\ state' = [state EXCEPT ![c] = Tip(heads)]
        /\ Goto(c, "settle")
        /\ UNCHANGED <<completions, progress, batches, heads, pairLock, fence, held,
                       baseline, got, made, batch, repairing>>
  /\ UNCHANGED <<log, bounds>>

(* A batch without a head is committed when it is the only one that starts *)
(* from the replayed state; any other one is refused.                      *)
Settle(c) ==
  /\ pc[c] = "settle"
  /\ LET left == batches \ heads
         candidates == {h \in left : Before(h) = state[c]} IN
     \/ /\ left = {}
        /\ screenLock' = NoOne
        /\ Goto(c, IF state[c] = <<>> THEN "boundary" ELSE "bind")
        /\ UNCHANGED <<pairLock, fence, locals>>
     \/ /\ Cardinality(candidates) = 1
        /\ batch' = [batch EXCEPT ![c] = CHOOSE h \in candidates : TRUE]
        /\ repairing' = repairing \cup {c}
        /\ Goto(c, "head")
        /\ UNCHANGED <<locks, held, baseline, state, got, made>>
     \/ /\ left # {} /\ Cardinality(candidates) # 1
        /\ Leave(c)
  /\ UNCHANGED <<disk, log, bounds>>

-----------------------------------------------------------------------------
(* One boundary. *)

(* The accepted cells of the boundary are taken; one outside the active *)
(* matrix refuses the command.                                          *)
Recover(c) ==
  /\ pc[c] = "boundary" /\ ~Terminal(state[c])
  /\ LET found == At(progress, NextBoundary(c)) IN
     \/ /\ Sizes(found) \subseteq Active(state[c])
        /\ got' = [got EXCEPT ![c] = found]
        /\ Goto(c, "cell")
        /\ UNCHANGED <<locks, held, baseline, state, made, batch, repairing>>
     \/ /\ ~(Sizes(found) \subseteq Active(state[c]))
        /\ Leave(c)
  /\ UNCHANGED <<disk, log, bounds>>

(* A cell of the first rung is run behind its fence, after another look at *)
(* the progress.                                                           *)
Fence(c) ==
  /\ pc[c] = "cell" /\ Missing(c) # {} /\ NextBoundary(c) = 1
  /\ fence[NextSize(c)] = NoOne
  /\ LET found == {r \in At(progress, 1) : r.size = NextSize(c)} IN
     \/ /\ found # {}
        /\ got' = [got EXCEPT ![c] = got[c] \cup found]
        /\ UNCHANGED <<fence, pc>>
     \/ /\ found = {}
        /\ fence' = [fence EXCEPT ![NextSize(c)] = c]
        /\ Goto(c, "train")
        /\ UNCHANGED got
  /\ UNCHANGED <<disk, screenLock, pairLock, log, held, baseline, state, made,
                 batch, repairing, bounds>>

(* A cell of a later rung has no fence. *)
Continue(c) ==
  /\ pc[c] = "cell" /\ Missing(c) # {} /\ NextBoundary(c) > 1
  /\ Goto(c, "train")
  /\ UNCHANGED <<disk, locks, log, locals, bounds>>

(* The cell is trained and evaluated, and every parent of its record is *)
(* published; what it scores is not determined.                         *)
Train(c) ==
  /\ pc[c] = "train"
  /\ \E v \in Score \cup {Failed} :
       made' = [made EXCEPT ![c] =
                 {[at |-> NextBoundary(c), size |-> NextSize(c), score |-> v]}]
  /\ Goto(c, "publish")
  /\ UNCHANGED <<disk, locks, log, held, baseline, state, got, batch, repairing,
                 bounds>>

(* Mutant of PutCompletion: the progress slot is not looked at first. *)
PutCompletionFirst(c) ==
  /\ pc[c] = "publish" /\ pairLock = NoOne
  /\ completions' = completions \cup made[c]
  /\ pairLock' = c
  /\ Goto(c, "progress")
  /\ UNCHANGED <<progress, batches, heads, current, screenLock, fence, log, locals, bounds>>

(* Under the publication lock: a slot another completion has refuses this *)
(* one, else the completion is written.                                   *)
PutCompletion(c) ==
  /\ pc[c] = "publish" /\ pairLock = NoOne
  /\ LET taken == UNION {Of(progress, r) : r \in made[c]} IN
     \/ /\ taken \subseteq made[c]
        /\ completions' = completions \cup made[c]
        /\ pairLock' = c
        /\ Goto(c, "progress")
        /\ UNCHANGED <<screenLock, fence, locals>>
     \/ /\ ~(taken \subseteq made[c])
        /\ Leave(c)
        /\ UNCHANGED completions
  /\ UNCHANGED <<progress, batches, heads, current, log, bounds>>

(* The progress pointer follows; it is the acceptance of the cell. *)
PutProgress(c) ==
  /\ pc[c] = "progress"
  /\ LET taken == UNION {Of(progress, r) : r \in made[c]} IN
     \/ /\ taken \subseteq made[c]
        /\ progress' = progress \cup made[c]
        /\ got' = [got EXCEPT ![c] = got[c] \cup made[c]]
        /\ made' = [made EXCEPT ![c] = {}]
        /\ pairLock' = NoOne
        /\ fence' = [s \in Size |-> IF fence[s] = c THEN NoOne ELSE fence[s]]
        /\ Goto(c, "cell")
        /\ UNCHANGED <<screenLock, held, baseline, state, batch, repairing>>
     \/ /\ ~(taken \subseteq made[c])
        /\ Leave(c)
        /\ UNCHANGED progress
  /\ UNCHANGED <<completions, batches, heads, current, log, bounds>>

-----------------------------------------------------------------------------
(* The commit of a complete matrix: batch, head, pointer, under the lock. *)

(* An exact retry takes the head there is; a head that is not the state the *)
(* matrix was run from refuses the batch.                                  *)
PutBatch(c) ==
  /\ pc[c] = "cell" /\ Missing(c) = {} /\ screenLock = NoOne
  /\ LET h == Append(state[c], Matrix(c)) IN
     \/ /\ current = h
        /\ state' = [state EXCEPT ![c] = h]
        /\ got' = [got EXCEPT ![c] = {}]
        /\ Goto(c, "refresh")
        /\ UNCHANGED <<batches, locks, held, baseline, made, batch, repairing>>
     \/ /\ current \notin {h, <<>>, state[c]}
        /\ Leave(c)
        /\ UNCHANGED batches
     \/ /\ current # h /\ current \in {<<>>, state[c]}
        /\ batches' = batches \cup {h}
        /\ batch' = [batch EXCEPT ![c] = h]
        /\ screenLock' = c
        /\ Goto(c, "head")
        /\ UNCHANGED <<pairLock, fence, held, baseline, state, got, made, repairing>>
  /\ UNCHANGED <<completions, progress, heads, current, log, bounds>>

PutHead(c) ==
  /\ pc[c] = "head"
  /\ heads' = heads \cup {batch[c]}
  /\ Goto(c, "pointer")
  /\ UNCHANGED <<completions, progress, batches, current, locks, log, locals, bounds>>

(* Mutant of PutCurrent: the lock is kept. *)
PutCurrentHeld(c) ==
  /\ pc[c] = "pointer"
  /\ current' = batch[c]
  /\ state' = [state EXCEPT ![c] = batch[c]]
  /\ batch' = [batch EXCEPT ![c] = <<>>]
  /\ got' = [got EXCEPT ![c] = {}]
  /\ repairing' = repairing \ {c}
  /\ Goto(c, IF c \in repairing THEN "settle" ELSE "refresh")
  /\ UNCHANGED <<completions, progress, batches, heads, locks, log, held, baseline, made,
                 bounds>>

(* The pointer; reconciliation goes on to look for a further batch. *)
PutCurrent(c) ==
  /\ pc[c] = "pointer"
  /\ current' = batch[c]
  /\ state' = [state EXCEPT ![c] = batch[c]]
  /\ batch' = [batch EXCEPT ![c] = <<>>]
  /\ got' = [got EXCEPT ![c] = {}]
  /\ repairing' = repairing \ {c}
  /\ IF c \in repairing
       THEN Goto(c, "settle") /\ UNCHANGED screenLock
       ELSE Goto(c, "refresh") /\ screenLock' = NoOne
  /\ UNCHANGED <<completions, progress, batches, heads, pairLock, fence, log, held,
                 baseline, made, bounds>>

-----------------------------------------------------------------------------
(* The campaign binds what the root has committed. *)

(* Mutant of Refreshed: a replaced generation is not noticed. *)
RefreshedBlind(c, where) ==
  /\ held' = [held EXCEPT ![c] = Len(log)]
  /\ Goto(c, where)
  /\ UNCHANGED <<locks, baseline, state, got, made, batch, repairing>>

Refreshed(c, where) ==
  \/ /\ Revision.generation = log[held[c]].generation
     /\ held' = [held EXCEPT ![c] = Len(log)]
     /\ Goto(c, where)
     /\ UNCHANGED <<locks, baseline, state, got, made, batch, repairing>>
  \/ /\ Revision.generation # log[held[c]].generation
     /\ Leave(c)

(* The campaign is read again: the operator may have changed the design, *)
(* but not the generation.                                               *)
Refresh(c) ==
  /\ pc[c] = "refresh"
  /\ Refreshed(c, "bind")
  /\ UNCHANGED <<disk, log, bounds>>

(* The head is bound to the revision the command holds, unless it already is. *)
Bind(c) ==
  /\ pc[c] = "bind"
  /\ LET r == log[held[c]] IN
     \/ /\ r.life = "active" /\ r.adopted = state[c]
        /\ Goto(c, "boundary")
        /\ UNCHANGED <<log, locks, locals>>
     \/ /\ ~(r.life = "active" /\ r.adopted = state[c])
        /\ Commit(c, [r EXCEPT !.kind = "adopt", !.life = "active",
                               !.adopted = state[c]], "boundary")
  /\ UNCHANGED <<disk, bounds>>

Finish(c) ==
  /\ pc[c] = "boundary" /\ Terminal(state[c])
  /\ Refreshed(c, "record")
  /\ UNCHANGED <<disk, log, bounds>>

(* The diagnostic is recorded with its head in one transition. *)
RecordDiagnostic(c) ==
  /\ pc[c] = "record"
  /\ Commit(c, [log[held[c]] EXCEPT !.kind = "record", !.life = "complete",
                                    !.adopted = state[c]], "install")
  /\ UNCHANGED <<disk, bounds>>

(* A recommendation is installed only over the design the command started *)
(* from; with no diagnostic to expose the command is refused.             *)
Install(c) ==
  /\ pc[c] = "install"
  /\ \/ /\ Revision.life = "complete" /\ Revision.adopted \in heads
        /\ Selected(Revision.adopted)
        /\ Revision.design = baseline[c] /\ ~Revision.frozen
        /\ "auto" \notin Revision.design
        /\ held' = [held EXCEPT ![c] = Len(log)]
        /\ Goto(c, "propose")
        /\ UNCHANGED <<locks, baseline, state, got, made, batch, repairing>>
     \/ /\ \/ Revision.life # "complete" \/ Revision.adopted \notin heads
           \/ ~Selected(Revision.adopted)
           \/ Revision.design # baseline[c] \/ Revision.frozen
           \/ "auto" \in Revision.design
        /\ Leave(c)
  /\ UNCHANGED <<disk, log, bounds>>

(* Mutant of Propose: the proposal is laid on whatever revision is current. *)
ProposeLate(c) ==
  /\ pc[c] = "propose"
  /\ log' = Append(log, [Revision EXCEPT !.kind = "propose",
                                         !.design = Revision.design \cup {"auto"}])
  /\ Leave(c)
  /\ UNCHANGED <<disk, bounds>>

Propose(c) ==
  /\ pc[c] = "propose"
  /\ LET r == log[held[c]] IN
     Commit(c, [r EXCEPT !.kind = "propose", !.design = r.design \cup {"auto"}], "done")
  /\ UNCHANGED <<disk, bounds>>

Return(c) == pc[c] = "done" /\ Leave(c) /\ UNCHANGED <<disk, log, bounds>>

(* The process dies anywhere. *)
Crash(c) ==
  /\ pc[c] # "idle"
  /\ Leave(c)
  /\ torn' = IF pc[c] = "progress" THEN torn \cup (made[c] \ progress) ELSE torn
  /\ UNCHANGED <<disk, log, starts, decisions>>

-----------------------------------------------------------------------------
(* The operator chooses a size, resets the design, freezes it by a cross   *)
(* validation, or prepares another generation; each is a short command.    *)
Decide(revision) ==
  /\ decisions < Decisions /\ Revision.generation = 1
  /\ decisions' = decisions + 1
  /\ log' = Append(log, revision)
  /\ UNCHANGED <<disk, locks, pc, locals, torn, starts>>

Choose ==
  /\ ~Revision.frozen /\ "manual" \notin Revision.design
  /\ Decide([Revision EXCEPT !.kind = "propose", !.design = @ \cup {"manual"}])
Reset ==
  /\ ~Revision.frozen /\ Revision.design # {}
  /\ Decide([Revision EXCEPT !.kind = "reset", !.design = {}])
Freeze ==
  /\ ~Revision.frozen /\ Revision.design # {}
  /\ Decide([Revision EXCEPT !.kind = "freeze", !.frozen = TRUE])
Prepare ==
  Decide([Fresh EXCEPT !.kind = "advance", !.generation = Revision.generation + 1])

Step(c) ==
  \/ Open(c) \/ Replay(c) \/ Settle(c)
  \/ Recover(c) \/ Fence(c) \/ Continue(c) \/ Train(c) \/ PutCompletion(c) \/ PutProgress(c)
  \/ PutBatch(c) \/ PutHead(c) \/ PutCurrent(c)
  \/ Refresh(c) \/ Bind(c) \/ Finish(c) \/ RecordDiagnostic(c)
  \/ Install(c) \/ Propose(c) \/ Return(c)

Next ==
  \/ \E c \in Command : Start(c) \/ Step(c) \/ Crash(c)
  \/ Choose \/ Reset \/ Freeze \/ Prepare

Spec == Init /\ [][Next]_vars

-----------------------------------------------------------------------------
(* Type invariant. *)
TypeOK ==
  /\ completions \subseteq Record /\ progress \subseteq Record
  /\ \A h \in batches \cup heads \cup {current} : IsHistory(h)
  /\ {screenLock, pairLock} \cup {fence[s] : s \in Size} \subseteq Command \cup {NoOne}
  /\ \A i \in DOMAIN log :
       /\ log[i].generation \in Nat /\ log[i].life \in {"bound", "active", "complete"}
       /\ IsHistory(log[i].adopted)
       /\ log[i].design \subseteq {"manual", "auto"} /\ log[i].frozen \in BOOLEAN
  /\ \A c \in Command :
       /\ held[c] \in 0 .. Len(log) /\ baseline[c] \subseteq {"manual", "auto"}
       /\ IsHistory(state[c]) /\ IsHistory(batch[c])
       /\ got[c] \subseteq Record /\ made[c] \subseteq Record
  /\ repairing \subseteq Command /\ torn \subseteq Record /\ starts \in 0 .. Starts /\ decisions \in 0 .. Decisions

(* Two commands may train one cell and score it differently: only one of  *)
(* the scores is ever accepted, an accepted one has its completion, and a *)
(* loser leaves no completion behind: the only ones without a pointer are *)
(* being published or were cut off by a death.                            *)
OneScorePerCell ==
  /\ OneEach(progress) /\ progress \subseteq completions
  /\ completions \ (progress \cup torn) \subseteq
       UNION {made[c] : c \in {d \in Command : pairLock = d}}

(* Whatever dies between the batch, the head and the pointer, and however  *)
(* many commands commit, the root holds one chain: one matrix for each     *)
(* reducer state, at most the last of them without its head, the pointer   *)
(* at most one head behind, and every matrix is the whole active matrix of *)
(* the state it was run from and made of accepted cells.                   *)
OneChainOfWholeMatrices ==
  /\ OneChain(batches) /\ OneChain(heads) /\ heads \subseteq batches
  /\ \A h \in batches \ heads : Before(h) = Tip(heads)
  /\ Tip(heads) = current \/ Before(Tip(heads)) = current
  /\ \A h \in batches : IsHistory(h) /\ h # <<>> /\ RecordsOf(h) \subseteq progress

(* What the campaign binds is committed: every head a revision names is in *)
(* the root of its own generation, and a diagnostic is recorded only with  *)
(* a terminal one.                                                         *)
BoundIsCommitted ==
  \A i \in DOMAIN log :
    /\ log[i].adopted = <<>> \/ (log[i].generation = 1 /\ log[i].adopted \in heads)
    /\ log[i].life = "complete" => log[i].adopted # <<>> /\ Terminal(log[i].adopted)

(* The fence of a first-rung cell: whoever clears its scratch and trains it *)
(* is alone, and no accepted evidence of the cell exists to be cleared.    *)
FirstRungIsFenced ==
  \A c \in Command :
    (pc[c] = "train" /\ NextBoundary(c) = 1) =>
      /\ NextSize(c) \notin Sizes(At(progress, 1))
      /\ \A d \in Command \ {c} :
           pc[d] \in {"train", "publish", "progress"} /\ NextBoundary(d) = 1
             => NextSize(d) # NextSize(c)

(* Hours of training never touch the operator's design: screen evidence    *)
(* leaves it, and its freeze, as they are in the generation they belong to, *)
(* and only a fresh generation retires a freeze.                           *)
DesignIsTheOperators ==
  [][Len(log') > Len(log) /\ log'[Len(log')].kind # "advance" =>
       LET new == log'[Len(log')] IN
       /\ new.kind \in {"open", "adopt", "record"} =>
            new.design = Revision.design /\ new.frozen = Revision.frozen
       /\ Revision.frozen => new.design = Revision.design /\ new.frozen]_log

(* The newer decision wins: a recommendation is installed only while the *)
(* design is the one its command started from (_install_recommendation). *)
NewerDecisionWins ==
  [][\A c \in Command :
       (pc[c] = "propose" /\ Len(log') > Len(log) /\ pc'[c] # "propose") =>
         Revision.design = baseline[c] /\ ~Revision.frozen]_vars

(* What the root has committed stays: matrices are added one at a time at *)
(* the end, and the pointer never goes back.                              *)
CommittedForward ==
  [][/\ heads \subseteq heads' /\ batches \subseteq batches' /\ progress \subseteq progress'
     /\ current' # current => current' # <<>> /\ Before(current') = current]_disk

(* Of commands that train one cell only one trains under its fence, one    *)
(* score is accepted, and a loser leaves nothing behind                    *)
(* (_execute_candidate_cell, record_candidate_boundary_outcome).           *)
CellsAreExclusive == TypeOK /\ OneScorePerCell /\ FirstRungIsFenced

(* The root holds one chain of whole matrices, and what the campaign binds *)
(* is committed in it (commit_target_size_boundary_batch).                 *)
CommittedIsWhole == OneChainOfWholeMatrices /\ BoundIsCommitted

(* What is committed stays, a screen leaves the operator's design alone, and *)
(* a recommendation never replaces a newer decision                        *)
(* (commit_target_size_boundary_batch, _install_recommendation).           *)
DecisionsMoveForward == CommittedForward /\ DesignIsTheOperators /\ NewerDecisionWins

(* No order of the two locks and the fences blocks the commands: while one *)
(* runs, some command can go on without anybody dying.                     *)
SomebodyGoesOn ==
  (\E c \in Command : pc[c] # "idle") => \E c \in Command : ENABLED Step(c)

(* The absence of progress for an active cell is simply work that remains: *)
(* no restart is refused for a completion whose pointer was not yet written *)
(* (docs/arch_manuals/mlff_training_data/60_execution_performance.md).     *)
AbsenceIsWork == \A c \in Command : pc[c] = "replay" => Orphans = {}

=============================================================================
