------------------------ MODULE MCScreenLocked_proofs ------------------------
(***************************************************************************)
(* What is proved of the target-size screen, for any commands, sizes,      *)
(* boundaries and scores, and whoever dies: one score for a cell, one      *)
(* chain of whole matrices, and an operator who has the last word; and of  *)
(* the setting that runs it beside the evaluation of the locked cohort.    *)
(***************************************************************************)
EXTENDS MCScreenLocked, FiniteSetTheorems, SequenceTheorems, TLAPS

-----------------------------------------------------------------------------
(* Histories of matrices.                                                  *)

Scores == Score \cup {Failed}
Matrices == UNION {[S -> Scores] : S \in SUBSET Size}
Histories == {h \in Seq(Matrices) : IsHistory(h)}

LEMMA Bounds ==
  /\ Len(Keep) \in Nat \ {0} /\ Boundary = 1 .. Len(Keep) /\ Size # {} /\ Size \subseteq Nat
  /\ NoOne \notin Command
BY ScreenAssumption, EmptySeq DEF Boundary

LEMMA AppendCut ==
  ASSUME NEW S, NEW s \in Seq(S), NEW e \in S
  PROVE  /\ Append(s, e) \in Seq(S) /\ Len(Append(s, e)) = Len(s) + 1
         /\ Before(Append(s, e)) = s /\ Last(Append(s, e)) = e
<1>1. /\ Append(s, e) \in Seq(S) /\ Len(Append(s, e)) = Len(s) + 1 /\ Len(s) \in Nat
      /\ \A i \in 1 .. Len(s) : Append(s, e)[i] = s[i]
      /\ Append(s, e)[Len(s) + 1] = e
  OBVIOUS
<1>2. Before(Append(s, e)) = s
  <2>1. SubSeq(Append(s, e), 1, Len(s)) \in Seq(S) /\ Len(SubSeq(Append(s, e), 1, Len(s))) = Len(s)
    BY <1>1
  <2>2. \A i \in 1 .. Len(s) : SubSeq(Append(s, e), 1, Len(s))[i] = s[i]
    BY <1>1
  <2>3. SubSeq(Append(s, e), 1, Len(s)) = s
    BY <2>1, <2>2, SeqEqual
  <2> QED BY <1>1, <2>3 DEF Before
<1> QED BY <1>1, <1>2 DEF Last

LEMMA CutAppend ==
  ASSUME NEW S, NEW s \in Seq(S), s # <<>>
  PROVE  /\ Before(s) \in Seq(S) /\ Last(s) \in S /\ s = Append(Before(s), Last(s))
         /\ Len(s) \in Nat \ {0} /\ Len(Before(s)) = Len(s) - 1 /\ Last(s) = s[Len(s)]
<1>1. PICK t \in Seq(S), e \in S : s = Append(t, e)
  BY SequenceEmptyOrAppend
<1>2. Before(s) = t /\ Last(s) = e /\ Len(s) = Len(t) + 1
  BY <1>1, AppendCut
<1>3. Len(t) \in Nat /\ Len(s) \in Nat OBVIOUS
<1> QED BY <1>1, <1>2, <1>3 DEF Last

LEMMA BlankHistory == <<>> \in Histories /\ Before(<<>>) = <<>>
<1>1. <<>> \in Seq(Matrices) /\ Len(<<>>) = 0 BY EmptySeq
<1>2. IsHistory(<<>>) BY <1>1, Bounds DEF IsHistory
<1>3. Before(<<>>) = <<>> BY <1>1, SubSeqEmpty DEF Before
<1> QED BY <1>1, <1>2, <1>3 DEF Histories

LEMMA ActiveSizes == ASSUME NEW h \in Histories PROVE Active(h) \subseteq Size
<1>1. CASE h = <<>> BY <1>1 DEF Active
<1>2. CASE h # <<>>
  <2>1. h \in Seq(Matrices) BY DEF Histories
  <2>2. Last(h) \in Matrices BY <1>2, <2>1, CutAppend
  <2>3. DOMAIN Last(h) \subseteq Size BY <2>2 DEF Matrices
  <2>4. Successful(Last(h)) \subseteq Size BY <2>3 DEF Successful
  <2>5. Survivors(Len(h), Last(h)) \subseteq Successful(Last(h)) BY DEF Survivors
  <2> QED BY <1>2, <2>4, <2>5 DEF Active
<1> QED BY <1>1, <1>2

LEMMA Extended ==
  ASSUME NEW h \in Histories, ~Terminal(h), NEW m \in [Active(h) -> Scores]
  PROVE  /\ Append(h, m) \in Histories /\ Before(Append(h, m)) = h
         /\ Len(Append(h, m)) = Len(h) + 1 /\ Append(h, m) # <<>>
<1>1. h \in Seq(Matrices) /\ IsHistory(h) BY DEF Histories
<1>2. m \in Matrices BY ActiveSizes DEF Matrices
<1> DEFINE g == Append(h, m)
<1>3. /\ g \in Seq(Matrices) /\ Len(g) = Len(h) + 1 /\ Before(g) = h /\ g # <<>>
      /\ Len(h) \in Nat /\ (\A i \in 1 .. Len(h) : g[i] = h[i]) /\ g[Len(h) + 1] = m
  BY <1>1, <1>2, AppendCut
<1>4. Len(g) <= Len(Keep)
  BY <1>1, <1>3, Bounds DEF IsHistory, Terminal
<1>5. ASSUME NEW b \in 1 .. Len(g)
      PROVE  ~Terminal(SubSeq(g, 1, b - 1)) /\ g[b] \in [Active(SubSeq(g, 1, b - 1)) -> Scores]
  <2>1. CASE b = Len(g)
    <3>1. SubSeq(g, 1, b - 1) = h /\ g[b] = m BY <1>3, <2>1 DEF Before
    <3> QED BY <3>1
  <2>2. CASE b \in 1 .. Len(h)
    <3> DEFINE pre == SubSeq(g, 1, b - 1)
               pro == SubSeq(h, 1, b - 1)
    <3>1. pre \in Seq(Matrices) /\ pro \in Seq(Matrices) /\ Len(pre) = b - 1 /\ Len(pro) = b - 1
      BY <1>1, <1>3, <2>2
    <3>2. \A i \in 1 .. b - 1 : pre[i] = g[i] /\ pro[i] = h[i] /\ g[i] = h[i]
      BY <1>1, <1>3, <2>2
    <3>3. \A i \in 1 .. Len(pre) : pre[i] = pro[i] BY <3>1, <3>2
    <3> HIDE DEF pre, pro
    <3>4. pre = pro BY <3>1, <3>3, SeqEqual
    <3>5. ~Terminal(pro) /\ h[b] \in [Active(pro) -> Scores]
      BY <1>1, <2>2 DEF IsHistory, Scores, pro
    <3>6. g[b] = h[b] BY <1>3, <2>2
    <3> QED BY <3>4, <3>5, <3>6 DEF pre
  <2> QED BY <1>3, <2>1, <2>2
<1>6. IsHistory(g) BY <1>4, <1>5 DEF IsHistory, Scores
<1> QED BY <1>3, <1>6 DEF Histories

LEMMA LastMatrix ==
  ASSUME NEW h \in Histories, h # <<>>
  PROVE  /\ Last(h) \in [Active(Before(h)) -> Scores] /\ ~Terminal(Before(h))
         /\ Len(h) \in 1 .. Len(Keep) /\ Len(Before(h)) = Len(h) - 1
         /\ h = Append(Before(h), Last(h)) /\ Last(h) = h[Len(h)]
<1>1. h \in Seq(Matrices) /\ IsHistory(h) BY DEF Histories
<1>2. /\ Len(h) \in Nat \ {0} /\ Len(Before(h)) = Len(h) - 1
      /\ h = Append(Before(h), Last(h)) /\ Last(h) = h[Len(h)]
  BY <1>1, CutAppend
<1>3. Len(h) \in 1 .. Len(h) BY <1>2
<1>4. ~Terminal(Before(h)) /\ h[Len(h)] \in [Active(Before(h)) -> Scores]
  BY <1>1, <1>3 DEF IsHistory, Before, Scores
<1>5. Len(h) <= Len(Keep) BY <1>1 DEF IsHistory
<1> QED BY <1>2, <1>4, <1>5, Bounds

LEMMA NotTerminalAtFirst == ~Terminal(<<>>)
BY Bounds, EmptySeq DEF Terminal, Active

-----------------------------------------------------------------------------
(* The least and the greatest of a set of numbers.                         *)

(* A set of numbers below a bound has a greatest one: else whatever is at  *)
(* most one of them would fit, one up, into itself without zero.           *)
LEMMA GreatestOf ==
  ASSUME NEW top \in Nat, NEW H \in SUBSET (0 .. top), H # {}
  PROVE  \E h \in H : \A k \in H : k <= h
<1> SUFFICES ASSUME \A h \in H : \E k \in H : h < k PROVE FALSE
  OBVIOUS
<1> DEFINE U == {k \in 0 .. top : \E h \in H : k <= h}
           up == [k \in U |-> k + 1]
<1>1. IsFiniteSet(U)
  <2>1. IsFiniteSet(0 .. top) BY FS_Interval
  <2> QED BY <2>1, FS_Subset
<1>2. 0 \in U
  <2>1. PICK h \in H : h \in 0 .. top OBVIOUS
  <2>2. 0 <= h /\ 0 \in 0 .. top BY <2>1
  <2> QED BY <2>2
<1>3. \A k \in U : k + 1 \in U \ {0}
  <2> SUFFICES ASSUME NEW k \in U PROVE k + 1 \in U \ {0}
    OBVIOUS
  <2>1. PICK h \in H : k <= h OBVIOUS
  <2>2. PICK j \in H : h < j OBVIOUS
  <2>3. k + 1 <= j /\ k + 1 \in 0 .. top /\ k + 1 # 0 BY <2>1, <2>2
  <2> QED BY <2>2, <2>3
<1>4. U \subseteq Nat OBVIOUS
<1> HIDE DEF U
<1>5. up \in Injection(U, U \ {0}) BY <1>3, <1>4 DEF Injection, IsInjective
<1>6. IsFiniteSet(U \ {0}) /\ Cardinality(U \ {0}) = Cardinality(U) - 1
  BY <1>1, <1>2, FS_RemoveElement
<1> HIDE DEF up
<1>7. Cardinality(U) <= Cardinality(U \ {0}) BY <1>5, <1>6, FS_Injection
<1>8. Cardinality(U) \in Nat BY <1>1, FS_CardinalityType
<1> QED BY <1>6, <1>7, <1>8

LeastOf(M) == CHOOSE s \in M : \A r \in M : s <= r

LEMMA LeastIsThere ==
  ASSUME NEW M \in SUBSET Nat, M # {}
  PROVE  LeastOf(M) \in M
<1>1. PICK top \in M : top \in Nat OBVIOUS
<1> DEFINE H == {top - m : m \in {n \in M : n <= top}}
<1>2. H \in SUBSET (0 .. top) OBVIOUS
<1>3. H # {} BY <1>1
<1>4. PICK h \in H : \A k \in H : k <= h
  <2> HIDE DEF H
  <2> QED BY <1>1, <1>2, <1>3, GreatestOf
<1>5. PICK m \in M : m <= top /\ h = top - m BY <1>4
<1>6. \A r \in M : m <= r
  <2> SUFFICES ASSUME NEW r \in M PROVE m <= r
    OBVIOUS
  <2>1. CASE r > top BY <1>1, <1>5, <2>1
  <2>2. CASE r <= top
    <3>1. top - r \in H BY <2>2
    <3>2. top - r <= h BY <1>4, <3>1
    <3> QED BY <1>1, <1>5, <3>2
  <2> QED BY <1>1, <2>1, <2>2
<1> QED BY <1>6 DEF LeastOf

-----------------------------------------------------------------------------
(* The cells: what is recorded of each, and who is at it.                  *)

Where == {"idle", "open", "replay", "settle", "boundary", "cell", "train", "publish",
          "progress", "head", "pointer", "refresh", "bind", "record", "install",
          "propose", "done"}
Design == SUBSET {"manual", "auto"}
Kinds == {"prepare", "open", "adopt", "record", "propose", "reset", "freeze", "advance"}
Revisions == [kind : Kinds, generation : Nat, life : {"bound", "active", "complete"},
              adopted : Histories, design : Design, frozen : BOOLEAN]

RootTypes ==
  /\ completions \subseteq Record /\ progress \subseteq Record /\ torn \subseteq Record
  /\ batches \subseteq Histories /\ heads \subseteq Histories /\ current \in Histories

LockTypes ==
  /\ screenLock \in Command \cup {NoOne} /\ pairLock \in Command \cup {NoOne}
  /\ fence \in [Size -> Command \cup {NoOne}]

LogTypes ==
  /\ log \in Seq(Revisions) /\ log # <<>>
  /\ starts \in 0 .. Starts /\ decisions \in 0 .. Decisions

LocalTypes ==
  /\ pc \in [Command -> Where] /\ held \in [Command -> Nat]
  /\ baseline \in [Command -> Design]
  /\ state \in [Command -> Histories] /\ batch \in [Command -> Histories]
  /\ got \in [Command -> SUBSET Record] /\ made \in [Command -> SUBSET Record]
  /\ repairing \subseteq Command

Types == RootTypes /\ LockTypes /\ LogTypes /\ LocalTypes

AtCell == {"train", "publish", "progress"}

(* The revision a command holds is one of the log. *)
Holds(c) == held[c] <= Len(log) /\ (pc[c] # "idle" => held[c] # 0)

(* What a command at a cell relies on: an active boundary, accepted cells  *)
(* of it, a cell that is missing and its record, whose slot is not taken.  *)
Trains(c) ==
  /\ pc[c] \in {"cell"} \cup AtCell =>
       ~Terminal(state[c]) /\ got[c] \subseteq At(progress, NextBoundary(c))
  /\ pc[c] \in AtCell => Missing(c) # {}
  /\ pc[c] \in {"publish", "progress"} =>
       \E v \in Scores :
         made[c] = {[at |-> NextBoundary(c), size |-> NextSize(c), score |-> v]}
  /\ pc[c] = "progress" =>
       made[c] \subseteq completions /\ \A r \in made[c] : Of(progress, r) \subseteq made[c]

(* Which locks a command has at each step. *)
Locks(c) ==
  /\ pairLock = c <=> pc[c] = "progress"
  /\ screenLock = c <=> pc[c] \in {"settle", "head", "pointer"}
  /\ \A s \in Size :
       fence[s] = c <=> pc[c] \in AtCell /\ NextBoundary(c) = 1 /\ NextSize(c) = s

(* A cell of the first rung that is worked at is not accepted yet. *)
Unaccepted(c) ==
  pc[c] \in AtCell /\ NextBoundary(c) = 1 => NextSize(c) \notin Sizes(At(progress, 1))

Sound(c) == Holds(c) /\ Trains(c) /\ Locks(c) /\ Unaccepted(c)

Cells == Types /\ OneScorePerCell /\ \A c \in Command : Sound(c)

-----------------------------------------------------------------------------
(* What a command is at depends on its state and on what it has.           *)
LEMMA SameCell ==
  ASSUME NEW c, state'[c] = state[c], got'[c] = got[c]
  PROVE  /\ NextBoundary(c)' = NextBoundary(c) /\ Missing(c)' = Missing(c)
         /\ NextSize(c)' = NextSize(c)
<1>1. NextBoundary(c)' = NextBoundary(c) BY DEF NextBoundary
<1>2. Active(state'[c]) = Active(state[c]) /\ Sizes(got'[c]) = Sizes(got[c]) OBVIOUS
<1>3. Missing(c)' = Missing(c) BY <1>2 DEF Missing
<1>4. NextSize(c) = LeastOf(Missing(c)) BY DEF NextSize, LeastOf
<1>5. NextSize(c)' = LeastOf(Missing(c)') BY DEF NextSize, LeastOf
<1>6. LeastOf(Missing(c)') = LeastOf(Missing(c)) BY <1>3
<1> QED BY <1>1, <1>3, <1>4, <1>5, <1>6

LEMMA MissingSizes ==
  ASSUME Types, NEW c \in Command
  PROVE  /\ Missing(c) \subseteq Size
         /\ Missing(c) # {} => NextSize(c) \in Missing(c) /\ NextSize(c) \in Size
         /\ ~Terminal(state[c]) => NextBoundary(c) \in Boundary
<1>1. state[c] \in Histories BY DEF Types, LocalTypes
<1>2. Missing(c) \subseteq Size BY <1>1, ActiveSizes DEF Missing
<1>3. ASSUME Missing(c) # {} PROVE NextSize(c) \in Missing(c)
  <2>1. Missing(c) \in SUBSET Nat BY <1>2, Bounds
  <2>2. LeastOf(Missing(c)) \in Missing(c) BY <1>3, <2>1, LeastIsThere
  <2> QED BY <2>2 DEF NextSize, LeastOf
<1>4. ASSUME ~Terminal(state[c]) PROVE NextBoundary(c) \in Boundary
  <2>1. Len(state[c]) \in Nat /\ Len(state[c]) <= Len(Keep) /\ Len(state[c]) # Len(Keep)
    BY <1>1, <1>4 DEF Histories, IsHistory, Terminal
  <2> QED BY <2>1, Bounds DEF NextBoundary
<1> QED BY <1>2, <1>3, <1>4

(* What no step of c changes of another command. *)
Same(d) ==
  /\ pc'[d] = pc[d] /\ held'[d] = held[d] /\ baseline'[d] = baseline[d]
  /\ state'[d] = state[d] /\ batch'[d] = batch[d] /\ got'[d] = got[d] /\ made'[d] = made[d]

SameLocks(d) ==
  /\ pairLock' = d <=> pairLock = d
  /\ screenLock' = d <=> screenLock = d
  /\ \A s \in Size : fence'[s] = d <=> fence[s] = d

(* Accepted cells of others, where the fences keep them off. *)
NewElsewhere(d) ==
  pc[d] \in AtCell /\ NextBoundary(d) = 1 =>
    \A r \in progress' \ progress : r.at # 1 \/ r.size # NextSize(d)

LEMMA OthersSound ==
  ASSUME Cells, NEW d \in Command, Same(d), SameLocks(d), NewElsewhere(d),
         completions \subseteq completions', progress \subseteq progress',
         pc[d] = "progress" => progress' = progress,
         Len(log) <= Len(log'), Types'
  PROVE  Sound(d)'
<1>1. /\ NextBoundary(d)' = NextBoundary(d) /\ Missing(d)' = Missing(d)
      /\ NextSize(d)' = NextSize(d)
  BY SameCell DEF Same
<1>2. Sound(d) BY DEF Cells
<1>3. Holds(d)'
  <2>1. held[d] \in Nat /\ Len(log) \in Nat /\ Len(log') \in Nat
    BY DEF Cells, Types, LocalTypes, LogTypes
  <2> QED BY <1>2, <2>1 DEF Sound, Holds, Same
<1>4. Locks(d)'
  BY <1>1, <1>2 DEF Sound, Locks, Same, SameLocks
<1>5. Unaccepted(d)'
  <2> SUFFICES ASSUME pc[d] \in AtCell, NextBoundary(d) = 1, NEW r \in progress',
                      r.at = 1, r.size = NextSize(d)
               PROVE  FALSE
    BY <1>1 DEF Unaccepted, Same, Sizes, At
  <2>1. r \in progress BY DEF NewElsewhere
  <2> QED BY <1>2, <2>1 DEF Sound, Unaccepted, Sizes, At
<1>6. Trains(d)'
  <2>1. Terminal(state[d])' = Terminal(state[d])
    <3>1. state'[d] = state[d] BY DEF Same
    <3> QED BY <3>1
  <2>2. At(progress, NextBoundary(d)) \subseteq At(progress', NextBoundary(d))
    BY DEF At
  <2>3. pc[d] = "progress" =>
          made[d] \subseteq completions' /\ \A r \in made[d] : Of(progress', r) \subseteq made[d]
    <3> SUFFICES ASSUME pc[d] = "progress"
                 PROVE  /\ made[d] \subseteq completions'
                        /\ \A r \in made[d] : Of(progress', r) \subseteq made[d]
      OBVIOUS
    <3>1. progress' = progress OBVIOUS
    <3>2. made[d] \subseteq completions /\ \A r \in made[d] : Of(progress, r) \subseteq made[d]
      BY <1>2 DEF Sound, Trains
    <3> QED BY <3>1, <3>2
  <2> QED BY <1>1, <1>2, <2>1, <2>2, <2>3 DEF Sound, Trains, Same
<1> QED BY <1>3, <1>4, <1>5, <1>6 DEF Sound

-----------------------------------------------------------------------------
(* The ways on that several steps share.                                   *)

Apart(c) == \A d \in Command \ {c} : Same(d) /\ SameLocks(d)

(* A command that is at none of its cells needs nothing but its locks. *)
LEMMA AwaySound ==
  ASSUME Types, NEW c \in Command, Holds(c)', pc'[c] \notin {"cell"} \cup AtCell,
         pairLock' # c, screenLock' = c <=> pc'[c] \in {"settle", "head", "pointer"},
         \A s \in Size : fence'[s] # c
  PROVE  Sound(c)'
<1>1. Trains(c)' BY DEF Trains, AtCell
<1>2. Locks(c)' BY DEF Locks, AtCell
<1>3. Unaccepted(c)' BY DEF Unaccepted
<1> QED BY <1>1, <1>2, <1>3 DEF Sound

LEMMA Left ==
  ASSUME Types, NEW c \in Command, Leave(c), log' = log
  PROVE  /\ LockTypes' /\ LocalTypes' /\ Apart(c) /\ Sound(c)'
         /\ pc'[c] = "idle" /\ held'[c] = 0 /\ state'[c] = <<>> /\ batch'[c] = <<>>
         /\ screenLock' # c
         /\ \A d \in Command \ {c} : made'[d] = made[d] /\ (pairLock' = d <=> pairLock = d)
<1>1. LocalTypes'
  <2>1. <<>> \in Histories BY BlankHistory
  <2> QED BY <2>1 DEF Types, LocalTypes, Leave, Blank, Where, Design
<1>2. LockTypes' BY DEF Types, LockTypes, Leave
<1>3. Apart(c)
  <2> SUFFICES ASSUME NEW d \in Command \ {c} PROVE Same(d) /\ SameLocks(d)
    BY DEF Apart
  <2>1. Same(d) BY DEF Types, LocalTypes, Leave, Blank, Same
  <2>2. SameLocks(d)
    <3>1. d # NoOne /\ d # c BY Bounds
    <3> QED BY <3>1 DEF Types, LockTypes, Leave, SameLocks
  <2> QED BY <2>1, <2>2
<1>4. /\ pc'[c] = "idle" /\ held'[c] = 0 /\ state'[c] = <<>> /\ batch'[c] = <<>>
      /\ pairLock' # c /\ screenLock' # c
      /\ \A s \in Size : fence'[s] # c
  BY Bounds DEF Types, LocalTypes, LockTypes, Leave, Blank
<1>5. Holds(c)'
  BY <1>4 DEF Types, LogTypes, Holds
<1>6. Sound(c)' BY <1>4, <1>5, AwaySound DEF AtCell
<1> QED BY <1>1, <1>2, <1>3, <1>4, <1>6 DEF Apart, Same, SameLocks

(* The locks of a command that goes on without touching one. *)
LEMMA KeptLocks ==
  ASSUME Cells, NEW c \in Command, UNCHANGED locks,
         pc[c] \notin AtCell, pc'[c] \notin AtCell,
         pc'[c] \in {"settle", "head", "pointer"} <=> pc[c] \in {"settle", "head", "pointer"}
  PROVE  /\ pairLock' # c
         /\ screenLock' = c <=> pc'[c] \in {"settle", "head", "pointer"}
         /\ \A s \in Size : fence'[s] # c
         /\ LockTypes' /\ \A d \in Command : SameLocks(d)
<1>1. Locks(c) BY DEF Cells, Sound
<1>2. LockTypes BY DEF Cells, Types
<1> QED BY <1>1, <1>2 DEF Locks, locks, LockTypes, SameLocks, AtCell

LEMMA Committed ==
  ASSUME Types, NEW c \in Command, NEW revision \in Revisions, NEW where \in Where,
         Commit(c, revision, where), UNCHANGED bounds, held[c] # 0
  PROVE  /\ RootTypes /\ LogTypes' /\ LocalTypes' /\ Len(log) <= Len(log')
         /\ \A i \in 1 .. Len(log) : log'[i] = log[i]
         /\ \/ /\ pc'[c] = where /\ UNCHANGED <<locks, state, batch, made, got, baseline>>
               /\ \A d \in Command \ {c} : Same(d)
               /\ held'[c] \in 1 .. Len(log') /\ log'[held'[c]] = revision
               /\ \/ /\ held[c] = Len(log) /\ log' = Append(log, revision)
                     /\ held'[c] = Len(log) + 1
                  \/ log' = log
            \/ Leave(c) /\ log' = log
<1>1. log \in Seq(Revisions) /\ Len(log) \in Nat \ {0} /\ held[c] \in Nat
  BY EmptySeq DEF Types, LogTypes, LocalTypes
<1>2. CASE /\ held[c] = Len(log)
           /\ log' = Append(log, revision)
           /\ held' = [held EXCEPT ![c] = Len(log) + 1]
           /\ Goto(c, where)
           /\ UNCHANGED <<locks, baseline, state, got, made, batch, repairing>>
  <2>1. /\ log' \in Seq(Revisions) /\ Len(log') = Len(log) + 1 /\ log' # <<>>
        /\ (\A i \in 1 .. Len(log) : log'[i] = log[i]) /\ log'[Len(log) + 1] = revision
    BY <1>1, <1>2, AppendCut
  <2>2. held'[c] = Len(log) + 1 /\ pc'[c] = where
    BY <1>2 DEF Types, LocalTypes, Goto
  <2>3. LocalTypes' BY <1>1, <1>2 DEF Types, LocalTypes, Goto
  <2>4. \A d \in Command \ {c} : Same(d) BY <1>2 DEF Types, LocalTypes, Goto, Same
  <2>5. LogTypes' BY <2>1 DEF Types, LogTypes, bounds
  <2> QED BY <1>1, <1>2, <2>1, <2>2, <2>3, <2>4, <2>5 DEF Types
<1>3. CASE /\ held[c] < Len(log) /\ log[held[c] + 1] = revision
           /\ held' = [held EXCEPT ![c] = held[c] + 1]
           /\ Goto(c, where)
           /\ UNCHANGED <<log, locks, baseline, state, got, made, batch, repairing>>
  <2>1. held'[c] = held[c] + 1 /\ pc'[c] = where
    BY <1>3 DEF Types, LocalTypes, Goto
  <2>2. LocalTypes' BY <1>1, <1>3 DEF Types, LocalTypes, Goto
  <2>3. \A d \in Command \ {c} : Same(d) BY <1>3 DEF Types, LocalTypes, Goto, Same
  <2>4. LogTypes' BY <1>3 DEF Types, LogTypes, bounds
  <2>5. held'[c] \in 1 .. Len(log') /\ log'[held'[c]] = revision BY <1>1, <1>3, <2>1
  <2> QED BY <1>1, <1>3, <2>1, <2>2, <2>3, <2>4, <2>5 DEF Types
<1>4. CASE Leave(c) /\ UNCHANGED log
  <2>1. LocalTypes' BY <1>4, Left
  <2>2. LogTypes' BY <1>4 DEF Types, LogTypes, bounds
  <2> QED BY <1>1, <1>4, <2>1, <2>2 DEF Types
<1> QED BY <1>2, <1>3, <1>4 DEF Commit

LEMMA Reread ==
  ASSUME Types, NEW c \in Command, NEW where \in Where, Refreshed(c, where), log' = log
  PROVE  /\ LocalTypes'
         /\ \/ /\ pc'[c] = where /\ held'[c] = Len(log) /\ Len(log) \in Nat \ {0}
               /\ Revision.generation = log[held[c]].generation
               /\ UNCHANGED <<locks, state, batch, made, got, baseline>>
               /\ \A d \in Command \ {c} : Same(d)
            \/ Leave(c)
<1>1. Len(log) \in Nat \ {0} BY EmptySeq DEF Types, LogTypes
<1>2. CASE /\ Revision.generation = log[held[c]].generation
           /\ held' = [held EXCEPT ![c] = Len(log)]
           /\ Goto(c, where)
           /\ UNCHANGED <<locks, baseline, state, got, made, batch, repairing>>
  BY <1>1, <1>2 DEF Types, LocalTypes, Goto, Same
<1>3. CASE Leave(c) BY <1>3, Left
<1> QED BY <1>2, <1>3 DEF Refreshed

(* A step of c that publishes nothing leaves the cells sound when it leaves *)
(* c itself so.                                                            *)
LEMMA QuietCells ==
  ASSUME Cells, NEW c \in Command, pc[c] # "progress", Apart(c), Types', Sound(c)',
         completions' = completions, progress' = progress, torn' = torn, Len(log) <= Len(log')
  PROVE  Cells'
<1>1. ASSUME NEW d \in Command PROVE Sound(d)'
  <2>1. CASE d = c BY <2>1
  <2>2. CASE d # c
    <3>1. Same(d) /\ SameLocks(d) BY <2>2 DEF Apart
    <3>2. NewElsewhere(d) BY DEF NewElsewhere
    <3> QED BY <3>1, <3>2, OthersSound
  <2> QED BY <2>1, <2>2
<1>2. OneScorePerCell'
  <2>1. OneScorePerCell BY DEF Cells
  <2>2. OneEach(progress') /\ progress' \subseteq completions'
    BY <2>1 DEF OneScorePerCell
  <2>3. ASSUME NEW r \in completions' \ (progress' \cup torn')
        PROVE  \E d \in Command : pairLock' = d /\ r \in made'[d]
    <3>1. PICK d \in Command : pairLock = d /\ r \in made[d]
      BY <2>1 DEF OneScorePerCell
    <3>2. d # c BY <3>1 DEF Cells, Sound, Locks
    <3>3. Same(d) /\ SameLocks(d) BY <3>2 DEF Apart
    <3> QED BY <3>1, <3>3 DEF Same, SameLocks
  <2> QED BY <2>2, <2>3 DEF OneScorePerCell
<1> QED BY <1>1, <1>2 DEF Cells

-----------------------------------------------------------------------------
(* The steps, one by one: first those that publish no cell.                *)

LEMMA TipIsThere ==
  ASSUME NEW H \in SUBSET Histories
  PROVE  /\ Tip(H) \in Histories
         /\ H = {} => Tip(H) = <<>>
         /\ H # {} => Tip(H) \in H /\ \A g \in H : Len(g) <= Len(Tip(H))
<1>1. CASE H = {} BY <1>1, BlankHistory DEF Tip
<1>2. CASE H # {}
  <2> DEFINE L == {Len(h) : h \in H}
  <2>1. L \in SUBSET (0 .. Len(Keep)) /\ L # {} /\ Len(Keep) \in Nat
    <3>1. Len(Keep) \in Nat BY Bounds
    <3>2. ASSUME NEW h \in H PROVE Len(h) \in 0 .. Len(Keep)
      <4>1. h \in Seq(Matrices) /\ Len(h) <= Len(Keep) BY DEF Histories, IsHistory
      <4>2. Len(h) \in Nat BY <4>1
      <4> QED BY <3>1, <4>1, <4>2
    <3> QED BY <1>2, <3>1, <3>2
  <2>2. PICK n \in L : \A k \in L : k <= n
    <3> HIDE DEF L
    <3> QED BY <2>1, GreatestOf
  <2>3. PICK h \in H : \A g \in H : Len(g) <= Len(h) BY <2>2
  <2>4. Tip(H) = CHOOSE t \in H : \A g \in H : Len(g) <= Len(t) BY <1>2 DEF Tip
  <2>5. Tip(H) \in H /\ \A g \in H : Len(g) <= Len(Tip(H)) BY <2>3, <2>4
  <2> QED BY <1>2, <2>5
<1> QED BY <1>1, <1>2

LEMMA CellSound ==
  ASSUME Types, NEW c \in Command, Holds(c)', pc'[c] = "cell",
         ~Terminal(state'[c]), got'[c] \subseteq At(progress', Len(state'[c]) + 1),
         pairLock' # c, screenLock' # c, \A s \in Size : fence'[s] # c
  PROVE  Sound(c)'
<1>1. Trains(c)' BY DEF Trains, AtCell, NextBoundary
<1>2. Locks(c)' BY DEF Locks, AtCell
<1>3. Unaccepted(c)' BY DEF Unaccepted, AtCell
<1> QED BY <1>1, <1>2, <1>3 DEF Sound

LEMMA StartCells == ASSUME Cells, NEW c \in Command, Start(c) PROVE Cells'
<1> USE DEF Cells
<1>1. Len(log) \in Nat \ {0} BY EmptySeq DEF Types, LogTypes
<1>2. Revision \in Revisions BY <1>1 DEF Types, LogTypes, Revision
<1>3. LocalTypes'
  BY <1>1, <1>2 DEF Start, Goto, Types, LocalTypes, Where, Revisions
<1>4. UNCHANGED <<disk, locks, log, torn>> /\ starts' \in 0 .. Starts
  BY ScreenAssumption DEF Start, Types, LogTypes
<1>5. Types' BY <1>3, <1>4 DEF Start, Types, RootTypes, LockTypes, LogTypes, disk, locks
<1>6. held'[c] = Len(log) /\ pc'[c] \in {"install", "open"} /\ pc[c] = "idle"
  BY DEF Start, Types, LocalTypes, Goto
<1>7. /\ pairLock' # c /\ (screenLock' = c <=> pc'[c] \in {"settle", "head", "pointer"})
      /\ (\A s \in Size : fence'[s] # c) /\ \A d \in Command : SameLocks(d)
  BY <1>4, <1>6, KeptLocks DEF AtCell
<1>8. Holds(c)' BY <1>1, <1>4, <1>6 DEF Holds
<1>9. Sound(c)' BY <1>6, <1>7, <1>8, AwaySound DEF AtCell
<1>10. Apart(c) BY <1>7 DEF Apart, Same, Start, Types, LocalTypes, Goto
<1> QED BY <1>1, <1>4, <1>5, <1>6, <1>9, <1>10, QuietCells DEF disk

(* A revision with one of its fields replaced is one. *)
LEMMA Revised ==
  ASSUME NEW r \in Revisions
  PROVE  /\ \A x \in Kinds : [r EXCEPT !.kind = x] \in Revisions
         /\ \A x \in {"bound", "active", "complete"} : [r EXCEPT !.life = x] \in Revisions
         /\ \A x \in Histories : [r EXCEPT !.adopted = x] \in Revisions
         /\ \A x \in Design : [r EXCEPT !.design = x] \in Revisions
         /\ \A x \in BOOLEAN : [r EXCEPT !.frozen = x] \in Revisions
<1>1. ASSUME NEW x \in Kinds PROVE [r EXCEPT !.kind = x] \in Revisions
  BY DEF Revisions
<1>2. ASSUME NEW x \in {"bound", "active", "complete"}
      PROVE  [r EXCEPT !.life = x] \in Revisions
  BY DEF Revisions
<1>3. ASSUME NEW x \in Histories PROVE [r EXCEPT !.adopted = x] \in Revisions
  BY DEF Revisions
<1>4. ASSUME NEW x \in Design PROVE [r EXCEPT !.design = x] \in Revisions
  BY DEF Revisions
<1>5. ASSUME NEW x \in BOOLEAN PROVE [r EXCEPT !.frozen = x] \in Revisions
  BY DEF Revisions
<1> QED BY <1>1, <1>2, <1>3, <1>4, <1>5

(* The steps that compare and set a revision. *)
LEMMA CommitCells ==
  ASSUME Cells, NEW c \in Command, NEW revision \in Revisions,
         NEW where \in {"replay", "boundary", "install", "done"},
         pc[c] \in {"open", "bind", "record", "propose"},
         Commit(c, revision, where), UNCHANGED <<disk, bounds>>
  PROVE  Cells'
<1> USE DEF Cells
<1>1. held[c] # 0 /\ Holds(c) BY DEF Sound, Holds
<1>2. where \in Where BY DEF Where
<1>3. /\ LogTypes' /\ LocalTypes' /\ Len(log) <= Len(log')
      /\ \/ /\ pc'[c] = where /\ UNCHANGED locks
            /\ \A d \in Command \ {c} : Same(d)
            /\ held'[c] \in 1 .. Len(log')
         \/ Leave(c) /\ log' = log
  BY <1>1, <1>2, Committed
<1>4. UNCHANGED <<completions, progress, batches, heads, current, torn>>
  BY DEF disk, bounds
<1>5. RootTypes' BY <1>4 DEF Types, RootTypes
<1>6. CASE /\ pc'[c] = where /\ UNCHANGED locks
           /\ \A d \in Command \ {c} : Same(d)
           /\ held'[c] \in 1 .. Len(log')
  <2>1. /\ pairLock' # c /\ (screenLock' = c <=> pc'[c] \in {"settle", "head", "pointer"})
        /\ (\A s \in Size : fence'[s] # c) /\ LockTypes' /\ \A d \in Command : SameLocks(d)
    BY <1>6, KeptLocks DEF AtCell
  <2>2. Holds(c)' BY <1>6 DEF Holds
  <2>3. Sound(c)' BY <1>6, <2>1, <2>2, AwaySound DEF AtCell
  <2>4. Apart(c) BY <1>6, <2>1 DEF Apart
  <2>5. Types' BY <1>3, <1>5, <2>1 DEF Types
  <2> QED BY <1>3, <1>4, <2>3, <2>4, <2>5, QuietCells
<1>7. CASE Leave(c) /\ log' = log
  <2>1. LockTypes' /\ Apart(c) /\ Sound(c)' BY <1>7, Left
  <2>2. Types' BY <1>3, <1>5, <2>1 DEF Types
  <2> QED BY <1>3, <1>4, <2>1, <2>2, QuietCells
<1> QED BY <1>3, <1>6, <1>7

LEMMA HeldRevision ==
  ASSUME Cells, NEW c \in Command, pc[c] # "idle"
  PROVE  held[c] \in 1 .. Len(log) /\ log[held[c]] \in Revisions
<1>1. held[c] \in 1 .. Len(log)
  BY DEF Cells, Sound, Holds, Types, LocalTypes, LogTypes
<1> QED BY <1>1 DEF Cells, Types, LogTypes

LEMMA OpenCells == ASSUME Cells, NEW c \in Command, Open(c) PROVE Cells'
<1> DEFINE r == log[held[c]]
           r1 == [r EXCEPT !.kind = "open"]
           r2 == [r1 EXCEPT !.life = "active"]
<1>1. r \in Revisions BY HeldRevision DEF Open
<1>2. r1 \in Revisions BY <1>1, Revised DEF Kinds
<1>3. r2 \in Revisions BY <1>2, Revised
<1>4. [r2 EXCEPT !.frozen = FALSE] \in Revisions BY <1>3, Revised
<1>5. [r EXCEPT !.kind = "open", !.life = "active", !.frozen = FALSE] \in Revisions
  BY <1>4
<1> QED BY <1>5, CommitCells DEF Open

LEMMA RecordCells == ASSUME Cells, NEW c \in Command, RecordDiagnostic(c) PROVE Cells'
<1> DEFINE r == log[held[c]]
           r1 == [r EXCEPT !.kind = "record"]
           r2 == [r1 EXCEPT !.life = "complete"]
<1>1. r \in Revisions BY HeldRevision DEF RecordDiagnostic
<1>2. state[c] \in Histories BY DEF Cells, Types, LocalTypes
<1>3. r1 \in Revisions BY <1>1, Revised DEF Kinds
<1>4. r2 \in Revisions BY <1>3, Revised
<1>5. [r2 EXCEPT !.adopted = state[c]] \in Revisions BY <1>2, <1>4, Revised
<1>6. [r EXCEPT !.kind = "record", !.life = "complete", !.adopted = state[c]] \in Revisions
  BY <1>5
<1> QED BY <1>6, CommitCells DEF RecordDiagnostic

LEMMA ProposeCells == ASSUME Cells, NEW c \in Command, Propose(c) PROVE Cells'
<1> DEFINE r == log[held[c]]
           r1 == [r EXCEPT !.kind = "propose"]
<1>1. r \in Revisions BY HeldRevision DEF Propose
<1>2. r.design \cup {"auto"} \in Design BY <1>1 DEF Revisions, Design
<1>3. r1 \in Revisions BY <1>1, Revised DEF Kinds
<1>4. [r1 EXCEPT !.design = r.design \cup {"auto"}] \in Revisions BY <1>2, <1>3, Revised
<1>5. [r EXCEPT !.kind = "propose", !.design = r.design \cup {"auto"}] \in Revisions
  BY <1>4
<1> QED BY <1>5, CommitCells DEF Propose

(* The steps that change no lock, no evidence and no campaign. *)
LEMMA PlainCells ==
  ASSUME Cells, NEW c \in Command, LocalTypes', RootTypes',
         UNCHANGED <<locks, log, bounds, completions, progress>>,
         \A d \in Command \ {c} : Same(d),
         pc[c] \notin {"idle"} \cup AtCell, pc'[c] \notin {"cell"} \cup AtCell,
         pc'[c] \in {"settle", "head", "pointer"} <=> pc[c] \in {"settle", "head", "pointer"},
         held'[c] \in {held[c], Len(log)}
  PROVE  Cells'
<1> USE DEF Cells
<1>1. /\ pairLock' # c /\ (screenLock' = c <=> pc'[c] \in {"settle", "head", "pointer"})
      /\ (\A s \in Size : fence'[s] # c) /\ LockTypes' /\ \A d \in Command : SameLocks(d)
  BY KeptLocks DEF AtCell
<1>2. Holds(c)'
  <2>1. held[c] \in 1 .. Len(log) /\ Len(log) \in Nat BY HeldRevision DEF Types, LogTypes
  <2> QED BY <2>1 DEF Holds
<1>3. Sound(c)' BY <1>1, <1>2, AwaySound
<1>4. Apart(c) BY <1>1 DEF Apart
<1>5. Types' /\ Len(log) <= Len(log') /\ torn' = torn
  BY <1>1 DEF Types, LogTypes, bounds
<1> QED BY <1>3, <1>4, <1>5, QuietCells DEF AtCell

LEMMA LeftCells ==
  ASSUME Cells, NEW c \in Command, Leave(c), RootTypes', pc[c] # "progress",
         UNCHANGED <<log, completions, progress, bounds>>
  PROVE  Cells'
<1>1. LockTypes' /\ LocalTypes' /\ Apart(c) /\ Sound(c)' BY Left DEF Cells
<1>2. Types' /\ Len(log) <= Len(log') /\ torn' = torn
  BY <1>1 DEF Cells, Types, LogTypes, bounds
<1> QED BY <1>1, <1>2, QuietCells

LEMMA SameRoot ==
  ASSUME Cells, UNCHANGED <<disk, torn>> PROVE RootTypes'
BY DEF Cells, Types, RootTypes, disk

LEMMA BindCells == ASSUME Cells, NEW c \in Command, Bind(c) PROVE Cells'
<1> DEFINE r == log[held[c]]
           r1 == [r EXCEPT !.kind = "adopt"]
           r2 == [r1 EXCEPT !.life = "active"]
<1>1. r \in Revisions BY HeldRevision DEF Bind
<1>2. state[c] \in Histories BY DEF Cells, Types, LocalTypes
<1>3. r1 \in Revisions BY <1>1, Revised DEF Kinds
<1>4. r2 \in Revisions BY <1>3, Revised
<1>5. [r2 EXCEPT !.adopted = state[c]] \in Revisions BY <1>2, <1>4, Revised
<1>6. [r EXCEPT !.kind = "adopt", !.life = "active", !.adopted = state[c]] \in Revisions
  BY <1>5
<1>7. CASE Goto(c, "boundary") /\ UNCHANGED <<log, locks, locals>>
  <2>1. LocalTypes' BY <1>7 DEF Cells, Types, LocalTypes, Goto, Where, locals
  <2>2. RootTypes' BY SameRoot DEF Bind, bounds
  <2>3. \A d \in Command \ {c} : Same(d)
    BY <1>7 DEF Cells, Types, LocalTypes, Goto, locals, Same
  <2>4. pc'[c] = "boundary" /\ pc[c] = "bind" /\ held'[c] = held[c]
    BY <1>7 DEF Cells, Types, LocalTypes, Goto, Bind, locals
  <2> QED BY <1>7, <2>1, <2>2, <2>3, <2>4, PlainCells DEF Bind, disk, AtCell
<1>8. CASE Commit(c, [r EXCEPT !.kind = "adopt", !.life = "active", !.adopted = state[c]],
                  "boundary")
  BY <1>6, <1>8, CommitCells DEF Bind
<1> QED BY <1>7, <1>8 DEF Bind

(* The steps that read the campaign again. *)
LEMMA RereadCells ==
  ASSUME Cells, NEW c \in Command, NEW where \in {"bind", "record", "propose"},
         pc[c] \in {"refresh", "boundary", "install"},
         Refreshed(c, where), UNCHANGED <<disk, log, bounds>>
  PROVE  Cells'
<1>1. RootTypes' BY SameRoot DEF bounds
<1>2. CASE Leave(c) BY <1>1, <1>2, LeftCells DEF disk
<1>3. CASE ~Leave(c)
  <2>1. /\ pc'[c] = where /\ held'[c] = Len(log) /\ UNCHANGED locks
        /\ (\A d \in Command \ {c} : Same(d)) /\ LocalTypes'
    BY <1>3, Reread DEF Cells, Where
  <2> QED BY <1>1, <2>1, PlainCells DEF disk, AtCell
<1> QED BY <1>2, <1>3

LEMMA RefreshCells == ASSUME Cells, NEW c \in Command, Refresh(c) PROVE Cells'
BY RereadCells DEF Refresh

LEMMA FinishCells == ASSUME Cells, NEW c \in Command, Finish(c) PROVE Cells'
BY RereadCells DEF Finish

LEMMA InstallCells == ASSUME Cells, NEW c \in Command, Install(c) PROVE Cells'
<1>1. RootTypes' /\ UNCHANGED <<disk, log, bounds>> BY SameRoot DEF Install, bounds
<1>2. CASE Leave(c) BY <1>1, <1>2, LeftCells DEF disk, Install
<1>3. CASE ~Leave(c)
  <2>1. /\ held' = [held EXCEPT ![c] = Len(log)] /\ Goto(c, "propose") /\ pc[c] = "install"
        /\ UNCHANGED <<locks, baseline, state, got, made, batch, repairing>>
    BY <1>3 DEF Install
  <2>2. Len(log) \in Nat BY DEF Cells, Types, LogTypes
  <2>3. LocalTypes' BY <2>1, <2>2 DEF Cells, Types, LocalTypes, Goto, Where
  <2>4. \A d \in Command \ {c} : Same(d) BY <2>1 DEF Cells, Types, LocalTypes, Goto, Same
  <2>5. pc'[c] = "propose" /\ held'[c] = Len(log) BY <2>1 DEF Cells, Types, LocalTypes, Goto
  <2> QED BY <1>1, <2>1, <2>3, <2>4, <2>5, PlainCells DEF disk, AtCell
<1> QED BY <1>2, <1>3

LEMMA ReturnCells == ASSUME Cells, NEW c \in Command, Return(c) PROVE Cells'
BY SameRoot, LeftCells DEF Return, disk, bounds

LEMMA ReplayCells == ASSUME Cells, NEW c \in Command, Replay(c) PROVE Cells'
<1>1. CASE Leave(c) /\ UNCHANGED disk
  BY <1>1, SameRoot, LeftCells DEF Replay, disk, bounds
<1>2. CASE /\ screenLock' = c /\ current' = Tip(heads)
           /\ state' = [state EXCEPT ![c] = Tip(heads)] /\ Goto(c, "settle")
           /\ UNCHANGED <<completions, progress, batches, heads, pairLock, fence, held,
                          baseline, got, made, batch, repairing>>
  <2> USE DEF Cells
  <2>1. Tip(heads) \in Histories BY TipIsThere DEF Types, RootTypes
  <2>2. LocalTypes' BY <1>2, <2>1 DEF Types, LocalTypes, Goto, Where
  <2>3. pc[c] = "replay" /\ pc'[c] = "settle" /\ held'[c] = held[c] /\ screenLock = NoOne
        /\ UNCHANGED <<log, torn, starts, decisions>>
    BY <1>2 DEF Replay, Types, LocalTypes, Goto, bounds
  <2>4. Types'
    BY <1>2, <2>1, <2>2, <2>3 DEF Types, RootTypes, LockTypes, LogTypes
  <2>5. Apart(c)
    BY <1>2, <2>3, Bounds DEF Apart, Same, SameLocks, Types, LocalTypes, Goto
  <2>6. Holds(c) /\ Locks(c) BY DEF Sound
  <2>7. Holds(c)' BY <2>3, <2>6 DEF Holds
  <2>8. pairLock' # c /\ screenLock' = c /\ \A s \in Size : fence'[s] # c
    BY <1>2, <2>3, <2>6 DEF Locks, AtCell
  <2>9. Sound(c)' BY <2>3, <2>4, <2>7, <2>8, AwaySound DEF AtCell
  <2>10. Len(log) <= Len(log') BY <2>3 DEF Types, LogTypes
  <2> QED BY <1>2, <2>3, <2>4, <2>5, <2>9, <2>10, QuietCells
<1> QED BY <1>1, <1>2 DEF Replay

LEMMA SettleCells == ASSUME Cells, NEW c \in Command, Settle(c) PROVE Cells'
<1> USE DEF Cells
<1> DEFINE candidates == {h \in batches \ heads : Before(h) = state[c]}
           one == CHOOSE h \in candidates : TRUE
<1>1. pc[c] = "settle" /\ UNCHANGED <<disk, log, bounds>> BY DEF Settle
<1>2. RootTypes' BY <1>1, SameRoot DEF bounds
<1>3. CASE Leave(c) BY <1>1, <1>2, <1>3, LeftCells DEF disk
<1>4. CASE /\ screenLock' = NoOne
           /\ Goto(c, IF state[c] = <<>> THEN "boundary" ELSE "bind")
           /\ UNCHANGED <<pairLock, fence, locals>>
  <2>1. LocalTypes' /\ pc'[c] \in {"boundary", "bind"} /\ held'[c] = held[c]
    BY <1>4 DEF Types, LocalTypes, Goto, Where, locals
  <2>2. Types'
    BY <1>1, <1>2, <1>4, <2>1 DEF Types, LockTypes, LogTypes, bounds
  <2>3. Holds(c) /\ Locks(c) BY DEF Sound
  <2>4. Apart(c)
    BY <1>1, <1>4, <2>3, Bounds
    DEF Apart, Same, SameLocks, Types, LocalTypes, Goto, locals, Locks
  <2>5. Holds(c)' BY <1>1, <2>1, <2>3 DEF Holds
  <2>6. pairLock' # c /\ screenLock' # c /\ \A s \in Size : fence'[s] # c
    BY <1>1, <1>4, <2>3, Bounds DEF Locks, AtCell
  <2>7. Sound(c)' BY <2>1, <2>2, <2>5, <2>6, AwaySound DEF AtCell
  <2>8. Len(log) <= Len(log') BY <1>1 DEF Types, LogTypes
  <2> QED BY <1>1, <2>2, <2>4, <2>7, <2>8, QuietCells DEF disk, bounds
<1>5. CASE /\ Cardinality(candidates) = 1
           /\ batch' = [batch EXCEPT ![c] = one] /\ repairing' = repairing \cup {c}
           /\ Goto(c, "head")
           /\ UNCHANGED <<locks, held, baseline, state, got, made>>
  <2>1. candidates # {} BY <1>5, FS_EmptySet
  <2>2. one \in candidates BY <2>1
  <2>3. one \in Histories BY <2>2 DEF Types, RootTypes
  <2> HIDE DEF one
  <2>4. LocalTypes' BY <1>5, <2>3 DEF Types, LocalTypes, Goto, Where
  <2>5. \A d \in Command \ {c} : Same(d) BY <1>5 DEF Types, LocalTypes, Goto, Same
  <2>6. pc'[c] = "head" /\ held'[c] = held[c] BY <1>5 DEF Types, LocalTypes, Goto
  <2> QED BY <1>1, <1>2, <1>5, <2>4, <2>5, <2>6, PlainCells DEF disk, AtCell
<1> QED BY <1>3, <1>4, <1>5 DEF Settle

LEMMA RecoverCells == ASSUME Cells, NEW c \in Command, Recover(c) PROVE Cells'
<1> USE DEF Cells
<1> DEFINE found == At(progress, NextBoundary(c))
<1>1. pc[c] = "boundary" /\ ~Terminal(state[c]) /\ UNCHANGED <<disk, log, bounds>>
  BY DEF Recover
<1>2. RootTypes' BY <1>1, SameRoot DEF bounds
<1>3. CASE Leave(c) BY <1>1, <1>2, <1>3, LeftCells DEF disk
<1>4. CASE /\ got' = [got EXCEPT ![c] = found] /\ Goto(c, "cell")
           /\ UNCHANGED <<locks, held, baseline, state, made, batch, repairing>>
  <2>1. found \subseteq Record BY DEF Types, RootTypes, At
  <2>2. LocalTypes' BY <1>4, <2>1 DEF Types, LocalTypes, Goto, Where
  <2>3. pc'[c] = "cell" /\ got'[c] = found /\ state' = state /\ held' = held
    BY <1>4 DEF Types, LocalTypes, Goto
  <2>4. /\ pairLock' # c /\ (screenLock' = c <=> pc'[c] \in {"settle", "head", "pointer"})
        /\ (\A s \in Size : fence'[s] # c) /\ LockTypes' /\ \A d \in Command : SameLocks(d)
    BY <1>1, <1>4, <2>3, KeptLocks DEF AtCell
  <2>5. Types' BY <1>1, <1>2, <2>2, <2>4 DEF Types, LogTypes, bounds
  <2>6. Apart(c) BY <1>4, <2>4 DEF Apart, Same, Types, LocalTypes, Goto
  <2>7. Holds(c)' BY <1>1, <2>3 DEF Sound, Holds
  <2>8. ~Terminal(state'[c]) BY <1>1, <2>3
  <2>9. got'[c] \subseteq At(progress', Len(state'[c]) + 1)
    BY <1>1, <2>3 DEF disk, NextBoundary
  <2>10. Sound(c)' BY <2>3, <2>4, <2>5, <2>7, <2>8, <2>9, CellSound
  <2>11. Len(log) <= Len(log') BY <1>1 DEF Types, LogTypes
  <2> QED BY <1>1, <2>5, <2>6, <2>10, <2>11, QuietCells DEF disk, bounds
<1> QED BY <1>3, <1>4 DEF Recover

LEMMA FenceCells == ASSUME Cells, NEW c \in Command, Fence(c) PROVE Cells'
<1> USE DEF Cells
<1> DEFINE found == {r \in At(progress, 1) : r.size = NextSize(c)}
<1>1. /\ pc[c] = "cell" /\ Missing(c) # {} /\ NextBoundary(c) = 1 /\ fence[NextSize(c)] = NoOne
      /\ UNCHANGED <<disk, screenLock, pairLock, log, held, baseline, state, made, batch,
                     repairing, bounds>>
  BY DEF Fence
<1>2. RootTypes' BY <1>1, SameRoot DEF bounds
<1>3. Holds(c) /\ Trains(c) /\ Locks(c) BY DEF Sound
<1>4. NextSize(c) \in Size BY <1>1, MissingSizes
<1>5. ~Terminal(state[c]) /\ got[c] \subseteq At(progress, 1)
  BY <1>1, <1>3 DEF Trains
<1>6. Len(log) <= Len(log') BY <1>1 DEF Types, LogTypes
<1>7. UNCHANGED <<completions, progress, torn>> BY <1>1 DEF disk, bounds
<1>8. CASE /\ got' = [got EXCEPT ![c] = got[c] \cup found] /\ UNCHANGED <<fence, pc>>
  <2>1. found \subseteq At(progress, 1) /\ At(progress, 1) \subseteq Record
    BY DEF Types, RootTypes, At
  <2>2. LocalTypes' BY <1>1, <1>8, <2>1 DEF Types, LocalTypes
  <2>3. pc'[c] = "cell" /\ got'[c] = got[c] \cup found
    BY <1>1, <1>8 DEF Types, LocalTypes
  <2>4. pairLock' # c /\ screenLock' # c /\ \A s \in Size : fence'[s] # c
    BY <1>1, <1>3, <1>8 DEF Locks, AtCell
  <2>5. Types' BY <1>1, <1>2, <1>8, <2>2 DEF Types, LockTypes, LogTypes, bounds
  <2>6. Apart(c) BY <1>1, <1>8 DEF Apart, Same, SameLocks, Types, LocalTypes
  <2>7. Holds(c)' BY <1>1, <1>3, <1>8 DEF Holds
  <2>8. ~Terminal(state'[c]) BY <1>1, <1>5
  <2>9. got'[c] \subseteq At(progress', Len(state'[c]) + 1)
    BY <1>1, <1>5, <1>7, <2>1, <2>3 DEF NextBoundary
  <2>10. Sound(c)' BY <2>3, <2>4, <2>5, <2>7, <2>8, <2>9, CellSound
  <2> QED BY <1>1, <1>6, <1>7, <2>5, <2>6, <2>10, QuietCells
<1>9. CASE /\ found = {} /\ fence' = [fence EXCEPT ![NextSize(c)] = c]
           /\ Goto(c, "train") /\ UNCHANGED got
  <2>1. LocalTypes' BY <1>1, <1>9 DEF Types, LocalTypes, Goto, Where
  <2>2. pc'[c] = "train" BY <1>9 DEF Types, LocalTypes, Goto
  <2>3. Types' BY <1>1, <1>2, <1>9, <2>1 DEF Types, LockTypes, LogTypes, bounds
  <2>4. Apart(c)
    BY <1>1, <1>4, <1>9, Bounds DEF Apart, Same, SameLocks, Types, LocalTypes, LockTypes, Goto
  <2>5. /\ NextBoundary(c)' = NextBoundary(c) /\ Missing(c)' = Missing(c)
        /\ NextSize(c)' = NextSize(c)
    BY <1>1, <1>9, SameCell
  <2>6. Holds(c)' BY <1>1, <1>3, <2>2 DEF Holds
  <2>7. Terminal(state[c])' = Terminal(state[c]) BY <1>1
  <2>8. Trains(c)'
    BY <1>1, <1>5, <1>7, <1>9, <2>2, <2>5, <2>7 DEF Trains
  <2>9. Locks(c)'
    <3>1. \A s \in Size : fence'[s] = c <=> NextSize(c) = s
      BY <1>1, <1>3, <1>4, <1>9 DEF Locks, AtCell, Types, LockTypes
    <3>2. pairLock' # c /\ screenLock' # c BY <1>1, <1>3 DEF Locks
    <3> QED BY <1>1, <2>2, <2>5, <3>1, <3>2 DEF Locks, AtCell
  <2>10. Unaccepted(c)'
    BY <1>7, <1>9, <2>5 DEF Unaccepted, Sizes, At
  <2>11. Sound(c)' BY <2>6, <2>8, <2>9, <2>10 DEF Sound
  <2> QED BY <1>1, <1>6, <1>7, <2>3, <2>4, <2>11, QuietCells
<1> QED BY <1>8, <1>9 DEF Fence

LEMMA ContinueCells == ASSUME Cells, NEW c \in Command, Continue(c) PROVE Cells'
<1> USE DEF Cells
<1>1. /\ pc[c] = "cell" /\ Missing(c) # {} /\ NextBoundary(c) > 1 /\ Goto(c, "train")
      /\ UNCHANGED <<disk, locks, log, locals, bounds>>
  BY DEF Continue
<1>2. UNCHANGED <<completions, progress, batches, heads, current, torn, starts, decisions,
                  screenLock, pairLock, fence, held, baseline, state, got, made, batch, repairing>>
  BY <1>1 DEF disk, bounds, locks, locals
<1>3. LocalTypes' BY <1>1, <1>2 DEF Types, LocalTypes, Goto, Where
<1>4. pc'[c] = "train" BY <1>1 DEF Types, LocalTypes, Goto
<1>5. Types' BY <1>1, <1>2, <1>3 DEF Types, RootTypes, LockTypes, LogTypes
<1>6. Apart(c) BY <1>1, <1>2 DEF Apart, Same, SameLocks, Types, LocalTypes, Goto
<1>7. /\ NextBoundary(c)' = NextBoundary(c) /\ Missing(c)' = Missing(c)
      /\ NextSize(c)' = NextSize(c)
  BY <1>2, SameCell
<1>8. Holds(c) /\ Trains(c) /\ Locks(c) BY DEF Sound
<1>9. Terminal(state[c])' = Terminal(state[c]) BY <1>2
<1>10. Holds(c)' BY <1>1, <1>2, <1>4, <1>8 DEF Holds
<1>11. Trains(c)' BY <1>1, <1>2, <1>4, <1>7, <1>8, <1>9 DEF Trains
<1>12. NextBoundary(c) # 1
  <2>1. Len(state[c]) \in Nat BY DEF Types, LocalTypes, Histories
  <2> QED BY <1>1, <2>1 DEF NextBoundary
<1>13. Locks(c)'
  <2>1. pairLock # c /\ screenLock # c /\ \A s \in Size : fence[s] # c
    BY <1>1, <1>8 DEF Locks, AtCell
  <2> QED BY <1>2, <1>4, <1>7, <1>12, <2>1 DEF Locks
<1>14. Unaccepted(c)' BY <1>7, <1>12 DEF Unaccepted
<1>15. Sound(c)' BY <1>10, <1>11, <1>13, <1>14 DEF Sound
<1>16. Len(log) <= Len(log') BY <1>1 DEF Types, LogTypes
<1> QED BY <1>1, <1>2, <1>5, <1>6, <1>15, <1>16, QuietCells

LEMMA TrainCells == ASSUME Cells, NEW c \in Command, Train(c) PROVE Cells'
<1> USE DEF Cells
<1>1. PICK v \in Scores :
        made' = [made EXCEPT ![c] = {[at |-> NextBoundary(c), size |-> NextSize(c), score |-> v]}]
  BY DEF Train, Scores
<1>2. /\ pc[c] = "train" /\ Goto(c, "publish")
      /\ UNCHANGED <<disk, locks, log, held, baseline, state, got, batch, repairing, bounds>>
  BY DEF Train
<1>3. UNCHANGED <<completions, progress, batches, heads, current, torn, starts, decisions,
                  screenLock, pairLock, fence>>
  BY <1>2 DEF disk, bounds, locks
<1>4. Holds(c) /\ Trains(c) /\ Locks(c) /\ Unaccepted(c) BY DEF Sound
<1>5. Missing(c) # {} /\ ~Terminal(state[c]) /\ got[c] \subseteq At(progress, NextBoundary(c))
  BY <1>2, <1>4 DEF Trains, AtCell
<1>6. [at |-> NextBoundary(c), size |-> NextSize(c), score |-> v] \in Record
  BY <1>5, MissingSizes DEF Record, Scores
<1>7. LocalTypes' BY <1>1, <1>2, <1>6 DEF Types, LocalTypes, Goto, Where
<1>8. pc'[c] = "publish"
      /\ made'[c] = {[at |-> NextBoundary(c), size |-> NextSize(c), score |-> v]}
  BY <1>1, <1>2 DEF Types, LocalTypes, Goto
<1>9. Types' BY <1>2, <1>3, <1>7 DEF Types, RootTypes, LockTypes, LogTypes
<1>10. Apart(c) BY <1>1, <1>2, <1>3 DEF Apart, Same, SameLocks, Types, LocalTypes, Goto
<1>11. /\ NextBoundary(c)' = NextBoundary(c) /\ Missing(c)' = Missing(c)
       /\ NextSize(c)' = NextSize(c)
  BY <1>2, SameCell
<1>12. Terminal(state[c])' = Terminal(state[c]) BY <1>2
<1>13. Holds(c)' BY <1>2, <1>4, <1>8 DEF Holds
<1>14. Trains(c)' BY <1>2, <1>3, <1>5, <1>8, <1>11, <1>12 DEF Trains
<1>15. Locks(c)' BY <1>2, <1>3, <1>4, <1>8, <1>11 DEF Locks, AtCell
<1>16. Unaccepted(c)' BY <1>2, <1>3, <1>4, <1>8, <1>11 DEF Unaccepted, AtCell
<1>17. Sound(c)' BY <1>13, <1>14, <1>15, <1>16 DEF Sound
<1>18. Len(log) <= Len(log') BY <1>2 DEF Types, LogTypes
<1> QED BY <1>2, <1>3, <1>9, <1>10, <1>17, <1>18, QuietCells

(* The matrix of a complete boundary is made of the accepted cells. *)
LEMMA MatrixIsWhole ==
  ASSUME Cells, NEW c \in Command, pc[c] = "cell", Missing(c) = {}
  PROVE  /\ Matrix(c) \in [Active(state[c]) -> Scores]
         /\ \A s \in Active(state[c]) :
              \E r \in At(progress, NextBoundary(c)) : r.size = s /\ r.score = Matrix(c)[s]
         /\ Append(state[c], Matrix(c)) \in Histories
         /\ Before(Append(state[c], Matrix(c))) = state[c]
         /\ Len(Append(state[c], Matrix(c))) = Len(state[c]) + 1
         /\ Append(state[c], Matrix(c)) # <<>>
<1> USE DEF Cells
<1>1. ~Terminal(state[c]) /\ got[c] \subseteq At(progress, NextBoundary(c))
  BY DEF Sound, Trains
<1>2. state[c] \in Histories /\ got[c] \subseteq Record BY DEF Types, LocalTypes
<1> DEFINE of(s) == CHOOSE r \in got[c] : r.size = s
<1>3. ASSUME NEW s \in Active(state[c])
      PROVE  of(s) \in got[c] /\ of(s).size = s
  <2>1. \E r \in got[c] : r.size = s BY DEF Missing, Sizes
  <2> QED BY <2>1
<1>4. Matrix(c) = [s \in Active(state[c]) |-> of(s).score] BY DEF Matrix
<1> HIDE DEF of
<1>5. ASSUME NEW s \in Active(state[c])
      PROVE  Matrix(c)[s] = of(s).score /\ of(s).score \in Scores
  <2>1. of(s) \in Record BY <1>2, <1>3
  <2>2. of(s).score \in Scores BY <2>1 DEF Record, Scores
  <2> QED BY <1>4, <2>2
<1>6. Matrix(c) \in [Active(state[c]) -> Scores] BY <1>4, <1>5
<1> QED BY <1>1, <1>2, <1>3, <1>5, <1>6, Extended

LEMMA BatchCells == ASSUME Cells, NEW c \in Command, PutBatch(c) PROVE Cells'
<1> USE DEF Cells
<1> DEFINE h == Append(state[c], Matrix(c))
<1>1. /\ pc[c] = "cell" /\ Missing(c) = {} /\ screenLock = NoOne
      /\ UNCHANGED <<completions, progress, heads, current, log, bounds>>
  BY DEF PutBatch
<1>2. h \in Histories BY <1>1, MatrixIsWhole
<1> HIDE DEF h
<1>3. Holds(c) /\ Locks(c) BY DEF Sound
<1>4. UNCHANGED <<torn, starts, decisions>> BY <1>1 DEF bounds
<1>5. Len(log) <= Len(log') BY <1>1 DEF Types, LogTypes
<1>6. CASE /\ state' = [state EXCEPT ![c] = h] /\ got' = [got EXCEPT ![c] = {}]
           /\ Goto(c, "refresh")
           /\ UNCHANGED <<batches, locks, held, baseline, made, batch, repairing>>
  <2>1. LocalTypes' BY <1>2, <1>6 DEF Types, LocalTypes, Goto, Where
  <2>2. pc'[c] = "refresh" BY <1>6 DEF Types, LocalTypes, Goto
  <2>3. RootTypes' BY <1>1, <1>4, <1>6 DEF Types, RootTypes
  <2>4. \A d \in Command \ {c} : Same(d) BY <1>6 DEF Types, LocalTypes, Goto, Same
  <2> QED BY <1>1, <1>6, <2>1, <2>2, <2>3, <2>4, PlainCells DEF AtCell
<1>7. CASE Leave(c) /\ UNCHANGED batches
  <2>1. RootTypes' BY <1>1, <1>4, <1>7 DEF Types, RootTypes
  <2> QED BY <1>1, <1>7, <2>1, LeftCells
<1>8. CASE /\ batches' = batches \cup {h} /\ batch' = [batch EXCEPT ![c] = h]
           /\ screenLock' = c /\ Goto(c, "head")
           /\ UNCHANGED <<pairLock, fence, held, baseline, state, got, made, repairing>>
  <2>1. LocalTypes' BY <1>2, <1>8 DEF Types, LocalTypes, Goto, Where
  <2>2. pc'[c] = "head" BY <1>8 DEF Types, LocalTypes, Goto
  <2>3. Types'
    BY <1>1, <1>2, <1>4, <1>8, <2>1 DEF Types, RootTypes, LockTypes, LogTypes
  <2>4. Apart(c)
    BY <1>1, <1>8, Bounds DEF Apart, Same, SameLocks, Types, LocalTypes, Goto
  <2>5. Holds(c)' BY <1>1, <1>3, <1>8, <2>2 DEF Holds
  <2>6. pairLock' # c /\ screenLock' = c /\ \A s \in Size : fence'[s] # c
    BY <1>1, <1>3, <1>8 DEF Locks, AtCell
  <2>7. Sound(c)' BY <2>2, <2>3, <2>5, <2>6, AwaySound DEF AtCell
  <2> QED BY <1>1, <1>4, <1>5, <2>3, <2>4, <2>7, QuietCells
<1> QED BY <1>6, <1>7, <1>8 DEF PutBatch, h

LEMMA HeadCells == ASSUME Cells, NEW c \in Command, PutHead(c) PROVE Cells'
<1> USE DEF Cells
<1>1. /\ pc[c] = "head" /\ heads' = heads \cup {batch[c]} /\ Goto(c, "pointer")
      /\ UNCHANGED <<completions, progress, batches, current, locks, log, locals, bounds>>
  BY DEF PutHead
<1>2. UNCHANGED <<held, baseline, state, got, made, batch, repairing, torn>>
  BY <1>1 DEF locals, bounds
<1>3. LocalTypes' BY <1>1, <1>2 DEF Types, LocalTypes, Goto, Where
<1>4. batch[c] \in Histories BY DEF Types, LocalTypes
<1>5. RootTypes' BY <1>1, <1>2, <1>4 DEF Types, RootTypes
<1>6. \A d \in Command \ {c} : Same(d) BY <1>1, <1>2 DEF Types, LocalTypes, Goto, Same
<1>7. pc'[c] = "pointer" BY <1>1 DEF Types, LocalTypes, Goto
<1> QED BY <1>1, <1>2, <1>3, <1>5, <1>6, <1>7, PlainCells DEF AtCell

LEMMA CurrentCells == ASSUME Cells, NEW c \in Command, PutCurrent(c) PROVE Cells'
<1> USE DEF Cells
<1>1. /\ pc[c] = "pointer" /\ current' = batch[c]
      /\ state' = [state EXCEPT ![c] = batch[c]]
      /\ batch' = [batch EXCEPT ![c] = <<>>]
      /\ got' = [got EXCEPT ![c] = {}]
      /\ repairing' = repairing \ {c}
      /\ UNCHANGED <<completions, progress, batches, heads, pairLock, fence, log, held,
                     baseline, made, bounds>>
      /\ \/ Goto(c, "settle") /\ UNCHANGED screenLock
         \/ Goto(c, "refresh") /\ screenLock' = NoOne
  BY DEF PutCurrent
<1>2. <<>> \in Histories /\ batch[c] \in Histories
  BY BlankHistory DEF Types, LocalTypes
<1>3. LocalTypes' BY <1>1, <1>2 DEF Types, LocalTypes, Goto, Where
<1>4. Types'
  BY <1>1, <1>2, <1>3 DEF Types, RootTypes, LockTypes, LogTypes, bounds
<1>5. Holds(c) /\ Locks(c) BY DEF Sound
<1>6. pc'[c] \in {"settle", "refresh"} BY <1>1 DEF Types, LocalTypes, Goto
<1>7. /\ pairLock' # c
      /\ (screenLock' = c <=> pc'[c] \in {"settle", "head", "pointer"})
      /\ \A s \in Size : fence'[s] # c
  BY <1>1, <1>5, Bounds DEF Locks, AtCell, Types, LocalTypes, Goto
<1>8. Apart(c)
  BY <1>1, <1>5, Bounds DEF Apart, Same, SameLocks, Types, LocalTypes, Goto, Locks
<1>9. Holds(c)' BY <1>1, <1>5 DEF Holds
<1>10. Sound(c)' BY <1>4, <1>6, <1>7, <1>9, AwaySound DEF AtCell
<1>11. Len(log) <= Len(log') BY <1>1 DEF Types, LogTypes
<1> QED BY <1>1, <1>4, <1>8, <1>10, <1>11, QuietCells DEF bounds

-----------------------------------------------------------------------------
(* The pair of a completion and its progress pointer.                      *)

LEMMA CompletionCells == ASSUME Cells, NEW c \in Command, PutCompletion(c) PROVE Cells'
<1> USE DEF Cells
<1> DEFINE taken == UNION {Of(progress, r) : r \in made[c]}
<1>1. /\ pc[c] = "publish" /\ pairLock = NoOne
      /\ UNCHANGED <<progress, batches, heads, current, log, bounds>>
  BY DEF PutCompletion
<1>2. UNCHANGED <<torn, starts, decisions>> BY <1>1 DEF bounds
<1>3. CASE Leave(c) /\ UNCHANGED completions
  <2>1. RootTypes' BY <1>1, <1>2, <1>3 DEF Types, RootTypes
  <2> QED BY <1>1, <1>3, <2>1, LeftCells
<1>4. CASE /\ taken \subseteq made[c] /\ completions' = completions \cup made[c]
           /\ pairLock' = c /\ Goto(c, "progress") /\ UNCHANGED <<screenLock, fence, locals>>
  <2>1. UNCHANGED <<held, baseline, state, got, made, batch, repairing>> BY <1>4 DEF locals
  <2>2. LocalTypes' BY <1>4, <2>1 DEF Types, LocalTypes, Goto, Where
  <2>3. Types'
    BY <1>1, <1>2, <1>4, <2>1, <2>2 DEF Types, RootTypes, LockTypes, LogTypes, LocalTypes
  <2>4. pc'[c] = "progress" BY <1>4 DEF Types, LocalTypes, Goto
  <2>5. Holds(c) /\ Trains(c) /\ Locks(c) /\ Unaccepted(c) BY DEF Sound
  <2>6. /\ NextBoundary(c)' = NextBoundary(c) /\ Missing(c)' = Missing(c)
        /\ NextSize(c)' = NextSize(c)
    BY <2>1, SameCell
  <2>7. Terminal(state[c])' = Terminal(state[c]) BY <2>1
  <2>8. Trains(c)'
    <3>1. \A r \in made[c] : Of(progress, r) \subseteq made[c] BY <1>4
    <3>2. \A r \in made'[c] : Of(progress', r) \subseteq made'[c]
      BY <1>1, <2>1, <3>1
    <3>3. made'[c] \subseteq completions' BY <1>4, <2>1
    <3> HIDE DEF taken
    <3> QED BY <1>1, <2>1, <2>4, <2>5, <2>6, <2>7, <3>2, <3>3 DEF Trains, AtCell
  <2>9. Locks(c)' BY <1>1, <1>4, <2>4, <2>5, <2>6 DEF Locks, AtCell
  <2>10. Unaccepted(c)' BY <1>1, <2>4, <2>5, <2>6 DEF Unaccepted, AtCell
  <2>11. Holds(c)' BY <1>1, <2>1, <2>4, <2>5 DEF Holds
  <2>12. Sound(c)' BY <2>8, <2>9, <2>10, <2>11 DEF Sound
  <2>13. ASSUME NEW d \in Command \ {c} PROVE Sound(d)'
    <3>1. Same(d) BY <1>4, <2>1 DEF Same, Types, LocalTypes, Goto
    <3>2. SameLocks(d) BY <1>1, <1>4, Bounds DEF SameLocks
    <3>3. NewElsewhere(d) BY <1>1 DEF NewElsewhere
    <3>4. Len(log) <= Len(log') BY <1>1 DEF Types, LogTypes
    <3> QED BY <1>1, <1>4, <2>3, <3>1, <3>2, <3>3, <3>4, OthersSound
  <2>14. OneScorePerCell'
    <3>1. completions \ (progress \cup torn) = {}
      BY <1>1, Bounds DEF OneScorePerCell
    <3>2. OneEach(progress) /\ progress \subseteq completions BY DEF OneScorePerCell
    <3>3. completions' \ (progress' \cup torn') \subseteq made'[c]
      BY <1>1, <1>2, <1>4, <2>1, <3>1
    <3>4. OneEach(progress') /\ progress' \subseteq completions' BY <1>1, <1>4, <3>2
    <3> QED BY <1>4, <3>3, <3>4 DEF OneScorePerCell
  <2> QED BY <2>3, <2>12, <2>13, <2>14
<1> QED BY <1>3, <1>4 DEF PutCompletion

LEMMA ProgressCells == ASSUME Cells, NEW c \in Command, PutProgress(c) PROVE Cells'
<1> USE DEF Cells
<1>1. /\ pc[c] = "progress" /\ UNCHANGED <<completions, batches, heads, current, log, bounds>>
  BY DEF PutProgress
<1>2. UNCHANGED <<torn, starts, decisions>> BY <1>1 DEF bounds
<1>3. Holds(c) /\ Trains(c) /\ Locks(c) /\ Unaccepted(c) BY DEF Sound
<1>4. PICK v \in Scores :
        made[c] = {[at |-> NextBoundary(c), size |-> NextSize(c), score |-> v]}
  BY <1>1, <1>3 DEF Trains
<1> DEFINE r0 == [at |-> NextBoundary(c), size |-> NextSize(c), score |-> v]
<1>5. made[c] = {r0} /\ r0.at = NextBoundary(c) /\ r0.size = NextSize(c)
  BY <1>4
<1> HIDE DEF r0
<1>6. r0 \in completions /\ Of(progress, r0) \subseteq {r0}
  BY <1>1, <1>3, <1>5 DEF Trains
<1>7. ~Terminal(state[c]) /\ got[c] \subseteq At(progress, NextBoundary(c))
  BY <1>1, <1>3 DEF Trains, AtCell
<1>8. /\ progress' = progress \cup {r0}
      /\ got' = [got EXCEPT ![c] = got[c] \cup {r0}] /\ made' = [made EXCEPT ![c] = {}]
      /\ pairLock' = NoOne
      /\ fence' = [s \in Size |-> IF fence[s] = c THEN NoOne ELSE fence[s]]
      /\ Goto(c, "cell") /\ UNCHANGED <<screenLock, held, baseline, state, batch, repairing>>
  BY <1>5, <1>6 DEF PutProgress
<1>9. r0 \in Record BY <1>6 DEF Types, RootTypes
<1>10. LocalTypes' BY <1>8, <1>9 DEF Types, LocalTypes, Goto, Where
<1>11. Types'
  BY <1>1, <1>2, <1>8, <1>9, <1>10 DEF Types, RootTypes, LockTypes, LogTypes
<1>12. Sound(c)'
  <2>1. pc'[c] = "cell" /\ got'[c] = got[c] \cup {r0} /\ state'[c] = state[c]
    BY <1>8 DEF Types, LocalTypes, Goto
  <2>2. Holds(c)' BY <1>1, <1>3, <1>8 DEF Holds
  <2>3. pairLock' # c /\ screenLock' # c /\ \A s \in Size : fence'[s] # c
    BY <1>1, <1>3, <1>8, Bounds DEF Locks
  <2>4. got'[c] \subseteq At(progress', Len(state'[c]) + 1)
    BY <1>5, <1>7, <1>8, <2>1 DEF At, NextBoundary
  <2>5. ~Terminal(state'[c]) BY <1>7, <2>1
  <2> QED BY <1>11, <2>1, <2>2, <2>3, <2>4, <2>5, CellSound
<1>13. ASSUME NEW d \in Command \ {c} PROVE Sound(d)'
  <2>1. Same(d) BY <1>8 DEF Same, Types, LocalTypes, Goto
  <2>2. Locks(d) BY DEF Sound
  <2>3. pc[d] # "progress" BY <1>1, <1>3, <2>2 DEF Locks
  <2>4. SameLocks(d) BY <1>1, <1>3, <1>8, Bounds DEF SameLocks, Locks
  <2>5. NewElsewhere(d)
    <3> SUFFICES ASSUME pc[d] \in AtCell, NextBoundary(d) = 1, r0.at = 1, r0.size = NextSize(d)
                 PROVE  FALSE
      BY <1>8 DEF NewElsewhere
    <3>1. NextSize(c) \in Size BY <1>1, <1>3, MissingSizes DEF Trains, AtCell
    <3>2. fence[NextSize(c)] = c BY <1>1, <1>3, <1>5, <3>1 DEF Locks, AtCell
    <3>3. fence[NextSize(c)] = d BY <1>5, <2>2, <3>1 DEF Locks
    <3> QED BY <3>2, <3>3
  <2>6. Len(log) <= Len(log') BY <1>1 DEF Types, LogTypes
  <2> QED BY <1>1, <1>8, <1>11, <2>1, <2>3, <2>4, <2>5, <2>6, OthersSound
<1>14. OneScorePerCell'
  <2>1. OneEach(progress) /\ progress \subseteq completions BY DEF OneScorePerCell
  <2>2. completions \ (progress \cup torn) \subseteq {r0}
    BY <1>1, <1>3, <1>5 DEF OneScorePerCell, Locks
  <2>3. completions' \ (progress' \cup torn') = {} BY <1>1, <1>2, <1>8, <2>2
  <2>4. progress' \subseteq completions' BY <1>1, <1>6, <1>8, <2>1
  <2>5. OneEach(progress')
    <3> SUFFICES ASSUME NEW r \in progress' PROVE Of(progress', r) = {r}
      BY DEF OneEach
    <3>1. CASE r = r0
      BY <1>6, <1>8, <3>1 DEF Of
    <3>2. CASE r \in progress /\ r # r0
      <4>1. Of(progress, r) = {r} BY <2>1, <3>2 DEF OneEach
      <4>2. ~(r0.size = r.size /\ r0.at = r.at) BY <1>6, <3>2 DEF Of
      <4> QED BY <1>8, <4>1, <4>2 DEF Of
    <3> QED BY <1>8, <3>1, <3>2
  <2> QED BY <2>3, <2>4, <2>5 DEF OneScorePerCell
<1> QED BY <1>11, <1>12, <1>13, <1>14

LEMMA CrashCells == ASSUME Cells, NEW c \in Command, Crash(c) PROVE Cells'
<1> USE DEF Cells
<1>1. /\ Leave(c) /\ UNCHANGED <<disk, log, starts, decisions>>
      /\ torn' = IF pc[c] = "progress" THEN torn \cup (made[c] \ progress) ELSE torn
  BY DEF Crash
<1>2. UNCHANGED <<completions, progress, batches, heads, current>> BY <1>1 DEF disk
<1>3. CASE pc[c] # "progress"
  <2>1. torn' = torn BY <1>1, <1>3
  <2> QED BY <1>1, <1>2, <1>3, <2>1, SameRoot, LeftCells DEF bounds
<1>4. CASE pc[c] = "progress"
  <2>1. torn' = torn \cup (made[c] \ progress) BY <1>1, <1>4
  <2>2. LockTypes' /\ LocalTypes' /\ Apart(c) /\ Sound(c)' BY <1>1, Left
  <2>3. Types' BY <1>1, <1>2, <2>1, <2>2 DEF Types, RootTypes, LogTypes, LocalTypes
  <2>4. ASSUME NEW d \in Command \ {c} PROVE Sound(d)'
    <3>1. Same(d) /\ SameLocks(d) BY <2>2 DEF Apart
    <3>2. NewElsewhere(d) BY <1>2 DEF NewElsewhere
    <3>3. Len(log) <= Len(log') BY <1>1 DEF Types, LogTypes
    <3> QED BY <1>2, <2>3, <3>1, <3>2, <3>3, OthersSound
  <2>5. OneScorePerCell'
    <3>1. completions \ (progress \cup torn) \subseteq made[c]
      BY <1>4 DEF OneScorePerCell, Sound, Locks
    <3>2. completions' \ (progress' \cup torn') = {} BY <1>2, <2>1, <3>1
    <3> QED BY <1>2, <3>2 DEF OneScorePerCell
  <2> QED BY <2>2, <2>3, <2>4, <2>5
<1> QED BY <1>3, <1>4

-----------------------------------------------------------------------------
(* The operator, the start, and every step.                                *)

(* Nothing of the root, the locks or the commands changes. *)
LEMMA IdleCells ==
  ASSUME Cells, UNCHANGED <<disk, locks, pc, locals, torn>>, LogTypes', Len(log) <= Len(log')
  PROVE  Cells'
<1>1. UNCHANGED <<completions, progress, batches, heads, current, screenLock, pairLock, fence,
                  held, baseline, state, got, made, batch, repairing, pc, torn>>
  BY DEF disk, locks, locals
<1>2. Types' BY <1>1 DEF Cells, Types, RootTypes, LockTypes, LocalTypes
<1>3. ASSUME NEW d \in Command PROVE Sound(d)'
  <2>1. Same(d) /\ SameLocks(d) /\ NewElsewhere(d)
    BY <1>1 DEF Same, SameLocks, NewElsewhere
  <2> QED BY <1>1, <1>2, <2>1, OthersSound
<1>4. OneScorePerCell' BY <1>1 DEF Cells, OneScorePerCell
<1> QED BY <1>2, <1>3, <1>4 DEF Cells

LEMMA DecideCells ==
  ASSUME Cells, NEW revision \in Revisions, Decide(revision) PROVE Cells'
<1>1. log \in Seq(Revisions) /\ Len(log) \in Nat BY DEF Cells, Types, LogTypes
<1>2. log' \in Seq(Revisions) /\ Len(log') = Len(log) + 1 /\ log' # <<>>
  BY <1>1, AppendCut DEF Decide
<1>3. LogTypes'
  BY <1>2, ScreenAssumption DEF Decide, Cells, Types, LogTypes
<1> QED BY <1>1, <1>2, <1>3, IdleCells DEF Decide

LEMMA NewestRevision ==
  ASSUME Types
  PROVE  Revision \in Revisions /\ Len(log) \in Nat \ {0} /\ Revision = log[Len(log)]
<1>1. Len(log) \in Nat \ {0} BY EmptySeq DEF Types, LogTypes
<1> QED BY <1>1 DEF Types, LogTypes, Revision

LEMMA FreshRevision == Fresh \in Revisions
BY BlankHistory DEF Fresh, Revisions, Kinds, Design

LEMMA OperatorCells ==
  ASSUME Cells, Choose \/ Reset \/ Freeze \/ Prepare PROVE Cells'
<1> DEFINE r == Revision
<1>1. r \in Revisions /\ r.design \in Design
  BY NewestRevision DEF Cells, Revisions
<1>2. CASE Choose
  <2> DEFINE r1 == [r EXCEPT !.kind = "propose"]
  <2>1. r1 \in Revisions BY <1>1, Revised DEF Kinds
  <2>2. r1.design = r.design BY <1>1 DEF Revisions
  <2>3. r1.design \cup {"manual"} \in Design BY <1>1, <2>2 DEF Design
  <2>4. [r1 EXCEPT !.design = r1.design \cup {"manual"}] \in Revisions BY <2>1, <2>3, Revised
  <2>5. [r EXCEPT !.kind = "propose", !.design = @ \cup {"manual"}] \in Revisions
    BY <2>4
  <2> QED BY <1>2, <2>5, DecideCells DEF Choose
<1>3. CASE Reset
  <2> DEFINE r1 == [r EXCEPT !.kind = "reset"]
  <2>1. r1 \in Revisions BY <1>1, Revised DEF Kinds
  <2>2. [r1 EXCEPT !.design = {}] \in Revisions BY <2>1, Revised DEF Design
  <2>3. [r EXCEPT !.kind = "reset", !.design = {}] \in Revisions BY <2>2
  <2> QED BY <1>3, <2>3, DecideCells DEF Reset
<1>4. CASE Freeze
  <2> DEFINE r1 == [r EXCEPT !.kind = "freeze"]
  <2>1. r1 \in Revisions BY <1>1, Revised DEF Kinds
  <2>2. [r1 EXCEPT !.frozen = TRUE] \in Revisions BY <2>1, Revised
  <2>3. [r EXCEPT !.kind = "freeze", !.frozen = TRUE] \in Revisions BY <2>2
  <2> QED BY <1>4, <2>3, DecideCells DEF Freeze
<1>5. CASE Prepare
  <2> DEFINE r1 == [Fresh EXCEPT !.kind = "advance"]
  <2>1. r1 \in Revisions BY FreshRevision, Revised DEF Kinds
  <2>2. r.generation + 1 \in Nat BY <1>1 DEF Revisions
  <2>3. [r1 EXCEPT !.generation = r.generation + 1] \in Revisions
    BY <2>1, <2>2 DEF Revisions
  <2>4. [Fresh EXCEPT !.kind = "advance", !.generation = r.generation + 1] \in Revisions
    BY <2>3
  <2> QED BY <1>5, <2>4, DecideCells DEF Prepare
<1> QED BY <1>2, <1>3, <1>4, <1>5

LEMMA InitCells == ASSUME Init PROVE Cells
<1>1. Types
  <2>1. <<Fresh>> \in Seq(Revisions) /\ <<Fresh>> # <<>> BY FreshRevision
  <2> QED BY <2>1, BlankHistory, ScreenAssumption
      DEF Init, Types, RootTypes, LockTypes, LogTypes, LocalTypes, Where, Design
<1>2. OneScorePerCell BY DEF Init, OneScorePerCell, OneEach
<1>3. ASSUME NEW c \in Command PROVE Sound(c)
  <2>1. /\ pc[c] = "idle" /\ held[c] = 0 /\ pairLock # c /\ screenLock # c
        /\ \A s \in Size : fence[s] # c
    BY Bounds DEF Init
  <2>2. Holds(c) BY <1>1, <2>1 DEF Holds, Types, LogTypes
  <2>3. Trains(c) BY <2>1 DEF Trains, AtCell
  <2>4. Locks(c) BY <2>1 DEF Locks, AtCell
  <2>5. Unaccepted(c) BY <2>1 DEF Unaccepted, AtCell
  <2> QED BY <2>2, <2>3, <2>4, <2>5 DEF Sound
<1> QED BY <1>1, <1>2, <1>3 DEF Cells

LEMMA NextCells == ASSUME Cells, [Next]_vars PROVE Cells'
<1>1. ASSUME NEW c \in Command, Step(c) PROVE Cells'
  BY <1>1, OpenCells, ReplayCells, SettleCells, RecoverCells, FenceCells, ContinueCells,
     TrainCells, CompletionCells, ProgressCells, BatchCells, HeadCells, CurrentCells,
     RefreshCells, BindCells, FinishCells, RecordCells, InstallCells, ProposeCells,
     ReturnCells DEF Step
<1>2. CASE UNCHANGED vars
  <2>1. LogTypes' /\ Len(log) <= Len(log')
    BY <1>2 DEF vars, Cells, Types, LogTypes, bounds
  <2> QED BY <1>2, <2>1, IdleCells DEF vars, bounds
<1> QED BY <1>1, <1>2, StartCells, CrashCells, OperatorCells DEF Next

(* The invariant says what the property says. *)
LEMMA CellsGuarantee == ASSUME Cells PROVE CellsAreExclusive
<1> USE DEF Cells
<1>1. TypeOK
  <2>1. \A h \in batches \cup heads \cup {current} : IsHistory(h)
    BY DEF Types, RootTypes, Histories
  <2>2. ASSUME NEW i \in DOMAIN log
        PROVE  /\ log[i].generation \in Nat /\ log[i].life \in {"bound", "active", "complete"}
               /\ IsHistory(log[i].adopted)
               /\ log[i].design \subseteq {"manual", "auto"} /\ log[i].frozen \in BOOLEAN
    <3>1. log[i] \in Revisions BY DEF Types, LogTypes
    <3> QED BY <3>1 DEF Revisions, Histories, Design
  <2>3. ASSUME NEW c \in Command
        PROVE  /\ held[c] \in 0 .. Len(log) /\ baseline[c] \subseteq {"manual", "auto"}
               /\ IsHistory(state[c]) /\ IsHistory(batch[c])
               /\ got[c] \subseteq Record /\ made[c] \subseteq Record
    <3>1. held[c] \in 0 .. Len(log) BY DEF Sound, Holds, Types, LocalTypes, LogTypes
    <3> QED BY <3>1 DEF Types, LocalTypes, Histories, Design
  <2> QED BY <2>1, <2>2, <2>3 DEF TypeOK, Types, RootTypes, LockTypes, LogTypes, LocalTypes
<1>2. FirstRungIsFenced
  <2> SUFFICES ASSUME NEW c \in Command, pc[c] = "train", NextBoundary(c) = 1
               PROVE  /\ NextSize(c) \notin Sizes(At(progress, 1))
                      /\ \A d \in Command \ {c} :
                           (pc[d] \in AtCell /\ NextBoundary(d) = 1) => NextSize(d) # NextSize(c)
    BY DEF FirstRungIsFenced, AtCell
  <2>1. Trains(c) /\ Locks(c) /\ Unaccepted(c) BY DEF Sound
  <2>2. NextSize(c) \in Size BY <2>1, MissingSizes DEF Trains, AtCell
  <2>3. fence[NextSize(c)] = c BY <2>1, <2>2 DEF Locks, AtCell
  <2>4. ASSUME NEW d \in Command \ {c}, pc[d] \in AtCell, NextBoundary(d) = 1
        PROVE  NextSize(d) # NextSize(c)
    <3>1. Locks(d) BY DEF Sound
    <3> QED BY <2>2, <2>3, <2>4, <3>1 DEF Locks
  <2> QED BY <2>1, <2>4 DEF Unaccepted, AtCell
<1> QED BY <1>1, <1>2 DEF CellsAreExclusive

(* Any number of commands may train one cell and any of them may die: one   *)
(* score of it is accepted, a loser leaves no completion, and whoever clears *)
(* and trains a cell of the first rung is alone and finds none of it        *)
(* accepted (_execute_candidate_cell, record_candidate_boundary_outcome).   *)
THEOREM CellsStayExclusive == Spec => []CellsAreExclusive
<1>1. Init => Cells BY InitCells
<1>2. Cells /\ [Next]_vars => Cells' BY NextCells
<1>3. Cells => CellsAreExclusive BY CellsGuarantee
<1> QED BY <1>1, <1>2, <1>3, PTL DEF Spec

-----------------------------------------------------------------------------
(* What the steps of a command leave alone.                                *)

Commanded(c) == Start(c) \/ Step(c) \/ Crash(c)

(* The steps that write none of the committed files and take no commit lock. *)
Aside(c) ==
  \/ Start(c) \/ Open(c) \/ Recover(c) \/ Fence(c) \/ Continue(c) \/ Train(c)
  \/ PutCompletion(c) \/ PutProgress(c) \/ Refresh(c) \/ Bind(c) \/ Finish(c)
  \/ RecordDiagnostic(c) \/ Install(c) \/ Propose(c) \/ Return(c) \/ Crash(c)

LEMMA LeaveElsewhere ==
  ASSUME Types, NEW c \in Command, Leave(c)
  PROVE  /\ \A d \in Command \ {c} : Same(d)
         /\ pc'[c] = "idle" /\ state'[c] = <<>>
BY DEF Types, LocalTypes, Leave, Blank, Same

LEMMA CommitElsewhere ==
  ASSUME Types, NEW c \in Command, NEW revision,
         NEW where \in {"replay", "boundary", "install", "done"}, Commit(c, revision, where)
  PROVE  /\ \A d \in Command \ {c} : Same(d)
         /\ pc'[c] \in {"idle", where} /\ state'[c] \in {state[c], <<>>}
<1>1. CASE Leave(c) BY <1>1, LeaveElsewhere
<1>2. CASE ~Leave(c)
  <2>1. /\ held' = [held EXCEPT ![c] = Len(log) + 1] \/ held' = [held EXCEPT ![c] = held[c] + 1]
        /\ Goto(c, where) /\ UNCHANGED <<baseline, state, got, made, batch, repairing>>
    BY <1>2 DEF Commit
  <2> QED BY <2>1 DEF Types, LocalTypes, Goto, Same
<1> QED BY <1>1, <1>2

LEMMA RereadElsewhere ==
  ASSUME Types, NEW c \in Command, NEW where \in {"bind", "record"}, Refreshed(c, where)
  PROVE  /\ \A d \in Command \ {c} : Same(d)
         /\ pc'[c] \in {"idle", where} /\ state'[c] \in {state[c], <<>>}
<1>1. CASE Leave(c) BY <1>1, LeaveElsewhere
<1>2. CASE ~Leave(c)
  <2>1. /\ held' = [held EXCEPT ![c] = Len(log)]
        /\ Goto(c, where) /\ UNCHANGED <<baseline, state, got, made, batch, repairing>>
    BY <1>2 DEF Refreshed
  <2> QED BY <2>1 DEF Types, LocalTypes, Goto, Same
<1> QED BY <1>1, <1>2

Committing == {"settle", "head", "pointer"}

LEMMA AsideKeeps ==
  ASSUME Types, NEW c \in Command, Aside(c)
  PROVE  /\ \A d \in Command \ {c} : Same(d)
         /\ pc'[c] \notin Committing /\ state'[c] \in {state[c], <<>>}
         /\ UNCHANGED <<batches, heads, current>> /\ progress \subseteq progress'
<1> DEFINE Kept == /\ \A d \in Command \ {c} : Same(d)
                   /\ pc'[c] \notin Committing /\ state'[c] \in {state[c], <<>>}
                   /\ UNCHANGED <<batches, heads, current>> /\ progress \subseteq progress'
<1>1. ASSUME Start(c) PROVE Kept
  BY <1>1 DEF Start, Types, LocalTypes, Goto, Same, disk, Committing
<1>2. ASSUME Open(c) PROVE Kept
  BY <1>2, CommitElsewhere DEF Open, disk, Committing
<1>3. ASSUME Recover(c) PROVE Kept
  <2>1. CASE Leave(c) BY <1>3, <2>1, LeaveElsewhere DEF Recover, disk, Committing
  <2>2. CASE ~Leave(c)
    BY <1>3, <2>2 DEF Recover, Types, LocalTypes, Goto, Same, disk, Committing
  <2> QED BY <2>1, <2>2
<1>4. ASSUME Fence(c) PROVE Kept
  BY <1>4 DEF Fence, Types, LocalTypes, Goto, Same, disk, Committing
<1>5. ASSUME Continue(c) PROVE Kept
  BY <1>5 DEF Continue, Types, LocalTypes, Goto, Same, disk, locals, Committing
<1>6. ASSUME Train(c) PROVE Kept
  BY <1>6 DEF Train, Types, LocalTypes, Goto, Same, disk, Committing
<1>7. ASSUME PutCompletion(c) PROVE Kept
  <2>1. CASE Leave(c) BY <1>7, <2>1, LeaveElsewhere DEF PutCompletion, Committing
  <2>2. CASE ~Leave(c)
    BY <1>7, <2>2 DEF PutCompletion, Types, LocalTypes, Goto, Same, locals, Committing
  <2> QED BY <2>1, <2>2
<1>8. ASSUME PutProgress(c) PROVE Kept
  <2>1. CASE Leave(c) /\ UNCHANGED progress
    BY <1>8, <2>1, LeaveElsewhere DEF PutProgress, Committing
  <2>2. CASE ~(Leave(c) /\ UNCHANGED progress)
    BY <1>8, <2>2 DEF PutProgress, Types, LocalTypes, Goto, Same, Committing
  <2> QED BY <2>1, <2>2
<1>9. ASSUME Refresh(c) PROVE Kept
  BY <1>9, RereadElsewhere DEF Refresh, disk, Committing
<1>10. ASSUME Bind(c) PROVE Kept
  <2>1. CASE Goto(c, "boundary") /\ UNCHANGED locals
    BY <1>10, <2>1 DEF Bind, Types, LocalTypes, Goto, Same, disk, locals, Committing
  <2>2. CASE ~(Goto(c, "boundary") /\ UNCHANGED locals)
    <3>1. PICK r : Commit(c, r, "boundary") BY <1>10, <2>2 DEF Bind
    <3> QED BY <1>10, <3>1, CommitElsewhere DEF Bind, disk, Committing
  <2> QED BY <2>1, <2>2
<1>11. ASSUME Finish(c) PROVE Kept
  BY <1>11, RereadElsewhere DEF Finish, disk, Committing
<1>12. ASSUME RecordDiagnostic(c) PROVE Kept
  BY <1>12, CommitElsewhere DEF RecordDiagnostic, disk, Committing
<1>13. ASSUME Install(c) PROVE Kept
  <2>1. CASE Leave(c) BY <1>13, <2>1, LeaveElsewhere DEF Install, disk, Committing
  <2>2. CASE ~Leave(c)
    BY <1>13, <2>2 DEF Install, Types, LocalTypes, Goto, Same, disk, Committing
  <2> QED BY <2>1, <2>2
<1>14. ASSUME Propose(c) PROVE Kept
  BY <1>14, CommitElsewhere DEF Propose, disk, Committing
<1>15. ASSUME Return(c) PROVE Kept
  BY <1>15, LeaveElsewhere DEF Return, disk, Committing
<1>16. ASSUME Crash(c) PROVE Kept
  BY <1>16, LeaveElsewhere DEF Crash, disk, Committing
<1> HIDE DEF Kept
<1>17. Kept
  BY <1>1, <1>2, <1>3, <1>4, <1>5, <1>6, <1>7, <1>8, <1>9, <1>10, <1>11, <1>12, <1>13,
     <1>14, <1>15, <1>16 DEF Aside
<1> QED BY <1>17 DEF Kept

-----------------------------------------------------------------------------
(* The chain of commits.                                                   *)

Chain ==
  /\ OneChain(batches) /\ OneChain(heads) /\ heads \subseteq batches
  /\ \A h \in batches \ heads : Before(h) = Tip(heads)
  /\ Tip(heads) = current \/ Before(Tip(heads)) = current
  /\ current \in heads \cup {<<>>}
  /\ \A h \in batches : h # <<>> /\ RecordsOf(h) \subseteq progress

(* A command works from what is committed; under the commit lock, from the *)
(* last of it.                                                             *)
Commits(c) ==
  /\ state[c] \in heads \cup {<<>>} /\ Len(state[c]) <= Len(current)
  /\ pc[c] = "settle" => state[c] = current /\ current = Tip(heads)
  /\ pc[c] \in {"head", "pointer"} => batch[c] \in batches /\ Before(batch[c]) = current
  /\ pc[c] = "pointer" => batch[c] \in heads

Chained == Cells /\ Chain /\ \A c \in Command : Commits(c)

LEMMA Lengths ==
  ASSUME NEW h \in Histories
  PROVE  /\ Len(h) \in Nat /\ (Len(h) = 0 <=> h = <<>>)
         /\ h # <<>> => Before(h) \in Histories /\ Len(h) = Len(Before(h)) + 1
<1>1. h \in Seq(Matrices) BY DEF Histories
<1>2. Len(h) \in Nat /\ (Len(h) = 0 <=> h = <<>>) BY <1>1, EmptySeq
<1>3. ASSUME h # <<>> PROVE Before(h) \in Histories /\ Len(h) = Len(Before(h)) + 1
  <2>1. Before(h) \in Seq(Matrices) /\ Len(Before(h)) = Len(h) - 1 /\ Len(h) \in Nat \ {0}
    BY <1>1, <1>3, CutAppend
  <2>2. IsHistory(h) BY DEF Histories
  <2>3. Len(Before(h)) <= Len(Keep) BY <2>1, <2>2, Bounds DEF IsHistory
  <2>4. ASSUME NEW b \in 1 .. Len(Before(h))
        PROVE  /\ ~Terminal(SubSeq(Before(h), 1, b - 1))
               /\ Before(h)[b] \in [Active(SubSeq(Before(h), 1, b - 1)) -> Scores]
    <3> DEFINE pre == SubSeq(h, 1, b - 1)
               pro == SubSeq(Before(h), 1, b - 1)
    <3>1. b \in 1 .. Len(h) /\ Before(h)[b] = h[b]
      BY <1>1, <2>1, <2>4 DEF Before
    <3>2. pre \in Seq(Matrices) /\ pro \in Seq(Matrices) /\ Len(pre) = b - 1 /\ Len(pro) = b - 1
      BY <1>1, <2>1, <2>4
    <3>3. \A i \in 1 .. Len(pre) : pre[i] = pro[i]
      BY <1>1, <2>1, <2>4, <3>2 DEF Before
    <3> HIDE DEF pre, pro
    <3>4. pre = pro BY <3>2, <3>3, SeqEqual
    <3>5. ~Terminal(pre) /\ h[b] \in [Active(pre) -> Scores]
      BY <2>2, <3>1 DEF IsHistory, Scores, pre
    <3> QED BY <3>1, <3>4, <3>5 DEF pro
  <2>5. IsHistory(Before(h)) BY <2>3, <2>4 DEF IsHistory, Scores
  <2> QED BY <2>1, <2>5 DEF Histories
<1> QED BY <1>2, <1>3

(* The tip of a chain of heads, and the only head that can follow it. *)
LEMMA ChainTip ==
  ASSUME Cells, Chain
  PROVE  /\ Tip(heads) \in Histories /\ Tip(heads) \in heads \cup {<<>>}
         /\ \A h \in heads : Len(h) <= Len(Tip(heads))
         /\ current \in Histories
         /\ Tip(heads) # current =>
              Tip(heads) \in heads /\ Len(Tip(heads)) = Len(current) + 1
<1>1. heads \subseteq Histories /\ current \in Histories
  BY DEF Cells, Types, RootTypes
<1>2. /\ Tip(heads) \in Histories /\ Tip(heads) \in heads \cup {<<>>}
      /\ \A h \in heads : Len(h) <= Len(Tip(heads))
  BY <1>1, TipIsThere
<1>3. ASSUME Tip(heads) # current
      PROVE  Tip(heads) \in heads /\ Len(Tip(heads)) = Len(current) + 1
  <2>1. Before(Tip(heads)) = current BY <1>3 DEF Chain
  <2>2. Tip(heads) # <<>> BY <1>3, <2>1, BlankHistory
  <2> QED BY <1>2, <2>1, <2>2, Lengths
<1> QED BY <1>1, <1>2, <1>3

(* Steps that leave the committed files keep the chain. *)
LEMMA QuietChain ==
  ASSUME Chained, Cells', NEW c \in Command, \A d \in Command \ {c} : Same(d),
         UNCHANGED <<batches, heads, current>>, progress \subseteq progress',
         pc'[c] \notin Committing, state'[c] \in {state[c], current, <<>>}
  PROVE  Chained'
<1> USE DEF Chained
<1>1. Chain' BY DEF Chain
<1>2. Commits(c)'
  <2>1. Len(<<>>) = 0 /\ Len(current) \in Nat /\ Len(state[c]) \in Nat
    BY EmptySeq, Lengths DEF Cells, Types, RootTypes, LocalTypes
  <2>2. state[c] \in heads \cup {<<>>} /\ Len(state[c]) <= Len(current) BY DEF Commits
  <2>3. state'[c] \in heads \cup {<<>>} /\ Len(state'[c]) <= Len(current)
    BY <2>1, <2>2 DEF Chain
  <2> QED BY <2>3 DEF Commits, Committing
<1>3. ASSUME NEW d \in Command \ {c} PROVE Commits(d)'
  <2>1. Same(d) OBVIOUS
  <2>2. Commits(d) OBVIOUS
  <2> QED BY <2>1, <2>2 DEF Commits, Same
<1> QED BY <1>1, <1>2, <1>3

LEMMA AsideChain ==
  ASSUME Chained, Cells', NEW c \in Command, Aside(c) PROVE Chained'
<1>1. Types BY DEF Chained, Cells
<1> QED BY <1>1, AsideKeeps, QuietChain

LEMMA ReplayChain ==
  ASSUME Chained, Cells', NEW c \in Command, Replay(c) PROVE Chained'
<1> USE DEF Chained
<1>1. CASE Leave(c) /\ UNCHANGED disk
  <2>1. /\ \A d \in Command \ {c} : Same(d)
        /\ pc'[c] = "idle" /\ state'[c] = <<>>
    BY <1>1, LeaveElsewhere DEF Cells
  <2> QED BY <1>1, <2>1, QuietChain DEF disk, Committing
<1>2. CASE /\ screenLock' = c /\ current' = Tip(heads)
           /\ state' = [state EXCEPT ![c] = Tip(heads)] /\ Goto(c, "settle")
           /\ UNCHANGED <<completions, progress, batches, heads, pairLock, fence, held,
                          baseline, got, made, batch, repairing>>
  <2>1. screenLock = NoOne BY DEF Replay
  <2>2. /\ Tip(heads) \in heads \cup {<<>>} /\ \A h \in heads : Len(h) <= Len(Tip(heads))
        /\ Len(Tip(heads)) \in Nat
    BY ChainTip, Lengths
  <2>3. Chain' BY <1>2, <2>2 DEF Chain
  <2>4. pc'[c] = "settle" /\ state'[c] = Tip(heads)
    BY <1>2 DEF Cells, Types, LocalTypes, Goto
  <2>5. Commits(c)' BY <1>2, <2>2, <2>4 DEF Commits
  <2>6. ASSUME NEW d \in Command \ {c} PROVE Commits(d)'
    <3>1. Same(d) BY <1>2 DEF Same, Cells, Types, LocalTypes, Goto
    <3>2. Commits(d) /\ Locks(d) BY DEF Cells, Sound
    <3>3. pc[d] \notin Committing BY <2>1, <3>2, Bounds DEF Locks, Committing
    <3>4. Len(<<>>) = 0 BY EmptySeq
    <3>5. state[d] \in heads \cup {<<>>} /\ Len(state[d]) <= Len(Tip(heads))
      BY <2>2, <3>2, <3>4 DEF Commits
    <3> QED BY <1>2, <3>1, <3>3, <3>5 DEF Commits, Same, Committing
  <2> QED BY <2>3, <2>5, <2>6
<1> QED BY <1>1, <1>2 DEF Replay

LEMMA SettleChain ==
  ASSUME Chained, Cells', NEW c \in Command, Settle(c) PROVE Chained'
<1> USE DEF Chained
<1> DEFINE candidates == {h \in batches \ heads : Before(h) = state[c]}
           one == CHOOSE h \in candidates : TRUE
<1>1. pc[c] = "settle" /\ UNCHANGED <<completions, progress, batches, heads, current>>
  BY DEF Settle, disk
<1>2. CASE Leave(c)
  BY <1>1, <1>2, LeaveElsewhere, QuietChain DEF Cells, Committing
<1>3. CASE /\ Goto(c, IF state[c] = <<>> THEN "boundary" ELSE "bind")
           /\ UNCHANGED <<pairLock, fence, locals>>
  <2>1. /\ pc'[c] \notin Committing /\ state'[c] = state[c]
        /\ \A d \in Command \ {c} : Same(d)
    BY <1>3 DEF Cells, Types, LocalTypes, Goto, locals, Same, Committing
  <2> QED BY <1>1, <2>1, QuietChain
<1>4. CASE /\ Cardinality(candidates) = 1
           /\ batch' = [batch EXCEPT ![c] = one] /\ repairing' = repairing \cup {c}
           /\ Goto(c, "head")
           /\ UNCHANGED <<locks, held, baseline, state, got, made>>
  <2>1. candidates # {} BY <1>4, FS_EmptySet
  <2>2. one \in candidates BY <2>1
  <2>3. one \in batches /\ Before(one) = state[c] BY <2>2
  <2> HIDE DEF one
  <2>4. state[c] = current BY <1>1 DEF Commits
  <2>5. pc'[c] = "head" /\ batch'[c] = one /\ state'[c] = state[c]
    BY <1>4 DEF Cells, Types, LocalTypes, Goto
  <2>6. Commits(c)' BY <1>1, <2>3, <2>4, <2>5 DEF Commits
  <2>7. Chain' BY <1>1 DEF Chain
  <2>8. ASSUME NEW d \in Command \ {c} PROVE Commits(d)'
    <3>1. Same(d) BY <1>4 DEF Same, Cells, Types, LocalTypes, Goto
    <3>2. Commits(d) OBVIOUS
    <3> QED BY <1>1, <3>1, <3>2 DEF Commits, Same
  <2> QED BY <2>6, <2>7, <2>8
<1> QED BY <1>2, <1>3, <1>4 DEF Settle

(* Two matrices of one reducer state are one: both are made of the cells   *)
(* that were accepted, of which there is one for each size.                *)
LEMMA SameMatrix ==
  ASSUME Chained, NEW c \in Command, pc[c] = "cell", Missing(c) = {},
         NEW g \in batches, Before(g) = state[c]
  PROVE  g = Append(state[c], Matrix(c))
<1> USE DEF Chained
<1>1. g \in Histories /\ g # <<>> /\ RecordsOf(g) \subseteq progress
  BY DEF Cells, Types, RootTypes, Chain
<1>2. /\ Last(g) \in [Active(state[c]) -> Scores] /\ g = Append(state[c], Last(g))
      /\ Len(g) \in 1 .. Len(Keep) /\ Last(g) = g[Len(g)] /\ Len(state[c]) = Len(g) - 1
  BY <1>1, LastMatrix
<1>3. Len(g) = NextBoundary(c)
  BY <1>2, Bounds DEF NextBoundary
<1>4. Matrix(c) \in [Active(state[c]) -> Scores] BY MatrixIsWhole
<1>5. ASSUME NEW s \in Active(state[c]) PROVE Last(g)[s] = Matrix(c)[s]
  <2> DEFINE rec == [at |-> Len(g), size |-> s, score |-> Last(g)[s]]
  <2>1. rec \in RecordsOf(g)
    <3>1. g \in Seq(Matrices) BY <1>1 DEF Histories
    <3>2. Len(g) \in DOMAIN g BY <1>2, <3>1
    <3>3. s \in DOMAIN g[Len(g)] BY <1>2
    <3>4. rec = [at |-> Len(g), size |-> s, score |-> g[Len(g)][s]] BY <1>2
    <3> QED BY <3>2, <3>3, <3>4 DEF RecordsOf
  <2>2. PICK r \in At(progress, NextBoundary(c)) : r.size = s /\ r.score = Matrix(c)[s]
    BY MatrixIsWhole
  <2>3. r \in progress /\ r.at = Len(g) BY <1>3, <2>2 DEF At
  <2>4. rec \in progress /\ rec.size = s /\ rec.at = Len(g) /\ rec.score = Last(g)[s]
    BY <1>1, <2>1
  <2> HIDE DEF rec
  <2>5. Of(progress, r) = {r} BY <2>3 DEF Cells, OneScorePerCell, OneEach
  <2>6. rec \in Of(progress, r) BY <2>2, <2>3, <2>4 DEF Of
  <2> QED BY <2>2, <2>4, <2>5, <2>6
<1>6. Last(g) = Matrix(c) BY <1>2, <1>4, <1>5
<1> QED BY <1>2, <1>6

(* The records of a matrix that is about to be committed are accepted. *)
LEMMA MatrixIsAccepted ==
  ASSUME Chained, NEW c \in Command, pc[c] = "cell", Missing(c) = {}
  PROVE  RecordsOf(Append(state[c], Matrix(c))) \subseteq progress
<1> USE DEF Chained
<1> DEFINE m == Matrix(c)
           s0 == state[c]
           h == Append(s0, m)
<1>1. s0 \in Histories /\ m \in [Active(s0) -> Scores]
  BY MatrixIsWhole DEF Cells, Types, LocalTypes
<1>2. s0 \in Seq(Matrices) /\ m \in Matrices
  BY <1>1, ActiveSizes DEF Histories, Matrices
<1>3. /\ DOMAIN h = 1 .. Len(s0) + 1 /\ Len(s0) \in Nat
      /\ (\A b \in 1 .. Len(s0) : h[b] = s0[b]) /\ h[Len(s0) + 1] = m
      /\ DOMAIN s0 = 1 .. Len(s0)
  BY <1>2
<1> HIDE DEF h
<1> SUFFICES ASSUME NEW b \in DOMAIN h, NEW s \in DOMAIN h[b]
             PROVE  [at |-> b, size |-> s, score |-> h[b][s]] \in progress
  BY DEF RecordsOf, h
<1>4. CASE b \in 1 .. Len(s0)
  <2>1. s0 # <<>> BY <1>3, <1>4, EmptySeq
  <2>2. s0 \in batches BY <2>1 DEF Commits, Chain
  <2>3. RecordsOf(s0) \subseteq progress BY <2>2 DEF Chain
  <2>4. [at |-> b, size |-> s, score |-> s0[b][s]] \in RecordsOf(s0)
    BY <1>3, <1>4 DEF RecordsOf
  <2> QED BY <1>3, <1>4, <2>3, <2>4
<1>5. CASE b = Len(s0) + 1
  <2>1. s \in Active(s0) /\ h[b] = m /\ b = NextBoundary(c)
    BY <1>1, <1>3, <1>5 DEF NextBoundary
  <2>2. PICK r \in At(progress, NextBoundary(c)) : r.size = s /\ r.score = m[s]
    BY <2>1, MatrixIsWhole
  <2>3. r \in progress /\ r \in Record /\ r.at = b
    BY <2>1, <2>2 DEF At, Cells, Types, RootTypes
  <2>4. r = [at |-> b, size |-> s, score |-> m[s]] BY <2>2, <2>3 DEF Record
  <2> QED BY <2>1, <2>3, <2>4
<1> QED BY <1>3, <1>4, <1>5

LEMMA BatchChain ==
  ASSUME Chained, Cells', NEW c \in Command, PutBatch(c) PROVE Chained'
<1> USE DEF Chained
<1> DEFINE h == Append(state[c], Matrix(c))
<1>1. /\ pc[c] = "cell" /\ Missing(c) = {} /\ screenLock = NoOne
      /\ UNCHANGED <<completions, progress, heads, current, log, bounds>>
  BY DEF PutBatch
<1>2. /\ h \in Histories /\ Before(h) = state[c] /\ Len(h) = Len(state[c]) + 1 /\ h # <<>>
  BY <1>1, MatrixIsWhole
<1>3. RecordsOf(h) \subseteq progress BY <1>1, MatrixIsAccepted
<1>4. \A g \in batches : Before(g) = state[c] => g = h BY <1>1, SameMatrix
<1>5. CASE Leave(c) /\ UNCHANGED batches
  BY <1>1, <1>5, LeaveElsewhere, QuietChain DEF Cells, Committing
<1>6. CASE /\ current = h
           /\ state' = [state EXCEPT ![c] = h]
           /\ got' = [got EXCEPT ![c] = {}]
           /\ Goto(c, "refresh")
           /\ UNCHANGED <<batches, locks, held, baseline, made, batch, repairing>>
  <2> HIDE DEF h
  <2>1. /\ pc'[c] \notin Committing /\ state'[c] = current
        /\ \A d \in Command \ {c} : Same(d)
    BY <1>6 DEF Cells, Types, LocalTypes, Goto, Same, Committing
  <2> QED BY <1>1, <1>6, <2>1, QuietChain
<1>7. CASE /\ current # h /\ current \in {<<>>, state[c]}
           /\ batches' = batches \cup {h}
           /\ batch' = [batch EXCEPT ![c] = h]
           /\ screenLock' = c
           /\ Goto(c, "head")
           /\ UNCHANGED <<pairLock, fence, held, baseline, state, got, made, repairing>>
  <2> HIDE DEF h
  <2>1. current = state[c]
    <3>1. Len(state[c]) <= Len(current) /\ Len(<<>>) = 0 BY EmptySeq DEF Commits
    <3>2. state[c] \in Histories BY DEF Cells, Types, LocalTypes
    <3> QED BY <1>7, <3>1, <3>2, Lengths
  <2>2. batches \subseteq Histories /\ current \in Histories BY DEF Cells, Types, RootTypes
  <2>3. \A g \in batches : Len(g) = Len(h) => g = h
    <3> SUFFICES ASSUME NEW g \in batches, Len(g) = Len(h) PROVE Before(g) = state[c]
      BY <1>4
    <3>1. g \in Histories /\ g # <<>> BY <2>2 DEF Chain
    <3>2. Before(g) \in Histories /\ Len(Before(g)) = Len(current) /\ Len(current) \in Nat
      BY <1>2, <2>1, <2>2, <3>1, Lengths
    <3>3. CASE current = <<>>
      BY <2>1, <2>2, <3>2, <3>3, Lengths
    <3>4. CASE current # <<>>
      <4>1. current \in batches BY <3>4 DEF Chain
      <4>2. Len(g) # 1
        <5>1. Len(g) = Len(Before(g)) + 1 BY <3>1, Lengths
        <5>2. Len(current) # 0 BY <2>2, <3>4, Lengths
        <5> QED BY <3>2, <5>1, <5>2
      <4>3. Before(g) \in batches BY <4>2 DEF Chain, OneChain
      <4>4. Before(g) = current BY <3>2, <4>1, <4>3 DEF Chain, OneChain
      <4> QED BY <2>1, <4>4
    <3> QED BY <3>3, <3>4
  <2>4. OneChain(batches')
    <3>1. Len(h) = 1 \/ Before(h) \in batches
      <4>1. CASE current = <<>> BY <1>2, <2>1, <4>1, EmptySeq
      <4>2. CASE current # <<>> BY <1>2, <2>1, <4>2 DEF Chain
      <4> QED BY <4>1, <4>2
    <3>2. OneChain(batches) BY DEF Chain
    <3>3. \A g \in batches' : Len(g) = 1 \/ Before(g) \in batches'
      BY <1>7, <3>1, <3>2 DEF OneChain
    <3>4. \A g, k \in batches' : Len(g) = Len(k) => g = k
      BY <1>7, <2>3, <3>2 DEF OneChain
    <3> QED BY <3>3, <3>4 DEF OneChain
  <2>5. h \notin heads => Before(h) = Tip(heads)
    <3> SUFFICES ASSUME Tip(heads) # current PROVE h \in heads
      BY <1>2, <2>1
    <3>1. Before(Tip(heads)) = current /\ Tip(heads) \in heads
      BY ChainTip DEF Chain
    <3>2. Tip(heads) \in batches BY <3>1 DEF Chain
    <3>3. Tip(heads) = h BY <1>4, <2>1, <3>1, <3>2
    <3> QED BY <3>1, <3>3
  <2>6. Chain'
    <3>1. OneChain(heads') /\ heads' \subseteq batches' BY <1>1, <1>7 DEF Chain
    <3>2. ASSUME NEW k \in batches' \ heads' PROVE Before(k) = Tip(heads')
      <4>1. CASE k = h BY <1>1, <2>5, <4>1
      <4>2. CASE k # h BY <1>1, <1>7, <4>2 DEF Chain
      <4> QED BY <4>1, <4>2
    <3>3. /\ Tip(heads') = current' \/ Before(Tip(heads')) = current'
          /\ current' \in heads' \cup {<<>>}
      BY <1>1 DEF Chain
    <3>4. \A k \in batches' : k # <<>> /\ RecordsOf(k) \subseteq progress'
      BY <1>1, <1>2, <1>3, <1>7 DEF Chain
    <3> QED BY <2>4, <3>1, <3>2, <3>3, <3>4 DEF Chain
  <2>7. pc'[c] = "head" /\ batch'[c] = h /\ state'[c] = state[c]
    BY <1>7 DEF Cells, Types, LocalTypes, Goto
  <2>8. Commits(c)'
    <3>1. Commits(c) OBVIOUS
    <3> QED BY <1>1, <1>2, <1>7, <2>1, <2>7, <3>1 DEF Commits
  <2>9. ASSUME NEW d \in Command \ {c} PROVE Commits(d)'
    <3>1. Same(d) BY <1>7 DEF Same, Cells, Types, LocalTypes, Goto
    <3>2. Commits(d) OBVIOUS
    <3> QED BY <1>1, <1>7, <3>1, <3>2 DEF Commits, Same
  <2> QED BY <2>6, <2>8, <2>9
<1> QED BY <1>5, <1>6, <1>7 DEF PutBatch

LEMMA HeadChain ==
  ASSUME Chained, Cells', NEW c \in Command, PutHead(c) PROVE Chained'
<1> USE DEF Chained
<1> DEFINE g == batch[c]
           T == Tip(heads)
<1>1. /\ pc[c] = "head" /\ heads' = heads \cup {g} /\ Goto(c, "pointer")
      /\ UNCHANGED <<completions, progress, batches, current, locks, log, locals>>
  BY DEF PutHead
<1>2. UNCHANGED <<state, batch, held, baseline, got, made>> BY <1>1 DEF locals
<1>3. g \in batches /\ Before(g) = current BY <1>1 DEF Commits
<1>4. batches \subseteq Histories /\ current \in Histories BY DEF Cells, Types, RootTypes
<1>5. g \in Histories /\ g # <<>> /\ Len(g) = Len(current) + 1 /\ Len(current) \in Nat
  BY <1>3, <1>4, Lengths DEF Chain
<1>6. /\ T \in Histories /\ T \in heads \cup {<<>>} /\ \A h \in heads : Len(h) <= Len(T)
      /\ T # current => T \in heads /\ Len(T) = Len(current) + 1
  BY ChainTip
<1> HIDE DEF T, g
<1>7. heads' \subseteq batches' BY <1>1, <1>3 DEF Chain
<1>8. OneChain(heads')
  <2>1. Len(g) = 1 \/ Before(g) \in heads
    <3>1. CASE current = <<>> BY <1>5, <3>1, EmptySeq
    <3>2. CASE current # <<>> BY <1>3, <3>2 DEF Chain
    <3> QED BY <3>1, <3>2
  <2>2. \A h \in heads' : Len(h) = 1 \/ Before(h) \in heads'
    BY <1>1, <2>1 DEF Chain, OneChain
  <2>3. \A h, k \in heads' : Len(h) = Len(k) => h = k
    BY <1>1, <1>7 DEF Chain, OneChain
  <2> QED BY <2>2, <2>3 DEF OneChain
<1>9. Tip(heads') = g
  <2>1. heads' \in SUBSET Histories /\ heads' # {} BY <1>1, <1>4, <1>7
  <2>2. Tip(heads') \in heads' /\ \A h \in heads' : Len(h) <= Len(Tip(heads'))
    BY <2>1, TipIsThere
  <2>3. Tip(heads') \in Histories BY <2>1, <2>2
  <2>4. Len(Tip(heads')) \in Nat BY <2>3, Lengths
  <2>5. Len(g) <= Len(Tip(heads')) BY <1>1, <2>2
  <2>6. CASE Tip(heads') = g BY <2>6
  <2>7. CASE Tip(heads') \in heads
    <3>1. Len(Tip(heads')) <= Len(T) BY <1>6, <2>7
    <3>2. Len(T) = Len(current) + 1
      <4>1. T # current BY <1>5, <1>6, <2>4, <2>5, <3>1
      <4> QED BY <1>6, <4>1
    <3>3. Len(Tip(heads')) = Len(g) BY <1>5, <2>4, <2>5, <3>1, <3>2
    <3>4. g \in heads' BY <1>1
    <3> QED BY <1>8, <2>2, <3>3, <3>4 DEF OneChain
  <2> QED BY <1>1, <2>2, <2>6, <2>7
<1>10. ASSUME NEW k \in batches' \ heads' PROVE Before(k) = Tip(heads')
  <2>1. k \in batches \ heads /\ k # g BY <1>1
  <2>2. Before(k) = T BY <2>1 DEF Chain, T
  <2>3. k \in Histories /\ k # <<>> BY <1>4, <2>1 DEF Chain
  <2>4. Len(k) = Len(T) + 1 BY <2>2, <2>3, Lengths
  <2>5. CASE T = current
    <3>1. Len(k) = Len(g) BY <1>5, <2>4, <2>5
    <3>2. k = g BY <1>3, <2>1, <3>1 DEF Chain, OneChain, g
    <3> QED BY <2>1, <3>2
  <2>6. CASE T # current
    <3>1. Len(T) = Len(g) /\ T \in batches BY <1>5, <1>6, <2>6 DEF Chain
    <3>2. T = g BY <1>3, <3>1 DEF Chain, OneChain
    <3> QED BY <1>9, <2>2, <3>2
  <2> QED BY <2>5, <2>6
<1>11. Chain'
  <2>1. Before(Tip(heads')) = current' /\ current' \in heads' \cup {<<>>}
    BY <1>1, <1>3, <1>9 DEF Chain, g
  <2>2. \A h \in batches' : h # <<>> /\ RecordsOf(h) \subseteq progress'
    BY <1>1 DEF Chain
  <2>3. OneChain(batches') BY <1>1 DEF Chain
  <2> QED BY <1>7, <1>8, <1>10, <2>1, <2>2, <2>3 DEF Chain
<1>12. Commits(c)'
  <2>1. pc'[c] = "pointer" BY <1>1 DEF Cells, Types, LocalTypes, Goto
  <2>2. Commits(c) OBVIOUS
  <2> QED BY <1>1, <1>2, <1>3, <2>1, <2>2 DEF Commits, g
<1>13. ASSUME NEW d \in Command \ {c} PROVE Commits(d)'
  <2>1. Same(d) BY <1>1, <1>2 DEF Same, Cells, Types, LocalTypes, Goto
  <2>2. Commits(d) /\ Locks(d) /\ Locks(c) BY DEF Cells, Sound
  <2>3. pc[d] \notin Committing BY <1>1, <2>2 DEF Locks, Committing
  <2> QED BY <1>1, <2>1, <2>2, <2>3 DEF Commits, Same, Committing
<1> QED BY <1>11, <1>12, <1>13

LEMMA CurrentChain ==
  ASSUME Chained, Cells', NEW c \in Command, PutCurrent(c)
  PROVE  Chained' /\ Before(current') = current /\ current' # <<>>
<1> USE DEF Chained
<1> DEFINE g == batch[c]
           T == Tip(heads)
<1>1. /\ pc[c] = "pointer" /\ current' = g
      /\ state' = [state EXCEPT ![c] = g]
      /\ batch' = [batch EXCEPT ![c] = <<>>]
      /\ got' = [got EXCEPT ![c] = {}]
      /\ UNCHANGED <<completions, progress, batches, heads, held, baseline, made>>
      /\ Goto(c, "settle") \/ Goto(c, "refresh")
  BY DEF PutCurrent
<1>2. g \in batches /\ g \in heads /\ Before(g) = current BY <1>1 DEF Commits
<1>3. batches \subseteq Histories /\ current \in Histories BY DEF Cells, Types, RootTypes
<1>4. g \in Histories /\ g # <<>> /\ Len(g) = Len(current) + 1 /\ Len(current) \in Nat
  BY <1>2, <1>3, Lengths DEF Chain
<1>5. T = g
  <2>1. Len(g) <= Len(T) BY <1>2, ChainTip
  <2>2. T # current BY <1>4, <2>1
  <2>3. T \in heads /\ Len(T) = Len(g) BY <1>4, <2>2, ChainTip
  <2> QED BY <1>2, <2>3 DEF Chain, OneChain
<1> HIDE DEF g
<1>6. Chain' BY <1>1, <1>2, <1>5 DEF Chain
<1>7. Commits(c)'
  <2>1. pc'[c] \in {"settle", "refresh"} /\ state'[c] = g
    BY <1>1 DEF Cells, Types, LocalTypes, Goto
  <2> QED BY <1>1, <1>2, <1>4, <1>5, <2>1 DEF Commits
<1>8. ASSUME NEW d \in Command \ {c} PROVE Commits(d)'
  <2>1. Same(d) BY <1>1 DEF Same, Cells, Types, LocalTypes, Goto
  <2>2. Commits(d) /\ Locks(d) /\ Locks(c) BY DEF Cells, Sound
  <2>3. pc[d] \notin Committing BY <1>1, <2>2 DEF Locks, Committing
  <2>4. Len(state[d]) \in Nat BY Lengths DEF Cells, Types, LocalTypes
  <2>5. Len(state[d]) <= Len(current') BY <1>1, <1>4, <2>2, <2>4 DEF Commits
  <2> QED BY <1>1, <2>1, <2>2, <2>3, <2>5 DEF Commits, Same, Committing
<1> QED BY <1>1, <1>2, <1>4, <1>6, <1>7, <1>8

LEMMA IdleChain ==
  ASSUME Chained, Cells', UNCHANGED <<batches, heads, current, progress, pc, state, batch>>
  PROVE  Chained'
<1>1. Chain' BY DEF Chained, Chain
<1>2. \A c \in Command : Commits(c)' BY DEF Chained, Commits
<1> QED BY <1>1, <1>2 DEF Chained

LEMMA InitChain == ASSUME Init PROVE Chained
<1>1. Cells BY InitCells
<1>2. Tip({}) = <<>> BY DEF Tip
<1>3. Chain BY <1>2 DEF Init, Chain, OneChain
<1>4. ASSUME NEW c \in Command PROVE Commits(c)
  BY EmptySeq DEF Init, Commits
<1> QED BY <1>1, <1>3, <1>4 DEF Chained

(* The steps of Next: those aside, those of the commit, and the operator's. *)
LEMMA NextSteps ==
  ASSUME Next
  PROVE  \/ \E c \in Command : \/ Aside(c) \/ Replay(c) \/ Settle(c) \/ PutBatch(c)
                               \/ PutHead(c) \/ PutCurrent(c)
         \/ \E revision : Decide(revision)
<1>1. ASSUME NEW c \in Command, Start(c) \/ Step(c) \/ Crash(c)
      PROVE  \/ Aside(c) \/ Replay(c) \/ Settle(c) \/ PutBatch(c) \/ PutHead(c) \/ PutCurrent(c)
  BY <1>1 DEF Step, Aside
<1>2. ASSUME Choose \/ Reset \/ Freeze \/ Prepare PROVE \E revision : Decide(revision)
  BY <1>2 DEF Choose, Reset, Freeze, Prepare
<1> QED BY <1>1, <1>2 DEF Next

LEMMA NextChain == ASSUME Chained, [Next]_vars PROVE Chained'
<1>1. Cells' BY NextCells DEF Chained
<1>2. CASE UNCHANGED vars
  BY <1>1, <1>2, IdleChain DEF vars, disk, locals
<1>3. ASSUME NEW revision, Decide(revision) PROVE Chained'
  BY <1>1, <1>3, IdleChain DEF Decide, disk, locals
<1> QED BY <1>1, <1>2, <1>3, NextSteps, AsideChain, ReplayChain, SettleChain, BatchChain,
           HeadChain, CurrentChain

LEMMA ChainGuarantee == ASSUME Chained PROVE OneChainOfWholeMatrices
BY DEF Chained, Chain, Cells, Types, RootTypes, Histories, OneChainOfWholeMatrices

(* The committed files only grow, and the pointer only goes on. *)
LEMMA ChainForward ==
  ASSUME Chained, Next
  PROVE  /\ heads \subseteq heads' /\ batches \subseteq batches' /\ progress \subseteq progress'
         /\ current' # current => current' # <<>> /\ Before(current') = current
<1> USE DEF Chained
<1>1. Cells' BY NextCells
<1> DEFINE Forward ==
      /\ heads \subseteq heads' /\ batches \subseteq batches' /\ progress \subseteq progress'
      /\ current' # current => current' # <<>> /\ Before(current') = current
<1>2. ASSUME NEW c \in Command, Aside(c) PROVE Forward
  BY <1>2, AsideKeeps DEF Cells
<1>3. ASSUME NEW c \in Command, Replay(c) PROVE Forward
  <2>1. CASE UNCHANGED disk BY <2>1 DEF disk
  <2>2. CASE current' = Tip(heads) /\ UNCHANGED <<progress, batches, heads>>
    <3>1. Tip(heads) # current => Before(Tip(heads)) = current /\ Tip(heads) # <<>>
      BY BlankHistory DEF Chain
    <3> QED BY <2>2, <3>1
  <2> QED BY <1>3, <2>1, <2>2 DEF Replay
<1>4. ASSUME NEW c \in Command, Settle(c) PROVE Forward
  BY <1>4 DEF Settle, disk
<1>5. ASSUME NEW c \in Command, PutBatch(c) PROVE Forward
  BY <1>5 DEF PutBatch
<1>6. ASSUME NEW c \in Command, PutHead(c) PROVE Forward
  BY <1>6 DEF PutHead
<1>7. ASSUME NEW c \in Command, PutCurrent(c) PROVE Forward
  <2>1. UNCHANGED <<progress, batches, heads>> BY <1>7 DEF PutCurrent
  <2> QED BY <1>1, <1>7, <2>1, CurrentChain
<1>8. ASSUME NEW revision, Decide(revision) PROVE Forward
  BY <1>8 DEF Decide, disk
<1> HIDE DEF Forward
<1>9. Forward BY <1>2, <1>3, <1>4, <1>5, <1>6, <1>7, <1>8, NextSteps
<1> QED BY <1>9 DEF Forward

-----------------------------------------------------------------------------
(* The campaign: what its revisions bind, and whose the design is.         *)

(* A revision names nothing that is not committed. *)
Committal(r) ==
  /\ r.adopted = <<>> \/ (r.generation = 1 /\ r.adopted \in heads)
  /\ r.life = "complete" => r.adopted # <<>> /\ Terminal(r.adopted)

(* A command serves the first generation, opens over no freeze, records a  *)
(* finished screen, and proposes over the design that it started from.     *)
Serves(c) ==
  /\ pc[c] # "idle" => log[held[c]].generation = 1
  /\ pc[c] = "open" => ~log[held[c]].frozen
  /\ pc[c] = "record" => Terminal(state[c])
  /\ pc[c] = "propose" => ~log[held[c]].frozen /\ log[held[c]].design = baseline[c]

Campaign == Chained /\ BoundIsCommitted /\ \A c \in Command : Serves(c)

(* A new revision and the design, and a command that proposes. *)
DesignKept ==
  (Len(log') > Len(log) /\ log'[Len(log')].kind # "advance") =>
     LET new == log'[Len(log')] IN
     /\ new.kind \in {"open", "adopt", "record"} =>
          new.design = Revision.design /\ new.frozen = Revision.frozen
     /\ Revision.frozen => new.design = Revision.design /\ new.frozen

NewerWins(c) ==
  (pc[c] = "propose" /\ Len(log') > Len(log) /\ pc'[c] # "propose") =>
    Revision.design = baseline[c] /\ ~Revision.frozen

Ordered == DesignKept /\ \A c \in Command : NewerWins(c)

LEMMA LogOf ==
  ASSUME Campaign
  PROVE  /\ log \in Seq(Revisions) /\ Len(log) \in Nat \ {0} /\ DOMAIN log = 1 .. Len(log)
         /\ \A i \in 1 .. Len(log) : log[i] \in Revisions /\ Committal(log[i])
<1>1. log \in Seq(Revisions) /\ Len(log) \in Nat \ {0} /\ DOMAIN log = 1 .. Len(log)
  BY EmptySeq DEF Campaign, Chained, Cells, Types, LogTypes
<1>2. ASSUME NEW i \in 1 .. Len(log) PROVE log[i] \in Revisions /\ Committal(log[i])
  BY <1>1 DEF Campaign, BoundIsCommitted, Committal
<1> QED BY <1>1, <1>2

LEMMA OthersServe ==
  ASSUME Campaign, NEW d \in Command, Same(d), \A i \in 1 .. Len(log) : log'[i] = log[i]
  PROVE  Serves(d)'
<1>1. CASE pc[d] = "idle" BY <1>1 DEF Same, Serves
<1>2. CASE pc[d] # "idle"
  <2>1. held[d] \in 1 .. Len(log) BY <1>2, HeldRevision DEF Campaign, Chained
  <2>2. log'[held'[d]] = log[held[d]] BY <2>1 DEF Same
  <2>3. Serves(d) BY DEF Campaign
  <2> QED BY <2>2, <2>3 DEF Same, Serves
<1> QED BY <1>1, <1>2

(* Steps that leave the campaign as it is. *)
LEMMA SameCampaign ==
  ASSUME Campaign, Chained', NEW c \in Command, \A d \in Command \ {c} : Same(d),
         log' = log, heads \subseteq heads', Serves(c)'
  PROVE  Campaign' /\ Ordered
<1>1. \A d \in Command : Serves(d)' BY OthersServe
<1>2. BoundIsCommitted' BY DEF Campaign, BoundIsCommitted
<1>3. Len(log) \in Nat BY LogOf
<1>4. ~(Len(log') > Len(log)) BY <1>3
<1>5. DesignKept BY <1>4 DEF DesignKept
<1>6. \A d \in Command : NewerWins(d) BY <1>4 DEF NewerWins
<1> QED BY <1>1, <1>2, <1>5, <1>6 DEF Campaign, Ordered

(* The steps of a command between two transitions of the campaign. *)
Within(c) ==
  \/ Replay(c) \/ Settle(c) \/ Recover(c) \/ Fence(c) \/ Continue(c) \/ Train(c)
  \/ PutCompletion(c) \/ PutProgress(c) \/ PutBatch(c) \/ PutHead(c) \/ PutCurrent(c)
  \/ Return(c) \/ Crash(c)

Transitions == {"open", "record", "propose"}

LEMMA WithinKeeps ==
  ASSUME Types, NEW c \in Command, Within(c)
  PROVE  /\ log' = log /\ pc[c] # "idle" /\ heads \subseteq heads'
         /\ \A d \in Command \ {c} : Same(d)
         /\ pc'[c] = "idle" \/ (pc'[c] \notin Transitions /\ held'[c] = held[c])
<1> DEFINE Kept == /\ log' = log /\ pc[c] # "idle" /\ heads \subseteq heads'
                   /\ \A d \in Command \ {c} : Same(d)
                   /\ pc'[c] = "idle" \/ (pc'[c] \notin Transitions /\ held'[c] = held[c])
<1>1. ASSUME Replay(c) PROVE Kept
  <2>1. CASE Leave(c) BY <1>1, <2>1, LeaveElsewhere DEF Replay, disk
  <2>2. CASE ~Leave(c)
    BY <1>1, <2>2 DEF Replay, Types, LocalTypes, Goto, Same, Transitions
  <2> QED BY <2>1, <2>2
<1>2. ASSUME Settle(c) PROVE Kept
  <2>1. CASE Leave(c) BY <1>2, <2>1, LeaveElsewhere DEF Settle, disk
  <2>2. CASE ~Leave(c)
    <3> DEFINE candidates == {h \in batches \ heads : Before(h) = state[c]}
               one == CHOOSE h \in candidates : TRUE
    <3>1. /\ log' = log /\ pc[c] = "settle" /\ heads' = heads
          /\ \/ /\ Goto(c, IF state[c] = <<>> THEN "boundary" ELSE "bind")
                /\ UNCHANGED locals
             \/ /\ batch' = [batch EXCEPT ![c] = one] /\ Goto(c, "head")
                /\ UNCHANGED <<held, baseline, state, got, made>>
      BY <1>2, <2>2 DEF Settle, disk
    <3> HIDE DEF one
    <3> QED BY <3>1 DEF Types, LocalTypes, Goto, Same, Transitions, locals
  <2> QED BY <2>1, <2>2
<1>3. ASSUME Recover(c) PROVE Kept
  <2>1. CASE Leave(c) BY <1>3, <2>1, LeaveElsewhere DEF Recover, disk
  <2>2. CASE ~Leave(c)
    BY <1>3, <2>2 DEF Recover, Types, LocalTypes, Goto, Same, Transitions, disk
  <2> QED BY <2>1, <2>2
<1>4. ASSUME Fence(c) PROVE Kept
  BY <1>4 DEF Fence, Types, LocalTypes, Goto, Same, Transitions, disk
<1>5. ASSUME Continue(c) PROVE Kept
  BY <1>5 DEF Continue, Types, LocalTypes, Goto, Same, Transitions, disk, locals
<1>6. ASSUME Train(c) PROVE Kept
  BY <1>6 DEF Train, Types, LocalTypes, Goto, Same, Transitions, disk
<1>7. ASSUME PutCompletion(c) PROVE Kept
  <2>1. CASE Leave(c) BY <1>7, <2>1, LeaveElsewhere DEF PutCompletion
  <2>2. CASE ~Leave(c)
    BY <1>7, <2>2 DEF PutCompletion, Types, LocalTypes, Goto, Same, Transitions, locals
  <2> QED BY <2>1, <2>2
<1>8. ASSUME PutProgress(c) PROVE Kept
  <2>1. CASE Leave(c) BY <1>8, <2>1, LeaveElsewhere DEF PutProgress
  <2>2. CASE ~Leave(c)
    BY <1>8, <2>2 DEF PutProgress, Types, LocalTypes, Goto, Same, Transitions
  <2> QED BY <2>1, <2>2
<1>9. ASSUME PutBatch(c) PROVE Kept
  <2>1. CASE Leave(c) BY <1>9, <2>1, LeaveElsewhere DEF PutBatch
  <2>2. CASE ~Leave(c)
    BY <1>9, <2>2 DEF PutBatch, Types, LocalTypes, Goto, Same, Transitions
  <2> QED BY <2>1, <2>2
<1>10. ASSUME PutHead(c) PROVE Kept
  BY <1>10 DEF PutHead, Types, LocalTypes, Goto, Same, Transitions, locals
<1>11. ASSUME PutCurrent(c) PROVE Kept
  <2>1. /\ Goto(c, "settle") \/ Goto(c, "refresh")
        /\ log' = log /\ pc[c] = "pointer" /\ heads' = heads
        /\ state' = [state EXCEPT ![c] = batch[c]]
        /\ batch' = [batch EXCEPT ![c] = <<>>]
        /\ got' = [got EXCEPT ![c] = {}]
        /\ UNCHANGED <<held, baseline, made>>
    BY <1>11 DEF PutCurrent
  <2> QED BY <2>1 DEF Types, LocalTypes, Goto, Same, Transitions
<1>12. ASSUME Return(c) PROVE Kept
  BY <1>12, LeaveElsewhere DEF Return, disk
<1>13. ASSUME Crash(c) PROVE Kept
  BY <1>13, LeaveElsewhere DEF Crash, disk
<1> HIDE DEF Kept
<1>14. Kept
  BY <1>1, <1>2, <1>3, <1>4, <1>5, <1>6, <1>7, <1>8, <1>9, <1>10, <1>11, <1>12, <1>13
     DEF Within
<1> QED BY <1>14 DEF Kept

LEMMA WithinCampaign ==
  ASSUME Campaign, Chained', NEW c \in Command, Within(c) PROVE Campaign' /\ Ordered
<1>1. Types BY DEF Campaign, Chained, Cells
<1>2. /\ log' = log /\ pc[c] # "idle" /\ heads \subseteq heads'
      /\ \A d \in Command \ {c} : Same(d)
      /\ pc'[c] = "idle" \/ (pc'[c] \notin Transitions /\ held'[c] = held[c])
  BY <1>1, WithinKeeps
<1>3. Serves(c) BY DEF Campaign
<1>4. Serves(c)' BY <1>2, <1>3 DEF Serves, Transitions
<1> QED BY <1>2, <1>4, SameCampaign

LEMMA StartCampaign ==
  ASSUME Campaign, Chained', NEW c \in Command, Start(c) PROVE Campaign' /\ Ordered
<1>1. Types BY DEF Campaign, Chained, Cells
<1>2. \A d \in Command \ {c} : Same(d)
  BY <1>1, AsideKeeps DEF Aside
<1>3. /\ log' = log /\ heads' = heads /\ held'[c] = Len(log)
      /\ pc'[c] \in {"install", "open"} /\ Revision.generation = 1 /\ ~Revision.frozen
  BY <1>1 DEF Start, disk, Types, LocalTypes, Goto
<1>4. log'[held'[c]] = Revision BY <1>3 DEF Revision
<1>5. Serves(c)' BY <1>3, <1>4 DEF Serves
<1> QED BY <1>2, <1>3, <1>5, SameCampaign

LEMMA RereadCampaign ==
  ASSUME Campaign, Chained', NEW c \in Command, NEW where \in {"bind", "record"},
         pc[c] # "idle", Refreshed(c, where), UNCHANGED <<disk, log>>,
         where = "record" => Terminal(state[c])
  PROVE  Campaign' /\ Ordered
<1>1. Types BY DEF Campaign, Chained, Cells
<1>2. \A d \in Command \ {c} : Same(d) BY <1>1, RereadElsewhere
<1>3. heads' = heads BY DEF disk
<1>4. CASE Leave(c)
  <2>1. Serves(c)' BY <1>1, <1>4, LeaveElsewhere DEF Serves
  <2> QED BY <1>2, <1>3, <2>1, SameCampaign
<1>5. CASE ~Leave(c)
  <2>1. where \in Where BY DEF Where
  <2>2. /\ pc'[c] = where /\ held'[c] = Len(log) /\ state' = state
        /\ Revision.generation = log[held[c]].generation
    BY <1>1, <1>5, <2>1, Reread
  <2>3. log'[held'[c]] = Revision BY <2>2 DEF Revision
  <2>4. log[held[c]].generation = 1 BY DEF Campaign, Serves
  <2>5. Serves(c)' BY <2>2, <2>3, <2>4 DEF Serves
  <2> QED BY <1>2, <1>3, <2>5, SameCampaign
<1> QED BY <1>4, <1>5

LEMMA InstallCampaign ==
  ASSUME Campaign, Chained', NEW c \in Command, Install(c) PROVE Campaign' /\ Ordered
<1>1. Types BY DEF Campaign, Chained, Cells
<1>2. \A d \in Command \ {c} : Same(d) BY <1>1, AsideKeeps DEF Aside
<1>3. heads' = heads /\ log' = log BY DEF Install, disk
<1>4. CASE Leave(c)
  <2>1. Serves(c)' BY <1>1, <1>4, LeaveElsewhere DEF Serves
  <2> QED BY <1>2, <1>3, <2>1, SameCampaign
<1>5. CASE ~Leave(c)
  <2>1. /\ Revision.life = "complete" /\ Revision.design = baseline[c] /\ ~Revision.frozen
        /\ held' = [held EXCEPT ![c] = Len(log)] /\ Goto(c, "propose")
        /\ UNCHANGED <<baseline, state>>
    BY <1>5 DEF Install
  <2>2. pc'[c] = "propose" /\ held'[c] = Len(log)
    BY <1>1, <2>1 DEF Types, LocalTypes, Goto
  <2>3. log'[held'[c]] = Revision BY <1>3, <2>2 DEF Revision
  <2>4. Committal(Revision) BY LogOf DEF Revision
  <2>5. Revision.generation = 1 BY <2>1, <2>4 DEF Committal
  <2>6. Serves(c)' BY <2>1, <2>2, <2>3, <2>5 DEF Serves
  <2> QED BY <1>2, <1>3, <2>6, SameCampaign
<1> QED BY <1>4, <1>5

(* A revision appended to the campaign. *)
LEMMA Grown ==
  ASSUME Campaign, NEW revision \in Revisions, Committal(revision),
         log' = Append(log, revision), heads \subseteq heads'
  PROVE  /\ BoundIsCommitted' /\ (\A i \in 1 .. Len(log) : log'[i] = log[i])
         /\ Len(log') = Len(log) + 1 /\ log'[Len(log')] = revision
<1>1. log \in Seq(Revisions) /\ Len(log) \in Nat \ {0}
      /\ \A i \in 1 .. Len(log) : Committal(log[i])
  BY LogOf
<1>2. /\ Len(log') = Len(log) + 1 /\ DOMAIN log' = 1 .. Len(log) + 1
      /\ (\A i \in 1 .. Len(log) : log'[i] = log[i]) /\ log'[Len(log) + 1] = revision
  BY <1>1
<1>3. ASSUME NEW i \in DOMAIN log'
      PROVE  /\ log'[i].adopted = <<>> \/ (log'[i].generation = 1 /\ log'[i].adopted \in heads')
             /\ log'[i].life = "complete" => log'[i].adopted # <<>> /\ Terminal(log'[i].adopted)
  <2>1. CASE i \in 1 .. Len(log) BY <1>1, <1>2, <2>1 DEF Committal
  <2>2. CASE i = Len(log) + 1 BY <1>2, <2>2 DEF Committal
  <2> QED BY <1>1, <1>2, <2>1, <2>2
<1>4. BoundIsCommitted' BY <1>3 DEF BoundIsCommitted
<1> QED BY <1>2, <1>4

(* What a transition of a command must be to keep the order of decisions. *)
Fitting(c, revision) ==
  /\ Committal(revision) /\ revision.generation = 1
  /\ LET r == log[held[c]] IN
     \/ revision.design = r.design /\ revision.frozen = r.frozen
     \/ revision.kind = "propose" /\ ~r.frozen
  /\ pc[c] = "propose" => revision.kind = "propose"

LEMMA TransitionCampaign ==
  ASSUME Campaign, Chained', NEW c \in Command, NEW revision \in Revisions,
         NEW where \in {"replay", "boundary", "install", "done"},
         pc[c] # "idle", Commit(c, revision, where), UNCHANGED <<disk, bounds>>,
         Fitting(c, revision)
  PROVE  Campaign' /\ Ordered
<1>1. Types BY DEF Campaign, Chained, Cells
<1>2. \A d \in Command \ {c} : Same(d) BY <1>1, CommitElsewhere
<1>3. heads' = heads BY DEF disk
<1>4. held[c] # 0 /\ where \in Where BY HeldRevision DEF Campaign, Chained, Where
<1>5. \/ /\ pc'[c] = where
         /\ held'[c] \in 1 .. Len(log') /\ log'[held'[c]] = revision
         /\ \/ held[c] = Len(log) /\ log' = Append(log, revision)
            \/ log' = log
      \/ Leave(c) /\ log' = log
  BY <1>1, <1>4, Committed
<1>6. CASE log' = log
  <2>1. Serves(c)'
    <3>1. CASE Leave(c) BY <1>1, <3>1, LeaveElsewhere DEF Serves
    <3>2. CASE pc'[c] = where /\ log'[held'[c]] = revision BY <3>2 DEF Serves, Fitting
    <3> QED BY <1>5, <3>1, <3>2
  <2> QED BY <1>2, <1>3, <1>6, <2>1, SameCampaign
<1>7. CASE /\ pc'[c] = where /\ log'[held'[c]] = revision
           /\ held[c] = Len(log) /\ log' = Append(log, revision)
  <2>1. /\ BoundIsCommitted' /\ (\A i \in 1 .. Len(log) : log'[i] = log[i])
        /\ Len(log') = Len(log) + 1 /\ log'[Len(log')] = revision
    BY <1>3, <1>7, Grown DEF Fitting
  <2>2. Serves(c)' BY <1>7 DEF Serves, Fitting
  <2>3. \A d \in Command : Serves(d)' BY <1>2, <2>1, <2>2, OthersServe
  <2>4. Revision = log[held[c]] BY <1>7 DEF Revision
  <2>5. Revision \in Revisions BY <2>4, HeldRevision DEF Campaign, Chained
  <2>6. DesignKept
    <3>1. \/ revision.design = Revision.design /\ revision.frozen = Revision.frozen
          \/ revision.kind = "propose" /\ ~Revision.frozen
      BY <2>4 DEF Fitting
    <3>2. revision.frozen \in BOOLEAN /\ Revision.frozen \in BOOLEAN
      BY <2>5 DEF Revisions
    <3> QED BY <2>1, <3>1, <3>2 DEF DesignKept
  <2>7. ASSUME NEW d \in Command PROVE NewerWins(d)
    <3>1. CASE d = c BY <2>4, <3>1 DEF NewerWins, Campaign, Serves
    <3>2. CASE d # c BY <1>2, <3>2 DEF NewerWins, Same
    <3> QED BY <3>1, <3>2
  <2> QED BY <2>1, <2>3, <2>6, <2>7 DEF Campaign, Ordered
<1> QED BY <1>5, <1>6, <1>7

LEMMA OpenCampaign ==
  ASSUME Campaign, Chained', NEW c \in Command, Open(c) PROVE Campaign' /\ Ordered
<1> DEFINE r == log[held[c]]
           r1 == [r EXCEPT !.kind = "open"]
           r2 == [r1 EXCEPT !.life = "active"]
           r3 == [r2 EXCEPT !.frozen = FALSE]
<1>1. pc[c] = "open" /\ UNCHANGED <<disk, bounds>> BY DEF Open
<1>2. r \in Revisions /\ Committal(r) /\ r.generation = 1 /\ ~r.frozen
  <2>1. held[c] \in 1 .. Len(log) BY <1>1, HeldRevision DEF Campaign, Chained
  <2> QED BY <1>1, <2>1, LogOf DEF Campaign, Serves
<1>3. r1 \in Revisions BY <1>2, Revised DEF Kinds
<1>4. r2 \in Revisions BY <1>3, Revised
<1>5. r3 \in Revisions BY <1>4, Revised
<1>6. /\ r3.adopted = r.adopted /\ r3.generation = r.generation /\ r3.life = "active"
      /\ r3.design = r.design /\ r3.frozen = FALSE /\ r.frozen = FALSE
  BY <1>2 DEF Revisions
<1>7. Commit(c, r3, "replay") BY DEF Open
<1> HIDE DEF r3
<1>8. Fitting(c, r3) BY <1>1, <1>2, <1>6 DEF Fitting, Committal
<1> QED BY <1>1, <1>5, <1>7, <1>8, TransitionCampaign

LEMMA BindCampaign ==
  ASSUME Campaign, Chained', NEW c \in Command, Bind(c) PROVE Campaign' /\ Ordered
<1> DEFINE r == log[held[c]]
           r1 == [r EXCEPT !.kind = "adopt"]
           r2 == [r1 EXCEPT !.life = "active"]
           r3 == [r2 EXCEPT !.adopted = state[c]]
<1>1. pc[c] = "bind" /\ UNCHANGED <<disk, bounds>> BY DEF Bind
<1>2. r \in Revisions /\ r.generation = 1
  <2>1. held[c] \in 1 .. Len(log) BY <1>1, HeldRevision DEF Campaign, Chained
  <2> QED BY <1>1, <2>1, LogOf DEF Campaign, Serves
<1>3. state[c] \in Histories /\ state[c] \in heads \cup {<<>>} /\ Types
  BY DEF Campaign, Chained, Commits, Cells, Types, LocalTypes
<1>4. r1 \in Revisions BY <1>2, Revised DEF Kinds
<1>5. r2 \in Revisions BY <1>4, Revised
<1>6. r3 \in Revisions BY <1>3, <1>5, Revised
<1>7. /\ r3.adopted = state[c] /\ r3.generation = r.generation /\ r3.life = "active"
      /\ r3.design = r.design /\ r3.frozen = r.frozen
  BY <1>2 DEF Revisions
<1>8. \/ Goto(c, "boundary") /\ UNCHANGED <<log, locals>>
      \/ Commit(c, r3, "boundary")
  BY DEF Bind
<1> HIDE DEF r3
<1>9. CASE Goto(c, "boundary") /\ UNCHANGED <<log, locals>>
  <2>1. /\ pc'[c] = "boundary" /\ held'[c] = held[c] /\ log' = log /\ heads' = heads
        /\ \A d \in Command \ {c} : Same(d)
    BY <1>1, <1>3, <1>9 DEF Types, LocalTypes, Goto, locals, disk, Same
  <2>2. Serves(c)' BY <1>2, <2>1 DEF Serves
  <2> QED BY <2>1, <2>2, SameCampaign
<1>10. CASE Commit(c, r3, "boundary")
  <2>1. Fitting(c, r3) BY <1>1, <1>2, <1>3, <1>7 DEF Fitting, Committal
  <2> QED BY <1>1, <1>6, <1>10, <2>1, TransitionCampaign
<1> QED BY <1>8, <1>9, <1>10

LEMMA RecordCampaign ==
  ASSUME Campaign, Chained', NEW c \in Command, RecordDiagnostic(c)
  PROVE  Campaign' /\ Ordered
<1> DEFINE r == log[held[c]]
           r1 == [r EXCEPT !.kind = "record"]
           r2 == [r1 EXCEPT !.life = "complete"]
           r3 == [r2 EXCEPT !.adopted = state[c]]
<1>1. pc[c] = "record" /\ UNCHANGED <<disk, bounds>> BY DEF RecordDiagnostic
<1>2. r \in Revisions /\ r.generation = 1 /\ Terminal(state[c])
  <2>1. held[c] \in 1 .. Len(log) BY <1>1, HeldRevision DEF Campaign, Chained
  <2> QED BY <1>1, <2>1, LogOf DEF Campaign, Serves
<1>3. state[c] \in Histories /\ state[c] \in heads /\ state[c] # <<>>
  <2>1. state[c] # <<>> BY <1>2, NotTerminalAtFirst
  <2> QED BY <2>1 DEF Campaign, Chained, Commits, Cells, Types, LocalTypes
<1>4. r1 \in Revisions BY <1>2, Revised DEF Kinds
<1>5. r2 \in Revisions BY <1>4, Revised
<1>6. r3 \in Revisions BY <1>3, <1>5, Revised
<1>7. /\ r3.adopted = state[c] /\ r3.generation = r.generation
      /\ r3.design = r.design /\ r3.frozen = r.frozen
  BY <1>2 DEF Revisions
<1>8. Commit(c, r3, "install") BY DEF RecordDiagnostic
<1> HIDE DEF r3
<1>9. Fitting(c, r3) BY <1>1, <1>2, <1>3, <1>7 DEF Fitting, Committal
<1> QED BY <1>1, <1>6, <1>8, <1>9, TransitionCampaign

LEMMA ProposeCampaign ==
  ASSUME Campaign, Chained', NEW c \in Command, Propose(c) PROVE Campaign' /\ Ordered
<1> DEFINE r == log[held[c]]
           r1 == [r EXCEPT !.kind = "propose"]
           r2 == [r1 EXCEPT !.design = r.design \cup {"auto"}]
<1>1. pc[c] = "propose" /\ UNCHANGED <<disk, bounds>> BY DEF Propose
<1>2. r \in Revisions /\ Committal(r) /\ r.generation = 1 /\ ~r.frozen
  <2>1. held[c] \in 1 .. Len(log) BY <1>1, HeldRevision DEF Campaign, Chained
  <2> QED BY <1>1, <2>1, LogOf DEF Campaign, Serves
<1>3. r.design \cup {"auto"} \in Design BY <1>2 DEF Revisions, Design
<1>4. r1 \in Revisions BY <1>2, Revised DEF Kinds
<1>5. r2 \in Revisions BY <1>3, <1>4, Revised
<1>6. /\ r2.adopted = r.adopted /\ r2.generation = r.generation /\ r2.life = r.life
      /\ r2.kind = "propose"
  BY <1>2 DEF Revisions
<1>7. Commit(c, r2, "done") BY DEF Propose
<1> HIDE DEF r2
<1>8. Fitting(c, r2) BY <1>1, <1>2, <1>6 DEF Fitting, Committal
<1> QED BY <1>1, <1>5, <1>7, <1>8, TransitionCampaign

LEMMA DecideCampaign ==
  ASSUME Campaign, Chained', NEW revision \in Revisions, Decide(revision),
         Committal(revision), revision.kind \notin {"open", "adopt", "record"},
         revision.kind = "advance" \/ ~Revision.frozen
  PROVE  Campaign' /\ Ordered
<1>1. log' = Append(log, revision) /\ UNCHANGED <<disk, pc, locals>> BY DEF Decide
<1>2. /\ BoundIsCommitted' /\ (\A i \in 1 .. Len(log) : log'[i] = log[i])
      /\ log'[Len(log')] = revision
  BY <1>1, Grown DEF disk
<1>3. ASSUME NEW d \in Command PROVE Serves(d)'
  <2>1. Same(d) BY <1>1 DEF locals, Same
  <2> QED BY <1>2, <2>1, OthersServe
<1>4. DesignKept BY <1>2 DEF DesignKept
<1>5. \A d \in Command : NewerWins(d) BY <1>1 DEF NewerWins
<1> QED BY <1>2, <1>3, <1>4, <1>5 DEF Campaign, Ordered

LEMMA OperatorCampaign ==
  ASSUME Campaign, Chained', Choose \/ Reset \/ Freeze \/ Prepare
  PROVE  Campaign' /\ Ordered
<1> DEFINE r == Revision
<1>1. r \in Revisions /\ Committal(r) /\ r.design \in Design
  BY LogOf DEF Revision, Revisions
<1>2. CASE Choose
  <2> DEFINE r1 == [r EXCEPT !.kind = "propose"]
             r2 == [r1 EXCEPT !.design = r1.design \cup {"manual"}]
  <2>1. r1 \in Revisions BY <1>1, Revised DEF Kinds
  <2>2. r1.design = r.design BY <1>1 DEF Revisions
  <2>3. r1.design \cup {"manual"} \in Design BY <1>1, <2>2 DEF Design
  <2>4. r2 \in Revisions BY <2>1, <2>3, Revised
  <2>5. /\ r2.adopted = r.adopted /\ r2.generation = r.generation /\ r2.life = r.life
        /\ r2.kind = "propose"
    BY <1>1 DEF Revisions
  <2>6. Decide(r2) /\ ~Revision.frozen BY <1>2 DEF Choose
  <2> HIDE DEF r2
  <2>7. Committal(r2) BY <1>1, <2>5 DEF Committal
  <2> QED BY <2>4, <2>5, <2>6, <2>7, DecideCampaign
<1>3. CASE Reset
  <2> DEFINE r1 == [r EXCEPT !.kind = "reset"]
             r2 == [r1 EXCEPT !.design = {}]
  <2>1. r1 \in Revisions BY <1>1, Revised DEF Kinds
  <2>2. r2 \in Revisions BY <2>1, Revised DEF Design
  <2>3. /\ r2.adopted = r.adopted /\ r2.generation = r.generation /\ r2.life = r.life
        /\ r2.kind = "reset"
    BY <1>1 DEF Revisions
  <2>4. Decide(r2) /\ ~Revision.frozen BY <1>3 DEF Reset
  <2> HIDE DEF r2
  <2>5. Committal(r2) BY <1>1, <2>3 DEF Committal
  <2> QED BY <2>2, <2>3, <2>4, <2>5, DecideCampaign
<1>4. CASE Freeze
  <2> DEFINE r1 == [r EXCEPT !.kind = "freeze"]
             r2 == [r1 EXCEPT !.frozen = TRUE]
  <2>1. r1 \in Revisions BY <1>1, Revised DEF Kinds
  <2>2. r2 \in Revisions BY <2>1, Revised
  <2>3. /\ r2.adopted = r.adopted /\ r2.generation = r.generation /\ r2.life = r.life
        /\ r2.kind = "freeze"
    BY <1>1 DEF Revisions
  <2>4. Decide(r2) /\ ~Revision.frozen BY <1>4 DEF Freeze
  <2> HIDE DEF r2
  <2>5. Committal(r2) BY <1>1, <2>3 DEF Committal
  <2> QED BY <2>2, <2>3, <2>4, <2>5, DecideCampaign
<1>5. CASE Prepare
  <2> DEFINE r1 == [Fresh EXCEPT !.kind = "advance"]
             r2 == [r1 EXCEPT !.generation = r.generation + 1]
  <2>1. r1 \in Revisions BY FreshRevision, Revised DEF Kinds
  <2>2. r.generation + 1 \in Nat BY <1>1 DEF Revisions
  <2>3. r2 \in Revisions BY <2>1, <2>2 DEF Revisions
  <2>4. r2.adopted = <<>> /\ r2.life = "bound" /\ r2.kind = "advance" BY DEF Fresh
  <2>5. Decide(r2) BY <1>5 DEF Prepare
  <2> HIDE DEF r2
  <2>6. Committal(r2) BY <2>4 DEF Committal
  <2> QED BY <2>3, <2>4, <2>5, <2>6, DecideCampaign
<1> QED BY <1>2, <1>3, <1>4, <1>5

LEMMA InitCampaign == ASSUME Init PROVE Campaign
<1>1. Chained BY InitChain
<1>2. BoundIsCommitted
  <2> SUFFICES ASSUME NEW i \in DOMAIN log
               PROVE  log[i].adopted = <<>> /\ log[i].life # "complete"
    BY DEF BoundIsCommitted
  <2>1. log = <<Fresh>> /\ i = 1 BY DEF Init
  <2>2. log[i] = Fresh BY <2>1
  <2> QED BY <2>2 DEF Fresh
<1>3. \A c \in Command : Serves(c) BY DEF Init, Serves
<1> QED BY <1>1, <1>2, <1>3 DEF Campaign

LEMMA NextCampaign == ASSUME Campaign, Next PROVE Campaign' /\ Ordered
<1>1. Chained' BY NextChain DEF Campaign
<1>2. ASSUME NEW c \in Command, Start(c) \/ Step(c) \/ Crash(c) PROVE Campaign' /\ Ordered
  <2>1. pc[c] # "idle" /\ UNCHANGED <<disk, log>> /\ (pc[c] = "boundary" => Terminal(state[c]))
          => \A where \in {"bind", "record"} :
               Refreshed(c, where) /\ (where = "record" => pc[c] = "boundary")
                 => Campaign' /\ Ordered
    BY <1>1, RereadCampaign
  <2>2. CASE Refresh(c) BY <2>1, <2>2 DEF Refresh
  <2>3. CASE Finish(c) BY <2>1, <2>3 DEF Finish
  <2>4. \/ Start(c) \/ Open(c) \/ Refresh(c) \/ Bind(c) \/ Finish(c) \/ RecordDiagnostic(c)
        \/ Install(c) \/ Propose(c) \/ Within(c)
    BY <1>2 DEF Step, Within
  <2> QED BY <1>1, <2>2, <2>3, <2>4, StartCampaign, OpenCampaign, BindCampaign,
             RecordCampaign, InstallCampaign, ProposeCampaign, WithinCampaign
<1>3. CASE Choose \/ Reset \/ Freeze \/ Prepare BY <1>1, <1>3, OperatorCampaign
<1> QED BY <1>2, <1>3 DEF Next

LEMMA CampaignHolds == ASSUME Campaign, [Next]_vars PROVE Campaign'
<1>1. CASE UNCHANGED vars
  <2>1. Chained' BY <1>1, NextChain DEF Campaign
  <2> QED BY <1>1, <2>1 DEF vars, disk, locals, Campaign, BoundIsCommitted, Serves
<1>2. CASE Next BY <1>2, NextCampaign
<1> QED BY <1>1, <1>2

(* Whatever dies between a batch, its head and the pointer, the root holds *)
(* one chain of whole matrices of accepted cells, and the campaign names   *)
(* only heads that are in it, and only a terminal one as its diagnostic    *)
(* (commit_target_size_boundary_batch, reconcile_target_size_screen_root).   *)
THEOREM CommittedStaysWhole == Spec => []CommittedIsWhole
<1>1. Init => Campaign BY InitCampaign
<1>2. Campaign /\ [Next]_vars => Campaign' BY CampaignHolds
<1>3. Campaign => CommittedIsWhole BY ChainGuarantee DEF Campaign, CommittedIsWhole
<1> QED BY <1>1, <1>2, <1>3, PTL DEF Spec

(* What is committed stays and the pointer goes on one head at a time; a   *)
(* screen, however long it ran, leaves the operator's design and its freeze *)
(* alone, and proposes only over the design it started from                *)
(* (commit_target_size_boundary_batch, _install_recommendation).           *)
THEOREM DecisionsStayOrdered == Spec => DecisionsMoveForward
<1>1. Init => Campaign BY InitCampaign
<1>2. Campaign /\ [Next]_vars => Campaign' BY CampaignHolds
<1>3. Campaign /\ [Next]_vars =>
        [/\ heads \subseteq heads' /\ batches \subseteq batches' /\ progress \subseteq progress'
         /\ current' # current => current' # <<>> /\ Before(current') = current]_disk
  BY ChainForward DEF Campaign, vars
<1>4. Campaign /\ [Next]_vars => [DesignKept]_log
  BY NextCampaign DEF Ordered, vars
<1>5. Campaign /\ [Next]_vars => [\A c \in Command : NewerWins(c)]_vars
  BY NextCampaign DEF Ordered
<1>6. Spec => CommittedForward BY <1>1, <1>2, <1>3, PTL DEF Spec, CommittedForward
<1>7. Spec => DesignIsTheOperators
  BY <1>1, <1>2, <1>4, PTL DEF Spec, DesignIsTheOperators, DesignKept
<1>8. Spec => NewerDecisionWins
  BY <1>1, <1>2, <1>5, PTL DEF Spec, NewerDecisionWins, NewerWins
<1> QED BY <1>6, <1>7, <1>8 DEF DecisionsMoveForward

-----------------------------------------------------------------------------
(***************************************************************************)
(* The evaluation of the locked cohort (LockedActivation).                 *)
(***************************************************************************)

-----------------------------------------------------------------------------
(* The inductive invariant.                                                *)

(* What was disclosed is in the store. *)
RevealedIsStored == aReveal # Nothing => aReveal \in aObjects

(* What a command holds at each point: the binding of its session, which   *)
(* stays current in its window, and an activation of that binding, in the  *)
(* store once it was put and disclosed once that succeeded.                *)
LockedHolds(p) ==
  /\ aPc[p] # "out" => aBind[p] \in Binding
  /\ aPc[p] = "components" => (aAct[p] # Nothing => aAct[p].binding = aBind[p])
  /\ aPc[p] \in {"enter", "put", "reveal", "point", "evaluate"} =>
       aAct[p] \in Locked!Activation /\ aAct[p].binding = aBind[p]
  /\ aPc[p] \in {"put", "reveal", "point"} => aCurrent = aBind[p]
  /\ aPc[p] \in {"reveal", "point"} => aAct[p] \in aObjects
  /\ aPc[p] \in {"point", "evaluate"} => aReveal = aAct[p]

OneShot ==
  /\ Locked!TypeOK
  /\ Locked!EvaluatedOnce
  /\ RevealedIsStored
  /\ \A p \in Command : LockedHolds(p)

-----------------------------------------------------------------------------
(* The first scan of the store finds an activation of it, or nothing.      *)
LEMMA ExistingIsStored == Locked!Existing = Nothing \/ Locked!Existing \in aObjects
  BY DEF Locked!Existing

LEMMA InitIsOneShot == Locked!MarksAreApart /\ Locked!Init => OneShot
  BY DEF Locked!MarksAreApart, Locked!Init, OneShot, Locked!TypeOK, Locked!EvaluatedOnce,
     RevealedIsStored,
         LockedHolds, Locked!Result, Locked!Activation, Locked!Place

(* What a command holds does not change with what others do, as long as    *)
(* the disclosure stands and the binding of its window stays current.      *)
LEMMA OthersHold ==
  ASSUME NEW q \in Command, LockedHolds(q),
         aPc'[q] = aPc[q], aBind'[q] = aBind[q], aAct'[q] = aAct[q],
         aObjects \subseteq aObjects',
         aPc[q] \in {"point", "evaluate"} => aReveal' = aReveal,
         aPc[q] \in {"put", "reveal", "point"} => aCurrent' = aCurrent
  PROVE  LockedHolds(q)'
  BY DEF LockedHolds

(* A command that leaves frees the window if it had it, and nothing else   *)
(* moves but a record or a release that has its type.                      *)
LEMMA LeaveKeepsOneShot ==
  ASSUME Locked!MarksAreApart, OneShot, NEW p \in Command, Locked!Leave(p),
         UNCHANGED <<aClock, aCurrent, Locked!store, aPointer>>,
         aRecord' \in Locked!Result \cup {Nothing}, aRelease' \in Locked!Result \cup {Nothing}
  PROVE  OneShot'
<1> USE DEF Locked!store
<1>1. Locked!TypeOK'
  <2>1. /\ aPc' \in [Command -> Locked!Place] /\ aBind' \in [Command -> Binding \cup {Nothing}]
        /\ aAct' \in [Command -> Locked!Activation \cup {Nothing}]
        /\ aWindow' \in Command \cup {Nobody}
    BY DEF OneShot, Locked!TypeOK, Locked!Leave, Locked!Place
  <2>2. \A q \in Command : aWindow' = q <=> aPc'[q] \in {"put", "reveal", "point"}
    BY DEF Locked!MarksAreApart, OneShot, Locked!TypeOK, Locked!Leave
  <2>3. QED
    BY <2>1, <2>2 DEF OneShot, Locked!TypeOK
<1>2. Locked!EvaluatedOnce' /\ RevealedIsStored'
  BY DEF OneShot, Locked!EvaluatedOnce, RevealedIsStored
<1>3. ASSUME NEW q \in Command PROVE LockedHolds(q)'
  <2>1. CASE q = p
    <3>1. aPc'[q] = "out"
      BY <2>1 DEF OneShot, Locked!TypeOK, Locked!Leave
    <3>2. QED
      BY <3>1 DEF LockedHolds
  <2>2. CASE q # p
    <3>1. aPc'[q] = aPc[q] /\ aBind'[q] = aBind[q] /\ aAct'[q] = aAct[q]
      BY <2>2 DEF OneShot, Locked!TypeOK, Locked!Leave
    <3>2. QED
      BY <3>1, OthersHold DEF OneShot
  <2>3. QED
    BY <2>1, <2>2
<1>4. QED
  BY <1>1, <1>2, <1>3 DEF OneShot

-----------------------------------------------------------------------------
(* One step of one command.                                                *)
LEMMA StepKeepsOneShot ==
  ASSUME Locked!MarksAreApart, OneShot, NEW p \in Command, Locked!Step(p)
  PROVE  OneShot'
<1> USE DEF Locked!store, Locked!published
<1>1. ASSUME NEW q \in Command \ {p}, aPc'[q] = aPc[q], aBind'[q] = aBind[q], aAct'[q] = aAct[q],
             aObjects \subseteq aObjects', aCurrent' = aCurrent,
             aPc[q] \in {"point", "evaluate"} => aReveal' = aReveal
      PROVE  LockedHolds(q)'
  BY <1>1, OthersHold DEF OneShot
<1>2. CASE Locked!Start(p)
  <2>1. Locked!TypeOK'
    BY <1>2 DEF OneShot, Locked!TypeOK, Locked!Start, Locked!Place
  <2>2. Locked!EvaluatedOnce' /\ RevealedIsStored'
    BY <1>2 DEF OneShot, Locked!EvaluatedOnce, RevealedIsStored, Locked!Start
  <2>3. LockedHolds(p)'
    BY <1>2 DEF OneShot, Locked!TypeOK, Locked!Start, LockedHolds
  <2>4. \A q \in Command \ {p} : LockedHolds(q)'
    BY <1>1, <1>2 DEF OneShot, Locked!TypeOK, Locked!Start
  <2>5. QED
    BY <2>1, <2>2, <2>3, <2>4 DEF OneShot
<1>3. CASE Locked!Look(p)
  <2>1. CASE Locked!Leave(p)
    BY <1>3, <2>1, LeaveKeepsOneShot DEF OneShot, Locked!TypeOK, Locked!Look
  <2>2. CASE ~Locked!Leave(p)
    <3>1. /\ aAct' = [aAct EXCEPT ![p] = Locked!Existing] /\ Locked!Goto(p, "components")
          /\ UNCHANGED <<aBind, aWindow, aClock, aCurrent, Locked!store, Locked!published>>
          /\ Locked!Existing # Nothing => Locked!Existing.binding = aBind[p]
          /\ aPc[p] = "look"
      BY <1>3, <2>2 DEF Locked!Look
    <3>2. Locked!Existing \in Locked!Activation \cup {Nothing}
      BY ExistingIsStored DEF OneShot, Locked!TypeOK
    <3>3. Locked!TypeOK'
      BY <3>1, <3>2 DEF OneShot, Locked!TypeOK, Locked!Goto, Locked!Place
    <3>4. Locked!EvaluatedOnce' /\ RevealedIsStored'
      BY <3>1 DEF OneShot, Locked!EvaluatedOnce, RevealedIsStored
    <3>5. LockedHolds(p)'
      BY <3>1 DEF OneShot, Locked!TypeOK, Locked!Goto, LockedHolds
    <3>6. \A q \in Command \ {p} : LockedHolds(q)'
      BY <1>1, <3>1 DEF OneShot, Locked!TypeOK, Locked!Goto
    <3>7. QED
      BY <3>3, <3>4, <3>5, <3>6 DEF OneShot
  <2>3. QED
    BY <2>1, <2>2
<1>4. CASE Locked!Prepare(p)
  <2>1. aBind[p] \in Binding /\ aClock \in 0 .. LastSecond
    BY <1>4 DEF OneShot, Locked!TypeOK, LockedHolds, Locked!Prepare
  <2>2. aAct'[p] \in Locked!Activation /\ aAct'[p].binding = aBind[p]
    BY <1>4, <2>1 DEF OneShot, Locked!TypeOK, LockedHolds, Locked!Prepare, Locked!Activation
  <2>3. Locked!TypeOK'
    <3>1. aAct' \in [Command -> Locked!Activation \cup {Nothing}]
      BY <1>4, <2>2 DEF OneShot, Locked!TypeOK, Locked!Prepare
    <3>2. QED
      BY <1>4, <3>1 DEF OneShot, Locked!TypeOK, Locked!Prepare, Locked!Goto, Locked!Place
  <2>4. Locked!EvaluatedOnce' /\ RevealedIsStored'
    BY <1>4 DEF OneShot, Locked!EvaluatedOnce, RevealedIsStored, Locked!Prepare
  <2>5. LockedHolds(p)'
    BY <1>4, <2>1, <2>2 DEF OneShot, Locked!TypeOK, Locked!Goto, Locked!Prepare, LockedHolds
  <2>6. \A q \in Command \ {p} : LockedHolds(q)'
    BY <1>1, <1>4 DEF OneShot, Locked!TypeOK, Locked!Goto, Locked!Prepare
  <2>7. QED
    BY <2>3, <2>4, <2>5, <2>6 DEF OneShot
<1>5. CASE Locked!Enter(p)
  <2>1. CASE aCurrent # aBind[p]
    BY <1>5, <2>1, LeaveKeepsOneShot DEF OneShot, Locked!TypeOK, Locked!Enter
  <2>2. CASE aCurrent = aBind[p]
    <3>1. Locked!TypeOK'
      BY <1>5, <2>2
        DEF Locked!MarksAreApart, OneShot, Locked!TypeOK, Locked!Enter, Locked!Goto, Locked!Place
    <3>2. Locked!EvaluatedOnce' /\ RevealedIsStored'
      BY <1>5 DEF OneShot, Locked!EvaluatedOnce, RevealedIsStored, Locked!Enter
    <3>3. LockedHolds(p)'
      BY <1>5, <2>2 DEF OneShot, Locked!TypeOK, Locked!Goto, Locked!Enter, LockedHolds
    <3>4. \A q \in Command \ {p} : LockedHolds(q)'
      BY <1>1, <1>5, <2>2 DEF OneShot, Locked!TypeOK, Locked!Goto, Locked!Enter
    <3>5. QED
      BY <3>1, <3>2, <3>3, <3>4 DEF OneShot
  <2>3. QED
    BY <2>1, <2>2
<1>6. CASE Locked!PutActivation(p)
  <2>1. Locked!TypeOK'
    BY <1>6 DEF OneShot, Locked!TypeOK, Locked!PutActivation, Locked!Goto, Locked!Place, LockedHolds
  <2>2. Locked!EvaluatedOnce' /\ RevealedIsStored'
    BY <1>6 DEF OneShot, Locked!EvaluatedOnce, RevealedIsStored, Locked!PutActivation
  <2>3. LockedHolds(p)'
    BY <1>6 DEF OneShot, Locked!TypeOK, Locked!Goto, Locked!PutActivation, LockedHolds
  <2>4. \A q \in Command \ {p} : LockedHolds(q)'
    BY <1>1, <1>6 DEF OneShot, Locked!TypeOK, Locked!Goto, Locked!PutActivation
  <2>5. QED
    BY <2>1, <2>2, <2>3, <2>4 DEF OneShot
(* The first disclosure finds nothing evaluated and nothing pointed at, and *)
(* nobody else in the window.                                              *)
<1>7. CASE Locked!Reveal(p)
  <2>1. CASE aReveal \notin {Nothing, aAct[p]}
    BY <1>7, <2>1, LeaveKeepsOneShot DEF OneShot, Locked!TypeOK, Locked!Reveal
  <2>2. CASE aReveal \in {Nothing, aAct[p]}
    <3>1. /\ aReveal' = aAct[p] /\ Locked!Goto(p, "point")
          /\ UNCHANGED <<aWindow, aBind, aAct, aClock, aCurrent, aObjects, aEvidence, Locked!published>>
          /\ aPc[p] = "reveal" /\ aAct[p] \in Locked!Activation /\ aAct[p] \in aObjects
      BY <1>7, <2>2 DEF OneShot, LockedHolds, Locked!Reveal
    <3>2. Locked!TypeOK'
      BY <3>1 DEF OneShot, Locked!TypeOK, Locked!Goto, Locked!Place
    <3>3. Locked!EvaluatedOnce' /\ RevealedIsStored'
      BY <2>2, <3>1
        DEF Locked!MarksAreApart, OneShot, Locked!TypeOK, Locked!EvaluatedOnce, RevealedIsStored
    <3>4. LockedHolds(p)'
      BY <3>1 DEF OneShot, Locked!TypeOK, Locked!Goto, LockedHolds
    <3>5. ASSUME NEW q \in Command \ {p}, aPc[q] \in {"point", "evaluate"}
          PROVE  aReveal' = aReveal
      <4>1. aPc[q] # "point"
        BY <3>1, <3>5 DEF Locked!MarksAreApart, OneShot, Locked!TypeOK
      <4>2. aReveal = aAct[q] /\ aAct[q] \in Locked!Activation
        BY <3>5, <4>1 DEF OneShot, LockedHolds
      <4>3. QED
        BY <2>2, <3>1, <4>2 DEF Locked!MarksAreApart
    <3>6. \A q \in Command \ {p} : LockedHolds(q)'
      BY <1>1, <3>1, <3>5 DEF OneShot, Locked!TypeOK, Locked!Goto
    <3>7. QED
      BY <3>2, <3>3, <3>4, <3>6 DEF OneShot
  <2>3. QED
    BY <2>1, <2>2
<1>8. CASE Locked!PublishPointer(p)
  <2>1. aAct[p] \in Locked!Activation /\ aReveal = aAct[p] /\ aWindow = p
    BY <1>8 DEF OneShot, Locked!TypeOK, LockedHolds, Locked!PublishPointer
  <2>2. Locked!TypeOK'
    BY <1>8, <2>1
      DEF Locked!MarksAreApart, OneShot, Locked!TypeOK, Locked!PublishPointer, Locked!Goto, Locked!Place
  <2>3. Locked!EvaluatedOnce' /\ RevealedIsStored'
    BY <1>8, <2>1 DEF OneShot, Locked!EvaluatedOnce, RevealedIsStored, Locked!PublishPointer
  <2>4. LockedHolds(p)'
    BY <1>8, <2>1 DEF OneShot, Locked!TypeOK, Locked!Goto, Locked!PublishPointer, LockedHolds
  <2>5. \A q \in Command \ {p} : LockedHolds(q)'
    BY <1>1, <1>8 DEF OneShot, Locked!TypeOK, Locked!Goto, Locked!PublishPointer
  <2>6. QED
    BY <2>2, <2>3, <2>4, <2>5 DEF OneShot
<1>9. CASE Locked!Evaluate(p)
  <2>1. aAct[p] \in Locked!Activation /\ aReveal = aAct[p]
    BY <1>9 DEF OneShot, Locked!TypeOK, LockedHolds, Locked!Evaluate
  <2>2. Locked!TypeOK'
    BY <1>9, <2>1 DEF OneShot, Locked!TypeOK, Locked!Evaluate, Locked!Goto, Locked!Place
  <2>3. Locked!EvaluatedOnce' /\ RevealedIsStored'
    BY <1>9, <2>1 DEF OneShot, Locked!EvaluatedOnce, RevealedIsStored, Locked!Evaluate
  <2>4. LockedHolds(p)'
    BY <1>9, <2>1 DEF OneShot, Locked!TypeOK, Locked!Goto, Locked!Evaluate, LockedHolds
  <2>5. \A q \in Command \ {p} : LockedHolds(q)'
    BY <1>1, <1>9 DEF OneShot, Locked!TypeOK, Locked!Goto, Locked!Evaluate
  <2>6. QED
    BY <2>2, <2>3, <2>4, <2>5 DEF OneShot
<1>10. CASE Locked!Attach(p)
  <2>1. CASE Locked!Leave(p)
    BY <1>10, <2>1, LeaveKeepsOneShot DEF OneShot, Locked!TypeOK, Locked!Attach
  <2>2. CASE ~Locked!Leave(p)
    <3>1. /\ aAct'[p] \in {Locked!Existing, Nothing}
          /\ aAct' = [aAct EXCEPT ![p] = aAct'[p]] /\ Locked!Goto(p, "record")
          /\ UNCHANGED <<aBind, aWindow, aClock, aCurrent, Locked!store, Locked!published>>
          /\ aPc[p] = "run"
      BY <1>10, <2>2 DEF OneShot, Locked!TypeOK, Locked!Attach
    <3>2. aAct'[p] \in Locked!Activation \cup {Nothing}
      BY <3>1, ExistingIsStored DEF OneShot, Locked!TypeOK
    <3>3. Locked!TypeOK'
      BY <3>1, <3>2 DEF OneShot, Locked!TypeOK, Locked!Goto, Locked!Place
    <3>4. Locked!EvaluatedOnce' /\ RevealedIsStored'
      BY <3>1 DEF OneShot, Locked!EvaluatedOnce, RevealedIsStored
    <3>5. LockedHolds(p)'
      BY <3>1 DEF OneShot, Locked!TypeOK, Locked!Goto, LockedHolds
    <3>6. \A q \in Command \ {p} : LockedHolds(q)'
      BY <1>1, <3>1 DEF OneShot, Locked!TypeOK, Locked!Goto
    <3>7. QED
      BY <3>3, <3>4, <3>5, <3>6 DEF OneShot
  <2>3. QED
    BY <2>1, <2>2
<1>11. ASSUME aPc[p] \in {"record", "release"} PROVE Locked!Outcome(p) \in Locked!Result
  BY <1>11 DEF OneShot, Locked!TypeOK, LockedHolds, Locked!Outcome, Locked!Result
<1>12. CASE Locked!PublishRecord(p)
  <2>1. CASE Locked!Leave(p)
    BY <1>11, <1>12, <2>1, LeaveKeepsOneShot DEF OneShot, Locked!TypeOK, Locked!PublishRecord
  <2>2. CASE ~Locked!Leave(p)
    <3>1. /\ aRecord' = Locked!Outcome(p) /\ Locked!Goto(p, "release") /\ aPc[p] = "record"
          /\ UNCHANGED <<aBind, aAct, aWindow, aClock, aCurrent, Locked!store, aPointer, aRelease>>
      BY <1>12, <2>2 DEF Locked!PublishRecord
    <3>2. Locked!TypeOK'
      BY <1>11, <3>1 DEF OneShot, Locked!TypeOK, Locked!Goto, Locked!Place
    <3>3. Locked!EvaluatedOnce' /\ RevealedIsStored'
      BY <3>1 DEF OneShot, Locked!EvaluatedOnce, RevealedIsStored
    <3>4. LockedHolds(p)'
      BY <3>1 DEF OneShot, Locked!TypeOK, Locked!Goto, LockedHolds
    <3>5. \A q \in Command \ {p} : LockedHolds(q)'
      BY <1>1, <3>1 DEF OneShot, Locked!TypeOK, Locked!Goto
    <3>6. QED
      BY <3>2, <3>3, <3>4, <3>5 DEF OneShot
  <2>3. QED
    BY <2>1, <2>2
<1>13. CASE Locked!PublishRelease(p)
  BY <1>11, <1>13, LeaveKeepsOneShot DEF OneShot, Locked!TypeOK, Locked!PublishRelease
<1>14. CASE Locked!Die(p)
  BY <1>14, LeaveKeepsOneShot DEF OneShot, Locked!TypeOK, Locked!Die
<1>15. QED
  BY <1>2, <1>3, <1>4, <1>5, <1>6, <1>7, <1>8, <1>9, <1>10, <1>12, <1>13, <1>14 DEF Locked!Step

-----------------------------------------------------------------------------
LEMMA NextKeepsOneShot ==
  ASSUME Locked!MarksAreApart, OneShot, [Locked!Next]_(Locked!vars)
  PROVE  OneShot'
<1> USE DEF Locked!store, Locked!published, Locked!commands
<1>1. CASE \E p \in Command : Locked!Step(p)
  BY <1>1, StepKeepsOneShot
(* A successor waits for the window of a disclosure to be over.             *)
<1>2. CASE Locked!Succeed
  <2>1. Locked!TypeOK' /\ Locked!EvaluatedOnce' /\ RevealedIsStored'
    BY <1>2 DEF OneShot, Locked!TypeOK, Locked!EvaluatedOnce, RevealedIsStored, Locked!Succeed
  <2>2. ASSUME NEW q \in Command PROVE LockedHolds(q)'
    <3>1. aPc[q] \notin {"put", "reveal", "point"}
      BY <1>2 DEF Locked!MarksAreApart, OneShot, Locked!TypeOK, Locked!Succeed
    <3>2. QED
      BY <1>2, <3>1, OthersHold DEF OneShot, Locked!Succeed
  <2>3. QED
    BY <2>1, <2>2 DEF OneShot
<1>3. CASE Locked!Tick
  <2>1. Locked!TypeOK' /\ Locked!EvaluatedOnce' /\ RevealedIsStored'
    BY <1>3 DEF Locked!MarksAreApart, OneShot, Locked!TypeOK, Locked!EvaluatedOnce, RevealedIsStored,
       Locked!Tick
  <2>2. \A q \in Command : LockedHolds(q)'
    BY <1>3, OthersHold DEF OneShot, Locked!Tick
  <2>3. QED
    BY <2>1, <2>2 DEF OneShot
<1>4. CASE UNCHANGED Locked!vars
  <2>1. Locked!TypeOK' /\ Locked!EvaluatedOnce' /\ RevealedIsStored'
    BY <1>4 DEF OneShot, Locked!TypeOK, Locked!EvaluatedOnce, RevealedIsStored, Locked!vars
  <2>2. \A q \in Command : LockedHolds(q)'
    BY <1>4, OthersHold DEF OneShot, Locked!vars
  <2>3. QED
    BY <2>1, <2>2 DEF OneShot
<1>5. QED
  BY <1>1, <1>2, <1>3, <1>4 DEF Locked!Next

LEMMA OneShotRun == Locked!MarksAreApart /\ Locked!Spec => []OneShot
<1> SUFFICES ASSUME Locked!MarksAreApart PROVE Locked!Spec => []OneShot
  BY DEF Locked!MarksAreApart
<1>1. Locked!Init => OneShot
  BY InitIsOneShot
<1>2. OneShot /\ [Locked!Next]_(Locked!vars) => OneShot'
  BY NextKeepsOneShot
<1>3. QED
  BY <1>1, <1>2, PTL DEF Locked!Spec

(* However many commands open the cohort, die and resume, at most one      *)
(* activation, the disclosed one, evaluates it or becomes current          *)
(* (activate_locked_test).                                                 *)
THEOREM OneEvaluation ==
  Locked!MarksAreApart /\ Locked!Spec => [](Locked!TypeOK /\ Locked!EvaluatedOnce)
<1>1. OneShot => Locked!TypeOK /\ Locked!EvaluatedOnce
  BY DEF OneShot
<1>2. QED
  BY <1>1, OneShotRun, PTL

-----------------------------------------------------------------------------
(* A step moves forward: a disclosure stands, and a pointer, a record or a *)
(* release that changes names the binding that is current.                 *)
LEMMA StepMovesForward ==
  ASSUME OneShot, [Locked!Next]_(Locked!vars)
  PROVE  /\ aReveal # Nothing => aReveal' = aReveal /\ aReveal \in aObjects'
         /\ aPointer' # aPointer => aPointer'.binding = aCurrent
         /\ aRecord' # aRecord => aRecord'.binding = aCurrent
         /\ aRelease' # aRelease => aRelease'.binding = aCurrent
<1> USE DEF Locked!store, Locked!published, Locked!commands
<1>1. ASSUME NEW p \in Command, Locked!Step(p)
      PROVE  /\ aReveal # Nothing => aReveal' = aReveal /\ aObjects \subseteq aObjects'
             /\ aPointer' # aPointer => aPointer'.binding = aCurrent
             /\ aRecord' # aRecord => aRecord'.binding = aCurrent
             /\ aRelease' # aRelease => aRelease'.binding = aCurrent
  <2>1. CASE Locked!Start(p) \/ Locked!Look(p) \/ Locked!Prepare(p) \/ Locked!Enter(p)
        \/ Locked!PutActivation(p)
    BY <2>1 DEF Locked!Start, Locked!Look, Locked!Prepare, Locked!Enter, Locked!PutActivation
  <2>2. CASE Locked!Reveal(p)
    BY <2>2 DEF Locked!Reveal
  <2>3. CASE Locked!PublishPointer(p)
    BY <2>3 DEF Locked!PublishPointer, OneShot, LockedHolds
  <2>4. CASE Locked!Evaluate(p) \/ Locked!Attach(p) \/ Locked!Die(p)
    BY <2>4 DEF Locked!Evaluate, Locked!Attach, Locked!Die
  <2>5. CASE Locked!PublishRecord(p)
    BY <2>5 DEF Locked!PublishRecord, Locked!Publishable, Locked!Outcome
  <2>6. CASE Locked!PublishRelease(p)
    BY <2>6 DEF Locked!PublishRelease, Locked!Publishable, Locked!Outcome
  <2>7. QED
    BY <1>1, <2>1, <2>2, <2>3, <2>4, <2>5, <2>6 DEF Locked!Step
<1>2. CASE Locked!Succeed \/ Locked!Tick \/ UNCHANGED Locked!vars
  BY <1>2 DEF Locked!Succeed, Locked!Tick, Locked!vars, OneShot, RevealedIsStored
<1>3. QED
  BY <1>1, <1>2 DEF Locked!Next, OneShot, RevealedIsStored

(* A disclosure that stands is never replaced and its activation stays in  *)
(* the store, and what becomes current was produced under the binding that *)
(* is current at that moment, however long the command took                *)
(* (record_locked_reveal, publish_current_qualification_pointer).          *)
THEOREM DisclosureMovesForward == Locked!MarksAreApart /\ Locked!Spec => Locked!LockedMovesForward
<1>1. OneShot /\ [Locked!Next]_(Locked!vars) =>
        /\ [aReveal # Nothing => aReveal' = aReveal /\ aReveal \in aObjects']_(Locked!vars)
        /\ [aPointer' # aPointer => aPointer'.binding = aCurrent]_(Locked!vars)
        /\ [aRecord' # aRecord => aRecord'.binding = aCurrent]_(Locked!vars)
        /\ [aRelease' # aRelease => aRelease'.binding = aCurrent]_(Locked!vars)
  BY StepMovesForward
<1>2. QED
  BY <1>1, OneShotRun, PTL
    DEF Locked!Spec, Locked!LockedMovesForward, Locked!DisclosureStands, Locked!StaleNeverPublished

-----------------------------------------------------------------------------
(* The setting that a behaviour keeps leaves the other one where it is.    *)
LEMMA SettingHasLocked == SettingSpec => Locked!Spec
<1>1. SettingInit => Locked!Init BY DEF SettingInit
<1>2. [SettingNext]_<<vars, lockedVars, setting>> => [Locked!Next]_(Locked!vars)
  <2>1. UNCHANGED lockedVars => UNCHANGED Locked!vars
    BY DEF lockedVars, Locked!vars, Locked!store, Locked!published, Locked!commands
  <2> QED BY <2>1 DEF SettingNext
<1> QED BY <1>1, <1>2, PTL DEF SettingSpec, Locked!Spec

LEMMA SettingHasScreen == SettingSpec => Spec
<1>1. SettingInit => Init BY DEF SettingInit
<1>2. [SettingNext]_<<vars, lockedVars, setting>> => [Next]_vars BY DEF SettingNext
<1> QED BY <1>1, <1>2, PTL DEF SettingSpec, Spec

(* activate_locked_test in the setting the run checks: the reserved cohort *)
(* is evaluated under one activation at most, the one that was disclosed,  *)
(* however many commands open it, die and resume.                          *)
THEOREM CohortIsEvaluatedOnce == SettingSpec => []EvaluatedOnce
<1>1. SettingSpec => [](Locked!TypeOK /\ Locked!EvaluatedOnce)
  BY MarksAreApart, SettingHasLocked, OneEvaluation
<1>2. Locked!TypeOK /\ Locked!EvaluatedOnce => EvaluatedOnce
  BY DEF EvaluatedOnce
<1> QED BY <1>1, <1>2, PTL

(* record_locked_reveal, publish_current_qualification_pointer in that     *)
(* setting: a disclosure that stands is never replaced, and what becomes   *)
(* current was produced under the binding that is current then.            *)
THEOREM DisclosureOnlyMovesForward == SettingSpec => LockedMovesForward
BY MarksAreApart, SettingHasLocked, DisclosureMovesForward DEF LockedMovesForward

(* commit_cell_score, build_batch and decide in that setting: a cell has   *)
(* one score, what is committed is whole, and decisions move forward.      *)
THEOREM ScreenStaysSafe ==
  SettingSpec => [](CellsAreExclusive /\ CommittedIsWhole) /\ DecisionsMoveForward
BY SettingHasScreen, CellsStayExclusive, CommittedStaysWhole, DecisionsStayOrdered, PTL

=============================================================================
