----------------------- MODULE MCExecutorFaults_proofs -----------------------
(***************************************************************************)
(* What a storage operation records about itself, for any commands,        *)
(* targets, bounds and faults, and what retention keeps of the records;    *)
(* then the two protocols the engines take part in: the retention record   *)
(* of a qualification attempt, and the removal of a certified unit.        *)
(***************************************************************************)
EXTENDS MCExecutorFaults, SequenceTheorems, TLAPS

CommandTypes ==
  /\ lease \in Process \cup {Nobody}
  /\ pc \in [Process -> Control]
  /\ plan \in [Process -> SUBSET Target] /\ todo \in [Process -> SUBSET Target]
  /\ result \in [Process -> Result]
  /\ issued \in Op \cup {0}
  /\ disk \in [Target -> {"whole", "part", "gone"}]
  /\ changed \in [Process -> SUBSET Target]

FileTypes ==
  /\ stream \in Seq(Line) /\ synced \in Seq(Line) /\ behind \in Seq(Line)
  /\ open \in BOOLEAN /\ exists \in BOOLEAN /\ anchored \in BOOLEAN
  /\ staged \in Seq(Line) \X BOOLEAN
  /\ log \in Seq(Op) /\ told \subseteq Op

(* The three ways an operation may call itself, and what they say. *)
Truth(p, status) ==
  /\ status = "refused" => changed[p] = {}
  /\ status = "partial" => changed[p] # {}
  /\ status = "complete" => \A t \in plan[p] : disk[t] = "gone"

(* While its engine runs, the recorder knows whether anything changed, and *)
(* every target that is done without a refusal is gone.                    *)
Recorded(p) ==
  /\ todo[p] \subseteq plan[p]
  /\ result[p].mutated <=> changed[p] # {}
  /\ ~result[p].refused => \A t \in plan[p] \ todo[p] : disk[t] = "gone"

StepOK(p) ==
  /\ pc[p] = "idle" => changed[p] = {}
  /\ pc[p] # "idle" => result[p].op \in Op
  /\ pc[p] \in {"waiting", "begin", "stale"} =>
       /\ result[p].status = "refused" /\ ~result[p].mutated
       /\ changed[p] = {} /\ todo[p] = plan[p]
  /\ pc[p] = "engine" => Recorded(p)
  /\ pc[p] \in Settled => Truth(p, result[p].status)

Commands == CommandTypes /\ \A p \in Process : StepOK(p)
Envelope == Commands /\ FileTypes

LEMMA ResultRecord ==
  ASSUME NEW r \in Result
  PROVE  /\ r.op \in Op \cup {0} /\ r.status \in {"refused", "partial", "complete"}
         /\ r.mutated \in BOOLEAN /\ r.refused \in BOOLEAN /\ r.audited \in BOOLEAN
BY DEF Result

LEMMA LeaveKeeps == ASSUME Commands, NEW p \in Process, Leave(p) PROVE Commands'
<1>1. NoResult \in Result
  BY DEF NoResult, Result
<1>2. CommandTypes'
  BY <1>1 DEF Commands, CommandTypes, Leave, Control
<1>3. ASSUME NEW q \in Process PROVE StepOK(q)'
  <2>1. CASE q = p
    BY <2>1 DEF Commands, CommandTypes, Leave, StepOK, Settled
  <2>2. CASE q # p
    BY <2>2 DEF Commands, CommandTypes, Leave, StepOK, Recorded, Truth
  <2> QED BY <2>1, <2>2
<1> QED BY <1>2, <1>3 DEF Commands

(* A settled operation goes on with a result of the same truth. *)
LEMMA GotoKeeps ==
  ASSUME Commands, NEW p \in Process, NEW next \in Settled, NEW r \in Result,
         r.op \in Op, Truth(p, r.status), Goto(p, next, r)
  PROVE  Commands'
<1>1. CommandTypes'
  BY DEF Commands, CommandTypes, Goto, Control, Settled
<1>2. ASSUME NEW q \in Process PROVE StepOK(q)'
  <2>1. CASE q = p
    BY <2>1 DEF Commands, CommandTypes, Goto, StepOK, Settled, Truth
  <2>2. CASE q # p
    BY <2>2 DEF Commands, CommandTypes, Goto, StepOK, Recorded, Truth
  <2> QED BY <2>1, <2>2
<1> QED BY <1>1, <1>2 DEF Commands

LEMMA AuditedResult ==
  ASSUME Commands, NEW p \in Process, pc[p] \in Settled, NEW x \in BOOLEAN
  PROVE  LET r == [result[p] EXCEPT !.audited = x] IN
           r \in Result /\ r.op \in Op /\ Truth(p, r.status)
<1>1. result[p] \in Result /\ pc[p] # "idle" BY DEF Commands, CommandTypes, Settled
<1>2. result[p].op \in Op /\ Truth(p, result[p].status)
  BY <1>1 DEF Commands, StepOK
<1> QED BY <1>1, <1>2 DEF Result

LEMMA SameResult ==
  ASSUME Commands, NEW p \in Process, pc[p] \in Settled
  PROVE  result[p] \in Result /\ result[p].op \in Op /\ Truth(p, result[p].status)
BY DEF Commands, CommandTypes, Settled, StepOK

(* The envelope before the engine. *)
LEMMA StartKeeps ==
  ASSUME Commands, NEW p \in Process, NEW targets \in SUBSET Target, Start(p, targets)
  PROVE  Commands'
<1>1. issued + 1 \in Op /\ issued' = issued + 1
  BY ExecutorAssumption DEF Commands, CommandTypes, Start, Op
<1> DEFINE r == [NoResult EXCEPT !.op = issued + 1]
<1>2. r \in Result /\ r.op = issued + 1 /\ r.status = "refused" /\ r.mutated = FALSE
  BY <1>1 DEF NoResult, Result
<1>3. pc[p] = "idle" /\ changed' = changed /\ result' = [result EXCEPT ![p] = r]
  BY DEF Start
<1>4. CommandTypes'
  BY <1>1, <1>2, <1>3 DEF Commands, CommandTypes, Start, Control
<1>5. plan' = [plan EXCEPT ![p] = targets] /\ todo' = [todo EXCEPT ![p] = targets]
      /\ pc' = [pc EXCEPT ![p] = "waiting"] /\ disk' = disk
  BY DEF Start
<1>6. ASSUME NEW q \in Process PROVE StepOK(q)'
  <2>1. CASE q = p
    BY <1>1, <1>2, <1>3, <1>5, <2>1 DEF Commands, CommandTypes, StepOK, Settled
  <2>2. CASE q # p
    BY <1>3, <1>5, <2>2 DEF Commands, CommandTypes, StepOK, Recorded, Truth
  <2> QED BY <2>1, <2>2
<1> QED BY <1>4, <1>6 DEF Commands

LEMMA AcquireLeaseKeeps ==
  ASSUME Commands, NEW p \in Process,
         AcquireLease(p, "waiting", "begin") \/ AcquireLease(p, "stale", "audit")
  PROVE  Commands'
<1>1. CommandTypes'
  BY DEF Commands, CommandTypes, AcquireLease, Control
<1>2. UNCHANGED <<plan, todo, result, disk, changed>>
  BY DEF AcquireLease
<1>3. ASSUME NEW q \in Process PROVE StepOK(q)'
  <2>1. CASE q = p
    BY <1>2, <2>1 DEF Commands, CommandTypes, AcquireLease, StepOK, Settled, Truth
  <2>2. CASE q # p
    BY <1>2, <2>2 DEF Commands, CommandTypes, AcquireLease, StepOK, Recorded, Truth
  <2> QED BY <2>1, <2>2
<1> QED BY <1>1, <1>3 DEF Commands

LEMMA BeginKeeps == ASSUME Commands, NEW p \in Process, Begin(p) PROVE Commands'
<1>1. CASE Leave(p) BY <1>1, LeaveKeeps
<1>2. CASE /\ pc[p] = "begin"
           /\ \/ pc' = [pc EXCEPT ![p] = "engine"] /\ lease' = lease
              \/ pc' = [pc EXCEPT ![p] = "stale"] /\ lease' = Nobody
           /\ UNCHANGED <<plan, todo, result, issued, disk, changed>>
  <2>1. CommandTypes'
    BY <1>2 DEF Commands, CommandTypes, Control
  <2>2. ASSUME NEW q \in Process PROVE StepOK(q)'
    <3>1. CASE q = p
      BY <1>2, <3>1 DEF Commands, CommandTypes, StepOK, Settled, Recorded
    <3>2. CASE q # p
      BY <1>2, <3>2 DEF Commands, CommandTypes, StepOK, Recorded, Truth
    <3> QED BY <3>1, <3>2
  <2> QED BY <2>1, <2>2 DEF Commands
<1> QED BY <1>1, <1>2 DEF Begin

-----------------------------------------------------------------------------
(* Nothing in the model puts a removed target back. *)
LEMMA GoneStays ==
  ASSUME Commands, NEW p \in Process, (\E t \in Target : ApplyTarget(p, t)) \/ Interrupt(p)
  PROVE  \A t \in Target : disk[t] = "gone" => disk'[t] = "gone"
<1>1. ASSUME NEW t \in Target, ApplyTarget(p, t)
      PROVE  \A u \in Target : disk[u] = "gone" => disk'[u] = "gone"
  BY <1>1 DEF ApplyTarget, Act, Commands, CommandTypes
<1>2. CASE Interrupt(p)
  BY <1>2 DEF Interrupt, Commands, CommandTypes
<1> QED BY <1>1, <1>2

(* What other operations recorded is not disturbed by more targets gone. *)
LEMMA OthersKeep ==
  ASSUME Commands, NEW q \in Process, CommandTypes,
         pc'[q] = pc[q], plan'[q] = plan[q], todo'[q] = todo[q],
         result'[q] = result[q], changed'[q] = changed[q],
         \A t \in Target : disk[t] = "gone" => disk'[t] = "gone"
  PROVE  StepOK(q)'
BY DEF Commands, CommandTypes, StepOK, Recorded, Truth

LEMMA ActKeeps ==
  ASSUME Commands, NEW p \in Process, NEW t \in todo[p], pc[p] = "engine",
         NEW left \in {"whole", "part", "gone"}, NEW mutated \in BOOLEAN, NEW refused \in BOOLEAN,
         Act(p, t, left, mutated, refused), refused \/ left = "gone",
         \A u \in Target : disk[u] = "gone" => disk'[u] = "gone"
  PROVE  Commands'
<1>1. t \in Target /\ todo[p] \subseteq Target /\ changed[p] \subseteq Target /\ result[p] \in Result
  BY DEF Commands, CommandTypes
<1> DEFINE r == [result[p] EXCEPT !.mutated = @ \/ mutated, !.refused = @ \/ refused]
<1>2. /\ r \in Result /\ r.op = result[p].op /\ r.status = result[p].status
      /\ r.mutated = (result[p].mutated \/ mutated) /\ r.refused = (result[p].refused \/ refused)
  BY <1>1 DEF Result
<1>3. /\ disk' = [disk EXCEPT ![t] = left] /\ result' = [result EXCEPT ![p] = r]
      /\ changed' = [changed EXCEPT ![p] = IF mutated THEN @ \cup {t} ELSE @]
      /\ todo' = [todo EXCEPT ![p] = @ \ {t}]
      /\ UNCHANGED <<lease, pc, plan, issued>>
  BY DEF Act, Commands, CommandTypes
<1>4. CommandTypes'
  BY <1>1, <1>2, <1>3 DEF Commands, CommandTypes
<1>5. Recorded(p)'
  <2>1. Recorded(p) BY DEF Commands, StepOK
  <2>2. /\ result'[p] = r /\ plan'[p] = plan[p] /\ todo'[p] = todo[p] \ {t}
        /\ changed'[p] = IF mutated THEN changed[p] \cup {t} ELSE changed[p]
    BY <1>3 DEF Commands, CommandTypes
  <2>3. result'[p].mutated <=> changed'[p] # {}
    <3>1. CASE mutated = TRUE BY <1>2, <2>2, <3>1
    <3>2. CASE mutated = FALSE BY <1>2, <2>1, <2>2, <3>2 DEF Recorded
    <3> QED BY <3>1, <3>2
  <2>4. ~result'[p].refused => \A u \in plan[p] \ (todo[p] \ {t}) : disk'[u] = "gone"
    <3> SUFFICES ASSUME ~result'[p].refused, NEW u \in plan[p] \ (todo[p] \ {t})
                 PROVE  disk'[u] = "gone"
      OBVIOUS
    <3>1. refused = FALSE /\ ~result[p].refused /\ left = "gone"
      BY <1>2, <2>2
    <3>2. CASE u = t
      BY <1>1, <1>3, <3>1, <3>2 DEF Commands, CommandTypes
    <3>3. CASE u # t
      <4>1. u \in plan[p] \ todo[p] /\ u \in Target
        BY <3>3 DEF Commands, CommandTypes
      <4> QED BY <2>1, <3>1, <4>1 DEF Recorded
    <3> QED BY <3>2, <3>3
  <2> QED BY <2>1, <2>2, <2>3, <2>4 DEF Recorded
<1>6. ASSUME NEW q \in Process PROVE StepOK(q)'
  <2>1. CASE q = p
    BY <1>2, <1>3, <1>5, <2>1 DEF Commands, CommandTypes, StepOK, Settled
  <2>2. CASE q # p
    BY <1>3, <2>2, OthersKeep DEF Commands, CommandTypes
  <2> QED BY <2>1, <2>2
<1> QED BY <1>4, <1>6 DEF Commands

LEMMA ApplyTargetKeeps ==
  ASSUME Commands, NEW p \in Process, NEW t \in Target, ApplyTarget(p, t)
  PROVE  Commands'
<1>1. pc[p] = "engine" /\ t \in todo[p] /\ disk[t] \in {"whole", "part", "gone"}
  BY DEF ApplyTarget, Commands, CommandTypes
<1>2. \A u \in Target : disk[u] = "gone" => disk'[u] = "gone"
  BY GoneStays
<1> QED BY <1>1, <1>2, ActKeeps DEF ApplyTarget

LEMMA InterruptKeeps == ASSUME Commands, NEW p \in Process, Interrupt(p) PROVE Commands'
<1>1. \A u \in Target : disk[u] = "gone" => disk'[u] = "gone"
  BY GoneStays
<1>2. /\ pc[p] = "engine" /\ pc' = [pc EXCEPT ![p] = "audit"]
      /\ UNCHANGED <<lease, plan, todo, issued>>
  BY DEF Interrupt
<1>3. /\ disk' \in [Target -> {"whole", "part", "gone"}]
      /\ changed' \in [Process -> SUBSET Target]
      /\ \A q \in Process : q # p => changed'[q] = changed[q]
      /\ changed'[p] = {} => changed[p] = {} /\ changed' = changed
      /\ changed' # changed => changed'[p] # {}
      /\ changed[p] # {} => changed'[p] # {}
  <2>1. CASE UNCHANGED <<disk, changed>>
    BY <2>1 DEF Commands, CommandTypes
  <2>2. CASE \E t \in todo[p], left \in {"part", "gone"} :
               /\ disk[t] # "gone" /\ disk' = [disk EXCEPT ![t] = left]
               /\ changed' = [changed EXCEPT ![p] = @ \cup {t}]
    <3>1. PICK t \in todo[p], left \in {"part", "gone"} :
            /\ disk' = [disk EXCEPT ![t] = left]
            /\ changed' = [changed EXCEPT ![p] = @ \cup {t}]
      BY <2>2
    <3>2. t \in Target /\ changed[p] \subseteq Target BY DEF Commands, CommandTypes
    <3> QED BY <3>1, <3>2 DEF Commands, CommandTypes
  <2> QED BY <2>1, <2>2 DEF Interrupt
<1> DEFINE status == IF result[p].mutated \/ changed' # changed THEN "partial" ELSE "refused"
           r == [result[p] EXCEPT !.mutated = @ \/ (changed' # changed), !.status = status]
<1>4. result[p] \in Result /\ result[p].op \in Op
  BY <1>2 DEF Commands, CommandTypes, StepOK
<1>5. r \in Result /\ r.op = result[p].op /\ r.status = status
  BY <1>4 DEF Result
<1>6. result' = [result EXCEPT ![p] = r]
  BY DEF Interrupt, Commands, CommandTypes
<1>7. CommandTypes'
  BY <1>2, <1>3, <1>5, <1>6 DEF Commands, CommandTypes, Control
<1>8. result[p].mutated <=> changed[p] # {}
  BY <1>2 DEF Commands, StepOK, Recorded
<1>9. ASSUME NEW q \in Process PROVE StepOK(q)'
  <2>1. CASE q = p
    <3>1. pc'[p] = "audit" /\ result'[p] = r
      BY <1>2, <1>6 DEF Commands, CommandTypes
    <3>2. Truth(p, result[p].status)'
      BY <1>3, <1>5, <1>8, <3>1 DEF Truth
    <3> QED BY <1>4, <1>5, <2>1, <3>1, <3>2 DEF StepOK, Settled
  <2>2. CASE q # p
    BY <1>1, <1>2, <1>3, <1>6, <2>2, OthersKeep DEF Commands, CommandTypes
  <2> QED BY <2>1, <2>2
<1> QED BY <1>7, <1>9 DEF Commands

LEMMA SettleKeeps == ASSUME Commands, NEW p \in Process, Settle(p) PROVE Commands'
<1> DEFINE status == IF ~result[p].refused THEN "complete"
                     ELSE IF ~result[p].mutated THEN "refused" ELSE "partial"
           r == [result[p] EXCEPT !.status = status]
<1>1. pc[p] = "engine" /\ todo[p] = {} /\ Goto(p, "audit", r)
  BY DEF Settle
<1>2. result[p] \in Result /\ result[p].op \in Op /\ Recorded(p)
  BY <1>1 DEF Commands, CommandTypes, StepOK
<1>3. r \in Result /\ r.op \in Op /\ r.status = status
  BY <1>2 DEF Result
<1>4. Truth(p, r.status)
  BY <1>1, <1>2, <1>3 DEF Truth, Recorded, Result
<1>5. "audit" \in Settled BY DEF Settled
<1> QED BY <1>1, <1>3, <1>4, <1>5, GotoKeeps

-----------------------------------------------------------------------------
(* The audit stream and its retention. *)

LEMMA NothingStagedTypes == NothingStaged \in Seq(Line) \X BOOLEAN
<1>1. <<>> \in Seq(Line) BY EmptySeq
<1> QED BY <1>1, Zenon DEF NothingStaged

LEMMA AppendedTypes ==
  ASSUME stream \in Seq(Line), NEW x \in Line
  PROVE  Appended(x) \in Seq(Line)
<1>1. Damaged \in Line BY DEF Line
<1>2. CASE open
  <2>1. [stream EXCEPT ![Len(stream)] = Damaged] \in Seq(Line)
    <3>1. CASE Len(stream) \in 1 .. Len(stream) BY <1>1, <3>1, ExceptSeq
    <3>2. CASE Len(stream) \notin 1 .. Len(stream)
      <4>1. [stream EXCEPT ![Len(stream)] = Damaged] = stream BY <3>2
      <4> QED BY <4>1
    <3> QED BY <3>1, <3>2
  <2> QED BY <1>2, <2>1 DEF Appended
<1>3. CASE ~open
  BY <1>3 DEF Appended
<1> QED BY <1>2, <1>3

LEMMA NewestTypes ==
  ASSUME NEW s \in Seq(Line), Len(s) > Keep
  PROVE  Newest(s) \in Seq(Line) /\ Len(Newest(s)) = Keep
<1>1. Keep \in Nat /\ Keep >= 1 /\ Len(s) \in Nat BY ExecutorAssumption
<1>2. Len(s) - Keep + 1 \in 1 .. Len(s) BY <1>1
<1> QED BY <1>1, <1>2 DEF Newest

LEMMA WriteLineKeeps ==
  ASSUME Envelope, NEW p \in Process, pc[p] = "audit", NEW x \in Line, NEW cut \in BOOLEAN,
         WriteLine(p, x, cut)
  PROVE  Envelope'
<1>1. pc[p] \in Settled /\ result[p].op \in Op
  BY DEF Settled, Envelope, Commands, StepOK
<1>2. {"prune", "anchor", "report"} \subseteq Settled
  BY DEF Settled
<1>3. Commands'
  BY <1>1, <1>2, AuditedResult, GotoKeeps, LeaveKeeps
  DEF Envelope, WriteLine, Published, Unaudited
<1>4. stream' \in Seq(Line) /\ synced' \in Seq(Line)
  BY AppendedTypes DEF Envelope, FileTypes, WriteLine
<1>5. log' \in Seq(Op)
  BY <1>1 DEF Envelope, FileTypes, WriteLine
<1>6. FileTypes'
  BY <1>4, <1>5 DEF Envelope, FileTypes, WriteLine
<1> QED BY <1>3, <1>6 DEF Envelope

LEMMA WriteKeeps ==
  ASSUME Envelope, NEW p \in Process, WriteRecord(p) \/ WriteShort(p)
  PROVE  Envelope'
<1>1. pc[p] = "audit" BY DEF WriteRecord, WriteShort
<1>2. result[p].op \in Line /\ Damaged \in Line
  BY <1>1 DEF Envelope, Commands, StepOK, Line
<1> QED BY <1>1, <1>2, WriteLineKeeps DEF WriteRecord, WriteShort

LEMMA WriteFailsKeeps == ASSUME Envelope, NEW p \in Process, WriteFails(p) PROVE Envelope'
<1>1. pc[p] \in Settled /\ "report" \in Settled BY DEF WriteFails, Settled
<1>2. Commands'
  BY <1>1, AuditedResult, GotoKeeps DEF Envelope, WriteFails, Unaudited
<1>3. FileTypes'
  BY DEF Envelope, FileTypes, WriteFails
<1> QED BY <1>2, <1>3 DEF Envelope

LEMMA AnchorStreamKeeps == ASSUME Envelope, NEW p \in Process, AnchorStream(p) PROVE Envelope'
<1>1. pc[p] \in Settled /\ {"prune", "report"} \subseteq Settled BY DEF AnchorStream, Settled
<1>2. Commands'
  BY <1>1, SameResult, AuditedResult, GotoKeeps DEF Envelope, AnchorStream, Unaudited
<1>3. FileTypes'
  BY DEF Envelope, FileTypes, AnchorStream
<1> QED BY <1>2, <1>3 DEF Envelope

LEMMA StageRetainedKeeps == ASSUME Envelope, NEW p \in Process, StageRetained(p) PROVE Envelope'
<1>1. pc[p] \in Settled /\ {"replace", "report"} \subseteq Settled BY DEF StageRetained, Settled
<1>2. Commands'
  BY <1>1, SameResult, GotoKeeps DEF Envelope, StageRetained
<1>3. staged' \in Seq(Line) \X BOOLEAN
  <2>1. /\ stream \in Seq(Line) /\ staged \in Seq(Line) \X BOOLEAN /\ Damaged \in Line
        /\ NothingStaged \in Seq(Line) \X BOOLEAN
    BY NothingStagedTypes DEF Envelope, FileTypes, Line
  <2>2. ASSUME Len(stream) > Keep, NEW x \in {Damaged, stream[Len(stream)]}
        PROVE  /\ Newest(stream) \in Seq(Line)
               /\ [Newest(stream) EXCEPT ![Keep] = x] \in Seq(Line)
    <3>1. Keep \in Nat /\ Len(stream) \in 1 .. Len(stream)
      BY <2>1, <2>2, ExecutorAssumption
    <3>2. x \in Line BY <2>1, <2>2, <3>1
    <3>3. Newest(stream) \in Seq(Line) /\ Keep \in 1 .. Len(Newest(stream))
      BY <2>1, <2>2, <3>1, NewestTypes, ExecutorAssumption
    <3> QED BY <3>2, <3>3, ExceptSeq
  <2>3. CASE UNCHANGED staged \/ staged' = NothingStaged
    BY <2>1, <2>3
  <2>4. CASE Len(stream) > Keep /\ staged' = <<Newest(stream), FALSE>>
    BY <2>2, <2>4
  <2>5. CASE /\ Len(stream) > Keep
             /\ \E x \in {Damaged, stream[Len(stream)]} :
                  staged' = <<[Newest(stream) EXCEPT ![Keep] = x], TRUE>>
    <3>1. PICK x \in {Damaged, stream[Len(stream)]} :
            staged' = <<[Newest(stream) EXCEPT ![Keep] = x], TRUE>>
      BY <2>5
    <3>2. [Newest(stream) EXCEPT ![Keep] = x] \in Seq(Line)
      BY <2>2, <2>5
    <3> QED BY <3>1, <3>2, Zenon
  <2> QED BY <2>3, <2>4, <2>5 DEF StageRetained
<1>4. FileTypes'
  BY <1>3 DEF Envelope, FileTypes, StageRetained, file
<1> QED BY <1>2, <1>4 DEF Envelope

LEMMA ReplaceStreamKeeps == ASSUME Envelope, NEW p \in Process, ReplaceStream(p) PROVE Envelope'
<1>1. pc[p] \in Settled /\ {"sync", "report"} \subseteq Settled BY DEF ReplaceStream, Settled
<1>2. Commands'
  BY <1>1, SameResult, GotoKeeps DEF Envelope, ReplaceStream
<1>3. FileTypes'
  <2>1. staged[1] \in Seq(Line) /\ staged[2] \in BOOLEAN
    BY DEF Envelope, FileTypes
  <2> QED BY <2>1, NothingStagedTypes DEF Envelope, FileTypes, ReplaceStream
<1> QED BY <1>2, <1>3 DEF Envelope

LEMMA SyncStreamKeeps == ASSUME Envelope, NEW p \in Process, SyncStream(p) PROVE Envelope'
<1>1. pc[p] \in Settled /\ "report" \in Settled BY DEF SyncStream, Settled
<1>2. Commands'
  BY <1>1, SameResult, GotoKeeps DEF Envelope, SyncStream
<1>3. FileTypes'
  BY DEF Envelope, FileTypes, SyncStream
<1> QED BY <1>2, <1>3 DEF Envelope

LEMMA ReportKeeps == ASSUME Envelope, NEW p \in Process, Report(p) PROVE Envelope'
<1>1. result[p].op \in Op BY DEF Report, Envelope, Commands, StepOK
<1>2. Commands' BY LeaveKeeps DEF Report, Envelope
<1>3. FileTypes' BY <1>1 DEF Report, Envelope, FileTypes, file
<1> QED BY <1>2, <1>3 DEF Envelope

-----------------------------------------------------------------------------
LEMMA OwnerRemovesKeeps == ASSUME Envelope, NEW t \in Target, OwnerRemoves(t) PROVE Envelope'
<1>1. CommandTypes'
  BY DEF Envelope, Commands, CommandTypes, OwnerRemoves
<1>2. ASSUME NEW q \in Process PROVE StepOK(q)'
  BY OthersKeep DEF Envelope, Commands, CommandTypes, OwnerRemoves
<1>3. FileTypes'
  BY DEF Envelope, FileTypes, OwnerRemoves, file
<1> QED BY <1>1, <1>2, <1>3 DEF Envelope, Commands

LEMMA PowerLossKeeps == ASSUME Envelope, PowerLoss PROVE Envelope'
<1>1. NoResult \in Result BY DEF NoResult, Result
<1>2. CommandTypes'
  BY <1>1 DEF Envelope, Commands, CommandTypes, PowerLoss, Control
<1>3. ASSUME NEW q \in Process PROVE StepOK(q)'
  BY DEF PowerLoss, StepOK, Settled
<1>4. FileTypes'
  BY DEF Envelope, FileTypes, PowerLoss
<1> QED BY <1>2, <1>3, <1>4 DEF Envelope, Commands

LEMMA InitEnvelope == Init => Envelope
<1> SUFFICES ASSUME Init PROVE Envelope
  OBVIOUS
<1>1. NoResult \in Result BY DEF NoResult, Result
<1>2. CommandTypes BY <1>1 DEF Init, CommandTypes, Control
<1>3. \A p \in Process : StepOK(p) BY DEF Init, StepOK, Settled
<1>4. <<>> \in Seq(Line) /\ <<>> \in Seq(Op) /\ staged = NothingStaged
  BY EmptySeq DEF Init
<1>5. FileTypes BY <1>4, NothingStagedTypes DEF Init, FileTypes
<1> QED BY <1>2, <1>3, <1>5 DEF Envelope, Commands

LEMMA StepEnvelope == Envelope /\ [Next]_vars => Envelope'
<1> SUFFICES ASSUME Envelope, [Next]_vars PROVE Envelope'
  OBVIOUS
<1>1. CASE UNCHANGED vars
  BY <1>1 DEF vars, command, file, Envelope, Commands, CommandTypes, FileTypes, StepOK, Recorded, Truth
<1>2. ASSUME NEW p \in Process, Run(p) PROVE Envelope'
  <2>1. CASE \/ \E targets \in SUBSET Target : Start(p, targets)
             \/ AcquireLease(p, "waiting", "begin") \/ AcquireLease(p, "stale", "audit")
             \/ LeaseTimeout(p) \/ Begin(p) \/ Crash(p)
    <3>1. Commands'
      BY <2>1, StartKeeps, AcquireLeaseKeeps, BeginKeeps, LeaveKeeps DEF Envelope, LeaseTimeout, Crash
    <3>2. FileTypes'
      BY <2>1 DEF Envelope, FileTypes, Start, AcquireLease, LeaseTimeout, Begin, Crash, file
    <3> QED BY <3>1, <3>2 DEF Envelope
  <2>2. CASE (\E t \in Target : ApplyTarget(p, t)) \/ Interrupt(p) \/ Settle(p)
    <3>1. Commands'
      BY <2>2, ApplyTargetKeeps, InterruptKeeps, SettleKeeps DEF Envelope
    <3>2. FileTypes'
      BY <2>2 DEF Envelope, FileTypes, ApplyTarget, Act, Interrupt, Settle, file
    <3> QED BY <3>1, <3>2 DEF Envelope
  <2> QED
    BY <1>2, <2>1, <2>2, WriteKeeps, WriteFailsKeeps, AnchorStreamKeeps, StageRetainedKeeps,
       ReplaceStreamKeeps, SyncStreamKeeps, ReportKeeps DEF Run
<1> QED BY <1>1, <1>2, OwnerRemovesKeeps, PowerLossKeeps DEF Next, AllEnded

(* Results, targets, stream and histories keep their types. *)
THEOREM ExecutorTypes == Spec => []TypeOK
<1>1. Envelope => TypeOK
  BY DEF Envelope, Commands, CommandTypes, FileTypes, TypeOK
<1> QED BY <1>1, InitEnvelope, StepEnvelope, PTL DEF Spec

(* However an engine ends and whatever else happens to the targets, the    *)
(* status an operation records is what it did to the disk.                 *)
THEOREM StatusIsTrue == Spec => []StatusIsTold
<1>1. Envelope => StatusTruthful
  BY DEF Envelope, Commands, StepOK, Truth, StatusTruthful
<1>2. Spec => []StatusTruthful BY <1>1, InitEnvelope, StepEnvelope, PTL DEF Spec
<1> QED BY <1>2, ExecutorTypes, PTL DEF StatusIsTold

-----------------------------------------------------------------------------
(* Retention, where engines raise and processes die but no write falls short *)
(* and the power stays on: a first append that dies before the directory   *)
(* fsync makes the claim false for power losses.                           *)
NoShortWrite == Faults \subseteq {"raise", "crash"}

Working == Control \ {"idle", "waiting", "stale"}

LeaseHeld == \A p \in Process : pc[p] \in Working => lease = p

(* The stream is the end of the log, and at least its last Keep records. *)
EndOfLog ==
  /\ open = FALSE
  /\ Len(stream) <= Len(log)
  /\ \A i \in 1 .. Len(stream) : stream[i] = log[Len(log) - Len(stream) + i]
  /\ Len(stream) = Len(log) \/ Len(stream) >= Keep

(* What waits to replace the stream is still its end: nobody appended.       *)
StagedIsNewest ==
  \A p \in Process : pc[p] = "replace" => staged[1] = Newest(stream) /\ staged[2] = FALSE
                                         /\ Len(stream) > Keep

Retained == Envelope /\ LeaseHeld /\ EndOfLog /\ StagedIsNewest

LEMMA LeaveLease ==
  ASSUME Retained, NEW p \in Process, Leave(p)
  PROVE  LeaseHeld' /\ \A q \in Process : pc'[q] = "replace" => q # p /\ pc[q] = "replace"
<1>1. pc' = [pc EXCEPT ![p] = "idle"] /\ pc \in [Process -> Control]
  BY DEF Leave, Retained, Envelope, Commands, CommandTypes
<1>2. LeaseHeld'
  BY <1>1 DEF Leave, Retained, LeaseHeld, Working
<1> QED BY <1>1, <1>2

LEMMA GotoLease ==
  ASSUME Retained, NEW p \in Process, NEW next, NEW r, pc[p] \in Working, Goto(p, next, r)
  PROVE  /\ LeaseHeld'
         /\ \A q \in Process : q # p => pc'[q] # "replace"
         /\ pc'[p] = next
<1>1. pc' = [pc EXCEPT ![p] = next] /\ pc \in [Process -> Control] /\ lease' = lease
  BY DEF Goto, Retained, Envelope, Commands, CommandTypes
<1>2. lease = p /\ \A q \in Process : q # p => pc[q] \notin Working
  BY DEF Retained, LeaseHeld
<1>3. "replace" \in Working BY DEF Working, Control
<1> QED BY <1>1, <1>2, <1>3 DEF LeaseHeld

(* Steps that leave the stream and the log alone. *)
LEMMA QuietRetained ==
  ASSUME Retained, Envelope', LeaseHeld', UNCHANGED <<stream, open, log>>,
         \A q \in Process : pc'[q] = "replace" => pc[q] = "replace" /\ staged' = staged
  PROVE  Retained'
BY DEF Retained, EndOfLog, StagedIsNewest

LEMMA AppendRetained ==
  ASSUME Retained, Envelope', NoShortWrite, NEW p \in Process, WriteRecord(p)
  PROVE  Retained'
<1>1. pc[p] \in Working /\ "prune" # "replace" BY DEF WriteRecord, Working, Control
<1>2. LeaseHeld' /\ \A q \in Process : pc'[q] # "replace"
  <2>1. ASSUME Leave(p) PROVE LeaseHeld' /\ \A q \in Process : pc'[q] # "replace"
    <3>1. \A q \in Process : q # p => pc[q] \notin Working
      BY <1>1 DEF Retained, LeaseHeld
    <3> QED BY <2>1, <3>1, LeaveLease DEF Working, Control
  <2>2. ASSUME NEW next \in {"prune", "anchor", "report"}, NEW r, Goto(p, next, r)
        PROVE  LeaseHeld' /\ \A q \in Process : pc'[q] # "replace"
    BY <1>1, <2>2, GotoLease
  <2> QED BY <2>1, <2>2 DEF WriteRecord, WriteLine
<1>3. /\ open = FALSE /\ open' = FALSE /\ stream \in Seq(Line) /\ log \in Seq(Op)
      /\ stream' = Append(stream, result[p].op) /\ log' = Append(log, result[p].op)
  BY DEF WriteRecord, WriteLine, Appended, Retained, EndOfLog, Envelope, FileTypes
<1>4. Len(stream') = Len(stream) + 1 /\ Len(log') = Len(log) + 1
      /\ Len(stream) \in Nat /\ Len(log) \in Nat
  BY <1>3
<1>5. ASSUME NEW i \in 1 .. Len(stream')
      PROVE  stream'[i] = log'[Len(log') - Len(stream') + i]
  <2>1. CASE i = Len(stream) + 1
    BY <1>3, <1>4, <2>1
  <2>2. CASE i \in 1 .. Len(stream)
    <3>1. Len(log) - Len(stream) + i \in 1 .. Len(log)
      BY <1>4, <2>2 DEF Retained, EndOfLog
    <3>2. stream[i] = log[Len(log) - Len(stream) + i]
      BY <2>2 DEF Retained, EndOfLog
    <3> QED BY <1>3, <1>4, <2>2, <3>1, <3>2
  <2> QED BY <1>4, <2>1, <2>2
<1>6. EndOfLog'
  <2>1. /\ Len(stream) <= Len(log) /\ Keep \in Nat
        /\ Len(stream) = Len(log) \/ Len(stream) >= Keep
    BY ExecutorAssumption DEF Retained, EndOfLog
  <2>2. Len(stream') <= Len(log') /\ (Len(stream') = Len(log') \/ Len(stream') >= Keep)
    BY <1>4, <2>1
  <2> QED BY ONLY <1>3, <1>5, <2>2 DEF EndOfLog
<1> QED BY <1>2, <1>6 DEF Retained, StagedIsNewest

LEMMA StageRetainedEnd ==
  ASSUME Retained, Envelope', NoShortWrite, NEW p \in Process, StageRetained(p)
  PROVE  Retained'
<1>1. pc[p] \in Working /\ UNCHANGED <<stream, open, log>>
  BY DEF StageRetained, file, Working, Control
<1>2. CASE Goto(p, "report", result[p])
  BY <1>1, <1>2, GotoLease, QuietRetained
<1>3. CASE /\ Len(stream) > Keep /\ staged' = <<Newest(stream), FALSE>>
           /\ Goto(p, "replace", result[p])
  <2>1. LeaseHeld' /\ \A q \in Process : q # p => pc'[q] # "replace"
    BY <1>1, <1>3, GotoLease
  <2>2. StagedIsNewest'
    BY <1>1, <1>3, <2>1 DEF StagedIsNewest, Newest
  <2> QED BY <1>1, <2>1, <2>2 DEF Retained, EndOfLog
<1> QED BY <1>2, <1>3 DEF StageRetained, NoShortWrite

LEMMA ReplaceRetained ==
  ASSUME Retained, Envelope', NEW p \in Process, ReplaceStream(p)
  PROVE  Retained'
<1>1. pc[p] \in Working /\ log' = log /\ "sync" # "replace" /\ "report" # "replace"
  BY DEF ReplaceStream, Working, Control
<1>2. LeaseHeld' /\ \A q \in Process : pc'[q] # "replace"
  BY <1>1, GotoLease DEF ReplaceStream
<1>3. CASE UNCHANGED <<stream, open>>
  BY <1>1, <1>2, <1>3, QuietRetained
<1>4. CASE stream' = staged[1] /\ open' = staged[2]
  <2>1. /\ stream' = Newest(stream) /\ open' = FALSE /\ Len(stream) > Keep
        /\ stream \in Seq(Line) /\ log \in Seq(Op)
    BY <1>4 DEF ReplaceStream, Retained, StagedIsNewest, Envelope, FileTypes
  <2>2. Keep \in Nat /\ Keep >= 1 /\ Len(stream) \in Nat /\ Len(log) \in Nat
    BY <2>1, ExecutorAssumption
  <2>3. Len(stream') = Keep BY <2>1, NewestTypes
  <2>4. \A i \in 1 .. Keep : stream'[i] = stream[Len(stream) - Keep + i]
    BY <2>1, <2>2 DEF Newest
  <2>5. \A i \in 1 .. Keep : stream'[i] = log[Len(log) - Keep + i]
    <3> SUFFICES ASSUME NEW i \in 1 .. Keep PROVE stream'[i] = log[Len(log) - Keep + i]
      OBVIOUS
    <3>1. Len(stream) - Keep + i \in 1 .. Len(stream)
      BY <2>1, <2>2
    <3>2. stream[Len(stream) - Keep + i] = log[Len(log) - Len(stream) + (Len(stream) - Keep + i)]
      BY <3>1 DEF Retained, EndOfLog
    <3>3. Len(log) - Len(stream) + (Len(stream) - Keep + i) = Len(log) - Keep + i
      BY <2>2
    <3> QED BY <2>4, <3>2, <3>3
  <2>6. EndOfLog'
    <3>1. open' = FALSE BY <1>4, <2>1
    <3>2. Len(stream) <= Len(log) BY DEF Retained, EndOfLog
    <3>3. Keep <= Len(log) BY <2>1, <2>2, <3>2
    <3>4. Len(stream') <= Len(log') BY <1>1, <2>3, <3>3
    <3>5. \A i \in 1 .. Len(stream') : stream'[i] = log'[Len(log') - Len(stream') + i]
      BY ONLY <1>1, <2>3, <2>5
    <3>6. Len(stream') >= Keep BY <2>2, <2>3
    <3> QED BY ONLY <3>1, <3>4, <3>5, <3>6 DEF EndOfLog
  <2> QED BY <1>2, <2>6 DEF Retained, StagedIsNewest
<1> QED BY <1>3, <1>4 DEF ReplaceStream

LEMMA InitRetained == Init => Retained
<1> SUFFICES ASSUME Init PROVE Retained
  OBVIOUS
<1>1. Envelope BY InitEnvelope
<1>2. Len(stream) = 0 /\ Len(log) = 0 BY DEF Init
<1> QED BY <1>1, <1>2 DEF Init, Retained, LeaseHeld, EndOfLog, StagedIsNewest, Working

LEMMA StepRetained == ASSUME NoShortWrite, Retained, [Next]_vars PROVE Retained'
<1>1. Envelope' BY StepEnvelope DEF Retained
<1>2. CASE UNCHANGED vars
  <2>1. LeaseHeld' BY <1>2 DEF vars, command, Retained, LeaseHeld
  <2> QED BY <1>1, <1>2, <2>1, QuietRetained DEF vars, command, file
<1>3. ASSUME NEW t \in Target, OwnerRemoves(t) PROVE Retained'
  <2>1. LeaseHeld' BY <1>3 DEF OwnerRemoves, Retained, LeaseHeld
  <2> QED BY <1>1, <1>3, <2>1, QuietRetained DEF OwnerRemoves, file
<1>4. ~PowerLoss BY DEF NoShortWrite, PowerLoss
<1>5. ASSUME NEW p \in Process, Run(p) PROVE Retained'
  <2>1. CASE \E targets \in SUBSET Target : Start(p, targets)
    <3>1. pc' = [pc EXCEPT ![p] = "waiting"] /\ lease' = lease /\ UNCHANGED <<file, staged, log>>
      BY <2>1 DEF Start
    <3>2. pc \in [Process -> Control] BY DEF Retained, Envelope, Commands, CommandTypes
    <3>3. LeaseHeld' BY <3>1, <3>2 DEF Retained, LeaseHeld, Working
    <3> QED BY <1>1, <3>1, <3>2, <3>3, QuietRetained DEF file
  <2>2. CASE AcquireLease(p, "waiting", "begin") \/ AcquireLease(p, "stale", "audit")
    <3>1. pc \in [Process -> Control] /\ Nobody \notin Process
      BY ExecutorAssumption DEF Retained, Envelope, Commands, CommandTypes
    <3>2. LeaseHeld' BY <2>2, <3>1 DEF AcquireLease, Retained, LeaseHeld
    <3> QED BY <1>1, <2>2, <3>1, <3>2, QuietRetained DEF AcquireLease, file
  <2>3. CASE Leave(p) /\ UNCHANGED <<file, staged, log>>
    BY <1>1, <2>3, LeaveLease, QuietRetained DEF file
  <2>4. CASE Begin(p)
    <3>1. CASE Leave(p) BY <2>3, <2>4, <3>1 DEF Begin
    <3>2. CASE ~Leave(p)
      <4>1. pc \in [Process -> Control] /\ pc[p] \in Working
        BY <2>4 DEF Begin, Working, Control, Retained, Envelope, Commands, CommandTypes
      <4>2. \A q \in Process : q # p => pc[q] \notin Working
        BY <4>1 DEF Retained, LeaseHeld
      <4>3. LeaseHeld' /\ \A q \in Process : pc'[q] = "replace" => pc[q] = "replace"
        BY <2>4, <3>2, <4>1, <4>2 DEF Begin, Retained, LeaseHeld, Working
      <4> QED BY <1>1, <2>4, <4>3, QuietRetained DEF Begin, file
    <3> QED BY <3>1, <3>2
  <2>5. CASE \E t \in Target : ApplyTarget(p, t)
    <3>1. UNCHANGED <<lease, pc, file, staged, log>> BY <2>5 DEF ApplyTarget, Act
    <3>2. LeaseHeld' BY <3>1 DEF Retained, LeaseHeld
    <3> QED BY <1>1, <3>1, <3>2, QuietRetained DEF file
  <2>6. CASE Interrupt(p)
    <3>1. /\ pc[p] \in Working /\ pc' = [pc EXCEPT ![p] = "audit"] /\ lease' = lease
          /\ UNCHANGED <<file, staged, log>>
      BY <2>6 DEF Interrupt, Working, Control
    <3>2. pc \in [Process -> Control] BY DEF Retained, Envelope, Commands, CommandTypes
    <3>3. LeaseHeld' BY <3>1, <3>2 DEF Retained, LeaseHeld
    <3> QED BY <1>1, <3>1, <3>2, <3>3, QuietRetained DEF file
  <2>7. CASE Settle(p) \/ WriteFails(p) \/ AnchorStream(p) \/ SyncStream(p)
    <3>1. pc[p] \in Working /\ UNCHANGED <<stream, open, log>>
      BY <2>7 DEF Settle, WriteFails, AnchorStream, SyncStream, file, Working, Control
    <3>2. \E next \in {"audit", "report", "prune"} : \E r : Goto(p, next, r)
      BY <2>7 DEF Settle, WriteFails, AnchorStream, SyncStream
    <3>3. LeaseHeld' /\ \A q \in Process : pc'[q] # "replace"
      BY <3>1, <3>2, GotoLease
    <3> QED BY <1>1, <3>1, <3>3, QuietRetained
  <2>8. ~WriteShort(p) BY DEF NoShortWrite, WriteShort
  <2>9. CASE LeaseTimeout(p) \/ Crash(p)
    BY <2>3, <2>9 DEF LeaseTimeout, Crash
  <2>10. CASE Report(p)
    BY <1>1, <2>10, LeaveLease, QuietRetained DEF Report, file
  <2> QED
    BY <1>1, <1>5, <2>1, <2>2, <2>4, <2>5, <2>6, <2>7, <2>8, <2>9, <2>10,
       AppendRetained, StageRetainedEnd, ReplaceRetained DEF Run
<1> QED BY <1>2, <1>3, <1>4, <1>5 DEF Next, AllEnded

(* Where writes are whole and the power stays on, a record its caller was  *)
(* told of stays in the stream while it is one of the newest Keep, whichever *)
(* operations append, prune, raise or die meanwhile.                       *)
THEOREM RecordsSurvive == NoShortWrite /\ Spec => []PublishedRecordsStay
<1> SUFFICES ASSUME NoShortWrite PROVE Spec => []PublishedRecordsStay
  BY DEF NoShortWrite
<1>1. Retained => PublishedRecordsStay
  <2> SUFFICES ASSUME Retained, NEW i \in DOMAIN log, Len(log) - i < Keep
               PROVE  log[i] \in Lines(stream)
    BY DEF PublishedRecordsStay
  <2>1. /\ log \in Seq(Op) /\ stream \in Seq(Line) /\ Len(log) \in Nat /\ Len(stream) \in Nat
        /\ i \in 1 .. Len(log) /\ Keep \in Nat
    BY ExecutorAssumption DEF Retained, Envelope, FileTypes
  <2> DEFINE j == Len(stream) - (Len(log) - i)
  <2>2. j \in 1 .. Len(stream)
    BY <2>1 DEF Retained, EndOfLog
  <2>3. Len(log) - Len(stream) + j = i
    BY <2>1
  <2>4. stream[j] = log[i]
    BY <2>2, <2>3 DEF Retained, EndOfLog
  <2> QED BY <2>1, <2>2, <2>4 DEF Lines
<1>2. Retained /\ [Next]_vars => Retained' BY StepRetained
<1> QED BY <1>1, <1>2, InitRetained, PTL DEF Spec

-----------------------------------------------------------------------------
(* Damage in the stream, under every fault but a power loss, short writes   *)
(* included: a replacement is staged from a stream without damage, and the *)
(* lease keeps every other writer away until it is in place.               *)
PowerStays == "power" \notin Faults

ReplacesReadable == \A p \in Process : pc[p] = "replace" => Damaged \notin Lines(stream)

Guarded == Envelope /\ LeaseHeld /\ ReplacesReadable

LEMMA LeaseMoves ==
  ASSUME Guarded, NEW p \in Process, NEW next, pc' = [pc EXCEPT ![p] = next],
         \/ pc[p] \in Working /\ lease' = lease
         \/ pc[p] \in Working /\ next \notin Working /\ lease' = Nobody
         \/ next \notin Working /\ lease' = IF lease = p THEN Nobody ELSE lease
         \/ next \notin Working /\ lease' = lease
         \/ lease = Nobody /\ lease' = p
  PROVE  /\ LeaseHeld'
         /\ \A q \in Process : q # p => pc'[q] = pc[q]
         /\ pc'[p] = next
         /\ pc[p] \in Working => \A q \in Process : q # p => pc[q] \notin Working
<1>1. pc \in [Process -> Control] /\ Nobody \notin Process
  BY ExecutorAssumption DEF Guarded, Envelope, Commands, CommandTypes
<1>2. /\ \A q \in Process : q # p => pc'[q] = pc[q]
      /\ pc'[p] = next
  BY <1>1
<1>3. \A q \in Process : pc[q] \in Working => lease = q
  BY DEF Guarded, LeaseHeld
<1>4. ASSUME NEW q \in Process, pc'[q] \in Working PROVE lease' = q
  BY <1>1, <1>2, <1>3, <1>4
<1> QED BY <1>2, <1>3, <1>4 DEF LeaseHeld

(* A step of p that leaves the stream, or that p makes as the lease's holder. *)
LEMMA GuardKept ==
  ASSUME Guarded, Envelope', NEW p \in Process, NEW next, next # "replace",
         pc' = [pc EXCEPT ![p] = next],
         \/ pc[p] \in Working /\ lease' = lease
         \/ pc[p] \in Working /\ next \notin Working /\ lease' = Nobody
         \/ next \notin Working /\ lease' = IF lease = p THEN Nobody ELSE lease
         \/ next \notin Working /\ lease' = lease
         \/ lease = Nobody /\ lease' = p,
         stream' = stream \/ pc[p] \in Working
  PROVE  Guarded'
<1>1. /\ LeaseHeld'
      /\ \A q \in Process : q # p => pc'[q] = pc[q]
      /\ pc'[p] = next
      /\ pc[p] \in Working => \A q \in Process : q # p => pc[q] \notin Working
  BY LeaseMoves
<1>2. "replace" \in Working BY DEF Working, Control
<1>3. ASSUME NEW q \in Process, pc'[q] = "replace" PROVE Damaged \notin Lines(stream')
  <2>1. q # p /\ pc[q] = "replace" BY <1>1, <1>3
  <2>2. stream' = stream BY <1>1, <1>2, <2>1
  <2> QED BY <2>1, <2>2 DEF Guarded, ReplacesReadable
<1> QED BY <1>1, <1>3 DEF Guarded, ReplacesReadable, Lines

LEMMA LeaveGuarded ==
  ASSUME Guarded, Envelope', NEW p \in Process, Leave(p), stream' = stream \/ pc[p] \in Working
  PROVE  Guarded'
<1>1. pc' = [pc EXCEPT ![p] = "idle"] /\ lease' = IF lease = p THEN Nobody ELSE lease
  BY DEF Leave
<1> QED BY <1>1, GuardKept DEF Working

LEMMA GotoGuarded ==
  ASSUME Guarded, Envelope', NEW p \in Process, pc[p] \in Working, NEW next, next # "replace",
         NEW r, Goto(p, next, r)
  PROVE  Guarded'
<1>1. pc' = [pc EXCEPT ![p] = next] /\ lease' = lease BY DEF Goto
<1> QED BY <1>1, GuardKept

LEMMA StageGuarded ==
  ASSUME Guarded, Envelope', NEW p \in Process, StageRetained(p)
  PROVE  Guarded'
<1>1. pc[p] \in Working /\ stream' = stream
  BY DEF StageRetained, file, Working, Control
<1>2. CASE Goto(p, "report", result[p])
  BY <1>1, <1>2, GotoGuarded
<1>3. CASE Damaged \notin Lines(stream) /\ Goto(p, "replace", result[p])
  <2>1. pc' = [pc EXCEPT ![p] = "replace"] /\ lease' = lease BY <1>3 DEF Goto
  <2>2. LeaseHeld' BY <1>1, <2>1, LeaseMoves
  <2> QED BY <1>1, <1>3, <2>2 DEF Guarded, ReplacesReadable
<1> QED BY <1>2, <1>3 DEF StageRetained

LEMMA StepGuarded == ASSUME Guarded, [Next]_vars PROVE Guarded'
<1>1. Envelope' BY StepEnvelope DEF Guarded
<1>2. ASSUME UNCHANGED <<pc, lease, stream>> PROVE Guarded'
  BY <1>1, <1>2 DEF Guarded, LeaseHeld, ReplacesReadable
<1>3. ASSUME PowerLoss PROVE Guarded'
  <2>1. \A p \in Process : pc'[p] = "idle" BY <1>3 DEF PowerLoss
  <2> QED BY <1>1, <2>1 DEF Guarded, LeaseHeld, ReplacesReadable, Working
<1>4. ASSUME NEW p \in Process, Run(p) PROVE Guarded'
  <2>1. CASE \E targets \in SUBSET Target : Start(p, targets)
    <3>1. pc' = [pc EXCEPT ![p] = "waiting"] /\ lease' = lease /\ stream' = stream
      BY <2>1 DEF Start, file
    <3> QED BY <1>1, <3>1, GuardKept DEF Working
  <2>2. CASE AcquireLease(p, "waiting", "begin") \/ AcquireLease(p, "stale", "audit")
    <3>1. \E next \in {"begin", "audit"} :
            /\ pc' = [pc EXCEPT ![p] = next] /\ lease = Nobody /\ lease' = p /\ stream' = stream
      BY <2>2 DEF AcquireLease, file
    <3> QED BY <1>1, <3>1, GuardKept
  <2>3. CASE (LeaseTimeout(p) \/ Crash(p) \/ Report(p))
    BY <1>1, <2>3, LeaveGuarded DEF LeaseTimeout, Crash, Report, file
  <2>4. CASE Begin(p)
    <3>1. pc[p] \in Working /\ stream' = stream BY <2>4 DEF Begin, file, Working, Control
    <3>2. CASE pc' = [pc EXCEPT ![p] = "engine"] /\ lease' = lease
      BY <1>1, <3>1, <3>2, GuardKept
    <3>3. CASE pc' = [pc EXCEPT ![p] = "stale"] /\ lease' = Nobody
      BY <1>1, <3>1, <3>3, GuardKept DEF Working
    <3>4. CASE Leave(p) BY <1>1, <3>1, <3>4, LeaveGuarded
    <3> QED BY <2>4, <3>2, <3>3, <3>4 DEF Begin
  <2>5. CASE \E t \in Target : ApplyTarget(p, t)
    BY <1>2, <2>5 DEF ApplyTarget, Act, file
  <2>6. CASE Interrupt(p)
    <3>1. /\ pc[p] \in Working /\ pc' = [pc EXCEPT ![p] = "audit"] /\ lease' = lease
          /\ stream' = stream
      BY <2>6 DEF Interrupt, file, Working, Control
    <3> QED BY <1>1, <3>1, GuardKept
  <2>7. CASE \/ Settle(p) \/ WriteFails(p) \/ AnchorStream(p) \/ SyncStream(p)
             \/ ReplaceStream(p)
    <3>1. pc[p] \in Working
      BY <2>7 DEF Settle, WriteFails, AnchorStream, SyncStream, ReplaceStream, Working, Control
    <3>2. \E next \in {"audit", "report", "prune", "sync"} : \E r : Goto(p, next, r)
      BY <2>7 DEF Settle, WriteFails, AnchorStream, SyncStream, ReplaceStream
    <3> QED BY <1>1, <3>1, <3>2, GotoGuarded
  <2>8. CASE WriteRecord(p) \/ WriteShort(p)
    <3>1. pc[p] \in Working BY <2>8 DEF WriteRecord, WriteShort, Working, Control
    <3>2. \/ \E next \in {"prune", "anchor", "report"} : \E r : Goto(p, next, r)
          \/ Leave(p)
      BY <2>8 DEF WriteRecord, WriteShort, WriteLine
    <3> QED BY <1>1, <3>1, <3>2, GotoGuarded, LeaveGuarded
  <2> QED
    BY <1>1, <1>4, <2>1, <2>2, <2>3, <2>4, <2>5, <2>6, <2>7, <2>8, StageGuarded DEF Run
<1> QED BY <1>2, <1>3, <1>4 DEF Next, AllEnded, OwnerRemoves, file, vars, command

LEMMA InitGuarded == Init => Guarded
<1> SUFFICES ASSUME Init PROVE Guarded
  OBVIOUS
<1> QED BY InitEnvelope DEF Init, Guarded, LeaseHeld, ReplacesReadable, Working

(* An append keeps every damaged line where it is. *)
LEMMA AppendKeepsDamage ==
  ASSUME stream \in Seq(Line), NEW x, NEW i \in DOMAIN stream, stream[i] = Damaged
  PROVE  i \in DOMAIN Appended(x) /\ Appended(x)[i] = Damaged
<1>1. i \in 1 .. Len(stream) /\ Len(stream) \in Nat OBVIOUS
<1>2. CASE open = TRUE
  BY <1>1, <1>2 DEF Appended
<1>3. CASE open # TRUE
  BY <1>1, <1>3 DEF Appended
<1> QED BY <1>2, <1>3

(* Whatever is appended, pruned, cut short or left by the dead, a line that *)
(* was found unreadable stays in the stream for its reader to see, unless a *)
(* power loss takes the file back.                                         *)
THEOREM DamageIsKept == PowerStays /\ Spec => DamageStays
<1> SUFFICES ASSUME PowerStays PROVE Spec => DamageStays
  BY DEF PowerStays
<1>1. ASSUME Guarded, [Next]_vars, NEW i \in DOMAIN stream, stream[i] = Damaged
      PROVE  i \in DOMAIN stream' /\ stream'[i] = Damaged
  <2>1. stream \in Seq(Line) BY <1>1 DEF Guarded, Envelope, FileTypes
  <2>2. CASE stream' = stream BY <1>1, <2>2
  <2>3. ASSUME NEW p \in Process, WriteRecord(p) \/ WriteShort(p)
        PROVE  i \in DOMAIN stream' /\ stream'[i] = Damaged
    <3>1. PICK x : stream' = Appended(x) BY <2>3 DEF WriteRecord, WriteShort, WriteLine
    <3> QED BY <1>1, <2>1, <3>1, AppendKeepsDamage
  <2>4. ASSUME NEW p \in Process, ReplaceStream(p) PROVE stream' = stream
    BY <1>1, <2>4 DEF ReplaceStream, Guarded, ReplacesReadable, Lines
  <2>5. ~PowerLoss BY DEF PowerLoss, PowerStays
  <2>6. ASSUME NEW p \in Process, Run(p), ~WriteRecord(p), ~WriteShort(p), ~ReplaceStream(p)
        PROVE  stream' = stream
    BY <2>6 DEF Run, Start, AcquireLease, LeaseTimeout, Begin, ApplyTarget, Act, Interrupt,
       Settle, WriteFails, AnchorStream, StageRetained, SyncStream, Report, Crash, file
  <2> QED
    BY <1>1, <2>2, <2>3, <2>4, <2>5, <2>6 DEF Next, AllEnded, OwnerRemoves, file, vars
<1>2. Guarded /\ [Next]_vars =>
        [\A i \in DOMAIN stream :
           stream[i] = Damaged => i \in DOMAIN stream' /\ stream'[i] = Damaged]_stream
  BY <1>1
<1>3. Guarded /\ [Next]_vars => Guarded' BY StepGuarded
<1> QED BY <1>2, <1>3, InitGuarded, PTL DEF Spec, DamageStays

-----------------------------------------------------------------------------
(***************************************************************************)
(* The retention record of an attempt (QualificationAttempt).              *)
(***************************************************************************)

IsTerminal == qRecord # Nothing /\ qRecord.stamp.kind = "terminal"

(* Who holds the attempt lock, and what the record under it is.  A release  *)
(* that is under way found the record open, and nobody closes it meanwhile. *)
Locked(p) ==
  /\ qLock = p <=> qPc[p] \in {"merge", "prove", "commit"}
  /\ qPc[p] = "merge" => qRead[p] = qRecord
  /\ qPc[p] \in {"prove", "commit"} =>
       /\ qNext[p] \in Attempt!Stamp /\ qNext[p].kind \in Attempt!Released
       /\ ~IsTerminal
  /\ qPc[p] = "commit" => qProof # Nothing /\ qProof.binds = qNext[p]

(* A session that has something to remove works for the release its plan    *)
(* was made against, and removes what the proof of it names.                *)
Authenticated ==
  /\ qLock = Storage <=> qStorage = "session"
  /\ qStorage # "idle" => qPlan # Nothing /\ qPlan.names \subseteq qPlan.proof.nodes
  /\ qTodo # {} =>
       /\ qStorage = "session" /\ qTodo \subseteq qPlan.names
       /\ Attempt!ProofBinds(qRecord) /\ qRecord.stamp = qPlan.record /\ qProof = qPlan.proof

Attested ==
  /\ Attempt!TypeOK /\ Attempt!TerminalIsProven
  /\ \A p \in Invocation : Locked(p)
  /\ Authenticated

LEMMA InitAttested == Attempt!MarksAreApart /\ Attempt!Init => Attested
BY DEF Attempt!MarksAreApart, Attempt!Init, Attested, Attempt!TypeOK, Attempt!TerminalIsProven, Locked,
   Authenticated, Attempt!Second

(* Who does not hold the lock relies on nothing that a holder changes. *)
LEMMA OthersLocked ==
  ASSUME Attempt!MarksAreApart, Attested, NEW p \in Invocation \cup {Storage}, qLock \in {p, Nobody},
        qLock' \in {p, Nobody},
         NEW q \in Invocation \ {p}, qPc'[q] = qPc[q]
  PROVE  Locked(q)'
BY DEF Attempt!MarksAreApart, Attested, Locked, Attempt!TypeOK

(* Storage relies on nothing that an invocation changes under the lock. *)
LEMMA InvocationAuthenticated ==
  ASSUME Attempt!MarksAreApart, Attested, NEW p \in Invocation, qLock \in {p, Nobody},
        qLock' \in {p, Nobody},
         UNCHANGED Attempt!session
  PROVE  Authenticated'
BY DEF Attempt!MarksAreApart, Attested, Authenticated, Attempt!session

LEMMA RecordParts ==
  ASSUME Attested
  PROVE  /\ qRecord # Nothing => qRecord \in Attempt!Record /\ qRecord.stamp \in Attempt!Stamp
            /\ qRecord.refs \subseteq Invocation
         /\ qProof # Nothing => qProof \in Attempt!Proof /\ qProof.binds \in Attempt!Stamp
            /\ qProof.nodes \subseteq Node
         /\ \A kind \in {"active"} \cup Attempt!Released : Attempt!Now(kind) \in Attempt!Stamp
            /\ Attempt!Now(kind).kind = kind
BY DEF Attested, Attempt!TypeOK, Attempt!Record, Attempt!Proof, Attempt!Stamp, Attempt!Now

LEMMA AcquireAttested == ASSUME Attempt!MarksAreApart, Attested, NEW p \in Invocation,
      Attempt!Acquire(p) PROVE Attested'
<1>1. /\ qLock = Nobody /\ qLock' = p /\ qPc' = [qPc EXCEPT ![p] = "merge"]
      /\ qRead' = [qRead EXCEPT ![p] = qRecord]
         /\ UNCHANGED <<qClock, Attempt!attempt, Attempt!scratch, qNext, Attempt!session>>
  BY DEF Attempt!Acquire, Attempt!Lock
<1>2. Attempt!TypeOK' BY <1>1
  DEF Attested, Attempt!TypeOK, Attempt!attempt, Attempt!scratch, Attempt!session
<1>3. Attempt!TerminalIsProven' BY <1>1
  DEF Attested, Attempt!TerminalIsProven, Attempt!ProofBinds, Attempt!attempt
<1>4. Locked(p)' BY <1>1 DEF Attested, Attempt!TypeOK, Locked, Attempt!attempt
<1>5. \A q \in Invocation \ {p} : Locked(q)' BY <1>1, OthersLocked DEF Attested, Attempt!TypeOK
<1>6. Authenticated' BY <1>1, InvocationAuthenticated
<1> QED BY <1>2, <1>3, <1>4, <1>5, <1>6 DEF Attested

LEMMA PinAttested == ASSUME Attempt!MarksAreApart, Attested, NEW p \in Invocation, Attempt!Pin(p)
  PROVE Attested'
<1>1. /\ qPc[p] = "merge" /\ qLock' = Nobody /\ qPc' = [qPc EXCEPT ![p] = "run"]
      /\ qRead' = [qRead EXCEPT ![p] = Nothing]
         /\ UNCHANGED <<qClock, qProof, Attempt!scratch, qNext, Attempt!session>>
  BY DEF Attempt!Pin
<1>2. qLock = p /\ qRead[p] = qRecord BY <1>1 DEF Attested, Locked
<1>3. CASE IsTerminal
  <2>1. qRecord' = qRecord BY <1>2, <1>3 DEF Attempt!Pin, IsTerminal
  <2>2. Attempt!TypeOK' BY <1>1, <2>1 DEF Attested, Attempt!TypeOK, Attempt!scratch, Attempt!session
  <2>3. Attempt!TerminalIsProven' BY <1>1, <2>1
    DEF Attested, Attempt!TerminalIsProven, Attempt!ProofBinds
  <2>4. Locked(p)' BY <1>1, <2>1 DEF Attempt!MarksAreApart, Attested, Attempt!TypeOK, Locked
  <2>5. \A q \in Invocation \ {p} : Locked(q)' BY <1>1, <1>2, OthersLocked DEF Attested, Attempt!TypeOK
  <2>6. Authenticated' BY <1>1, <1>2, InvocationAuthenticated
  <2> QED BY <2>2, <2>3, <2>4, <2>5, <2>6 DEF Attested
<1>4. CASE ~IsTerminal
  <2>1. qRecord' = [stamp |-> Attempt!Now("active"), refs |-> {p} \cup (IF qRecord = Nothing THEN {} ELSE qRecord.refs)]
    BY <1>2, <1>4 DEF Attempt!Pin, IsTerminal
  <2>2. qRecord' \in Attempt!Record /\ qRecord'.stamp.kind = "active"
    BY <2>1, RecordParts DEF Attempt!Record
  <2>3. Attempt!TypeOK' BY <1>1, <2>2 DEF Attested, Attempt!TypeOK, Attempt!scratch, Attempt!session
  <2>4. Attempt!TerminalIsProven' BY <2>2 DEF Attempt!TerminalIsProven
  <2>5. Locked(p)' BY <1>1 DEF Attempt!MarksAreApart, Attested, Attempt!TypeOK, Locked
  <2>6. \A q \in Invocation \ {p} : Locked(q)' BY <1>1, <1>2, OthersLocked DEF Attested, Attempt!TypeOK
  <2>7. Authenticated' BY <1>1, <1>2, InvocationAuthenticated
  <2> QED BY <2>3, <2>4, <2>5, <2>6, <2>7 DEF Attested
<1> QED BY <1>3, <1>4

(* Steps that neither read nor write what the lock protects. *)
LEMMA PlainAttested ==
  ASSUME Attempt!MarksAreApart, Attested, Attempt!TypeOK',
        UNCHANGED <<Attempt!attempt, qLock, qRead, qNext, Attempt!session>>,
         \A q \in Invocation : qPc'[q] = qPc[q] \/ {qPc[q], qPc'[q]} \subseteq {"out", "run"}
  PROVE  Attested'
<1>1. Attempt!TerminalIsProven'
  BY DEF Attested, Attempt!TerminalIsProven, Attempt!ProofBinds, Attempt!attempt
<1>2. \A q \in Invocation : Locked(q)'
  BY DEF Attested, Locked, IsTerminal, Attempt!attempt
<1>3. Authenticated'
  BY DEF Attested, Authenticated, Attempt!ProofBinds, Attempt!attempt, Attempt!session
<1> QED BY <1>1, <1>2, <1>3 DEF Attested

LEMMA BeginReleaseAttested ==
  ASSUME Attempt!MarksAreApart, Attested, NEW p \in Invocation, NEW kind \in Attempt!Released,
        Attempt!BeginRelease(p, kind)
  PROVE  Attested'
<1>1. /\ qPc[p] = "run" /\ qRecord # Nothing
         /\ UNCHANGED <<qClock, Attempt!attempt, Attempt!scratch, qRead, Attempt!session>>
  BY DEF Attempt!BeginRelease
<1>2. CASE qRecord.stamp.kind = "terminal"
  <2>1. qPc' = [qPc EXCEPT ![p] = "out"] /\ UNCHANGED <<qLock, qNext>> BY <1>2 DEF Attempt!BeginRelease
  <2>2. Attempt!TypeOK' BY <1>1, <2>1
    DEF Attested, Attempt!TypeOK, Attempt!attempt, Attempt!scratch, Attempt!session
  <2> QED BY <1>1, <2>1, <2>2, PlainAttested DEF Attested, Attempt!TypeOK
<1>3. CASE qRecord.stamp.kind # "terminal"
  <2>1. /\ qLock = Nobody /\ qLock' = p /\ qPc' = [qPc EXCEPT ![p] = "prove"]
        /\ qNext' = [qNext EXCEPT ![p] = Attempt!Now(kind)]
    BY <1>3 DEF Attempt!BeginRelease, Attempt!Lock
  <2>2. Attempt!Now(kind) \in Attempt!Stamp /\ Attempt!Now(kind).kind \in Attempt!Released
    BY RecordParts
  <2>3. Attempt!TypeOK' BY <1>1, <2>1, <2>2
    DEF Attested, Attempt!TypeOK, Attempt!attempt, Attempt!scratch, Attempt!session
  <2>4. Attempt!TerminalIsProven' BY <1>1
    DEF Attested, Attempt!TerminalIsProven, Attempt!ProofBinds, Attempt!attempt
  <2>5. Locked(p)' BY <1>1, <1>3, <2>1, <2>2
    DEF Attested, Attempt!TypeOK, Locked, IsTerminal, Attempt!attempt
  <2>6. \A q \in Invocation \ {p} : Locked(q)' BY <2>1, OthersLocked DEF Attested, Attempt!TypeOK
  <2>7. Authenticated' BY <1>1, <2>1, InvocationAuthenticated
  <2> QED BY <2>3, <2>4, <2>5, <2>6, <2>7 DEF Attested
<1> QED BY <1>2, <1>3

LEMMA PublishProofAttested ==
  ASSUME Attempt!MarksAreApart, Attested, NEW p \in Invocation, Attempt!PublishProof(p) PROVE Attested'
<1>1. /\ qPc[p] = "prove" /\ qProof' = [binds |-> qNext[p], nodes |-> qPresent]
      /\ qPc' = [qPc EXCEPT ![p] = "commit"]
      /\ UNCHANGED <<qClock, qRecord, Attempt!scratch, qLock, qRead, qNext, Attempt!session>>
  BY DEF Attempt!PublishProof
<1>2. qLock = p /\ qNext[p] \in Attempt!Stamp /\ qNext[p].kind \in Attempt!Released /\ ~IsTerminal
  BY <1>1 DEF Attested, Locked
<1>3. qProof' \in Attempt!Proof /\ qProof'.binds = qNext[p] BY <1>1, <1>2
  DEF Attested, Attempt!TypeOK, Attempt!Proof
<1>4. Attempt!TypeOK' BY <1>1, <1>3 DEF Attested, Attempt!TypeOK, Attempt!scratch, Attempt!session
<1>5. Attempt!TerminalIsProven' BY <1>1, <1>2 DEF Attempt!TerminalIsProven, IsTerminal
<1>6. Locked(p)' BY <1>1, <1>2, <1>3
  DEF Attempt!MarksAreApart, Attested, Attempt!TypeOK, Locked, IsTerminal
<1>7. \A q \in Invocation \ {p} : Locked(q)' BY <1>1, <1>2, OthersLocked DEF Attested, Attempt!TypeOK
<1>8. Authenticated' BY <1>1, <1>2, InvocationAuthenticated
<1> QED BY <1>4, <1>5, <1>6, <1>7, <1>8 DEF Attested

LEMMA CommitReleaseAttested ==
  ASSUME Attempt!MarksAreApart, Attested, NEW p \in Invocation, Attempt!CommitRelease(p) PROVE Attested'
<1>1. /\ qPc[p] = "commit" /\ qRecord' = [stamp |-> qNext[p], refs |-> {}]
      /\ qPc' = [qPc EXCEPT ![p] = "out"] /\ qLock' = Nobody
      /\ qNext' = [qNext EXCEPT ![p] = Nothing]
         /\ UNCHANGED <<qClock, qProof, Attempt!scratch, qRead, Attempt!session>>
  BY DEF Attempt!CommitRelease
<1>2. /\ qLock = p /\ qNext[p] \in Attempt!Stamp /\ qNext[p].kind \in Attempt!Released
      /\ qProof # Nothing /\ qProof.binds = qNext[p]
  BY <1>1 DEF Attested, Locked
<1>3. qRecord' \in Attempt!Record /\ qRecord'.stamp = qNext[p] BY <1>1, <1>2 DEF Attempt!Record
<1>4. Attempt!TypeOK' BY <1>1, <1>3 DEF Attested, Attempt!TypeOK, Attempt!scratch, Attempt!session
<1>5. Attempt!TerminalIsProven' BY <1>1, <1>2, <1>3
  DEF Attempt!TerminalIsProven, Attempt!ProofBinds, Attempt!Released
<1>6. Locked(p)' BY <1>1 DEF Attempt!MarksAreApart, Attested, Attempt!TypeOK, Locked
<1>7. \A q \in Invocation \ {p} : Locked(q)' BY <1>1, <1>2, OthersLocked DEF Attested, Attempt!TypeOK
<1>8. Authenticated' BY <1>1, <1>2, InvocationAuthenticated
<1> QED BY <1>4, <1>5, <1>6, <1>7, <1>8 DEF Attested

LEMMA DieAttested == ASSUME Attempt!MarksAreApart, Attested, NEW p \in Invocation, Attempt!Die(p)
  PROVE Attested'
<1>1. /\ qPc' = [qPc EXCEPT ![p] = "out"] /\ qLock' = IF qLock = p THEN Nobody ELSE qLock
      /\ qRead' = [qRead EXCEPT ![p] = Nothing] /\ qNext' = [qNext EXCEPT ![p] = Nothing]
      /\ UNCHANGED <<qClock, Attempt!attempt, Attempt!scratch, Attempt!session>>
  BY DEF Attempt!Die
<1>2. Attempt!TypeOK' BY <1>1
  DEF Attested, Attempt!TypeOK, Attempt!attempt, Attempt!scratch, Attempt!session
<1>3. Attempt!TerminalIsProven' BY <1>1
  DEF Attested, Attempt!TerminalIsProven, Attempt!ProofBinds, Attempt!attempt
<1>4. Locked(p)' BY <1>1 DEF Attempt!MarksAreApart, Attested, Attempt!TypeOK, Locked
<1>5. ASSUME NEW q \in Invocation \ {p} PROVE Locked(q)'
  BY <1>1 DEF Attempt!MarksAreApart, Attested, Attempt!TypeOK, Locked, IsTerminal, Attempt!attempt
<1>6. Authenticated'
  BY <1>1 DEF Attempt!MarksAreApart, Attested, Attempt!TypeOK, Authenticated, Attempt!ProofBinds,
     Attempt!attempt, Attempt!session
<1> QED BY <1>2, <1>3, <1>4, <1>5, <1>6 DEF Attested

LEMMA InvokeAttested == ASSUME Attempt!MarksAreApart, Attested, NEW p \in Invocation,
      Attempt!Invoke(p) PROVE Attested'
<1>1. ASSUME NEW n \in Node, Attempt!WriteScratch(p, n) PROVE Attested'
  <2>1. Attempt!TypeOK' BY <1>1
    DEF Attested, Attempt!TypeOK, Attempt!WriteScratch, Attempt!attempt, Attempt!invocations,
       Attempt!session
  <2> QED BY <1>1, <2>1, PlainAttested DEF Attempt!WriteScratch, Attempt!invocations
<1>2. CASE Attempt!ReturnActive(p)
  <2>1. Attempt!TypeOK' BY <1>2
    DEF Attested, Attempt!TypeOK, Attempt!ReturnActive, Attempt!attempt, Attempt!scratch,
       Attempt!session
  <2> QED BY <1>2, <2>1, PlainAttested DEF Attempt!ReturnActive, Attested, Attempt!TypeOK
<1> QED BY <1>1, <1>2, AcquireAttested, PinAttested, BeginReleaseAttested, PublishProofAttested,
          CommitReleaseAttested, DieAttested DEF Attempt!Invoke

-----------------------------------------------------------------------------
(* Steps of storage leave the invocations and what they share alone. *)
LEMMA StorageAttested ==
  ASSUME Attempt!MarksAreApart, Attested, Attempt!TypeOK', Authenticated',
        UNCHANGED <<Attempt!attempt, Attempt!invocations>>,
         (qLock \in {Storage, Nobody} /\ qLock' \in {Storage, Nobody}) \/ UNCHANGED qLock
  PROVE  Attested'
<1>1. Attempt!TerminalIsProven'
  BY DEF Attested, Attempt!TerminalIsProven, Attempt!ProofBinds, Attempt!attempt
<1>2. ASSUME NEW q \in Invocation PROVE Locked(q)'
  BY DEF Attempt!MarksAreApart, Attested, Locked, IsTerminal, Attempt!attempt, Attempt!invocations
<1> QED BY <1>1, <1>2 DEF Attested

LEMMA CleanAttested == ASSUME Attempt!MarksAreApart, Attested, Attempt!Clean PROVE Attested'
<1>1. CASE Attempt!PlanCleanup
  <2>1. /\ qStorage = "idle" /\ Attempt!ProofBinds(qRecord) /\ qPresent \subseteq qProof.nodes
        /\ qPlan' = [record |-> qRecord.stamp, proof |-> qProof, names |-> qPresent]
        /\ qSame' = qPresent /\ qStorage' = "planned"
        /\ UNCHANGED <<qClock, Attempt!attempt, qPresent, qLock, Attempt!invocations, qTodo>>
    BY <1>1 DEF Attempt!PlanCleanup, Attempt!Certified
  <2>2. qRecord.stamp \in Attempt!Stamp /\ qProof \in Attempt!Proof BY <2>1, RecordParts
    DEF Attempt!ProofBinds
  <2>3. qPlan' \in Attempt!Planned /\ qPlan'.names = qPresent /\ qPlan'.proof = qProof
    BY <2>1, <2>2 DEF Attested, Attempt!TypeOK, Attempt!Planned
  <2>4. Attempt!TypeOK' BY <2>1, <2>3 DEF Attested, Attempt!TypeOK, Attempt!attempt, Attempt!invocations
  <2>5. Authenticated' BY <2>1, <2>3 DEF Attempt!MarksAreApart, Attested, Authenticated
  <2> QED BY <2>1, <2>4, <2>5, StorageAttested
<1>2. CASE Attempt!OpenSession
  <2>1. /\ qStorage = "planned" /\ qLock = Nobody /\ qLock' = Storage
        /\ qTodo' = IF Attempt!SameRelease THEN qPlan.names ELSE {}
        /\ qStorage' = "session"
           /\ UNCHANGED <<qClock, Attempt!attempt, Attempt!scratch, Attempt!invocations, qPlan>>
    BY <1>2 DEF Attempt!OpenSession, Attempt!Lock
  <2>2. qPlan \in Attempt!Planned /\ qPlan.names \subseteq Node
    BY <2>1 DEF Attested, Authenticated, Attempt!TypeOK, Attempt!Planned
  <2>3. Attempt!TypeOK' BY <2>1, <2>2
    DEF Attested, Attempt!TypeOK, Attempt!attempt, Attempt!scratch, Attempt!invocations
  <2>4. Authenticated'
    BY <2>1 DEF Attested, Authenticated, Attempt!SameRelease, Attempt!Certified, Attempt!ProofBinds,
       Attempt!attempt
  <2> QED BY <2>1, <2>3, <2>4, StorageAttested
<1>3. ASSUME NEW n \in Node, Attempt!RemoveMember(n) PROVE Attested'
  <2>1. /\ qTodo' \subseteq qTodo /\ qPresent' \subseteq qPresent
           /\ qSame' \subseteq qSame \cap qPresent'
        /\ UNCHANGED <<qClock, Attempt!attempt, qLock, Attempt!invocations, qStorage, qPlan>>
    BY <1>3 DEF Attempt!RemoveMember, Attempt!Remove, Attempt!scratch, Attested, Attempt!TypeOK
  <2>2. Attempt!TypeOK' BY <2>1 DEF Attested, Attempt!TypeOK, Attempt!attempt, Attempt!invocations
  <2>3. Authenticated' BY <2>1 DEF Attested, Authenticated, Attempt!ProofBinds, Attempt!attempt
  <2> QED BY <2>1, <2>2, <2>3, StorageAttested
<1>4. CASE Attempt!EndStorage
  <2>1. /\ qStorage' = "idle" /\ qPlan' = Nothing /\ qTodo' = {} /\ qSame' = {}
        /\ qLock' = IF qLock = Storage THEN Nobody ELSE qLock
        /\ UNCHANGED <<qClock, Attempt!attempt, qPresent, Attempt!invocations>>
    BY <1>4 DEF Attempt!EndStorage
  <2>2. Attempt!TypeOK' BY <2>1 DEF Attested, Attempt!TypeOK, Attempt!attempt, Attempt!invocations
  <2>3. Authenticated' BY <2>1 DEF Attempt!MarksAreApart, Authenticated
  <2> QED BY <2>1, <2>2, <2>3, StorageAttested
<1> QED BY <1>1, <1>2, <1>3, <1>4 DEF Attempt!Clean

LEMMA NextAttested == ASSUME Attempt!MarksAreApart, Attested, [Attempt!Next]_(Attempt!vars)
  PROVE Attested'
<1>1. CASE Attempt!Tick
  <2>1. Attempt!TypeOK'
    BY <1>1 DEF Attempt!MarksAreApart, Attested, Attempt!TypeOK, Attempt!Tick, Attempt!Second,
       Attempt!attempt, Attempt!scratch, Attempt!invocations, Attempt!session
  <2> QED BY <1>1, <2>1, PlainAttested DEF Attempt!Tick, Attempt!invocations
<1>2. CASE UNCHANGED Attempt!vars
  <2>1. Attempt!TypeOK' BY <1>2
    DEF Attested, Attempt!TypeOK, Attempt!vars, Attempt!attempt, Attempt!scratch, Attempt!invocations,
       Attempt!session
  <2> QED BY <1>2, <2>1, PlainAttested DEF Attempt!vars, Attempt!invocations
<1> QED BY <1>1, <1>2, InvokeAttested, CleanAttested DEF Attempt!Next

LEMMA AttestedRun == Attempt!MarksAreApart /\ Attempt!Spec => []Attested
<1> SUFFICES ASSUME Attempt!MarksAreApart PROVE Attempt!Spec => []Attested
  BY DEF Attempt!MarksAreApart
<1>1. Attempt!Init => Attested BY InitAttested
<1>2. Attested /\ [Attempt!Next]_(Attempt!vars) => Attested' BY NextAttested
<1> QED BY <1>1, <1>2, PTL DEF Attempt!Spec

(* A terminal record has its proof: the record is written last, and nobody *)
(* writes another while the lock is held (release_attempt_reference).      *)
THEOREM TerminalStaysProven == Attempt!MarksAreApart
      /\ Attempt!Spec => [](Attempt!TypeOK /\ Attempt!TerminalIsProven)
<1>1. Attested => Attempt!TypeOK /\ Attempt!TerminalIsProven BY DEF Attested
<1> QED BY <1>1, AttestedRun, PTL

(* Only the two writes under the lock change the record. *)
LEMMA RecordSteps ==
  ASSUME Attempt!MarksAreApart, Attested, [Attempt!Next]_(Attempt!vars)
  PROVE  \/ qRecord' = qRecord
         \/ \E p \in Invocation : Attempt!Pin(p) /\ ~IsTerminal
         \/ \E p \in Invocation : Attempt!CommitRelease(p)
<1>1. ASSUME NEW p \in Invocation, Attempt!Pin(p), IsTerminal PROVE qRecord' = qRecord
  <2>1. qRead[p] = qRecord BY <1>1 DEF Attempt!Pin, Attested, Locked
  <2> QED BY <1>1, <2>1 DEF Attempt!Pin, IsTerminal
<1>2. ASSUME NEW p \in Invocation, Attempt!Invoke(p), ~Attempt!Pin(p), ~Attempt!CommitRelease(p)
  PROVE qRecord' = qRecord
  BY <1>2 DEF Attempt!Invoke, Attempt!Acquire, Attempt!WriteScratch, Attempt!ReturnActive,
     Attempt!BeginRelease, Attempt!PublishProof, Attempt!Die, Attempt!attempt
<1>3. CASE Attempt!Clean
  BY <1>3 DEF Attempt!Clean, Attempt!PlanCleanup, Attempt!OpenSession, Attempt!RemoveMember,
     Attempt!EndStorage, Attempt!attempt
<1>4. CASE Attempt!Tick \/ UNCHANGED Attempt!vars BY <1>4
  DEF Attempt!Tick, Attempt!vars, Attempt!attempt
<1> QED BY <1>1, <1>2, <1>3, <1>4 DEF Attempt!Next

(* Pin returns a terminal record unchanged and a release finds the record   *)
(* open under the lock: a terminal record is never written again.          *)
THEOREM TerminalStaysFinal == Attempt!MarksAreApart /\ Attempt!Spec => Attempt!TerminalIsFinal
<1> SUFFICES ASSUME Attempt!MarksAreApart PROVE Attempt!Spec => Attempt!TerminalIsFinal
  BY DEF Attempt!MarksAreApart
<1>1. ASSUME Attested, [Attempt!Next]_(Attempt!vars) PROVE IsTerminal => qRecord' = qRecord
  <2>1. ASSUME NEW p \in Invocation, Attempt!CommitRelease(p) PROVE ~IsTerminal
    BY <1>1, <2>1 DEF Attempt!CommitRelease, Attested, Locked
  <2> QED BY <1>1, <2>1, RecordSteps
<1>2. Attested /\ [Attempt!Next]_(Attempt!vars) =>
        [qRecord # Nothing /\ qRecord.stamp.kind = "terminal" => qRecord' = qRecord]_(Attempt!vars)
  BY <1>1 DEF IsTerminal
<1> QED BY <1>2, AttestedRun, PTL DEF Attempt!Spec, Attempt!TerminalIsFinal

(* What Pin merges is the record as it is, for the lock is held since it    *)
(* was read: no pin of another invocation is lost.                         *)
THEOREM PinsStayMerged == Attempt!MarksAreApart /\ Attempt!Spec => Attempt!PinsMerge
<1> SUFFICES ASSUME Attempt!MarksAreApart PROVE Attempt!Spec => Attempt!PinsMerge
  BY DEF Attempt!MarksAreApart
<1>1. ASSUME Attested, [Attempt!Next]_(Attempt!vars), qRecord # Nothing, qRecord'.stamp.kind = "active"
      PROVE  qRecord.refs \subseteq qRecord'.refs
  <2>1. ASSUME NEW p \in Invocation, Attempt!Pin(p), ~IsTerminal
    PROVE qRecord.refs \subseteq qRecord'.refs
    <3>1. qRead[p] = qRecord BY <1>1, <2>1 DEF Attempt!Pin, Attested, Locked
    <3>2. qRecord' = [stamp |-> Attempt!Now("active"), refs |-> {p} \cup qRecord.refs]
      BY <1>1, <2>1, <3>1 DEF Attempt!Pin, IsTerminal
    <3> QED BY <3>2
  <2>2. ASSUME NEW p \in Invocation, Attempt!CommitRelease(p) PROVE FALSE
    <3>1. qNext[p].kind \in Attempt!Released /\ qRecord'.stamp = qNext[p]
      BY <1>1, <2>2 DEF Attempt!CommitRelease, Attested, Locked
    <3> QED BY <1>1, <3>1 DEF Attempt!Released
  <2> QED BY <1>1, <2>1, <2>2, RecordSteps
<1>2. Attested /\ [Attempt!Next]_(Attempt!vars) =>
        [qRecord # Nothing /\ qRecord'.stamp.kind = "active" => qRecord.refs \subseteq qRecord'.refs]_(Attempt!vars)
  BY <1>1
<1> QED BY <1>2, AttestedRun, PTL DEF Attempt!Spec, Attempt!PinsMerge

(* A name goes only in a session, which was authenticated for it. *)
LEMMA RemovalSteps ==
  ASSUME Attested, [Attempt!Next]_(Attempt!vars), NEW n \in qPresent \ qPresent'
  PROVE  n \in qTodo /\ n \in qSame
<1>1. ASSUME NEW p \in Invocation, Attempt!Invoke(p) PROVE qPresent \subseteq qPresent'
  BY <1>1 DEF Attempt!Invoke, Attempt!Acquire, Attempt!Pin, Attempt!WriteScratch, Attempt!ReturnActive,
     Attempt!BeginRelease, Attempt!PublishProof,
     Attempt!CommitRelease, Attempt!Die, Attempt!scratch
<1>2. CASE Attempt!PlanCleanup \/ Attempt!OpenSession \/ Attempt!EndStorage \/ Attempt!Tick
      \/ UNCHANGED Attempt!vars
  BY <1>2 DEF Attempt!PlanCleanup, Attempt!OpenSession, Attempt!EndStorage, Attempt!Tick, Attempt!vars,
     Attempt!scratch
<1>3. ASSUME NEW m \in Node, Attempt!RemoveMember(m) PROVE n \in qTodo /\ n \in qSame
  BY <1>3 DEF Attempt!RemoveMember, Attempt!Remove, Attempt!scratch
<1> QED BY <1>1, <1>2, <1>3 DEF Attempt!Next, Attempt!Clean

(* A session that still has names to remove works for the release its plan  *)
(* saw, and the object behind each is the one the plan saw.                *)
THEOREM RemovesOnlyReleased ==
  Attempt!MarksAreApart /\ Attempt!Spec => Attempt!RemovesReleasedOnly /\ Attempt!LaterScratchStays
<1> SUFFICES ASSUME Attempt!MarksAreApart
  PROVE Attempt!Spec => Attempt!RemovesReleasedOnly /\ Attempt!LaterScratchStays
  BY DEF Attempt!MarksAreApart
<1>1. ASSUME Attested, [Attempt!Next]_(Attempt!vars), NEW n \in qPresent \ qPresent'
      PROVE  /\ qRecord.stamp = qPlan.record /\ qRecord.stamp.kind \in Attempt!Released
             /\ n \in qProof.nodes /\ Attempt!ProofBinds(qRecord) /\ n \in qSame
  BY <1>1, RemovalSteps DEF Attested, Authenticated, Attempt!ProofBinds
<1>2. Attested /\ [Attempt!Next]_(Attempt!vars) =>
        /\ [\A n \in qPresent \ qPresent' :
              /\ qRecord.stamp = qPlan.record /\ qRecord.stamp.kind \in Attempt!Released
              /\ n \in qProof.nodes /\ Attempt!ProofBinds(qRecord)]_(Attempt!vars)
        /\ [qPresent \ qPresent' \subseteq qSame]_(Attempt!vars)
  BY <1>1
<1> QED BY <1>2, AttestedRun, PTL
  DEF Attempt!Spec, Attempt!RemovesReleasedOnly, Attempt!LaterScratchStays

-----------------------------------------------------------------------------
(***************************************************************************)
(* The removal of a certified unit (CertifiedRemoval).                     *)
(***************************************************************************)

InUnit == cPc \in {"walk", "enter", "finalize"}
UnitTaken == "top" \in Removal!TakenObjects

(* The directories that are being emptied: the unit, and below it what was  *)
(* found under the name "d".                                                *)
Outer == \E t : cFrames = <<[dir |-> "top", todo |-> t]>>
Inner ==
  \E t, u : \E e \in {"sub", "alien"} :
    /\ cFrames = <<[dir |-> "top", todo |-> t], [dir |-> e, todo |-> u]>>
    /\ t # <<>> /\ Head(t) = "d"

Place ==
  /\ cPc \in {"walk", "finalize"} => Outer \/ Inner
  /\ cPc = "enter" => Outer /\ Removal!Top.todo # <<>> /\ Removal!Named = "d"
  /\ ~InUnit => cFrames = <<>>

(* What the others put into the unit is neither the unit nor its parent. *)
Tree ==
  /\ cTree \in [Removal!Dir -> [Removal!Name -> Removal!Object \cup {None}]]
  /\ \A n \in Removal!Name : cTree["top"][n] \notin {"top", "parent"}

(* The ledger is the history: something is taken exactly when it says so,   *)
(* and it credits each file that was.                                       *)
Ledger ==
  /\ cMutated \in BOOLEAN /\ cSeen \subseteq Removal!File
  /\ cMutated <=> cTaken # {}
  /\ cSeen = Removal!TakenFiles
  /\ cBytes = (IF "f" \in cSeen THEN Removal!Size("f") ELSE 0) + (IF "g" \in cSeen THEN Removal!Size("g") ELSE 0)

RemovalControl == {"observe", "open", "walk", "enter", "finalize", "persist", "persist_stop", "ended"}

(* What each step has behind it; the outcome is told at the end.            *)
Behind ==
  /\ cPc \in RemovalControl /\ cTouched \in BOOLEAN /\ cMeddled \in 0 .. Meddlings
  /\ cPc \in {"observe", "open"} => cTaken = {}
  /\ cPc = "persist" => UnitTaken
  /\ cPc = "persist_stop" => cTaken # {} /\ ~UnitTaken
  /\ InUnit => ~UnitTaken
  /\ cOutcome.what = "none" <=> cPc # "ended"
  /\ Removal!OutcomeTruthful /\ Removal!BytesOnce

Credited == Tree /\ Place /\ Ledger /\ Behind

LEMMA InitCredited == Removal!NoneIsApart /\ Removal!Init => Credited
<1> SUFFICES ASSUME Removal!NoneIsApart, Removal!Init PROVE Credited
  OBVIOUS
<1>1. Tree
  BY DEF Removal!NoneIsApart, Removal!Init, Tree, Removal!EmptyDirectory, Removal!Dir, Removal!File,
     Removal!Object, Removal!Name
<1>2. Removal!TakenObjects = {} BY DEF Removal!Init, Removal!TakenObjects
<1>3. Place BY DEF Removal!Init, Place, InUnit
<1>4. Ledger
  <2>1. cSeen = {} /\ cBytes = 0 /\ cTaken = {} BY DEF Removal!Init
  <2>2. cMutated = FALSE BY DEF Removal!Init
  <2>3. cMutated \in BOOLEAN /\ (cMutated <=> cTaken # {}) BY <2>1, <2>2, Zenon
  <2> QED BY <1>2, <2>1, <2>3 DEF Ledger, Removal!TakenFiles
<1>5. cOutcome.what = "none" /\ Removal!OutcomeTruthful /\ Removal!BytesOnce
  BY DEF Removal!Init, Removal!OutcomeTruthful, Removal!BytesOnce
<1>6. Behind
  <2>1. cPc = "observe" /\ cMeddled = 0 /\ cTaken = {} BY DEF Removal!Init
  <2>2. cTouched \in BOOLEAN BY Zenon DEF Removal!Init
  <2>3. cMeddled \in 0 .. Meddlings BY <2>1 DEF Removal!NoneIsApart
  <2>4. cPc \in RemovalControl /\ ~InUnit BY <2>1 DEF InUnit, RemovalControl
  <2> QED BY <1>5, <2>1, <2>2, <2>3, <2>4 DEF Behind
<1> QED BY <1>1, <1>3, <1>4, <1>6 DEF Credited

(* The removal ends and says what is true. *)
LEMMA EndCredited ==
  ASSUME Removal!NoneIsApart, Credited, NEW what, what # "none", Removal!End(Removal!Said(what)),
         UNCHANGED <<cTree, cTouched, cMeddled, Removal!ledger, cTaken>>,
         what = "removed" => UnitTaken,
         what \in {"absent", "refused", "raised"} => cTaken = {},
         what = "partial" => cTaken # {} /\ ~UnitTaken,
         what = "partial_raised" => cTaken # {}
  PROVE  Credited'
<1>1. cPc' = "ended" /\ cFrames' = <<>> /\ cOutcome' = [what |-> what, bytes |-> cBytes]
  BY DEF Removal!End, Removal!Said
<1>2. Tree' BY DEF Credited, Tree
<1>3. Place' BY <1>1 DEF Place, InUnit
<1>4. Ledger' BY DEF Credited, Ledger, Removal!TakenFiles, Removal!TakenObjects, Removal!ledger
<1>5. Removal!OutcomeTruthful' /\ Removal!BytesOnce'
  BY <1>1 DEF Credited, Ledger, UnitTaken, Removal!TakenFiles, Removal!TakenObjects,
     Removal!OutcomeTruthful, Removal!BytesOnce, Removal!ledger
<1>6. Behind' BY <1>1, <1>5 DEF Credited, Behind, RemovalControl, InUnit
<1> QED BY <1>2, <1>3, <1>4, <1>6 DEF Credited

LEMMA RaiseCredited ==
  ASSUME Removal!NoneIsApart, Credited, Removal!Raise, UNCHANGED cMeddled PROVE Credited'
BY EndCredited DEF Removal!Raise, Credited, Ledger

LEMMA StopCredited ==
  ASSUME Removal!NoneIsApart, Credited, InUnit, Removal!Stop, UNCHANGED cMeddled PROVE Credited'
<1>1. CASE cMutated
  <2>1. cPc' = "persist_stop" /\ cFrames' = <<>>
        /\ UNCHANGED <<cTree, cTouched, Removal!ledger, cTaken, cOutcome>>
    BY <1>1 DEF Removal!Stop
  <2>2. cTaken # {} /\ ~UnitTaken BY <1>1 DEF Credited, Ledger, Behind
  <2>3. Tree' /\ Ledger' BY <2>1
    DEF Credited, Tree, Ledger, Removal!TakenFiles, Removal!TakenObjects, Removal!ledger
  <2>4. Place' BY <2>1 DEF Place, InUnit
  <2>5. Behind'
    BY <2>1, <2>2
      DEF Credited, Behind, RemovalControl, InUnit, UnitTaken, Removal!TakenFiles, Removal!TakenObjects,
         Removal!OutcomeTruthful, Removal!BytesOnce
  <2> QED BY <2>3, <2>4, <2>5 DEF Credited
<1>2. CASE ~cMutated
  <2>1. cTaken = {} BY <1>2 DEF Credited, Ledger
  <2> QED BY <1>2, <2>1, EndCredited DEF Removal!Stop
<1> QED BY <1>1, <1>2

(* A step that takes nothing and does not end. *)
LEMMA MoveCredited ==
  ASSUME Removal!NoneIsApart, Credited, Place', Tree', cPc \in {"observe", "open"} \/ InUnit,
         cPc' \in {"walk", "enter", "finalize"} \/ (cPc' = "open" /\ cPc = "observe"),
         cTouched' \in BOOLEAN, cMeddled' \in 0 .. Meddlings,
         UNCHANGED <<Removal!ledger, cTaken, cOutcome>>
  PROVE  Credited'
<1>1. Ledger' BY DEF Credited, Ledger, Removal!TakenFiles, Removal!TakenObjects, Removal!ledger
<1>2. cPc # "ended" /\ cPc' # "ended" /\ ~UnitTaken
  BY DEF Credited, Behind, InUnit, UnitTaken, Removal!TakenObjects
<1>3. Behind'
  BY <1>2 DEF Credited, Behind, RemovalControl, InUnit, UnitTaken, Removal!TakenFiles,
     Removal!TakenObjects, Removal!OutcomeTruthful, Removal!BytesOnce
<1> QED BY <1>1, <1>3 DEF Credited

LEMMA NextTodo ==
  ASSUME NEW d, NEW t
  PROVE  [[dir |-> d, todo |-> t] EXCEPT !.todo = Tail(@)] = [dir |-> d, todo |-> Tail(t)]
<1> DEFINE S == {d, t, Tail(t)}
<1>1. d \in S /\ t \in S /\ Tail(t) \in S OBVIOUS
<1> HIDE DEF S
<1>2. \A w \in S : [[dir |-> d, todo |-> t] EXCEPT !.todo = w] = [dir |-> d, todo |-> w] BY <1>1
<1>3. [[dir |-> d, todo |-> t] EXCEPT !.todo = Tail(@)] = [[dir |-> d, todo |-> t] EXCEPT !.todo = Tail(t)]
  OBVIOUS
<1> QED BY <1>1, <1>2, <1>3

(* What one or two directories deep means for the sequence of them. *)
LEMMA ShortSequences ==
  ASSUME NEW a, NEW b
  PROVE  /\ Append(<<>>, a) = <<a>> /\ Append(<<a>>, b) = <<a, b>>
         /\ SubSeq(<<a, b>>, 1, 1) = <<a>> /\ SubSeq(<<a, b>>, 1, 0) = <<>>
         /\ SubSeq(<<a>>, 1, 0) = <<>>
<1> DEFINE S == {a, b}
<1>1. a \in S /\ b \in S OBVIOUS
<1> HIDE DEF S
<1>2. <<a>> \in Seq(S) /\ <<a, b>> \in Seq(S) /\ <<>> \in Seq(S) BY <1>1
<1>3. \A s \in Seq(S) : Len(s) = 1 /\ s[1] = a => s = <<a>> BY <1>1
<1>4. \A s \in Seq(S) : Len(s) = 2 /\ s[1] = a /\ s[2] = b => s = <<a, b>> BY <1>1
<1> DEFINE x == Append(<<a>>, b)
           y == SubSeq(<<a, b>>, 1, 1)
           z == Append(<<>>, a)
<1>5. x \in Seq(S) /\ Len(x) = 2 /\ x[1] = a /\ x[2] = b BY <1>1, <1>2
<1>6. y \in Seq(S) /\ Len(y) = 1 /\ y[1] = a BY <1>1, <1>2
<1>7. z \in Seq(S) /\ Len(z) = 1 /\ z[1] = a BY <1>1, <1>2
<1>8. SubSeq(<<a, b>>, 1, 0) = <<>> /\ SubSeq(<<a>>, 1, 0) = <<>> OBVIOUS
<1> QED BY <1>3, <1>4, <1>5, <1>6, <1>7, <1>8

(* The innermost directory of the two places a removal can be in. *)
LEMMA InOuter ==
  ASSUME NEW t, cFrames = <<[dir |-> "top", todo |-> t]>>
  PROVE  /\ Len(cFrames) = 1 /\ Removal!Top = [dir |-> "top", todo |-> t] /\ Removal!Below = <<>>
         /\ Removal!Advance = <<[dir |-> "top", todo |-> Tail(t)]>>
         /\ Removal!Relative = <<Head(t)>> /\ Removal!Named = Head(t)
            /\ Removal!Found = cTree["top"][Head(t)]
         /\ Removal!ParentDir = "parent" /\ Removal!OwnName = "u"
<1>1. Len(cFrames) = 1 /\ Removal!Top = [dir |-> "top", todo |-> t] BY DEF Removal!Top
<1>2. Removal!Below = <<>> BY <1>1, ShortSequences DEF Removal!Below
<1>3. [Removal!Top EXCEPT !.todo = Tail(@)] = [dir |-> "top", todo |-> Tail(t)] BY <1>1, NextTodo, Zenon
<1>4. Removal!Advance = <<[dir |-> "top", todo |-> Tail(t)]>> BY <1>2, <1>3, ShortSequences, Zenon
  DEF Removal!Advance
<1> QED BY <1>1, <1>2, <1>4
  DEF Removal!Relative, Removal!Named, Removal!Found, Removal!ParentDir, Removal!OwnName

LEMMA InInner ==
  ASSUME NEW t, NEW u, NEW e, cFrames = <<[dir |-> "top", todo |-> t], [dir |-> e, todo |-> u]>>
  PROVE  /\ Len(cFrames) = 2 /\ Removal!Top = [dir |-> e, todo |-> u]
         /\ Removal!Advance = <<[dir |-> "top", todo |-> t], [dir |-> e, todo |-> Tail(u)]>>
         /\ Removal!Relative = <<"d", Head(u)>> /\ Removal!Named = Head(u)
            /\ Removal!Found = cTree[e][Head(u)]
         /\ Removal!ParentDir = "top" /\ Removal!OwnName = Head(t)
         /\ Append(SubSeq(cFrames, 1, Len(cFrames) - 2),
                   [cFrames[Len(cFrames) - 1] EXCEPT !.todo = Tail(@)])
              = <<[dir |-> "top", todo |-> Tail(t)]>>
<1>1. Len(cFrames) = 2 /\ Removal!Top = [dir |-> e, todo |-> u] BY DEF Removal!Top
<1>a. Len(cFrames) - 1 = 1 /\ Len(cFrames) - 2 = 0 BY <1>1
<1>2. Removal!Below = <<[dir |-> "top", todo |-> t]>> BY <1>a, ShortSequences, Zenon DEF Removal!Below
<1>3. [Removal!Top EXCEPT !.todo = Tail(@)] = [dir |-> e, todo |-> Tail(u)] BY <1>1, NextTodo, Zenon
<1>4. Removal!Advance = <<[dir |-> "top", todo |-> t], [dir |-> e, todo |-> Tail(u)]>>
  BY <1>2, <1>3, ShortSequences, Zenon DEF Removal!Advance
<1>5. SubSeq(cFrames, 1, Len(cFrames) - 2) = <<>> BY <1>a, ShortSequences, Zenon
<1>6. [cFrames[Len(cFrames) - 1] EXCEPT !.todo = Tail(@)] = [dir |-> "top", todo |-> Tail(t)]
  <2>1. cFrames[Len(cFrames) - 1] = [dir |-> "top", todo |-> t] BY <1>1
  <2> QED BY <2>1, NextTodo, Zenon
<1>7. Append(SubSeq(cFrames, 1, Len(cFrames) - 2), [cFrames[Len(cFrames) - 1] EXCEPT !.todo = Tail(@)])
        = <<[dir |-> "top", todo |-> Tail(t)]>>
  BY <1>5, <1>6, ShortSequences, Zenon
<1>8. Removal!ParentDir = "top" /\ Removal!OwnName = Head(t) BY <1>1
  DEF Removal!ParentDir, Removal!OwnName
<1>9. Removal!Relative = <<"d", Head(u)>> /\ Removal!Named = Head(u)
      /\ Removal!Found = cTree[e][Head(u)]
  BY <1>1 DEF Removal!Relative, Removal!Named, Removal!Found
<1> QED BY <1>1, <1>4, <1>7, <1>8, <1>9

(* The ledger of a step that takes one entry. *)
LEMMA TakeLedger ==
  ASSUME Ledger, NEW d, NEW n, NEW path, Removal!Take(d, n, path), cMutated' = TRUE,
         \/ /\ cTree[d][n] \in Removal!File /\ cSeen' = cSeen \cup {cTree[d][n]}
            /\ cBytes' = IF cTree[d][n] \in cSeen THEN cBytes ELSE cBytes + Removal!Size(cTree[d][n])
         \/ cTree[d][n] \in Removal!Dir /\ UNCHANGED <<cSeen, cBytes>>
  PROVE  /\ Ledger' /\ cTaken' # {}
         /\ Removal!TakenObjects' = Removal!TakenObjects \cup {cTree[d][n]}
<1>1. cTaken' = cTaken \cup {[path |-> path, object |-> cTree[d][n]]} BY DEF Removal!Take
<1>2. Removal!TakenObjects' = Removal!TakenObjects \cup {cTree[d][n]}
  <2>1. [path |-> path, object |-> cTree[d][n]].object = cTree[d][n] OBVIOUS
  <2>2. {t.object : t \in cTaken'} = {t.object : t \in cTaken} \cup {cTree[d][n]} BY <1>1, <2>1, Zenon
  <2> QED BY <2>2 DEF Removal!TakenObjects
<1>3. Removal!Dir \cap Removal!File = {} /\ Removal!Size("f") = 1 /\ Removal!Size("g") = 2
  BY DEF Removal!Dir, Removal!File, Removal!Size
<1>4. cSeen' = Removal!TakenFiles' BY <1>2, <1>3 DEF Ledger, Removal!TakenFiles
<1>5. cBytes' = (IF "f" \in cSeen' THEN Removal!Size("f") ELSE 0) + (IF "g" \in cSeen' THEN Removal!Size("g") ELSE 0)
  <2>1. CASE cTree[d][n] = "f" BY <1>3, <2>1 DEF Ledger, Removal!File
  <2>2. CASE cTree[d][n] = "g" BY <1>3, <2>2 DEF Ledger, Removal!File
  <2>3. CASE cTree[d][n] \in Removal!Dir BY <1>3, <2>3 DEF Ledger
  <2> QED BY <2>1, <2>2, <2>3 DEF Removal!File
<1> QED BY <1>1, <1>2, <1>4, <1>5 DEF Ledger, Removal!TakenFiles

LEMMA TakeTree ==
  ASSUME Removal!NoneIsApart, Tree, cTouched \in BOOLEAN, NEW d, NEW n, NEW path,
        Removal!Take(d, n, path)
  PROVE  Tree' /\ cTouched' \in BOOLEAN
<1>1. cTree' = [cTree EXCEPT ![d][n] = None] BY DEF Removal!Take
<1>2. \A x \in Removal!Dir : cTree'[x] \in [Removal!Name -> Removal!Object \cup {None}] BY <1>1 DEF Tree
<1>3. \A m \in Removal!Name : cTree'["top"][m] \notin {"top", "parent"}
  BY <1>1 DEF Tree, Removal!NoneIsApart, Removal!Object, Removal!Dir
<1> QED BY <1>1, <1>2, <1>3 DEF Tree, Removal!Take

LEMMA ObserveCredited == ASSUME Removal!NoneIsApart, Credited, Removal!Observe \/ Removal!Open
  PROVE Credited'
<1>1. cPc \in {"observe", "open"} /\ cTaken = {}
      /\ UNCHANGED <<cTree, cTouched, cMeddled, Removal!ledger, cTaken>>
  BY DEF Removal!Observe, Removal!Open, Credited, Behind
<1>2. CASE Removal!End(Removal!Said("absent")) \/ Removal!End(Removal!Said("refused"))
  BY <1>1, <1>2, EndCredited
<1>3. CASE cPc = "observe" /\ cPc' = "open" /\ UNCHANGED <<cFrames, cOutcome>>
  <2>1. Tree' BY <1>1 DEF Credited, Tree
  <2>2. Place' BY <1>3 DEF Credited, Place, InUnit
  <2> QED BY <1>1, <1>3, <2>1, <2>2, MoveCredited DEF Credited, Behind
<1>4. CASE cPc = "open" /\ cPc' = "walk" /\ cFrames' = <<Removal!Frame("top")>> /\ UNCHANGED cOutcome
  <2>1. Tree' BY <1>1 DEF Credited, Tree
  <2>2. Outer' BY <1>4 DEF Outer, Removal!Frame
  <2>3. Place' BY <1>4, <2>2 DEF Place, InUnit
  <2> QED BY <1>1, <1>4, <2>1, <2>3, MoveCredited DEF Credited, Behind
<1> QED BY <1>2, <1>3, <1>4 DEF Removal!Observe, Removal!Open

LEMMA AdvancePlace ==
  ASSUME Place, Outer \/ Inner, cFrames' = Removal!Advance, cPc' = "walk"
  PROVE  Place'
<1>1. CASE Outer
  <2>1. PICK t : cFrames = <<[dir |-> "top", todo |-> t]>> BY <1>1 DEF Outer
  <2>2. Outer' BY <2>1, InOuter DEF Outer
  <2> QED BY <2>2 DEF Place, InUnit
<1>2. CASE Inner
  <2>1. PICK t, u : \E e \in {"sub", "alien"} :
          /\ cFrames = <<[dir |-> "top", todo |-> t], [dir |-> e, todo |-> u]>>
          /\ t # <<>> /\ Head(t) = "d"
    BY <1>2 DEF Inner
  <2>2. PICK e \in {"sub", "alien"} :
          cFrames = <<[dir |-> "top", todo |-> t], [dir |-> e, todo |-> u]>>
    BY <2>1
  <2>3. cFrames' = <<[dir |-> "top", todo |-> t], [dir |-> e, todo |-> Tail(u)]>>
    BY <2>2, InInner
  <2>4. Inner' BY <2>1, <2>3 DEF Inner
  <2> QED BY <2>4 DEF Place, InUnit
<1> QED BY <1>1, <1>2

LEMMA UnlinkCredited == ASSUME Removal!NoneIsApart, Credited, Removal!UnlinkFile PROVE Credited'
<1>1. /\ cPc = "walk" /\ Removal!Found \in Removal!File /\ UNCHANGED cMeddled /\ (Outer \/ Inner)
  BY DEF Removal!UnlinkFile, Removal!Visiting, Credited, Place
<1>2. CASE Removal!Raise BY <1>1, <1>2, RaiseCredited
<1>3. CASE /\ Removal!Take(Removal!Top.dir, Removal!Named, Removal!Relative)
              /\ Removal!Credit(Removal!Found)
           /\ cFrames' = Removal!Advance /\ UNCHANGED <<cPc, cOutcome>>
  <2>1. /\ Ledger' /\ cTaken' # {} /\ Removal!TakenObjects' = Removal!TakenObjects \cup {Removal!Found}
    BY <1>1, <1>3, TakeLedger DEF Removal!Credit, Removal!Found, Credited
  <2>2. Tree' /\ cTouched' \in BOOLEAN BY <1>3, TakeTree DEF Credited, Behind
  <2>3. Place' BY <1>1, <1>3, AdvancePlace DEF Credited
  <2>4. ~UnitTaken' BY <1>1, <2>1 DEF Credited, Behind, InUnit, UnitTaken, Removal!File
  <2>5. Behind'
    BY <1>1, <1>3, <2>1, <2>2, <2>4
      DEF Credited, Behind, RemovalControl, InUnit, Removal!OutcomeTruthful, Removal!BytesOnce
  <2> QED BY <2>1, <2>2, <2>3, <2>5 DEF Credited
<1> QED BY <1>2, <1>3 DEF Removal!UnlinkFile

LEMMA ClassifyCredited == ASSUME Removal!NoneIsApart, Credited, Removal!ClassifyDirectory
  PROVE Credited'
<1>1. /\ cPc = "walk" /\ Removal!Top.todo # <<>>
         /\ <<Removal!Relative, "directory">> \in Removal!Certified /\ cPc' = "enter"
      /\ UNCHANGED <<cTree, cTouched, cMeddled, cFrames, Removal!ledger, cOutcome, cTaken>>
  BY DEF Removal!ClassifyDirectory, Removal!Visiting
<1>2. Removal!Relative = <<"d">> BY <1>1 DEF Removal!Certified
<1>3. ~Inner
  <2> SUFFICES ASSUME NEW t, NEW u, NEW e,
                      cFrames = <<[dir |-> "top", todo |-> t], [dir |-> e, todo |-> u]>>
               PROVE  FALSE
    BY DEF Inner
  <2>1. Removal!Relative = <<"d", Head(u)>> BY InInner
  <2>2. Len(Removal!Relative) = 2 /\ Len(<<"d">>) = 1 BY <2>1
  <2> QED BY <1>2, <2>2
<1>4. PICK t : cFrames = <<[dir |-> "top", todo |-> t]>>
  BY <1>1, <1>3 DEF Credited, Place, Outer
<1>5. Removal!Named = "d" BY <1>2, <1>4, InOuter
<1>6. Place' BY <1>1, <1>4, <1>5 DEF Place, Outer, InUnit, Removal!Top, Removal!Named
<1>7. Tree' BY <1>1 DEF Credited, Tree
<1> QED BY <1>1, <1>6, <1>7, MoveCredited DEF Credited, Behind, InUnit

LEMMA EnterCredited == ASSUME Removal!NoneIsApart, Credited, Removal!Enter PROVE Credited'
<1>1. cPc = "enter" /\ UNCHANGED cMeddled /\ Removal!Top.todo # <<>> /\ Removal!Named = "d"
  BY DEF Removal!Enter, Credited, Place
<1>2. PICK t : cFrames = <<[dir |-> "top", todo |-> t]>> BY <1>1 DEF Credited, Place, Outer
<1>3. CASE cFrames' = Removal!Advance /\ cPc' = "walk"
      /\ UNCHANGED <<cTree, cTouched, Removal!ledger, cOutcome, cTaken>>
  <2>1. Place' BY <1>2, <1>3, AdvancePlace DEF Credited, Outer
  <2>2. Tree' BY <1>3 DEF Credited, Tree
  <2> QED BY <1>1, <1>3, <2>1, <2>2, MoveCredited DEF Credited, Behind, InUnit
<1>4. CASE /\ Removal!Found \in Removal!Dir /\ cFrames' = Append(cFrames, Removal!Frame(Removal!Found))
              /\ cPc' = "walk"
           /\ UNCHANGED <<cTree, cTouched, Removal!ledger, cOutcome, cTaken>>
  <2>1. Removal!Found = cTree["top"]["d"] /\ t # <<>> /\ Head(t) = "d" BY <1>1, <1>2, InOuter
  <2>2. Removal!Found \in {"sub", "alien"} BY <1>4, <2>1 DEF Credited, Tree, Removal!Dir, Removal!Name
  <2>3. cFrames' = <<[dir |-> "top", todo |-> t], [dir |-> Removal!Found, todo |-> Removal!Entries(Removal!Found)]>>
    <3>1. cFrames' = Append(cFrames, [dir |-> Removal!Found, todo |-> Removal!Entries(Removal!Found)]) BY <1>4 DEF Removal!Frame
    <3> QED BY <1>2, <3>1, ShortSequences, Zenon
  <2>4. Inner' BY <2>1, <2>2, <2>3 DEF Inner
  <2>5. Place' BY <1>4, <2>4 DEF Place, InUnit
  <2>6. Tree' BY <1>4 DEF Credited, Tree
  <2> QED BY <1>1, <1>4, <2>5, <2>6, MoveCredited DEF Credited, Behind, InUnit
<1>5. CASE Removal!Stop BY <1>1, <1>5, StopCredited DEF InUnit
<1> QED BY <1>3, <1>4, <1>5 DEF Removal!Enter

LEMMA EmptiedCredited == ASSUME Removal!NoneIsApart, Credited, Removal!Emptied PROVE Credited'
<1>1. cPc = "walk" /\ UNCHANGED cMeddled BY DEF Removal!Emptied
<1>2. CASE cPc' = "finalize" /\ UNCHANGED <<cTree, cTouched, cFrames, Removal!ledger, cOutcome, cTaken>>
  <2>1. Place' BY <1>1, <1>2 DEF Credited, Place, Outer, Inner, InUnit
  <2>2. Tree' BY <1>2 DEF Credited, Tree
  <2> QED BY <1>1, <1>2, <2>1, <2>2, MoveCredited DEF Credited, Behind, InUnit
<1>3. CASE Removal!Raise BY <1>1, <1>3, RaiseCredited
<1> QED BY <1>2, <1>3 DEF Removal!Emptied

(* What is finalized is the unit, or a directory below it. *)
LEMMA FinalizedDirectory ==
  ASSUME Credited, cPc = "finalize"
  PROVE  \/ Len(cFrames) = 1 /\ Removal!Top.dir = "top" /\ Removal!ParentDir = "parent"
            /\ Removal!OwnName = "u"
         \/ Len(cFrames) = 2 /\ Removal!Top.dir \in {"sub", "alien"} /\ Removal!ParentDir = "top"
            /\ Removal!OwnName = "d"
<1>1. CASE Outer
  <2>1. PICK t : cFrames = <<[dir |-> "top", todo |-> t]>> BY <1>1 DEF Outer
  <2> QED BY <2>1, InOuter
<1>2. CASE Inner
  <2>1. PICK t, u : \E e \in {"sub", "alien"} :
          /\ cFrames = <<[dir |-> "top", todo |-> t], [dir |-> e, todo |-> u]>>
          /\ t # <<>> /\ Head(t) = "d"
    BY <1>2 DEF Inner
  <2> QED BY <2>1, InInner
<1> QED BY <1>1, <1>2 DEF Credited, Place

LEMMA FinalizeCredited == ASSUME Removal!NoneIsApart, Credited, Removal!Finalize PROVE Credited'
<1>1. cPc = "finalize" /\ UNCHANGED cMeddled BY DEF Removal!Finalize
<1>2. CASE Removal!Stop BY <1>1, <1>2, StopCredited DEF InUnit
<1>3. CASE ~Removal!Stop
  <2>1. /\ Removal!StillNamed /\ Removal!Take(Removal!ParentDir, Removal!OwnName, <<Removal!OwnName>>)
        /\ cMutated' = TRUE /\ UNCHANGED <<cSeen, cBytes, cOutcome>>
        /\ IF Len(cFrames) = 1 THEN cPc' = "persist" /\ cFrames' = <<>>
           ELSE cPc' = "walk" /\ cFrames' = Append(SubSeq(cFrames, 1, Len(cFrames) - 2),
                                [cFrames[Len(cFrames) - 1] EXCEPT !.todo = Tail(@)])
    BY <1>3 DEF Removal!Finalize
  <2>2. cTree[Removal!ParentDir][Removal!OwnName] = Removal!Top.dir BY <2>1 DEF Removal!StillNamed
  <2>3. Removal!Top.dir \in Removal!Dir BY <1>1, FinalizedDirectory DEF Removal!Dir
  <2>4. Ledger' /\ cTaken' # {} /\ Removal!TakenObjects' = Removal!TakenObjects \cup {Removal!Top.dir}
    BY <2>1, <2>2, <2>3, TakeLedger DEF Credited
  <2>5. Tree' /\ cTouched' \in BOOLEAN BY <2>1, TakeTree DEF Credited, Behind
  <2>6. ~UnitTaken BY <1>1 DEF Credited, Behind, InUnit
  <2>7. CASE Len(cFrames) = 1
    <3>1. cPc' = "persist" /\ cFrames' = <<>> /\ Removal!Top.dir = "top"
      BY <1>1, <2>1, <2>7, FinalizedDirectory
    <3>2. UnitTaken' BY <2>4, <3>1 DEF UnitTaken
    <3>3. Place' BY <3>1 DEF Place, InUnit
    <3>4. Behind'
      BY <1>1, <2>1, <2>4, <2>5, <3>1, <3>2
        DEF Credited, Behind, RemovalControl, InUnit, Removal!OutcomeTruthful, Removal!BytesOnce
    <3> QED BY <2>4, <2>5, <3>3, <3>4 DEF Credited
  <2>8. CASE Len(cFrames) # 1
    <3>1. cPc' = "walk" /\ Removal!Top.dir # "top" BY <1>1, <2>1, <2>8, FinalizedDirectory
    <3>2. ~UnitTaken' BY <2>4, <2>6, <3>1 DEF UnitTaken
    <3>3. Inner
      <4>1. Outer => Len(cFrames) = 1 BY InOuter DEF Outer
      <4> QED BY <1>1, <2>8, <4>1 DEF Credited, Place
    <3>4. Outer'
      <4>1. PICK t, u : \E e \in {"sub", "alien"} :
              cFrames = <<[dir |-> "top", todo |-> t], [dir |-> e, todo |-> u]>>
        BY <3>3 DEF Inner
      <4>2. cFrames' = <<[dir |-> "top", todo |-> Tail(t)]>> BY <2>1, <2>8, <4>1, InInner
      <4> QED BY <4>2 DEF Outer
    <3>5. Place' BY <3>1, <3>4 DEF Place, InUnit
    <3>6. Behind'
      BY <1>1, <2>1, <2>4, <2>5, <3>1, <3>2
        DEF Credited, Behind, RemovalControl, InUnit, Removal!OutcomeTruthful, Removal!BytesOnce
    <3> QED BY <2>4, <2>5, <3>5, <3>6 DEF Credited
  <2> QED BY <2>7, <2>8
<1> QED BY <1>2, <1>3

LEMMA PersistCredited == ASSUME Removal!NoneIsApart, Credited, Removal!Persist PROVE Credited'
<1>1. cPc \in {"persist", "persist_stop"} /\ UNCHANGED cMeddled BY DEF Removal!Persist
<1>2. CASE Removal!Raise BY <1>1, <1>2, RaiseCredited
<1>3. CASE /\ Removal!End(Removal!Said(IF cPc = "persist" THEN "removed" ELSE "partial"))
           /\ UNCHANGED <<cTree, cTouched, Removal!ledger, cTaken>>
  BY <1>1, <1>3, EndCredited DEF Credited, Behind
<1> QED BY <1>2, <1>3 DEF Removal!Persist

(* Whatever the others do, the ledger is the removal's own. *)
LEMMA MeddleCredited == ASSUME Removal!NoneIsApart, Credited, Removal!Meddle PROVE Credited'
<1>1. /\ cMeddled < Meddlings /\ cMeddled' = cMeddled + 1 /\ cPc # "ended"
      /\ UNCHANGED <<cPc, cFrames, Removal!ledger, cOutcome, cTaken>>
  BY DEF Removal!Meddle
<1>2. PICK d \in Removal!Dir : \E n \in Removal!Slots(d), o \in {None, "g", "link", "alien"} :
        cTree' = [cTree EXCEPT ![d][n] = o] /\ cTouched' = (cTouched \/ d = "top")
  BY DEF Removal!Meddle
<1>3. PICK n \in Removal!Slots(d), o \in {None, "g", "link", "alien"} :
        cTree' = [cTree EXCEPT ![d][n] = o] /\ cTouched' = (cTouched \/ d = "top")
  BY <1>2
<1>4. o \in Removal!Object \cup {None} /\ o \notin {"top", "parent"}
  BY DEF Removal!Object, Removal!Dir, Removal!File, Removal!NoneIsApart
<1>5. \A x \in Removal!Dir : cTree'[x] \in [Removal!Name -> Removal!Object \cup {None}]
  BY <1>3, <1>4 DEF Credited, Tree
<1>6. \A m \in Removal!Name : cTree'["top"][m] \notin {"top", "parent"} BY <1>3, <1>4 DEF Credited, Tree
<1>7. Tree' BY <1>3, <1>5, <1>6 DEF Credited, Tree
<1>8. Place' BY <1>1 DEF Credited, Place, InUnit, Outer, Inner, Removal!Top, Removal!Named
<1>9. Ledger' BY <1>1 DEF Credited, Ledger, Removal!TakenFiles, Removal!TakenObjects, Removal!ledger
<1>10. Behind'
  BY <1>1, <1>3
    DEF Removal!NoneIsApart, Credited, Behind, InUnit, UnitTaken, Removal!TakenFiles,
       Removal!TakenObjects, Removal!OutcomeTruthful, Removal!BytesOnce
<1> QED BY <1>7, <1>8, <1>9, <1>10 DEF Credited

LEMMA NextCredited == ASSUME Removal!NoneIsApart, Credited, [Removal!Next]_(Removal!vars)
  PROVE Credited'
<1>1. CASE UNCHANGED Removal!vars
  <2>1. Tree' /\ Ledger' BY <1>1
    DEF Credited, Tree, Ledger, Removal!TakenFiles, Removal!TakenObjects, Removal!vars, Removal!ledger
  <2>2. Place' BY <1>1
    DEF Credited, Place, InUnit, Outer, Inner, Removal!Top, Removal!Named, Removal!vars
  <2>3. Behind'
    BY <1>1 DEF Credited, Behind, InUnit, UnitTaken, Removal!TakenFiles, Removal!TakenObjects,
       Removal!OutcomeTruthful, Removal!BytesOnce, Removal!vars, Removal!ledger
  <2> QED BY <2>1, <2>2, <2>3 DEF Credited
<1>2. CASE Removal!Contradiction BY <1>2, StopCredited
  DEF Removal!Contradiction, Removal!Visiting, InUnit
<1> QED
  BY <1>1, <1>2, ObserveCredited, UnlinkCredited, ClassifyCredited, EnterCredited, EmptiedCredited,
     FinalizeCredited, PersistCredited, MeddleCredited DEF Removal!Next, Removal!Done

LEMMA CreditedTypes == Credited => Removal!TypeOK
<1> SUFFICES ASSUME Credited PROVE Removal!TypeOK
  OBVIOUS
<1>1. Len(cFrames) \in 0 .. 2 /\ \A i \in DOMAIN cFrames : cFrames[i].dir \in Removal!Dir
  <2>1. CASE Outer BY <2>1 DEF Outer, Removal!Dir
  <2>2. CASE Inner BY <2>2 DEF Inner, Removal!Dir
  <2>3. CASE cFrames = <<>> BY <2>3
  <2> QED BY <2>1, <2>2, <2>3 DEF Credited, Place, InUnit
<1>2. cBytes \in 0 .. 3 BY DEF Credited, Ledger, Removal!Size
<1> QED BY <1>1, <1>2 DEF Credited, Tree, Ledger, Behind, RemovalControl, Removal!TypeOK

LEMMA CreditedRun == Removal!NoneIsApart /\ Removal!Spec => []Credited
<1> SUFFICES ASSUME Removal!NoneIsApart PROVE Removal!Spec => []Credited
  BY DEF Removal!NoneIsApart
<1>1. Removal!Init => Credited BY InitCredited
<1>2. Credited /\ [Removal!Next]_(Removal!vars) => Credited' BY NextCredited
<1> QED BY <1>1, <1>2, PTL DEF Removal!Spec

(* The ledger is the history of what was taken, and every way to end tells  *)
(* the ledger (MutationLedger).                                            *)
THEOREM OutcomeStaysTruthful == Removal!NoneIsApart
      /\ Removal!Spec => [](Removal!TypeOK /\ Removal!OutcomeTruthful /\ Removal!BytesOnce)
<1>1. Credited => Removal!TypeOK /\ Removal!OutcomeTruthful /\ Removal!BytesOnce BY CreditedTypes
  DEF Credited, Behind
<1> QED BY <1>1, CreditedRun, PTL

(* A file goes under a certified path, and the directory that goes is the   *)
(* one that is being emptied: the unit, or what stood under "d".           *)
THEOREM TakesOnlyCertified == Removal!NoneIsApart /\ Removal!Spec => Removal!UncertifiedStays
<1> SUFFICES ASSUME Removal!NoneIsApart PROVE Removal!Spec => Removal!UncertifiedStays
  BY DEF Removal!NoneIsApart
<1>1. ASSUME Credited, [Removal!Next]_(Removal!vars), NEW t \in cTaken' \ cTaken
      PROVE  /\ IF t.path = <<"u">> THEN t.object = "top" ELSE <<t.path, Removal!Kind(t.object)>> \in Removal!Certified
             /\ t.object \in Removal!Dir => t.object = Removal!Top.dir
  <2>1. CASE Removal!UnlinkFile
    <3>1. t = [path |-> Removal!Relative, object |-> Removal!Found] /\ Removal!Found \in Removal!File
          /\ <<Removal!Relative, "file">> \in Removal!Certified
      BY <1>1, <2>1 DEF Removal!UnlinkFile, Removal!Take, Removal!Raise, Removal!Found
    <3>2. Removal!Kind(Removal!Found) = "file" /\ Removal!Found \notin Removal!Dir BY <3>1
      DEF Removal!Kind, Removal!File, Removal!Dir
    <3>3. Removal!Relative # <<"u">> BY <3>1 DEF Removal!Certified
    <3> QED BY <3>1, <3>2, <3>3
  <2>2. CASE Removal!Finalize
    <3>1. t = [path |-> <<Removal!OwnName>>, object |-> Removal!Top.dir] /\ cPc = "finalize"
      BY <1>1, <2>2 DEF Removal!Finalize, Removal!Take, Removal!Stop, Removal!StillNamed
    <3>2. CASE Removal!Top.dir = "top" /\ Removal!OwnName = "u" BY <3>1, <3>2
    <3>3. CASE Removal!Top.dir \in {"sub", "alien"} /\ Removal!OwnName = "d"
      BY <3>1, <3>3 DEF Removal!Certified, Removal!Kind, Removal!Dir
    <3> QED BY <1>1, <3>1, <3>2, <3>3, FinalizedDirectory
  <2>3. CASE ~Removal!UnlinkFile /\ ~Removal!Finalize
    BY <1>1, <2>3
      DEF Removal!Next, Removal!Observe, Removal!Open, Removal!Contradiction, Removal!ClassifyDirectory,
         Removal!Enter, Removal!Emptied, Removal!Persist,
       Removal!Meddle, Removal!Done, Removal!Raise, Removal!Stop, Removal!vars
  <2> QED BY <2>1, <2>2, <2>3
<1>2. Credited /\ [Removal!Next]_(Removal!vars) =>
        [\A t \in cTaken' \ cTaken :
           /\ IF t.path = <<"u">> THEN t.object = "top" ELSE <<t.path, Removal!Kind(t.object)>> \in Removal!Certified
           /\ t.object \in Removal!Dir => t.object = Removal!Top.dir]_(Removal!vars)
  BY <1>1
<1> QED BY <1>2, CreditedRun, PTL DEF Removal!Spec, Removal!UncertifiedStays

-----------------------------------------------------------------------------
(* Whatever the setting, the variables of each protocol take its steps.     *)
LEMMA SettingHasAttempt == SettingSpec => Attempt!Spec
<1>1. SettingInit => Attempt!Init BY DEF SettingInit
<1>2. [SettingNext]_<<vars, shortVars, removalVars, attemptVars, setting>> => [Attempt!Next]_(Attempt!vars)
  BY DEF SettingNext, attemptVars, Attempt!vars, Attempt!attempt, Attempt!scratch, Attempt!invocations,
     Attempt!session
<1> QED BY <1>1, <1>2, PTL DEF SettingSpec, Attempt!Spec

LEMMA SettingHasRemoval == SettingSpec => Removal!Spec
<1>1. SettingInit => Removal!Init BY DEF SettingInit
<1>2. [SettingNext]_<<vars, shortVars, removalVars, attemptVars, setting>> => [Removal!Next]_(Removal!vars)
  BY DEF SettingNext, removalVars, Removal!vars, Removal!ledger
<1> QED BY <1>1, <1>2, PTL DEF SettingSpec, Removal!Spec

(* release_attempt_reference: a terminal attempt record on disk has the     *)
(* proof that binds it, whichever process died between the two writes.     *)
THEOREM AttemptStaysProven == SettingSpec => []AttemptIsProven
<1>1. SettingSpec => [](Attempt!TypeOK /\ Attempt!TerminalIsProven)
  BY SettingHasAttempt, TerminalStaysProven, ProtocolMarks
<1>2. Attempt!TypeOK /\ Attempt!TerminalIsProven => AttemptIsProven BY DEF AttemptIsProven
<1> QED BY <1>1, <1>2, PTL

(* acquire_attempt_reference: concurrent acquisitions merge their pins, and *)
(* no late one changes a terminal record.                                  *)
THEOREM PinsStayMergedUntilTerminal == SettingSpec => PinsMergeUntilTerminal
BY SettingHasAttempt, PinsStayMerged, TerminalStaysFinal, ProtocolMarks DEF PinsMergeUntilTerminal

(* remove_released_attempt_member: a name goes only while the attempt is    *)
(* released as the plan saw it, and what was written later stays.          *)
THEOREM RemovesOnlyWhatIsReleased == SettingSpec => RemovesReleasedOnly
BY SettingHasAttempt, RemovesOnlyReleased, ProtocolMarks DEF RemovesReleasedOnly

(* MutationLedger: the outcome of a removal and its bytes are those of what *)
(* it took itself, whatever others put in its way.                         *)
THEOREM OutcomeStaysTrue == SettingSpec => []OutcomeTellsWhatWent
<1>1. SettingSpec => [](Removal!TypeOK /\ Removal!OutcomeTruthful /\ Removal!BytesOnce)
  BY SettingHasRemoval, OutcomeStaysTruthful, ProtocolMarks
<1>2. Removal!TypeOK /\ Removal!OutcomeTruthful /\ Removal!BytesOnce => OutcomeTellsWhatWent
  BY DEF OutcomeTellsWhatWent
<1> QED BY <1>1, <1>2, PTL

(* remove_certified_unit: what it takes is the unit the plan bound or what  *)
(* its owner certified, and a directory goes only as the one it emptied.   *)
THEOREM UncertifiedIsNotTaken == SettingSpec => UncertifiedStays
BY SettingHasRemoval, TakesOnlyCertified, ProtocolMarks DEF UncertifiedStays

=============================================================================
