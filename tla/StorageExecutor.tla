-------------------------- MODULE StorageExecutor --------------------------
(***************************************************************************)
(* The envelope every consequential storage command runs in: lease,        *)
(* revalidation, engine, settlement, the record in the one audit stream    *)
(* and the retention that rewrites that stream.  Several commands share    *)
(* the workspace; engines raise, processes die, writes fall short and the  *)
(* power fails.                                                            *)
(***************************************************************************)
EXTENDS Naturals, Sequences

CONSTANTS
  Process,    \* storage command invocations
  Target,     \* what their plans may remove
  MaxOps,     \* bound: operations that get started
  Keep,       \* audit_retention_records
  Faults,     \* subset of {"raise", "crash", "tear", "power"}
  Damaged,    \* a line that does not parse or does not authenticate
  Nobody      \* the lease is free

ASSUME ExecutorAssumption ==
  /\ MaxOps \in Nat /\ Keep \in Nat \ {0}
  /\ Damaged \notin Nat /\ Nobody \notin Process

Op == 1 .. MaxOps
Line == Op \cup {Damaged}
Control == {"idle", "waiting", "begin", "engine", "stale", "audit", "anchor",
            "prune", "replace", "sync", "report"}
Result == [op : Op \cup {0}, status : {"refused", "partial", "complete"},
           mutated : BOOLEAN, refused : BOOLEAN, audited : BOOLEAN]

VARIABLES
  lease,     \* the holder of the storage-operation lease
  pc,        \* where each invocation is
  plan,      \* the targets of its plan
  todo,      \* the ones its engine has not reached
  result,    \* its StorageExecutionResult
  issued,    \* how many operations were started
  disk,      \* what is left of each target
  stream,    \* the lines of the audit file that processes read
  open,      \* its last line has no line end
  exists,    \* there is an audit file
  synced,    \* the lines of that file that reached the disk
  anchored,  \* and its directory entry did
  behind,    \* the lines a power loss brings back when it did not
  staged,    \* the lines and the open tail of audit.jsonl.pruning
  changed,   \* history: the targets an operation changed on disk
  log,       \* history: the operations whose records were written whole
  told       \* history: the operations reported as audited

command == <<lease, pc, plan, todo, result, issued, disk, changed>>
file == <<stream, open, exists, synced, anchored, behind>>
vars == <<command, file, staged, log, told>>

-----------------------------------------------------------------------------
NoResult == [op |-> 0, status |-> "refused", mutated |-> FALSE,
             refused |-> FALSE, audited |-> FALSE]

(* The contexts are left: whoever held the lease gives it back. *)
Leave(p) ==
  /\ lease' = IF lease = p THEN Nobody ELSE lease
  /\ pc' = [pc EXCEPT ![p] = "idle"]
  /\ plan' = [plan EXCEPT ![p] = {}] /\ todo' = [todo EXCEPT ![p] = {}]
  /\ result' = [result EXCEPT ![p] = NoResult]
  /\ changed' = [changed EXCEPT ![p] = {}]
  /\ UNCHANGED <<issued, disk>>

Goto(p, next, r) ==
  /\ pc' = [pc EXCEPT ![p] = next]
  /\ result' = [result EXCEPT ![p] = r]
  /\ UNCHANGED <<lease, plan, todo, issued, disk, changed>>

Start(p, targets) ==
  /\ pc[p] = "idle" /\ issued < MaxOps
  /\ issued' = issued + 1
  /\ pc' = [pc EXCEPT ![p] = "waiting"]
  /\ plan' = [plan EXCEPT ![p] = targets] /\ todo' = [todo EXCEPT ![p] = targets]
  /\ result' = [result EXCEPT ![p] = [NoResult EXCEPT !.op = issued + 1]]
  /\ UNCHANGED <<lease, disk, changed, file, staged, log, told>>

AcquireLease(p, at, next) ==
  /\ pc[p] = at /\ lease = Nobody
  /\ lease' = p
  /\ pc' = [pc EXCEPT ![p] = next]
  /\ UNCHANGED <<plan, todo, result, issued, disk, changed, file, staged, log, told>>

(* The lease stays busy until the deadline: the command raises, unaudited. *)
LeaseTimeout(p) ==
  /\ pc[p] \in {"waiting", "stale"} /\ lease # Nobody
  /\ Leave(p) /\ UNCHANGED <<file, staged, log, told>>

(* Fresh revalidation passes, or finds the plan stale: then the lease is   *)
(* released and taken again to record the refusal; or an owner barrier, the *)
(* inventory or the admission raises, and the command ends unaudited.      *)
Begin(p) ==
  /\ pc[p] = "begin"
  /\ \/ pc' = [pc EXCEPT ![p] = "engine"]
        /\ UNCHANGED <<lease, plan, todo, result, issued, disk, changed>>
     \/ pc' = [pc EXCEPT ![p] = "stale"] /\ lease' = Nobody
        /\ UNCHANGED <<plan, todo, result, issued, disk, changed>>
     \/ "raise" \in Faults /\ Leave(p)
  /\ UNCHANGED <<file, staged, log, told>>

-----------------------------------------------------------------------------
(* The engine: one outcome for every planned action, recorded as it is.     *)

(* Target t comes out as left; the recorder notes a change or a refusal.    *)
Act(p, t, left, mutated, refused) ==
  /\ disk' = [disk EXCEPT ![t] = left]
  /\ changed' = [changed EXCEPT ![p] = IF mutated THEN @ \cup {t} ELSE @]
  /\ todo' = [todo EXCEPT ![p] = @ \ {t}]
  /\ result' = [result EXCEPT ![p].mutated = @ \/ mutated, ![p].refused = @ \/ refused]
  /\ UNCHANGED <<lease, pc, plan, issued, file, staged, log, told>>

ApplyTarget(p, t) ==
  /\ pc[p] = "engine" /\ t \in todo[p]
  /\ \/ disk[t] = "gone" /\ Act(p, t, "gone", FALSE, FALSE)
     \/ disk[t] # "gone" /\ Act(p, t, "gone", TRUE, FALSE)
     \/ disk[t] # "gone" /\ Act(p, t, disk[t], FALSE, TRUE)
     \/ disk[t] # "gone" /\ Act(p, t, "part", TRUE, TRUE)

(* Mutant of Interrupt: what an action did before it raised is not recorded. *)
InterruptUnrecorded(p) ==
  /\ "raise" \in Faults /\ pc[p] = "engine" /\ todo[p] # {}
  /\ \/ UNCHANGED <<disk, changed>>
     \/ \E t \in todo[p], left \in {"part", "gone"} :
          /\ disk[t] # "gone"
          /\ disk' = [disk EXCEPT ![t] = left]
          /\ changed' = [changed EXCEPT ![p] = @ \cup {t}]
  /\ result' = [result EXCEPT ![p].status = IF result[p].mutated THEN "partial" ELSE "refused"]
  /\ pc' = [pc EXCEPT ![p] = "audit"]
  /\ UNCHANGED <<lease, plan, todo, issued, file, staged, log, told>>

(* The engine raises, before or after the current action changed the disk; *)
(* a PartialMutationError carries the change to the recorder.              *)
Interrupt(p) ==
  /\ "raise" \in Faults /\ pc[p] = "engine" /\ todo[p] # {}
  /\ \/ UNCHANGED <<disk, changed>>
     \/ \E t \in todo[p], left \in {"part", "gone"} :
          /\ disk[t] # "gone"
          /\ disk' = [disk EXCEPT ![t] = left]
          /\ changed' = [changed EXCEPT ![p] = @ \cup {t}]
  /\ result' = [result EXCEPT
       ![p].mutated = @ \/ (changed' # changed),
       ![p].status = IF result[p].mutated \/ (changed' # changed) THEN "partial" ELSE "refused"]
  /\ pc' = [pc EXCEPT ![p] = "audit"]
  /\ UNCHANGED <<lease, plan, todo, issued, file, staged, log, told>>

Settle(p) ==
  /\ pc[p] = "engine" /\ todo[p] = {}
  /\ Goto(p, "audit", [result[p] EXCEPT !.status =
       IF ~result[p].refused THEN "complete"
       ELSE IF ~result[p].mutated THEN "refused" ELSE "partial"])
  /\ UNCHANGED <<file, staged, log, told>>

-----------------------------------------------------------------------------
(* One append to the audit stream.                                          *)

Published(p) == [result[p] EXCEPT !.audited = TRUE]
Unaudited(p) == [result[p] EXCEPT !.audited = FALSE]

(* A line that follows an unterminated one makes both unreadable. *)
Appended(x) ==
  IF open THEN [stream EXCEPT ![Len(stream)] = Damaged] ELSE Append(stream, x)

(* os.write puts x in the file, with or without its line end, then the file *)
(* is fsynced; the write or the fsync may raise, and the process may die.  *)
WriteLine(p, x, unterminated) ==
  /\ stream' = Appended(x)
  /\ open' = unterminated
  /\ exists' = TRUE
  /\ log' = IF unterminated THEN log ELSE Append(log, result[p].op)
  /\ \/ /\ synced' = stream'
        /\ Goto(p, IF exists THEN "prune" ELSE "anchor", Published(p))
     \/ "raise" \in Faults /\ UNCHANGED synced /\ Goto(p, "report", Unaudited(p))
     \/ "crash" \in Faults /\ UNCHANGED synced /\ Leave(p)
  /\ UNCHANGED <<anchored, behind, staged, told>>

WriteRecord(p) == pc[p] = "audit" /\ WriteLine(p, result[p].op, FALSE)

(* os.write returns before it wrote everything, and nobody looks at what it *)
(* returned; only the line end may be missing.                             *)
WriteShort(p) ==
  /\ "tear" \in Faults /\ pc[p] = "audit"
  /\ \E x \in {Damaged, result[p].op} : WriteLine(p, x, TRUE)

(* The control plane cannot be created, or the file not opened or written.  *)
WriteFails(p) ==
  /\ "raise" \in Faults /\ pc[p] = "audit"
  /\ exists' \in {exists, TRUE}
  /\ Goto(p, "report", Unaudited(p))
  /\ UNCHANGED <<stream, open, synced, anchored, behind, staged, log, told>>

(* The append that created the file fsyncs its directory. *)
AnchorStream(p) ==
  /\ pc[p] = "anchor"
  /\ \/ anchored' = TRUE /\ Goto(p, "prune", result[p])
     \/ "raise" \in Faults /\ UNCHANGED anchored /\ Goto(p, "report", Unaudited(p))
  /\ UNCHANGED <<stream, open, exists, synced, behind, staged, log, told>>

-----------------------------------------------------------------------------
(* Bounded retention: read, stage what is kept, replace, fsync.             *)

Lines(s) == {s[i] : i \in DOMAIN s}
NothingStaged == <<<<>>, FALSE>>
(* Mutant of Newest: the oldest records are kept. *)
Oldest(s) == SubSeq(s, 1, Keep)

Newest(s) == SubSeq(s, Len(s) - Keep + 1, Len(s))

(* Mutant of StageRetained: damage is rewritten away. *)
StageReadable(p) ==
  LET readable == SelectSeq(stream, LAMBDA x : x # Damaged) IN
  /\ pc[p] = "prune"
  /\ IF Len(readable) <= Keep
     THEN UNCHANGED staged /\ Goto(p, "report", result[p])
     ELSE staged' = <<Newest(readable), FALSE>> /\ Goto(p, "replace", result[p])
  /\ UNCHANGED <<file, log, told>>

(* Over damage, and when staging raises, retention stops and the published *)
(* record stands.  The check of the staged file counts its lines, so a last *)
(* line that was cut short passes it.                                      *)
StageRetained(p) ==
  /\ pc[p] = "prune"
  /\ \/ /\ Damaged \in Lines(stream) \/ Len(stream) <= Keep
        /\ UNCHANGED staged /\ Goto(p, "report", result[p])
     \/ /\ "raise" \in Faults
        /\ staged' = NothingStaged /\ Goto(p, "report", result[p])
     \/ /\ Damaged \notin Lines(stream) /\ Len(stream) > Keep
        /\ \/ staged' = <<Newest(stream), FALSE>>
           \/ /\ "tear" \in Faults
              /\ \E x \in {Damaged, stream[Len(stream)]} :
                   staged' = <<[Newest(stream) EXCEPT ![Keep] = x], TRUE>>
        /\ Goto(p, "replace", result[p])
  /\ UNCHANGED <<file, log, told>>

ReplaceStream(p) ==
  /\ pc[p] = "replace"
  /\ \/ /\ stream' = staged[1] /\ open' = staged[2] /\ synced' = staged[1]
        /\ anchored' = FALSE
        /\ behind' = IF anchored THEN synced ELSE behind
        /\ Goto(p, "sync", result[p])
     \/ /\ "raise" \in Faults
        /\ UNCHANGED <<stream, open, synced, anchored, behind>>
        /\ Goto(p, "report", result[p])
  /\ staged' = NothingStaged
  /\ UNCHANGED <<exists, log, told>>

SyncStream(p) ==
  /\ pc[p] = "sync"
  /\ anchored' = TRUE \/ ("raise" \in Faults /\ UNCHANGED anchored)
  /\ Goto(p, "report", result[p])
  /\ UNCHANGED <<stream, open, exists, synced, behind, staged, log, told>>

(* The result is returned, or the engine's exception goes on; either way   *)
(* the caller has seen whether the operation was audited.                  *)
Report(p) ==
  /\ pc[p] = "report"
  /\ told' = IF result[p].audited THEN told \cup {result[p].op} ELSE told
  /\ Leave(p)
  /\ UNCHANGED <<file, staged, log>>

-----------------------------------------------------------------------------
Crash(p) ==
  /\ "crash" \in Faults /\ pc[p] # "idle"
  /\ Leave(p) /\ UNCHANGED <<file, staged, log, told>>

(* An owner removes one of its own files. *)
OwnerRemoves(t) ==
  /\ disk[t] # "gone"
  /\ disk' = [disk EXCEPT ![t] = "gone"]
  /\ UNCHANGED <<lease, pc, plan, todo, result, issued, changed, file, staged, log, told>>

(* What was not fsynced may or may not have reached the disk. *)
PowerLoss ==
  /\ "power" \in Faults
  /\ stream' \in {stream, synced, IF anchored THEN synced ELSE behind}
  /\ open' = (open /\ stream' = stream)
  /\ exists' = (stream' # <<>>)
  /\ synced' = stream' /\ anchored' = TRUE /\ behind' = stream'
  /\ lease' = Nobody
  /\ pc' = [p \in Process |-> "idle"]
  /\ plan' = [p \in Process |-> {}] /\ todo' = [p \in Process |-> {}]
  /\ result' = [p \in Process |-> NoResult]
  /\ changed' = [p \in Process |-> {}]
  /\ UNCHANGED <<issued, disk, staged, log, told>>

Init ==
  /\ lease = Nobody
  /\ pc = [p \in Process |-> "idle"]
  /\ plan = [p \in Process |-> {}] /\ todo = [p \in Process |-> {}]
  /\ result = [p \in Process |-> NoResult]
  /\ issued = 0
  /\ disk = [t \in Target |-> "whole"]
  /\ stream = <<>> /\ open = FALSE /\ exists = FALSE
  /\ synced = <<>> /\ anchored = FALSE /\ behind = <<>>
  /\ staged = NothingStaged
  /\ changed = [p \in Process |-> {}]
  /\ log = <<>> /\ told = {}

Run(p) ==
  \/ \E targets \in SUBSET Target : Start(p, targets)
  \/ AcquireLease(p, "waiting", "begin") \/ AcquireLease(p, "stale", "audit")
  \/ LeaseTimeout(p) \/ Begin(p)
  \/ \E t \in Target : ApplyTarget(p, t)
  \/ Interrupt(p) \/ Settle(p)
  \/ WriteRecord(p) \/ WriteShort(p) \/ WriteFails(p) \/ AnchorStream(p)
  \/ StageRetained(p) \/ ReplaceStream(p) \/ SyncStream(p)
  \/ Report(p) \/ Crash(p)

(* Every operation ended and none is left to start. *)
AllEnded == issued = MaxOps /\ (\A p \in Process : pc[p] = "idle") /\ UNCHANGED vars

Next ==
  \/ \E p \in Process : Run(p)
  \/ \E t \in Target : OwnerRemoves(t)
  \/ PowerLoss \/ AllEnded

Spec == Init /\ [][Next]_vars

-----------------------------------------------------------------------------
TypeOK ==
  /\ lease \in Process \cup {Nobody}
  /\ pc \in [Process -> Control]
  /\ plan \in [Process -> SUBSET Target] /\ todo \in [Process -> SUBSET Target]
  /\ result \in [Process -> Result]
  /\ issued \in Op \cup {0}
  /\ disk \in [Target -> {"whole", "part", "gone"}]
  /\ stream \in Seq(Line) /\ synced \in Seq(Line) /\ behind \in Seq(Line)
  /\ open \in BOOLEAN /\ exists \in BOOLEAN /\ anchored \in BOOLEAN
  /\ staged \in Seq(Line) \X BOOLEAN
  /\ changed \in [Process -> SUBSET Target]
  /\ log \in Seq(Op) /\ told \subseteq Op

Settled == {"audit", "anchor", "prune", "replace", "sync", "report"}

(* The status an operation records is what it did to the disk, however it  *)
(* left its engine: refused changed nothing, partial changed something,    *)
(* complete left none of its targets (StorageExecutor.run, _settle,        *)
(* record_or_reraise).                                                     *)
StatusTruthful ==
  \A p \in Process : pc[p] \in Settled =>
    /\ result[p].status = "refused" => changed[p] = {}
    /\ result[p].status = "partial" => changed[p] # {}
    /\ result[p].status = "complete" => \A t \in plan[p] : disk[t] = "gone"

(* A record its caller was told of stays readable while it is one of the   *)
(* newest Keep, whoever appends, prunes, raises or dies (prune_audit,      *)
(* StorageExecutor._finalize; "if another operation could append between   *)
(* the read and the replace, the record it just published would be silently *)
(* rewritten away").                                                       *)
PublishedRecordsStay ==
  \A i \in DOMAIN log : log[i] \in told /\ Len(log) - i < Keep => log[i] \in Lines(stream)

(* Retention never rewrites over damage: a stream that holds an unreadable *)
(* line only grows (prune_audit).                                          *)
DamageStays ==
  [][\A i \in DOMAIN stream :
       stream[i] = Damaged => i \in DOMAIN stream' /\ stream'[i] = Damaged]_stream

(* An operation that is reported as audited has a readable record:         *)
(* executor.py says that otherwise "a caller that checks for complete      *)
(* would otherwise be told a durable record exists when none does".        *)
AuditedMeansReadable ==
  \A p \in Process : pc[p] = "report" /\ result[p].audited => result[p].op \in Lines(stream)

=============================================================================
