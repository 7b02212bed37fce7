------------------------- MODULE ColdArchive_proofs -------------------------
(***************************************************************************)
(* Theorems of ColdArchive for any members, contents, processes and        *)
(* commands.                                                               *)
(***************************************************************************)
EXTENDS ColdArchive, TLAPS

Working == Control \ {"idle", "waiting"}

PlanOK(pl) ==
  /\ pl \in Plan
  /\ pl.op # "sweep" => pl.rep \in Rep /\ pl.targets \subseteq {"hot"} \X DOMAIN pl.rep
  /\ pl.op = "sweep" =>
       pl.targets \subseteq pl.views.residue \cup ({"journal", "staging"} \X Rep)

(* What the program counter of a process says of its plan and of the files. *)
StepOK(p) ==
  /\ pc[p] # "idle" => PlanOK(plan[p])
  /\ pc[p] \in Working => lease = p
  /\ pc[p] \in {"blob", "manifest", "catalog", "evict", "journal", "stage", "install", "unstage"} =>
       /\ plan[p].op # "sweep"
       /\ todo[p] \subseteq ({"hot"} \X DOMAIN plan[p].rep) \cup Refusal
  /\ pc[p] \in {"blob", "manifest", "catalog", "evict"} => plan[p].op # "restore"
  /\ pc[p] \in {"blob", "manifest", "catalog"} => cache.catalog[plan[p].rep] = Absent
  /\ pc[p] \in {"evict", "journal", "stage", "install"} => cache.catalog[plan[p].rep] # Absent
  /\ pc[p] = "sweep" =>
       /\ todo[p] \subseteq ({"blob", "manifest", "journal", "staging"} \X Rep)
       /\ \A t \in todo[p] : t[1] \in {"blob", "manifest"} => cache.catalog[t[2]] = Absent

Core == TypeOK /\ \A p \in Process : StepOK(p)

Fits(kind, x, v) ==
  \/ kind = "hot" /\ x \in Member /\ v \in Bytes \cup {Absent}
  \/ kind = "blob" /\ x \in Rep /\ v \in Blob \cup {Absent}
  \/ kind = "manifest" /\ x \in Rep /\ v \in Blob \cup {Absent}
  \/ kind = "catalog" /\ x \in Rep /\ v \in Entry \cup {Absent}
  \/ kind = "journal" /\ x \in Rep /\ v \in {"staging", "terminal", Absent}
  \/ kind = "staging" /\ x \in Rep /\ v \in {"staged", Absent}

(* The files after one name changed, whatever the kind. *)
LEMMA WriteStore ==
  ASSUME cache \in Store, kept \in Store, NEW kind, NEW x, NEW v, Fits(kind, x, v),
         cache' = [cache EXCEPT ![kind][x] = v]
  PROVE  cache' \in Store /\ Synced(kind, x) \in Store
<1>1. CASE kind = "hot" BY <1>1 DEF Fits, Store, Synced
<1>2. CASE kind = "blob" BY <1>2 DEF Fits, Store, Synced
<1>3. CASE kind = "manifest" BY <1>3 DEF Fits, Store, Synced
<1>4. CASE kind = "catalog" BY <1>4 DEF Fits, Store, Synced
<1>5. CASE kind = "journal" BY <1>5 DEF Fits, Store, Synced
<1>6. CASE kind = "staging" BY <1>6 DEF Fits, Store, Synced
<1> QED BY <1>1, <1>2, <1>3, <1>4, <1>5, <1>6 DEF Fits

(* Touch adds a planned target, and planned targets are targets. *)
LEMMA TouchTypes ==
  ASSUME Core, NEW t, Touch(t)
  PROVE  moved' \in [Process -> SUBSET Target]
<1>1. \A q \in Process : pc[q] \in {"waiting", "begin"} => plan[q].targets \subseteq Target
  BY DEF Core, StepOK, PlanOK, Plan
<1> QED BY <1>1 DEF Touch, Core, TypeOK

LEMMA LeaveTypes ==
  ASSUME Core, NEW p \in Process, Leave(p)
  PROVE  /\ lease' \in Process \cup {Nobody}
         /\ pc' \in [Process -> Control]
         /\ plan' \in [Process -> Plan \cup {NoPlan}]
         /\ todo' \in [Process -> SUBSET (Target \cup Refusal)]
         /\ pc'[p] = "idle"
         /\ \A q \in Process \ {p} : pc'[q] = pc[q] /\ plan'[q] = plan[q] /\ todo'[q] = todo[q]
BY DEF Core, TypeOK, Leave, Control

(* While one process works, the others are idle or wait for the lease. *)
LEMMA OthersWait ==
  ASSUME Core, NEW p \in Process, pc[p] \in Working, NEW q \in Process, q # p
  PROVE  pc[q] \in {"idle", "waiting"}
BY DEF Core, TypeOK, StepOK, Working

(* A process that leaves disturbs no process that stays. *)
LEMMA LeaveCore ==
  ASSUME Core, NEW p \in Process, Leave(p), cache' \in Store, kept' \in Store,
         truth' = truth, moved' \in [Process -> SUBSET Target],
         cache'.catalog = cache.catalog \/ pc[p] \in Working
  PROVE  Core'
<1>1. TypeOK' BY LeaveTypes DEF Core, TypeOK
<1>2. ASSUME NEW q \in Process PROVE StepOK(q)'
  <2>1. CASE q = p BY <2>1, LeaveTypes, <1>1 DEF StepOK, Working
  <2>2. CASE q # p /\ pc[q] \in {"idle", "waiting"}
    BY <2>2, LeaveTypes DEF Core, StepOK, Working
  <2>3. CASE q # p /\ pc[q] \in Working
    <3>1. lease = q /\ lease' = q BY <2>3 DEF Core, StepOK, Leave
    <3>2. cache'.catalog = cache.catalog BY <2>3, OthersWait DEF Working
    <3> QED BY <2>3, <3>1, <3>2, LeaveTypes DEF Core, StepOK
  <2> QED BY <2>1, <2>2, <2>3 DEF Working, Core, TypeOK
<1> QED BY <1>1, <1>2 DEF Core

(* A working process moves on: only its own part is to be shown. *)
LEMMA GotoCore ==
  ASSUME Core, NEW p \in Process, pc[p] \in Working, NEW next \in Working,
         NEW left \in SUBSET (Target \cup Refusal), Goto(p, next, left),
         cache' \in Store, kept' \in Store, truth' = truth,
         moved' \in [Process -> SUBSET Target], StepOK(p)'
  PROVE  Core'
<1>1. TypeOK' BY DEF Core, TypeOK, Goto, Working
<1>2. ASSUME NEW q \in Process, q # p PROVE StepOK(q)'
  <2>1. pc'[q] = pc[q] /\ plan'[q] = plan[q] /\ pc[q] \in {"idle", "waiting"}
    BY <1>2, OthersWait DEF Core, TypeOK, Goto
  <2> QED BY <1>2, <2>1 DEF Core, StepOK, Working
<1> QED BY <1>1, <1>2 DEF Core

LEMMA WriteCore ==
  ASSUME Core, NEW p \in Process, pc[p] \in Working, NEW next \in Working,
         NEW left \in SUBSET (Target \cup Refusal), NEW kind, NEW x, NEW v,
         Fits(kind, x, v), Write(p, kind, x, v, next, left),
         Goto(p, next, left) => StepOK(p)'
  PROVE  Core'
<1>1. cache' \in Store /\ kept' \in Store
  <2>1. cache \in Store /\ kept \in Store BY DEF Core, TypeOK
  <2>2. cache' = [cache EXCEPT ![kind][x] = v] BY DEF Write
  <2>3. cache' \in Store /\ Synced(kind, x) \in Store BY <2>1, <2>2, WriteStore
  <2> QED BY <2>1, <2>3 DEF Write
<1>2. moved' \in [Process -> SUBSET Target] BY TouchTypes DEF Write
<1>3. truth' = truth BY DEF Write
<1>4. CASE Goto(p, next, left) BY <1>1, <1>2, <1>3, <1>4, GotoCore
<1>5. CASE Leave(p) BY <1>1, <1>2, <1>3, <1>5, LeaveCore
<1> QED BY <1>4, <1>5 DEF Write

-----------------------------------------------------------------------------
(* Planning. *)

LEMMA BindCore ==
  ASSUME Core, NEW p \in Process, pc[p] = "idle", NEW op \in Op, NEW r \in Rep \cup {Absent},
         NEW authority \in Blob \cup {Absent}, NEW targets \in SUBSET Target,
         Bind(p, op, r, authority, targets),
         op # "sweep" => r \in Rep /\ targets \subseteq {"hot"} \X DOMAIN r,
         op = "sweep" => targets \subseteq Residue \cup ({"journal", "staging"} \X Rep)
  PROVE  Core'
<1> DEFINE bound == [op |-> op, rep |-> r, authority |-> authority, targets |-> targets,
                     absent |-> {t \in targets : cache[t[1]][t[2]] = Absent},
                     views |-> CurrentViews]
<1>1. CurrentViews \in Views /\ CurrentViews.residue = Residue
  BY DEF CurrentViews, Views, Residue, OpenJournals, TerminalJournals, Staged, Target
<1>2. bound \in Plan BY <1>1 DEF Plan
<1>3. PlanOK(bound) BY <1>1, <1>2 DEF PlanOK
<1>4. plan' = [plan EXCEPT ![p] = bound] /\ pc' = [pc EXCEPT ![p] = "waiting"]
      /\ moved' = [moved EXCEPT ![p] = {}] /\ UNCHANGED <<cache, kept, truth, lease, todo>>
  BY DEF Bind
<1> HIDE DEF bound
<1>5. TypeOK' BY <1>2, <1>4 DEF Core, TypeOK, Control
<1>6. ASSUME NEW q \in Process PROVE StepOK(q)'
  <2>1. CASE q = p BY <1>3, <1>4, <2>1 DEF Core, TypeOK, StepOK, Working
  <2>2. CASE q # p BY <1>4, <2>2 DEF Core, TypeOK, StepOK
  <2> QED BY <2>1, <2>2
<1> QED BY <1>5, <1>6 DEF Core

(* The archive of some members is made of the bytes at their paths. *)
LEMMA HotIsRep ==
  ASSUME cache \in Store, NEW S \in SUBSET Member, S # {}, \A m \in S : cache.hot[m] # Absent
  PROVE  [m \in S |-> cache.hot[m]] \in Rep
<1>1. [m \in S |-> cache.hot[m]] \in [S -> Bytes] BY DEF Store
<1>2. S \in (SUBSET Member) \ {{}} OBVIOUS
<1> QED BY <1>1, <1>2 DEF Rep

LEMMA PlanArchiveCore ==
  ASSUME Core, NEW p \in Process, NEW op \in Op, PlanArchive(p, op)
  PROVE  Core'
<1> DEFINE present == {m \in Member : cache.hot[m] # Absent}
           r == [m \in present |-> cache.hot[m]]
<1>1. r \in Rep /\ DOMAIN r = present
  <2>1. cache \in Store /\ present \in SUBSET Member /\ present # {}
        /\ \A m \in present : cache.hot[m] # Absent
    BY DEF PlanArchive, Core, TypeOK
  <2> HIDE DEF present
  <2> QED BY <2>1, HotIsRep
<1>2. {"hot"} \X present \in SUBSET Target BY DEF Target
<1>3. pc[p] = "idle" /\ op # "sweep" /\ Bind(p, op, r, Absent, {"hot"} \X present)
  BY DEF PlanArchive
<1> HIDE DEF present, r
<1> QED BY <1>1, <1>2, <1>3, BindCore

LEMMA PlanReclaimCore ==
  ASSUME Core, NEW p \in Process, NEW r \in Rep, PlanReclaim(p, r)
  PROVE  Core'
<1>1. PICK released \in SUBSET StillHot(r) :
        Bind(p, "reclaim", r, cache.manifest[r], {"hot"} \X released)
  BY DEF PlanReclaim
<1>2. released \subseteq DOMAIN r /\ DOMAIN r \subseteq Member BY DEF StillHot, Rep
<1>3. {"hot"} \X released \in SUBSET Target BY <1>2 DEF Target
<1>4. cache.manifest[r] \in Blob \cup {Absent} BY DEF Core, TypeOK, Store
<1>5. pc[p] = "idle" BY DEF PlanReclaim
<1>6. "reclaim" \in Op /\ {"hot"} \X released \subseteq {"hot"} \X DOMAIN r BY <1>2 DEF Op
<1> QED BY <1>1, <1>3, <1>4, <1>5, <1>6, BindCore

LEMMA PlanRestoreCore ==
  ASSUME Core, NEW p \in Process, NEW r \in Rep, PlanRestore(p, r)
  PROVE  Core'
<1>1. DOMAIN r \subseteq Member BY DEF Rep
<1>2. {"hot"} \X DOMAIN r \in SUBSET Target BY <1>1 DEF Target
<1>3. cache.manifest[r] \in Blob \cup {Absent} BY DEF Core, TypeOK, Store
<1>4. pc[p] = "idle" /\ Bind(p, "restore", r, cache.manifest[r], {"hot"} \X DOMAIN r)
  BY DEF PlanRestore
<1>5. "restore" \in Op BY DEF Op
<1> QED BY <1>2, <1>3, <1>4, <1>5, BindCore

LEMMA PlanSweepCore ==
  ASSUME Core, NEW p \in Process, PlanSweep(p)
  PROVE  Core'
<1>1. PICK retire \in SUBSET TerminalJournals :
        Bind(p, "sweep", Absent, Absent,
             Residue \cup ({"staging"} \X (Staged \ OpenJournals)) \cup ({"journal"} \X retire))
  BY DEF PlanSweep
<1> DEFINE targets == Residue \cup ({"staging"} \X (Staged \ OpenJournals)) \cup ({"journal"} \X retire)
<1>2. targets \in SUBSET Target BY DEF Residue, Staged, TerminalJournals, Target
<1>3. targets \subseteq Residue \cup ({"journal", "staging"} \X Rep)
  BY DEF Staged, TerminalJournals
<1>4. pc[p] = "idle" /\ Bind(p, "sweep", Absent, Absent, targets) BY <1>1 DEF PlanSweep
<1>5. "sweep" \in Op BY DEF Op
<1> HIDE DEF targets
<1> QED BY <1>2, <1>3, <1>4, <1>5, BindCore

-----------------------------------------------------------------------------
(* The envelope. *)

LEMMA AcquireLeaseCore ==
  ASSUME Core, NEW p \in Process, AcquireLease(p)
  PROVE  Core'
<1>1. \A q \in Process : pc[q] \notin Working
  BY ConstantAssumption DEF AcquireLease, Core, StepOK
<1>2. TypeOK' BY DEF AcquireLease, Core, TypeOK, Control
<1>3. ASSUME NEW q \in Process PROVE StepOK(q)'
  <2>1. CASE q = p BY <2>1 DEF AcquireLease, Core, TypeOK, StepOK, Working
  <2>2. CASE q # p BY <2>2, <1>1 DEF AcquireLease, Core, TypeOK, StepOK, Working
  <2> QED BY <2>1, <2>2
<1> QED BY <1>2, <1>3 DEF Core

LEMMA RefuseCore ==
  ASSUME Core, NEW p \in Process, Refuse(p)
  PROVE  Core'
<1>1. cache' = cache /\ kept' = kept /\ truth' = truth /\ moved' = moved /\ Leave(p)
  BY DEF Refuse
<1> QED BY <1>1, LeaveCore DEF Core, TypeOK

(* A step that only moves the program counter. *)
LEMMA SkipCore ==
  ASSUME Core, NEW p \in Process, pc[p] \in Working, NEW next \in Working,
         NEW left \in SUBSET (Target \cup Refusal), Skip(p, next, left), StepOK(p)'
  PROVE  Core'
<1>1. cache' = cache /\ kept' = kept /\ truth' = truth /\ moved' = moved /\ Goto(p, next, left)
  BY DEF Skip
<1> QED BY <1>1, GotoCore DEF Core, TypeOK

LEMMA BeginCore ==
  ASSUME Core, NEW p \in Process, Begin(p)
  PROVE  Core'
<1>1. CASE Refuse(p) BY <1>1, RefuseCore
<1>2. CASE /\ PlanHolds(p) /\ Admitted(p)
           /\ Skip(p, FirstStep(p), IF plan[p].op = "archive_keep_hot" THEN {} ELSE plan[p].targets)
  <2> DEFINE left == IF plan[p].op = "archive_keep_hot" THEN {} ELSE plan[p].targets
  <2>1. pc[p] = "begin" /\ pc[p] \in Working BY DEF Begin, Working, Control
  <2>2. PlanOK(plan[p]) /\ lease = p BY <2>1 DEF Core, StepOK
  <2>3. left \in SUBSET (Target \cup Refusal) BY <2>2 DEF PlanOK, Plan
  <2>4. FirstStep(p) \in Working BY <2>2 DEF FirstStep, PlanOK, Plan, Op, Working, Control
  <2>5. pc'[p] = FirstStep(p) /\ todo'[p] = left /\ plan' = plan /\ lease' = lease /\ cache' = cache
    BY <1>2 DEF Skip, Goto, Core, TypeOK
  <2>6. StepOK(p)'
    <3>1. CASE plan[p].op \in {"archive", "archive_keep_hot"}
      BY <2>2, <2>5, <3>1 DEF StepOK, FirstStep, PlanOK
    <3>2. CASE plan[p].op = "reclaim"
      BY <2>2, <2>5, <1>2, <3>2 DEF StepOK, FirstStep, PlanOK, Admitted, Reauthentic, Authentic
    <3>3. CASE plan[p].op = "restore"
      BY <2>2, <2>5, <1>2, <3>3 DEF StepOK, FirstStep, PlanOK, Admitted, Reauthentic, Authentic
    <3>4. CASE plan[p].op = "sweep"
      <4>1. plan[p].targets \subseteq Residue \cup ({"journal", "staging"} \X Rep)
        BY <1>2, <2>2, <3>4 DEF PlanHolds, PlanOK, CurrentViews
      <4>2. left = plan[p].targets /\ FirstStep(p) = "sweep" BY <3>4 DEF FirstStep
      <4> QED BY <2>2, <2>5, <4>1, <4>2, <3>4 DEF StepOK, Residue
    <3> QED BY <2>2, <3>1, <3>2, <3>3, <3>4 DEF PlanOK, Plan, Op
  <2> HIDE DEF left
  <2> QED BY <1>2, <2>1, <2>3, <2>4, <2>6, SkipCore DEF left
<1> QED BY <1>1, <1>2 DEF Begin

-----------------------------------------------------------------------------
(* Archive creation and reclamation. *)

(* What every engine step starts from. *)
LEMMA EngineStep ==
  ASSUME Core, NEW p \in Process,
         pc[p] \in {"blob", "manifest", "catalog", "evict", "journal", "stage", "install", "unstage"}
  PROVE  /\ pc[p] \in Working /\ lease = p
         /\ plan[p] \in Plan /\ plan[p].op # "sweep" /\ plan[p].rep \in Rep
         /\ DOMAIN plan[p].rep \subseteq Member
         /\ \A m \in DOMAIN plan[p].rep : plan[p].rep[m] \in Bytes
         /\ todo[p] \in SUBSET (Target \cup Refusal)
         /\ todo[p] \subseteq ({"hot"} \X DOMAIN plan[p].rep) \cup Refusal
         /\ cache \in Store
<1>1. pc[p] \in Working /\ pc[p] # "idle" BY DEF Working, Control
<1>2. PlanOK(plan[p]) /\ plan[p].op # "sweep" /\ lease = p BY <1>1 DEF Core, StepOK
<1>3. plan[p].rep \in Rep BY <1>2 DEF PlanOK
<1>4. DOMAIN plan[p].rep \subseteq Member /\ \A m \in DOMAIN plan[p].rep : plan[p].rep[m] \in Bytes
  BY <1>3 DEF Rep
<1> QED BY <1>1, <1>2, <1>3, <1>4 DEF Core, StepOK, TypeOK, PlanOK

(* A working process that keeps its plan, its lease and the entry of its   *)
(* archive satisfies what its next program counter asks for.               *)
LEMMA NextStepOK ==
  ASSUME Core, NEW p \in Process,
         pc[p] \in {"blob", "manifest", "catalog", "evict", "journal", "stage", "install", "unstage"},
         NEW next \in {"blob", "manifest", "catalog", "evict", "journal", "stage", "install",
                       "unstage", "finish"},
         NEW left, left \subseteq ({"hot"} \X DOMAIN plan[p].rep) \cup Refusal,
         Goto(p, next, left),
         next \in {"blob", "manifest", "catalog", "evict"} =>
           pc[p] \in {"blob", "manifest", "catalog", "evict"},
         next \in {"blob", "manifest", "catalog"} => cache'.catalog[plan[p].rep] = Absent,
         next \in {"evict", "journal", "stage", "install"} => cache'.catalog[plan[p].rep] # Absent
  PROVE  StepOK(p)'
<1>1. pc'[p] = next /\ todo'[p] = left /\ plan' = plan /\ lease' = lease
  BY DEF Goto, Core, TypeOK
<1>2. PlanOK(plan[p]) /\ plan[p].op # "sweep" /\ lease = p
  BY EngineStep DEF Core, StepOK
<1>3. next \in {"blob", "manifest", "catalog", "evict"} => plan[p].op # "restore"
  BY DEF Core, StepOK
<1> QED BY <1>1, <1>2, <1>3 DEF StepOK

LEMMA PublishBlobCore ==
  ASSUME Core, NEW p \in Process, PublishBlob(p)
  PROVE  Core'
<1> DEFINE r == plan[p].rep
<1>1. CASE Refuse(p) BY <1>1, RefuseCore
<1>2. ASSUME \A m \in DOMAIN r : cache.hot[m] # Absent, NEW s \in Stamp,
             Write(p, "blob", r, [bytes |-> [m \in DOMAIN r |-> cache.hot[m]], stamp |-> s],
                   "manifest", todo[p])
      PROVE  Core'
  <2> DEFINE v == [bytes |-> [m \in DOMAIN r |-> cache.hot[m]], stamp |-> s]
  <2>1. pc[p] = "blob" BY DEF PublishBlob
  <2>2. DOMAIN r # {} BY <2>1, EngineStep DEF Rep
  <2>3. v \in Blob
    <3>1. [m \in DOMAIN r |-> cache.hot[m]] \in Rep BY <1>2, <2>1, <2>2, EngineStep, HotIsRep
    <3> QED BY <3>1 DEF Blob
  <2>4. Fits("blob", r, v) BY <2>1, <2>3, EngineStep DEF Fits
  <2> HIDE DEF v
  <2>5. cache'.catalog = cache.catalog BY <1>2 DEF Write, Core, TypeOK, Store
  <2>6. cache.catalog[r] = Absent BY <2>1 DEF Core, StepOK
  <2>7. Goto(p, "manifest", todo[p]) => StepOK(p)' BY <2>1, <2>5, <2>6, EngineStep, NextStepOK
  <2>8. "manifest" \in Working BY DEF Working, Control
  <2> QED BY <1>2, <2>1, <2>4, <2>7, <2>8, EngineStep, WriteCore DEF v
<1> QED BY <1>1, <1>2 DEF PublishBlob

LEMMA PublishManifestCore ==
  ASSUME Core, NEW p \in Process, PublishManifest(p)
  PROVE  Core'
<1> DEFINE r == plan[p].rep
<1>1. pc[p] = "manifest" /\ Write(p, "manifest", r, cache.blob[r], "catalog", todo[p])
  BY DEF PublishManifest
<1>2. Fits("manifest", r, cache.blob[r]) BY <1>1, EngineStep DEF Fits, Store
<1>3. cache'.catalog = cache.catalog BY <1>1 DEF Write, Core, TypeOK, Store
<1>4. cache.catalog[r] = Absent BY <1>1 DEF Core, StepOK
<1>5. Goto(p, "catalog", todo[p]) => StepOK(p)' BY <1>1, <1>3, <1>4, EngineStep, NextStepOK
<1>6. "catalog" \in Working BY DEF Working, Control
<1> QED BY <1>1, <1>2, <1>5, <1>6, EngineStep, WriteCore

LEMMA PublishCatalogCore ==
  ASSUME Core, NEW p \in Process, PublishCatalog(p)
  PROVE  Core'
<1> DEFINE r == plan[p].rep
           v == [blob |-> cache.manifest[r],
                 reclamation |-> IF plan[p].op = "archive" THEN "pending" ELSE "not_requested"]
<1>1. CASE Refuse(p) BY <1>1, RefuseCore
<1>2. CASE BlobMatchesManifest(cache, r) /\ Write(p, "catalog", r, v, "evict", todo[p])
  <2>1. pc[p] = "catalog" BY DEF PublishCatalog
  <2>2. v \in Entry
    <3>1. cache.manifest[r] \in Blob BY <1>2, <2>1, EngineStep DEF BlobMatchesManifest, Store
    <3> QED BY <3>1 DEF Entry, Reclamation
  <2>3. Fits("catalog", r, v) BY <2>1, <2>2, EngineStep DEF Fits
  <2> HIDE DEF v
  <2>4. cache'.catalog[r] # Absent
    BY <1>2, <2>1, <2>2, EngineStep, ConstantAssumption DEF Write, Store
  <2>5. Goto(p, "evict", todo[p]) => StepOK(p)' BY <2>1, <2>4, EngineStep, NextStepOK
  <2>6. "evict" \in Working BY DEF Working, Control
  <2> QED BY <1>2, <2>1, <2>3, <2>5, <2>6, EngineStep, WriteCore
<1> QED BY <1>1, <1>2 DEF PublishCatalog

LEMMA ReclaimMemberCore ==
  ASSUME Core, NEW p \in Process, NEW m \in Member, ReclaimMember(p, m)
  PROVE  Core'
<1> DEFINE left == todo[p] \ {<<"hot", m>>}
<1>1. pc[p] = "evict" BY DEF ReclaimMember
<1>2. cache.catalog[plan[p].rep] # Absent BY <1>1 DEF Core, StepOK
<1>3. "evict" \in Working BY DEF Working, Control
<1>4. CASE Skip(p, "evict", left)
  <2>1. Goto(p, "evict", left) /\ cache' = cache BY <1>4 DEF Skip
  <2> QED BY <1>1, <1>2, <1>3, <1>4, <2>1, EngineStep, NextStepOK, SkipCore
<1>5. CASE Write(p, "hot", m, Absent, "evict", left)
  <2>1. cache'.catalog = cache.catalog BY <1>5 DEF Write, Core, TypeOK, Store
  <2>2. Goto(p, "evict", left) => StepOK(p)' BY <1>1, <1>2, <2>1, EngineStep, NextStepOK
  <2>3. Fits("hot", m, Absent) BY DEF Fits
  <2> QED BY <1>1, <1>3, <1>5, <2>2, <2>3, EngineStep, WriteCore
<1>6. CASE Skip(p, "evict", left \cup {<<"refused", m>>})
  <2>1. Goto(p, "evict", left \cup {<<"refused", m>>}) /\ cache' = cache BY <1>6 DEF Skip
  <2>2. <<"refused", m>> \in Refusal BY DEF Refusal
  <2> QED BY <1>1, <1>2, <1>3, <1>6, <2>1, <2>2, EngineStep, NextStepOK, SkipCore
<1> QED BY <1>4, <1>5, <1>6 DEF ReclaimMember

LEMMA PublishStatusCore ==
  ASSUME Core, NEW p \in Process, PublishStatus(p)
  PROVE  Core'
<1> DEFINE r == plan[p].rep
           v == [cache.catalog[r] EXCEPT !.reclamation = ReclaimStatus(p)]
<1>1. pc[p] = "evict" /\ Write(p, "catalog", r, v, "finish", {}) BY DEF PublishStatus
<1>2. cache.catalog[r] \in Entry BY <1>1, EngineStep DEF Core, StepOK, Store
<1>3. ReclaimStatus(p) \in Reclamation
  <2>1. plan[p].op \in {"archive", "archive_keep_hot", "reclaim"}
    BY <1>1, EngineStep DEF Core, StepOK, Plan, Op
  <2> QED BY <2>1 DEF ReclaimStatus, Reclamation
<1>4. Fits("catalog", r, v) BY <1>1, <1>2, <1>3, EngineStep DEF Fits, Entry
<1> HIDE DEF v
<1>5. Goto(p, "finish", {}) => StepOK(p)' BY <1>1, EngineStep, NextStepOK
<1>6. "finish" \in Working BY DEF Working, Control
<1> QED BY <1>1, <1>4, <1>5, <1>6, EngineStep, WriteCore

-----------------------------------------------------------------------------
(* Restore. *)

LEMMA OpenJournalCore ==
  ASSUME Core, NEW p \in Process, OpenJournal(p)
  PROVE  Core'
<1> DEFINE r == plan[p].rep
<1>1. pc[p] = "journal" /\ Write(p, "journal", r, "staging", "stage", todo[p]) BY DEF OpenJournal
<1>2. Fits("journal", r, "staging") BY <1>1, EngineStep DEF Fits
<1>3. cache'.catalog = cache.catalog BY <1>1 DEF Write, Core, TypeOK, Store
<1>4. cache.catalog[r] # Absent BY <1>1 DEF Core, StepOK
<1>5. Goto(p, "stage", todo[p]) => StepOK(p)' BY <1>1, <1>3, <1>4, EngineStep, NextStepOK
<1>6. "stage" \in Working BY DEF Working, Control
<1> QED BY <1>1, <1>2, <1>5, <1>6, EngineStep, WriteCore

(* The staging trees after one of them was filled or cleared. *)
LEMMA StagingStore ==
  ASSUME Core, NEW r \in Rep, NEW v \in {"staged", Absent},
         cache' = [cache EXCEPT !.staging[r] = v]
  PROVE  cache' \in Store /\ cache'.catalog = cache.catalog
BY DEF Core, TypeOK, Store

LEMMA StageMembersCore ==
  ASSUME Core, NEW p \in Process, StageMembers(p)
  PROVE  Core'
<1>1. /\ pc[p] = "stage" /\ cache' = [cache EXCEPT !.staging[plan[p].rep] = "staged"]
      /\ Goto(p, "install", todo[p]) /\ kept' = kept /\ truth' = truth
  BY DEF StageMembers
<1>2. cache' \in Store /\ cache'.catalog = cache.catalog BY <1>1, EngineStep, StagingStore
<1>3. moved' \in [Process -> SUBSET Target] BY TouchTypes DEF StageMembers
<1>4. cache.catalog[plan[p].rep] # Absent BY <1>1 DEF Core, StepOK
<1>5. StepOK(p)' BY <1>1, <1>2, <1>4, EngineStep, NextStepOK
<1>6. "install" \in Working /\ kept' \in Store BY <1>1 DEF Working, Control, Core, TypeOK
<1> QED BY <1>1, <1>2, <1>3, <1>5, <1>6, EngineStep, GotoCore

LEMMA InstallMemberCore ==
  ASSUME Core, NEW p \in Process, NEW m \in Member, InstallMember(p, m)
  PROVE  Core'
<1> DEFINE left == todo[p] \ {<<"hot", m>>}
<1>1. pc[p] = "install" /\ <<"hot", m>> \in todo[p] BY DEF InstallMember
<1>2. cache.catalog[plan[p].rep] # Absent BY <1>1 DEF Core, StepOK
<1>3. "install" \in Working BY DEF Working, Control
<1>4. CASE Skip(p, "install", left)
  <2>1. Goto(p, "install", left) /\ cache' = cache BY <1>4 DEF Skip
  <2> QED BY <1>1, <1>2, <1>3, <1>4, <2>1, EngineStep, NextStepOK, SkipCore
<1>5. CASE /\ cache' = [cache EXCEPT !.hot[m] = plan[p].rep[m]]
           /\ Touch(<<"hot", m>>) /\ truth' = truth
           /\ \/ kept' = [kept EXCEPT !.hot[m] = Torn] /\ Goto(p, "install", left)
              \/ kept' = kept /\ Leave(p)
  <2>1. m \in DOMAIN plan[p].rep BY <1>1, EngineStep DEF Refusal
  <2>2. cache' \in Store /\ cache'.catalog = cache.catalog
    BY <1>1, <1>5, <2>1, EngineStep DEF Store
  <2>3. kept' \in Store BY <1>5 DEF Core, TypeOK, Store, Bytes
  <2>4. moved' \in [Process -> SUBSET Target] BY <1>5, TouchTypes
  <2>5. CASE Leave(p) BY <1>5, <2>2, <2>3, <2>4, <2>5, LeaveCore
  <2>6. CASE Goto(p, "install", left)
    <3>1. StepOK(p)' BY <1>1, <1>2, <2>2, <2>6, EngineStep, NextStepOK
    <3> QED BY <1>1, <1>3, <1>5, <2>2, <2>3, <2>4, <2>6, <3>1, EngineStep, GotoCore
  <2> QED BY <1>5, <2>5, <2>6
<1> QED BY <1>4, <1>5 DEF InstallMember

LEMMA CloseJournalCore ==
  ASSUME Core, NEW p \in Process, CloseJournal(p)
  PROVE  Core'
<1> DEFINE r == plan[p].rep
<1>1. pc[p] = "install" BY DEF CloseJournal
<1>2. "unstage" \in Working BY DEF Working, Control
<1>3. CASE Write(p, "journal", r, "terminal", "unstage", {})
  <2>1. Fits("journal", r, "terminal") BY <1>1, EngineStep DEF Fits
  <2>2. Goto(p, "unstage", {}) => StepOK(p)' BY <1>1, EngineStep, NextStepOK
  <2> QED BY <1>1, <1>2, <1>3, <2>1, <2>2, EngineStep, WriteCore
<1>4. CASE Skip(p, "unstage", {})
  <2>1. Goto(p, "unstage", {}) BY <1>4 DEF Skip
  <2>2. StepOK(p)' BY <1>1, <2>1, EngineStep, NextStepOK
  <2> QED BY <1>1, <1>2, <1>4, <2>2, EngineStep, SkipCore
<1> QED BY <1>3, <1>4 DEF CloseJournal

LEMMA ClearStagingCore ==
  ASSUME Core, NEW p \in Process, ClearStaging(p)
  PROVE  Core'
<1>1. /\ pc[p] = "unstage" /\ cache' = [cache EXCEPT !.staging[plan[p].rep] = Absent]
      /\ Goto(p, "finish", {}) /\ kept' = kept /\ truth' = truth
  BY DEF ClearStaging
<1>2. cache' \in Store BY <1>1, EngineStep, StagingStore
<1>3. moved' \in [Process -> SUBSET Target] BY TouchTypes DEF ClearStaging
<1>4. StepOK(p)' BY <1>1, EngineStep, NextStepOK
<1>5. "finish" \in Working /\ kept' \in Store BY <1>1 DEF Working, Control, Core, TypeOK
<1> QED BY <1>1, <1>2, <1>3, <1>4, <1>5, EngineStep, GotoCore

-----------------------------------------------------------------------------
(* The sweep, the end of an operation, owners and faults. *)

LEMMA SweepTargetCore ==
  ASSUME Core, NEW p \in Process, NEW t \in todo[p], SweepTarget(p, t)
  PROVE  Core'
<1> DEFINE left == todo[p] \ {t}
<1>1. pc[p] = "sweep" /\ pc[p] \in Working /\ "sweep" \in Working
  BY DEF SweepTarget, Working, Control
<1>2. /\ t \in {"blob", "manifest", "journal", "staging"} \X Rep
      /\ \A u \in todo[p] : u[1] \in {"blob", "manifest"} => cache.catalog[u[2]] = Absent
      /\ lease = p /\ PlanOK(plan[p]) /\ todo[p] \in SUBSET (Target \cup Refusal)
      /\ todo[p] \subseteq {"blob", "manifest", "journal", "staging"} \X Rep
  BY <1>1 DEF Core, StepOK, TypeOK
<1>3. Goto(p, "sweep", left) /\ cache'.catalog = cache.catalog => StepOK(p)'
  <2> SUFFICES ASSUME Goto(p, "sweep", left), cache'.catalog = cache.catalog
               PROVE  StepOK(p)'
    OBVIOUS
  <2>1. pc'[p] = "sweep" /\ todo'[p] = left /\ plan' = plan /\ lease' = lease
    BY DEF Goto, Core, TypeOK
  <2> QED BY <1>2, <2>1 DEF StepOK
<1>4. CASE Write(p, t[1], t[2], Absent, "sweep", left)
  <2>1. Fits(t[1], t[2], Absent) BY <1>2 DEF Fits
  <2>2. cache'.catalog = cache.catalog BY <1>2, <1>4 DEF Write, Core, TypeOK, Store
  <2> QED BY <1>1, <1>2, <1>3, <1>4, <2>1, <2>2, WriteCore
<1>5. CASE Skip(p, "sweep", left)
  <2>1. Goto(p, "sweep", left) /\ cache'.catalog = cache.catalog BY <1>5 DEF Skip
  <2> QED BY <1>1, <1>2, <1>3, <1>5, <2>1, SkipCore
<1> QED BY <1>4, <1>5 DEF SweepTarget

LEMMA EndSweepCore ==
  ASSUME Core, NEW p \in Process, EndSweep(p)
  PROVE  Core'
<1>1. pc[p] = "sweep" /\ Skip(p, "finish", {}) /\ Goto(p, "finish", {}) BY DEF EndSweep, Skip
<1>2. pc[p] \in Working /\ "finish" \in Working BY <1>1 DEF Working, Control
<1>3. lease = p /\ PlanOK(plan[p]) BY <1>1, <1>2 DEF Core, StepOK
<1>4. StepOK(p)' BY <1>1, <1>3 DEF StepOK, Goto, Core, TypeOK
<1> QED BY <1>1, <1>2, <1>4, SkipCore

LEMMA OwnerWriteCore ==
  ASSUME Core, NEW m \in Member, NEW c \in Content, OwnerWrite(m, c)
  PROVE  Core'
<1>1. cache' \in Store /\ kept' \in Store /\ cache'.catalog = cache.catalog
  BY DEF OwnerWrite, Core, TypeOK, Store, Bytes
<1>2. moved' \in [Process -> SUBSET Target] BY TouchTypes DEF OwnerWrite
<1>3. TypeOK' BY <1>1, <1>2 DEF OwnerWrite, Core, TypeOK
<1> QED BY <1>1, <1>3 DEF OwnerWrite, Core, StepOK

LEMMA CrashCore ==
  ASSUME Core, NEW p \in Process, Crash(p)
  PROVE  Core'
<1>1. Leave(p) /\ kept' = kept /\ truth' = truth BY DEF Crash
<1>2. CASE cache' = cache /\ moved' = moved BY <1>1, <1>2, LeaveCore DEF Core, TypeOK
<1>3. CASE /\ pc[p] = "install" /\ cache' = [cache EXCEPT !.staging[plan[p].rep] = Absent]
           /\ Touch(<<"staging", plan[p].rep>>)
  <2>1. cache' \in Store /\ cache'.catalog = cache.catalog BY <1>3, EngineStep, StagingStore
  <2>2. moved' \in [Process -> SUBSET Target] BY <1>3, TouchTypes
  <2> QED BY <1>1, <2>1, <2>2, LeaveCore DEF Core, TypeOK
<1> QED BY <1>2, <1>3 DEF Crash

LEMMA PowerLossCore ==
  ASSUME Core, PowerLoss
  PROVE  Core'
<1>1. PICK lost \in SUBSET Unsynced :
        cache' = [hot      |-> After("hot", lost),
                  blob     |-> After("blob", lost),
                  manifest |-> After("manifest", lost),
                  catalog  |-> After("catalog", lost),
                  journal  |-> After("journal", lost),
                  staging  |-> After("staging", lost)]
  BY DEF PowerLoss
<1>2. cache \in Store /\ kept \in Store BY DEF Core, TypeOK
<1>3. /\ After("hot", lost) \in [Member -> Bytes \cup {Absent}]
      /\ After("blob", lost) \in [Rep -> Blob \cup {Absent}]
      /\ After("manifest", lost) \in [Rep -> Blob \cup {Absent}]
      /\ After("catalog", lost) \in [Rep -> Entry \cup {Absent}]
      /\ After("journal", lost) \in [Rep -> {"staging", "terminal", Absent}]
      /\ After("staging", lost) \in [Rep -> {"staged", Absent}]
  BY <1>2 DEF After, Store
<1>4. cache' \in Store BY <1>1, <1>3 DEF Store
<1>5. TypeOK' BY <1>4 DEF PowerLoss, Core, TypeOK, Control
<1>6. \A p \in Process : pc'[p] = "idle" BY DEF PowerLoss
<1> QED BY <1>5, <1>6 DEF Core, StepOK, Working

LEMMA RotCore ==
  ASSUME Core, NEW r \in Rep, Rot(r)
  PROVE  Core'
<1> DEFINE rotten == [cache.blob[r] EXCEPT !.bytes = [m \in DOMAIN @ |-> Torn]]
<1>1. cache.blob[r] \in Blob BY DEF Rot, Core, TypeOK, Store
<1>2. PICK b \in Rep : cache.blob[r].bytes = b BY <1>1 DEF Blob
<1>3. [m \in DOMAIN b |-> Torn] \in Rep
  <2>1. PICK S \in (SUBSET Member) \ {{}} : b \in [S -> Bytes] BY <1>2 DEF Rep
  <2>2. [m \in DOMAIN b |-> Torn] \in [S -> Bytes] BY <2>1 DEF Bytes
  <2> QED BY <2>1, <2>2 DEF Rep
<1>4. rotten \in Blob BY <1>1, <1>2, <1>3 DEF Blob
<1>5. cache' = [cache EXCEPT !.blob[r] = rotten] /\ kept' = [kept EXCEPT !.blob[r] = rotten]
  BY DEF Rot
<1> HIDE DEF rotten
<1>6. cache' \in Store /\ kept' \in Store /\ cache'.catalog = cache.catalog
  BY <1>4, <1>5 DEF Core, TypeOK, Store
<1>7. moved' \in [Process -> SUBSET Target] BY TouchTypes DEF Rot
<1>8. TypeOK' BY <1>6, <1>7 DEF Rot, Core, TypeOK
<1> QED BY <1>6, <1>8 DEF Rot, Core, StepOK

-----------------------------------------------------------------------------
LEMMA InitCore == Init => Core
<1> SUFFICES ASSUME Init PROVE Core
  OBVIOUS
<1>1. EmptyStore \in Store BY DEF Init, EmptyStore, Store, Bytes
<1>2. TypeOK BY <1>1 DEF Init, TypeOK, Control
<1> QED BY <1>2 DEF Init, Core, StepOK, Working

LEMMA StepCore == Core /\ [Next]_vars => Core'
<1> SUFFICES ASSUME Core, [Next]_vars PROVE Core'
  OBVIOUS
<1>1. ASSUME NEW p \in Process, Request(p) PROVE Core'
  BY <1>1, PlanArchiveCore, PlanReclaimCore, PlanRestoreCore, PlanSweepCore DEF Request
<1>2. ASSUME NEW p \in Process, Engine(p) PROVE Core'
  <2>1. CASE AcquireLease(p) \/ LeaseTimeout(p) \/ Begin(p)
    BY <2>1, AcquireLeaseCore, RefuseCore, BeginCore DEF LeaseTimeout
  <2>2. CASE PublishBlob(p) \/ PublishManifest(p) \/ PublishCatalog(p) \/ PublishStatus(p)
    BY <2>2, PublishBlobCore, PublishManifestCore, PublishCatalogCore, PublishStatusCore
  <2>3. CASE \E m \in Member : ReclaimMember(p, m) \/ InstallMember(p, m)
    BY <2>3, ReclaimMemberCore, InstallMemberCore
  <2>4. CASE OpenJournal(p) \/ StageMembers(p) \/ CloseJournal(p) \/ ClearStaging(p)
    BY <2>4, OpenJournalCore, StageMembersCore, CloseJournalCore, ClearStagingCore
  <2>5. CASE (\E t \in todo[p] : SweepTarget(p, t)) \/ EndSweep(p) \/ Finish(p)
    BY <2>5, SweepTargetCore, EndSweepCore, RefuseCore DEF Finish
  <2> QED BY <1>2, <2>1, <2>2, <2>3, <2>4, <2>5 DEF Engine
<1>3. CASE Environment
  BY <1>3, OwnerWriteCore, CrashCore, PowerLossCore, RotCore DEF Environment
<1>4. CASE UNCHANGED vars BY <1>4 DEF vars, Core, TypeOK, StepOK
<1> QED BY <1>1, <1>2, <1>3, <1>4 DEF Next

(* Every file, plan and program counter keeps its type, whatever faults are *)
(* admitted.                                                               *)
THEOREM TypeCorrect == Spec => []TypeOK
<1>1. Core => TypeOK BY DEF Core
<1> QED BY <1>1, InitCore, StepCore, PTL DEF Spec
-----------------------------------------------------------------------------
(* What each operation still relies on, whatever faults are admitted. *)

(* An archive plans every member that it found hot, a sweep retires only    *)
(* journals that it found terminal.                                        *)
PlanCovers(pl) ==
  /\ pl.op \in {"archive", "archive_keep_hot"} => pl.targets = {"hot"} \X DOMAIN pl.rep
  /\ pl.op = "sweep" => \A r \in Rep : <<"journal", r>> \in pl.targets => r \in pl.views.terminal

(* The blob of r was built from what is hot now. *)
HoldsHot(r) ==
  /\ cache.blob[r] # Absent
  /\ DOMAIN cache.blob[r].bytes = DOMAIN r
  /\ \A m \in DOMAIN r : cache.hot[m] = cache.blob[r].bytes[m]

(* A member of an archive is gone, still to be reached, or was refused. *)
Accounted(p, m) ==
  cache.hot[m] = Absent \/ <<"hot", m>> \in todo[p] \/ <<"refused", m>> \in todo[p]

(* The archive under construction holds what is hot, the one being         *)
(* consumed authenticates, a restore has its journal open and its members  *)
(* staged, and a sweep has only terminal journals left to remove.          *)
Grounded(p) ==
  /\ pc[p] # "idle" => PlanCovers(plan[p])
  /\ pc[p] \in {"blob", "manifest", "catalog"} =>
       /\ plan[p].op \in {"archive", "archive_keep_hot"}
       /\ plan[p].op = "archive" => todo[p] = {"hot"} \X DOMAIN plan[p].rep
  /\ pc[p] \in {"manifest", "catalog"} => HoldsHot(plan[p].rep)
  /\ pc[p] = "evict" =>
       /\ Authentic(cache, plan[p].rep)
       /\ plan[p].op = "archive" => \A m \in DOMAIN plan[p].rep : Accounted(p, m)
  /\ pc[p] \in {"stage", "install"} => cache.journal[plan[p].rep] = "staging"
  /\ pc[p] = "install" => cache.staging[plan[p].rep] # Absent
  /\ pc[p] = "sweep" =>
       \A r \in Rep : <<"journal", r>> \in todo[p] => cache.journal[r] # "staging"

Orderly == Core /\ \A p \in Process : Grounded(p)

(* A process that leaves disturbs no process that stays. *)
LEMMA LeaveGrounded ==
  ASSUME Orderly, Core', NEW p \in Process, Leave(p), cache' = cache \/ pc[p] \in Working
  PROVE  Orderly'
<1>1. ASSUME NEW q \in Process PROVE Grounded(q)'
  <2>1. CASE q = p BY <2>1, LeaveTypes DEF Orderly, Grounded
  <2>2. CASE q # p /\ pc[q] \in {"idle", "waiting"}
    BY <2>2, LeaveTypes DEF Orderly, Grounded
  <2>3. CASE q # p /\ pc[q] \in Working
    <3>1. cache' = cache BY <2>3, OthersWait DEF Orderly, Working
    <3> QED BY <2>3, <3>1, LeaveTypes DEF Orderly, Grounded, HoldsHot, Accounted
  <2> QED BY <2>1, <2>2, <2>3 DEF Working, Orderly, Core, TypeOK
<1> QED BY <1>1 DEF Orderly

(* A working process moves on: only its own part is to be shown. *)
LEMMA GotoGrounded ==
  ASSUME Orderly, Core', NEW p \in Process, pc[p] \in Working, NEW next, NEW left,
         Goto(p, next, left), Grounded(p)'
  PROVE  Orderly'
<1>1. ASSUME NEW q \in Process, q # p PROVE Grounded(q)'
  <2>1. pc'[q] = pc[q] /\ plan'[q] = plan[q] /\ pc[q] \in {"idle", "waiting"}
    BY <1>1, OthersWait DEF Orderly, Core, TypeOK, Goto
  <2> QED BY <1>1, <2>1 DEF Orderly, Grounded
<1> QED BY <1>1 DEF Orderly

LEMMA WriteGrounded ==
  ASSUME Orderly, Core', NEW p \in Process, pc[p] \in Working, NEW kind, NEW x, NEW v,
         NEW next, NEW left, Write(p, kind, x, v, next, left),
         Goto(p, next, left) => Grounded(p)'
  PROVE  Orderly'
<1>1. CASE Goto(p, next, left) BY <1>1, GotoGrounded
<1>2. CASE Leave(p) BY <1>2, LeaveGrounded
<1> QED BY <1>1, <1>2 DEF Write

(* What a process that moves on knows of itself. *)
LEMMA AfterGoto ==
  ASSUME Core, NEW p \in Process, NEW next, NEW left, Goto(p, next, left)
  PROVE  /\ pc'[p] = next /\ todo'[p] = left /\ plan'[p] = plan[p] /\ lease' = lease
BY DEF Goto, Core, TypeOK

LEMMA RefuseGrounded ==
  ASSUME Orderly, Core', NEW p \in Process, Refuse(p)
  PROVE  Orderly'
BY LeaveGrounded DEF Refuse

(* A plan is bound by an idle process, and no file changes. *)
LEMMA BindGrounded ==
  ASSUME Orderly, Core', NEW p \in Process, NEW op, NEW r, NEW authority, NEW targets,
         Bind(p, op, r, authority, targets),
         op \in {"archive", "archive_keep_hot"} => targets = {"hot"} \X DOMAIN r,
         op = "sweep" => \A s \in Rep : <<"journal", s>> \in targets => s \in TerminalJournals
  PROVE  Orderly'
<1> DEFINE bound == [op |-> op, rep |-> r, authority |-> authority, targets |-> targets,
                     absent |-> {t \in targets : cache[t[1]][t[2]] = Absent},
                     views |-> CurrentViews]
<1>1. PlanCovers(bound) BY DEF PlanCovers, CurrentViews
<1>2. /\ plan' = [plan EXCEPT ![p] = bound] /\ pc' = [pc EXCEPT ![p] = "waiting"]
      /\ UNCHANGED <<cache, todo>>
  BY DEF Bind
<1> HIDE DEF bound
<1>3. ASSUME NEW q \in Process PROVE Grounded(q)'
  <2>1. CASE q = p BY <1>1, <1>2, <2>1 DEF Orderly, Core, TypeOK, Grounded
  <2>2. CASE q # p
    <3>1. pc'[q] = pc[q] /\ plan'[q] = plan[q] /\ todo'[q] = todo[q] /\ cache' = cache
      BY <1>2, <2>2 DEF Orderly, Core, TypeOK
    <3> QED BY <3>1 DEF Orderly, Grounded, HoldsHot, Accounted
  <2> QED BY <2>1, <2>2
<1> QED BY <1>3 DEF Orderly

LEMMA RequestGrounded ==
  ASSUME Orderly, Core', NEW p \in Process, Request(p)
  PROVE  Orderly'
<1>1. ASSUME NEW op \in Op, PlanArchive(p, op) PROVE Orderly'
  <2> DEFINE present == {m \in Member : cache.hot[m] # Absent}
             r == [m \in present |-> cache.hot[m]]
  <2>1. Bind(p, op, r, Absent, {"hot"} \X present) /\ op # "sweep" BY <1>1 DEF PlanArchive
  <2>2. DOMAIN r = present OBVIOUS
  <2> HIDE DEF present, r
  <2> QED BY <2>1, <2>2, BindGrounded
<1>2. ASSUME NEW r \in Rep, PlanReclaim(p, r) PROVE Orderly'
  BY <1>2, BindGrounded DEF PlanReclaim
<1>3. ASSUME NEW r \in Rep, PlanRestore(p, r) PROVE Orderly'
  BY <1>3, BindGrounded DEF PlanRestore
<1>4. ASSUME PlanSweep(p) PROVE Orderly'
  <2>1. PICK retire \in SUBSET TerminalJournals :
          Bind(p, "sweep", Absent, Absent,
               Residue \cup ({"staging"} \X (Staged \ OpenJournals)) \cup ({"journal"} \X retire))
    BY <1>4 DEF PlanSweep
  <2> DEFINE targets == Residue \cup ({"staging"} \X (Staged \ OpenJournals))
                                \cup ({"journal"} \X retire)
  <2>2. \A s \in Rep : <<"journal", s>> \in targets => s \in TerminalJournals
    BY DEF Residue
  <2> HIDE DEF targets
  <2>3. Bind(p, "sweep", Absent, Absent, targets) BY <2>1 DEF targets
  <2> QED BY <2>2, <2>3, BindGrounded
<1> QED BY <1>1, <1>2, <1>3, <1>4 DEF Request

LEMMA AcquireLeaseGrounded ==
  ASSUME Orderly, Core', NEW p \in Process, AcquireLease(p)
  PROVE  Orderly'
<1>1. ASSUME NEW q \in Process PROVE Grounded(q)'
  <2>1. CASE q = p BY <2>1 DEF AcquireLease, Orderly, Core, TypeOK, Grounded
  <2>2. CASE q # p
    <3>1. pc'[q] = pc[q] /\ plan'[q] = plan[q] /\ todo'[q] = todo[q] /\ cache' = cache
      BY <2>2 DEF AcquireLease, Orderly, Core, TypeOK
    <3> QED BY <3>1 DEF Orderly, Grounded, HoldsHot, Accounted
  <2> QED BY <2>1, <2>2
<1> QED BY <1>1 DEF Orderly

LEMMA BeginGrounded ==
  ASSUME Orderly, Core', NEW p \in Process, Begin(p)
  PROVE  Orderly'
<1>1. CASE Refuse(p) BY <1>1, RefuseGrounded
<1>2. CASE /\ PlanHolds(p) /\ Admitted(p)
           /\ Skip(p, FirstStep(p), IF plan[p].op = "archive_keep_hot" THEN {} ELSE plan[p].targets)
  <2> DEFINE left == IF plan[p].op = "archive_keep_hot" THEN {} ELSE plan[p].targets
  <2>1. pc[p] = "begin" /\ pc[p] \in Working BY DEF Begin, Working, Control
  <2>2. PlanOK(plan[p]) /\ PlanCovers(plan[p])
    BY <2>1 DEF Orderly, Core, StepOK, Grounded
  <2>3. Goto(p, FirstStep(p), left) /\ cache' = cache BY <1>2 DEF Skip
  <2>4. pc'[p] = FirstStep(p) /\ todo'[p] = left /\ plan'[p] = plan[p]
    BY <2>3, AfterGoto DEF Orderly
  <2>5. Grounded(p)'
    <3>1. CASE plan[p].op \in {"archive", "archive_keep_hot"} /\ cache.catalog[plan[p].rep] = Absent
      BY <2>2, <2>4, <3>1 DEF FirstStep, Grounded, PlanCovers
    <3>2. CASE plan[p].op \in {"archive", "archive_keep_hot"} /\ cache.catalog[plan[p].rep] # Absent
      <4>1. Authentic(cache, plan[p].rep) BY <1>2, <3>2 DEF Admitted
      <4>2. FirstStep(p) = "evict" BY <3>2 DEF FirstStep
      <4>3. plan[p].op = "archive" => \A m \in DOMAIN plan[p].rep : <<"hot", m>> \in left
        BY <2>2 DEF PlanCovers
      <4> QED BY <2>2, <2>3, <2>4, <4>1, <4>2, <4>3 DEF Grounded, Accounted
    <3>3. CASE plan[p].op = "reclaim"
      <4>1. Authentic(cache, plan[p].rep) BY <1>2, <3>3 DEF Admitted, Reauthentic
      <4> QED BY <2>2, <2>3, <2>4, <3>3, <4>1 DEF FirstStep, Grounded
    <3>4. CASE plan[p].op = "restore"
      BY <2>2, <2>4, <3>4 DEF FirstStep, Grounded
    <3>5. CASE plan[p].op = "sweep"
      <4>1. FirstStep(p) = "sweep" /\ left = plan[p].targets BY <3>5 DEF FirstStep
      <4>2. plan[p].views.terminal = TerminalJournals BY <1>2 DEF PlanHolds, CurrentViews
      <4>3. \A r \in Rep : <<"journal", r>> \in left => cache.journal[r] = "terminal"
        BY <2>2, <3>5, <4>1, <4>2 DEF PlanCovers, TerminalJournals
      <4> HIDE DEF left
      <4> QED BY <2>2, <2>3, <2>4, <4>1, <4>3 DEF Grounded
    <3> QED BY <2>2, <3>1, <3>2, <3>3, <3>4, <3>5 DEF PlanOK, Plan, Op
  <2> QED BY <2>1, <2>3, <2>5, GotoGrounded
<1> QED BY <1>1, <1>2 DEF Begin

LEMMA PublishBlobGrounded ==
  ASSUME Orderly, Core', NEW p \in Process, PublishBlob(p)
  PROVE  Orderly'
<1> DEFINE r == plan[p].rep
<1>1. CASE Refuse(p) BY <1>1, RefuseGrounded
<1>2. ASSUME \A m \in DOMAIN r : cache.hot[m] # Absent, NEW s \in Stamp,
             Write(p, "blob", r, [bytes |-> [m \in DOMAIN r |-> cache.hot[m]], stamp |-> s],
                   "manifest", todo[p])
      PROVE  Orderly'
  <2> DEFINE v == [bytes |-> [m \in DOMAIN r |-> cache.hot[m]], stamp |-> s]
  <2>1. pc[p] = "blob" /\ Core BY DEF PublishBlob, Orderly
  <2>2. pc[p] \in Working /\ r \in Rep /\ cache \in Store BY <2>1, EngineStep
  <2>3. cache' = [cache EXCEPT !.blob[r] = v] BY <1>2 DEF Write
  <2>4. v \in Blob
    <3>1. DOMAIN r # {} /\ DOMAIN r \in SUBSET Member BY <2>1, EngineStep DEF Rep
    <3>2. [m \in DOMAIN r |-> cache.hot[m]] \in Rep BY <1>2, <2>2, <3>1, HotIsRep
    <3> QED BY <3>2 DEF Blob
  <2>5. v.bytes = [m \in DOMAIN r |-> cache.hot[m]] OBVIOUS
  <2> HIDE DEF v
  <2>6. cache'.blob[r] = v /\ cache'.hot = cache.hot BY <2>2, <2>3 DEF Store
  <2>7. ASSUME Goto(p, "manifest", todo[p]) PROVE Grounded(p)'
    <3>1. pc'[p] = "manifest" /\ todo'[p] = todo[p] /\ plan'[p] = plan[p]
      BY <2>1, <2>7, AfterGoto
    <3>2. HoldsHot(r)' BY <2>4, <2>5, <2>6, <3>1, ConstantAssumption DEF HoldsHot
    <3> QED BY <2>1, <3>1, <3>2 DEF Orderly, Grounded
  <2> QED BY <1>2, <2>2, <2>7, WriteGrounded DEF v
<1> QED BY <1>1, <1>2 DEF PublishBlob

LEMMA PublishManifestGrounded ==
  ASSUME Orderly, Core', NEW p \in Process, PublishManifest(p)
  PROVE  Orderly'
<1> DEFINE r == plan[p].rep
<1>1. pc[p] = "manifest" /\ Core /\ Write(p, "manifest", r, cache.blob[r], "catalog", todo[p])
  BY DEF PublishManifest, Orderly
<1>2. pc[p] \in Working /\ cache \in Store BY <1>1, EngineStep
<1>3. cache'.blob = cache.blob /\ cache'.hot = cache.hot BY <1>1, <1>2 DEF Write, Store
<1>4. ASSUME Goto(p, "catalog", todo[p]) PROVE Grounded(p)'
  <2>1. pc'[p] = "catalog" /\ todo'[p] = todo[p] /\ plan'[p] = plan[p]
    BY <1>1, <1>4, AfterGoto
  <2>2. HoldsHot(r) BY <1>1 DEF Orderly, Grounded
  <2>3. HoldsHot(r)' BY <1>3, <2>1, <2>2 DEF HoldsHot
  <2> QED BY <1>1, <2>1, <2>3 DEF Orderly, Grounded
<1> QED BY <1>1, <1>2, <1>4, WriteGrounded

LEMMA PublishCatalogGrounded ==
  ASSUME Orderly, Core', NEW p \in Process, PublishCatalog(p)
  PROVE  Orderly'
<1> DEFINE r == plan[p].rep
           v == [blob |-> cache.manifest[r],
                 reclamation |-> IF plan[p].op = "archive" THEN "pending" ELSE "not_requested"]
<1>1. CASE Refuse(p) BY <1>1, RefuseGrounded
<1>2. CASE BlobMatchesManifest(cache, r) /\ Write(p, "catalog", r, v, "evict", todo[p])
  <2>1. pc[p] = "catalog" /\ Core BY DEF PublishCatalog, Orderly
  <2>2. pc[p] \in Working /\ r \in Rep /\ cache \in Store BY <2>1, EngineStep
  <2>3. v # Absent
    <3>1. cache.manifest[r] \in Blob BY <1>2, <2>2 DEF BlobMatchesManifest, Store
    <3>2. v \in Entry BY <3>1 DEF Entry, Reclamation
    <3> QED BY <3>2, ConstantAssumption
  <2> HIDE DEF v
  <2>4. /\ cache'.catalog[r] = v /\ cache'.blob = cache.blob /\ cache'.manifest = cache.manifest
        /\ cache'.hot = cache.hot
    BY <1>2, <2>2 DEF Write, Store
  <2>5. ASSUME Goto(p, "evict", todo[p]) PROVE Grounded(p)'
    <3>1. pc'[p] = "evict" /\ todo'[p] = todo[p] /\ plan'[p] = plan[p]
      BY <2>1, <2>5, AfterGoto
    <3>2. Authentic(cache', r) BY <1>2, <2>3, <2>4 DEF Authentic, BlobMatchesManifest
    <3>3. plan[p].op = "archive" => \A m \in DOMAIN r : <<"hot", m>> \in todo[p]
      BY <2>1 DEF Orderly, Grounded
    <3> QED BY <2>1, <3>1, <3>2, <3>3 DEF Orderly, Grounded, Accounted
  <2> QED BY <1>2, <2>2, <2>5, WriteGrounded
<1> QED BY <1>1, <1>2 DEF PublishCatalog

(* The member is gone, was gone, or is accounted for as refused. *)
LEMMA ReclaimMemberGrounded ==
  ASSUME Orderly, Core', NEW p \in Process, NEW m \in Member, ReclaimMember(p, m)
  PROVE  Orderly'
<1> DEFINE left == todo[p] \ {<<"hot", m>>}
           r == plan[p].rep
<1>1. pc[p] = "evict" /\ Core BY DEF ReclaimMember, Orderly
<1>2. pc[p] \in Working /\ r \in Rep /\ cache \in Store BY <1>1, EngineStep
<1>3. Authentic(cache, r) /\ PlanCovers(plan[p])
      /\ (plan[p].op = "archive" => \A n \in DOMAIN r : Accounted(p, n))
  BY <1>1 DEF Orderly, Grounded
<1>4. ASSUME NEW after, Goto(p, "evict", after), left \subseteq after,
             cache'.blob = cache.blob, cache'.manifest = cache.manifest,
             cache'.catalog = cache.catalog,
             \A n \in Member \ {m} : cache'.hot[n] = cache.hot[n],
             cache'.hot[m] = Absent \/ <<"refused", m>> \in after
      PROVE  Grounded(p)'
  <2>1. pc'[p] = "evict" /\ todo'[p] = after /\ plan'[p] = plan[p]
    BY <1>1, <1>4, AfterGoto
  <2>2. Authentic(cache', r) BY <1>3, <1>4 DEF Authentic, BlobMatchesManifest
  <2>3. DOMAIN r \subseteq Member BY <1>2 DEF Rep
  <2>4. ASSUME plan[p].op = "archive", NEW n \in DOMAIN r PROVE Accounted(p, n)'
    BY <1>3, <1>4, <2>1, <2>3, <2>4 DEF Accounted
  <2> QED BY <1>3, <2>1, <2>2, <2>4 DEF Grounded
<1>5. CASE cache.hot[m] = Absent /\ Skip(p, "evict", left)
  <2>1. Goto(p, "evict", left) /\ cache' = cache BY <1>5 DEF Skip
  <2> QED BY <1>2, <1>4, <1>5, <2>1, GotoGrounded
<1>6. CASE Write(p, "hot", m, Absent, "evict", left)
  <2>1. cache' = [cache EXCEPT !.hot[m] = Absent] BY <1>6 DEF Write
  <2>2. /\ cache'.blob = cache.blob /\ cache'.manifest = cache.manifest
        /\ cache'.catalog = cache.catalog /\ cache'.hot[m] = Absent
        /\ \A n \in Member \ {m} : cache'.hot[n] = cache.hot[n]
    BY <1>2, <2>1 DEF Store
  <2> QED BY <1>2, <1>4, <1>6, <2>2, WriteGrounded
<1>7. CASE Skip(p, "evict", left \cup {<<"refused", m>>})
  <2>1. Goto(p, "evict", left \cup {<<"refused", m>>}) /\ cache' = cache BY <1>7 DEF Skip
  <2>2. <<"refused", m>> \in left \cup {<<"refused", m>>} OBVIOUS
  <2> QED BY <1>2, <1>4, <2>1, <2>2, GotoGrounded
<1> QED BY <1>5, <1>6, <1>7 DEF ReclaimMember

(* A step that ends the part of an operation that relies on anything. *)
LEMMA EndingGrounded ==
  ASSUME Orderly, Core', NEW p \in Process, pc[p] \in Working,
         NEW next \in {"unstage", "finish"}, NEW left, Goto(p, next, left)
  PROVE  Orderly'
<1>1. pc'[p] = next /\ plan'[p] = plan[p] BY AfterGoto DEF Orderly
<1>2. PlanCovers(plan[p]) BY DEF Orderly, Grounded, Working
<1>3. Grounded(p)' BY <1>1, <1>2 DEF Grounded
<1> QED BY <1>3, GotoGrounded

LEMMA PublishStatusGrounded ==
  ASSUME Orderly, Core', NEW p \in Process, PublishStatus(p)
  PROVE  Orderly'
<1>1. pc[p] \in Working BY DEF PublishStatus, Working, Control
<1> QED BY <1>1, EndingGrounded, LeaveGrounded DEF PublishStatus, Write

LEMMA OpenJournalGrounded ==
  ASSUME Orderly, Core', NEW p \in Process, OpenJournal(p)
  PROVE  Orderly'
<1> DEFINE r == plan[p].rep
<1>1. pc[p] = "journal" /\ Core /\ Write(p, "journal", r, "staging", "stage", todo[p])
  BY DEF OpenJournal, Orderly
<1>2. pc[p] \in Working /\ r \in Rep /\ cache \in Store BY <1>1, EngineStep
<1>3. cache'.journal[r] = "staging" BY <1>1, <1>2 DEF Write, Store
<1>4. ASSUME Goto(p, "stage", todo[p]) PROVE Grounded(p)'
  <2>1. pc'[p] = "stage" /\ plan'[p] = plan[p] BY <1>1, <1>4, AfterGoto
  <2> QED BY <1>1, <1>3, <2>1 DEF Orderly, Grounded
<1> QED BY <1>1, <1>2, <1>4, WriteGrounded

LEMMA StageMembersGrounded ==
  ASSUME Orderly, Core', NEW p \in Process, StageMembers(p)
  PROVE  Orderly'
<1> DEFINE r == plan[p].rep
<1>1. /\ pc[p] = "stage" /\ Core /\ cache' = [cache EXCEPT !.staging[r] = "staged"]
      /\ Goto(p, "install", todo[p])
  BY DEF StageMembers, Orderly
<1>2. pc[p] \in Working /\ r \in Rep /\ cache \in Store BY <1>1, EngineStep
<1>3. cache'.staging[r] # Absent /\ cache'.journal = cache.journal
  BY <1>1, <1>2, ConstantAssumption DEF Store
<1>4. pc'[p] = "install" /\ plan'[p] = plan[p] BY <1>1, AfterGoto
<1>5. Grounded(p)' BY <1>1, <1>3, <1>4 DEF Orderly, Grounded
<1> QED BY <1>1, <1>2, <1>5, GotoGrounded

LEMMA InstallMemberGrounded ==
  ASSUME Orderly, Core', NEW p \in Process, NEW m \in Member, InstallMember(p, m)
  PROVE  Orderly'
<1> DEFINE left == todo[p] \ {<<"hot", m>>}
           r == plan[p].rep
<1>1. pc[p] = "install" /\ Core BY DEF InstallMember, Orderly
<1>2. pc[p] \in Working /\ r \in Rep /\ cache \in Store BY <1>1, EngineStep
<1>3. cache'.journal = cache.journal /\ cache'.staging = cache.staging
  BY <1>2 DEF InstallMember, Skip, Store
<1>4. CASE Goto(p, "install", left)
  <2>1. pc'[p] = "install" /\ plan'[p] = plan[p] BY <1>1, <1>4, AfterGoto
  <2>2. Grounded(p)' BY <1>1, <1>3, <2>1 DEF Orderly, Grounded
  <2> QED BY <1>2, <1>4, <2>2, GotoGrounded
<1>5. CASE Leave(p) BY <1>2, <1>5, LeaveGrounded
<1> QED BY <1>4, <1>5 DEF InstallMember, Skip

LEMMA CloseJournalGrounded ==
  ASSUME Orderly, Core', NEW p \in Process, CloseJournal(p)
  PROVE  Orderly'
<1>1. pc[p] \in Working BY DEF CloseJournal, Working, Control
<1> QED BY <1>1, EndingGrounded, LeaveGrounded DEF CloseJournal, Write, Skip

LEMMA ClearStagingGrounded ==
  ASSUME Orderly, Core', NEW p \in Process, ClearStaging(p)
  PROVE  Orderly'
<1>1. pc[p] \in Working BY DEF ClearStaging, Working, Control
<1> QED BY <1>1, EndingGrounded DEF ClearStaging

LEMMA SweepTargetGrounded ==
  ASSUME Orderly, Core', NEW p \in Process, NEW t \in todo[p], SweepTarget(p, t)
  PROVE  Orderly'
<1> DEFINE left == todo[p] \ {t}
<1>1. pc[p] = "sweep" /\ pc[p] \in Working /\ Core BY DEF SweepTarget, Working, Control, Orderly
<1>2. /\ t \in {"blob", "manifest", "journal", "staging"} \X Rep /\ cache \in Store
      /\ PlanCovers(plan[p])
      /\ \A r \in Rep : <<"journal", r>> \in todo[p] => cache.journal[r] # "staging"
  BY <1>1 DEF Core, StepOK, TypeOK, Orderly, Grounded
<1>3. ASSUME Goto(p, "sweep", left),
             \A r \in Rep : cache'.journal[r] \in {cache.journal[r], Absent}
      PROVE  Grounded(p)'
  <2>1. pc'[p] = "sweep" /\ todo'[p] = left /\ plan'[p] = plan[p] BY <1>1, <1>3, AfterGoto
  <2> QED BY <1>2, <1>3, <2>1, ConstantAssumption DEF Grounded
<1>4. CASE Write(p, t[1], t[2], Absent, "sweep", left)
  <2>1. cache' = [cache EXCEPT ![t[1]][t[2]] = Absent] BY <1>4 DEF Write
  <2>2. \A r \in Rep : cache'.journal[r] \in {cache.journal[r], Absent}
    BY <1>2, <2>1 DEF Store
  <2> QED BY <1>1, <1>3, <1>4, <2>2, WriteGrounded
<1>5. CASE Skip(p, "sweep", left)
  <2>1. Goto(p, "sweep", left) /\ cache' = cache BY <1>5 DEF Skip
  <2> QED BY <1>1, <1>3, <2>1, GotoGrounded
<1> QED BY <1>4, <1>5 DEF SweepTarget

(* The owner barrier keeps the writer out while an archive is made, and an *)
(* owner rewrites only what is there.                                      *)
LEMMA OwnerWriteGrounded ==
  ASSUME Orderly, Core', NEW m \in Member, NEW c \in Content, OwnerWrite(m, c)
  PROVE  Orderly'
<1>1. /\ cache \in Store /\ cache' = [cache EXCEPT !.hot[m] = c] /\ cache.hot[m] # Absent
      /\ UNCHANGED <<pc, plan, todo>>
  BY ConstantAssumption DEF OwnerWrite, Orderly, Core, TypeOK, Bytes
<1>2. /\ cache'.blob = cache.blob /\ cache'.manifest = cache.manifest
      /\ cache'.catalog = cache.catalog /\ cache'.journal = cache.journal
      /\ cache'.staging = cache.staging
      /\ \A n \in Member \ {m} : cache'.hot[n] = cache.hot[n]
  BY <1>1 DEF Store
<1>3. ASSUME NEW q \in Process PROVE pc[q] \notin {"manifest", "catalog"}
  <2> SUFFICES ASSUME pc[q] \in {"manifest", "catalog"} PROVE FALSE
    OBVIOUS
  <2>1. lease = q /\ plan[q].rep \in Rep BY EngineStep DEF Orderly
  <2>2. plan[q].targets = {"hot"} \X DOMAIN plan[q].rep
    BY DEF Orderly, Grounded, PlanCovers
  <2>3. PICK n \in Member : n \in DOMAIN plan[q].rep BY <2>1 DEF Rep
  <2>4. Fenced BY <2>1, <2>2, <2>3, ConstantAssumption DEF Fenced
  <2> QED BY <2>4 DEF OwnerWrite
<1>4. ASSUME NEW q \in Process PROVE Grounded(q)'
  <2>1. pc[q] = "evict" => (Authentic(cache, plan[q].rep) => Authentic(cache', plan[q].rep))
    BY <1>2 DEF Authentic, BlobMatchesManifest
  <2>2. ASSUME pc[q] = "evict", NEW n \in DOMAIN plan[q].rep, Accounted(q, n)
        PROVE  Accounted(q, n)'
    <3>1. n \in Member BY <2>2, EngineStep DEF Orderly
    <3> QED BY <1>1, <1>2, <2>2, <3>1 DEF Accounted
  <2> QED BY <1>1, <1>2, <1>3, <2>1, <2>2 DEF Orderly, Grounded
<1> QED BY <1>4 DEF Orderly

LEMMA CrashGrounded ==
  ASSUME Orderly, Core', NEW p \in Process, Crash(p)
  PROVE  Orderly'
BY LeaveGrounded DEF Crash, Working, Control

LEMMA PowerLossGrounded ==
  ASSUME Orderly, Core', PowerLoss
  PROVE  Orderly'
BY DEF PowerLoss, Orderly, Grounded

(* A blob decays only while no operation runs. *)
LEMMA RotGrounded ==
  ASSUME Orderly, Core', NEW r \in Rep, Rot(r)
  PROVE  Orderly'
<1>1. \A q \in Process : pc[q] \in {"idle", "waiting"}
  BY ConstantAssumption DEF Rot, Orderly, Core, TypeOK, StepOK, Working
<1> QED BY <1>1 DEF Rot, Orderly, Grounded

LEMMA InitOrderly == Init => Orderly
BY InitCore DEF Init, Orderly, Grounded

LEMMA StepOrderly == Orderly /\ [Next]_vars => Orderly'
<1> SUFFICES ASSUME Orderly, [Next]_vars PROVE Orderly'
  OBVIOUS
<1>1. Core' BY StepCore DEF Orderly
<1>2. ASSUME NEW p \in Process, Engine(p) PROVE Orderly'
  <2>1. CASE AcquireLease(p) \/ LeaseTimeout(p) \/ Begin(p)
    BY <1>1, <2>1, AcquireLeaseGrounded, RefuseGrounded, BeginGrounded DEF LeaseTimeout
  <2>2. CASE PublishBlob(p) \/ PublishManifest(p) \/ PublishCatalog(p) \/ PublishStatus(p)
    BY <1>1, <2>2, PublishBlobGrounded, PublishManifestGrounded, PublishCatalogGrounded,
       PublishStatusGrounded
  <2>3. CASE \E m \in Member : ReclaimMember(p, m) \/ InstallMember(p, m)
    BY <1>1, <2>3, ReclaimMemberGrounded, InstallMemberGrounded
  <2>4. CASE OpenJournal(p) \/ StageMembers(p) \/ CloseJournal(p) \/ ClearStaging(p)
    BY <1>1, <2>4, OpenJournalGrounded, StageMembersGrounded, CloseJournalGrounded,
       ClearStagingGrounded
  <2>5. CASE \E t \in todo[p] : SweepTarget(p, t) BY <1>1, <2>5, SweepTargetGrounded
  <2>6. CASE EndSweep(p)
    <3>1. pc[p] \in Working BY <2>6 DEF EndSweep, Working, Control
    <3> QED BY <1>1, <2>6, <3>1, EndingGrounded DEF EndSweep, Skip
  <2>7. CASE Finish(p) BY <1>1, <2>7, RefuseGrounded DEF Finish
  <2> QED BY <1>2, <2>1, <2>2, <2>3, <2>4, <2>5, <2>6, <2>7 DEF Engine
<1>3. CASE Environment
  BY <1>1, <1>3, OwnerWriteGrounded, CrashGrounded, PowerLossGrounded, RotGrounded
  DEF Environment
<1>4. CASE UNCHANGED vars
  BY <1>1, <1>4 DEF vars, Orderly, Grounded, HoldsHot, Accounted
<1> QED BY <1>1, <1>2, <1>3, <1>4, RequestGrounded DEF Next

(* A restore that is installing has its journal and its staging tree, under *)
(* every fault.                                                            *)
LEMMA OrderlyInstalls == Orderly => InstallKeepsItsGround
BY DEF Orderly, Grounded, InstallKeepsItsGround

-----------------------------------------------------------------------------
(* What no step does, as long as processes do not die half-way through a   *)
(* publication in the same behaviour that loses power: a name that changed *)
(* in a directory that was never fsynced may then fall back to anything.   *)

OneLoss == ~({"crash", "power"} \subseteq Faults)

(* A power loss finds every journal and every entry on the disk, and the   *)
(* name of every member, though perhaps not its bytes.                     *)
OnDisk == "power" \in Faults =>
  /\ kept.journal = cache.journal /\ kept.catalog = cache.catalog
  /\ \A m \in Member : kept.hot[m] \in {cache.hot[m], Torn}

JournalStays == \A r \in Rep : cache.journal[r] = "staging" => cache'.journal[r] # Absent

ReceiptIsEarned ==
  \A r \in Rep : cache.journal[r] # "terminal" /\ cache'.journal[r] = "terminal" => Installed(r)

CompleteIsEarned ==
  \A r \in Rep :
    /\ cache'.catalog[r] # cache.catalog[r]
    /\ cache'.catalog[r] # Absent
    /\ cache'.catalog[r].reclamation = "complete"
    => StillHot(r) = {}

CopyIsCold ==
  \A m \in Member : cache.hot[m] = truth[m] /\ cache'.hot[m] = Absent => ColdIn(cache', m)

Honest == JournalStays /\ ReceiptIsEarned /\ CompleteIsEarned /\ CopyIsCold

(* A step that touches no journal, no entry and no member. *)
LEMMA QuietStep ==
  ASSUME Orderly, OnDisk, cache'.journal = cache.journal, cache'.catalog = cache.catalog,
         cache'.hot = cache.hot,
         "power" \in Faults =>
           kept'.journal = kept.journal /\ kept'.catalog = kept.catalog /\ kept'.hot = kept.hot
  PROVE  OnDisk' /\ Honest
<1>1. OnDisk' BY DEF OnDisk
<1>2. \A m \in Member : truth[m] # Absent
  BY ConstantAssumption DEF Orderly, Core, TypeOK, Bytes
<1>3. JournalStays /\ CopyIsCold BY <1>2, ConstantAssumption DEF JournalStays, CopyIsCold
<1>4. ReceiptIsEarned /\ CompleteIsEarned BY DEF ReceiptIsEarned, CompleteIsEarned
<1> QED BY <1>1, <1>3, <1>4 DEF Honest

LEMMA QuietWrite ==
  ASSUME Orderly, OnDisk, OneLoss, NEW p \in Process,
         NEW kind \in {"blob", "manifest", "staging"}, NEW r \in Rep, NEW v,
         NEW next, NEW left, Write(p, kind, r, v, next, left)
  PROVE  OnDisk' /\ Honest
<1>1. cache \in Store /\ kept \in Store BY DEF Orderly, Core, TypeOK
<1>2. cache' = [cache EXCEPT ![kind][r] = v] BY DEF Write
<1>3. cache'.journal = cache.journal /\ cache'.catalog = cache.catalog /\ cache'.hot = cache.hot
  BY <1>1, <1>2 DEF Store
<1>4. "power" \in Faults => kept' = Synced(kind, r) BY DEF Write, OneLoss
<1>5. "power" \in Faults =>
        kept'.journal = kept.journal /\ kept'.catalog = kept.catalog /\ kept'.hot = kept.hot
  BY <1>1, <1>4 DEF Synced, Store
<1> QED BY <1>3, <1>5, QuietStep

(* Opening, closing and retiring a journal. *)
LEMMA JournalWrite ==
  ASSUME Orderly, OnDisk, OneLoss, NEW p \in Process, NEW r \in Rep,
         NEW v \in {"staging", "terminal", Absent},
         NEW next, NEW left, Write(p, "journal", r, v, next, left),
         v = "terminal" => Installed(r),
         v = Absent => cache.journal[r] # "staging"
  PROVE  OnDisk' /\ Honest
<1>1. cache \in Store /\ kept \in Store BY DEF Orderly, Core, TypeOK
<1>2. cache' = [cache EXCEPT !["journal"][r] = v] BY DEF Write
<1>3. /\ cache'.journal = [cache.journal EXCEPT ![r] = v]
      /\ cache'.catalog = cache.catalog /\ cache'.hot = cache.hot
  BY <1>1, <1>2 DEF Store
<1>4. "power" \in Faults => kept' = Synced("journal", r) BY DEF Write, OneLoss
<1>5. OnDisk' BY <1>1, <1>3, <1>4 DEF OnDisk, Synced, Store
<1>6. JournalStays /\ ReceiptIsEarned
  BY <1>1, <1>3, ConstantAssumption DEF JournalStays, ReceiptIsEarned, Store
<1>7. CompleteIsEarned BY <1>3 DEF CompleteIsEarned
<1>8. CopyIsCold BY <1>3, ConstantAssumption DEF CopyIsCold, Orderly, Core, TypeOK, Bytes
<1> QED BY <1>5, <1>6, <1>7, <1>8 DEF Honest

LEMMA CatalogWrite ==
  ASSUME Orderly, OnDisk, OneLoss, NEW p \in Process, NEW r \in Rep, NEW v \in Entry,
         NEW next, NEW left, Write(p, "catalog", r, v, next, left),
         v.reclamation = "complete" => StillHot(r) = {}
  PROVE  OnDisk' /\ Honest
<1>1. cache \in Store /\ kept \in Store BY DEF Orderly, Core, TypeOK
<1>2. cache' = [cache EXCEPT !["catalog"][r] = v] BY DEF Write
<1>3. /\ cache'.catalog = [cache.catalog EXCEPT ![r] = v]
      /\ cache'.journal = cache.journal /\ cache'.hot = cache.hot
  BY <1>1, <1>2 DEF Store
<1>4. "power" \in Faults => kept' = Synced("catalog", r) BY DEF Write, OneLoss
<1>5. OnDisk' BY <1>1, <1>3, <1>4 DEF OnDisk, Synced, Store
<1>6. JournalStays /\ ReceiptIsEarned
  BY <1>3, ConstantAssumption DEF JournalStays, ReceiptIsEarned
<1>7. CompleteIsEarned BY <1>1, <1>3 DEF CompleteIsEarned, Store
<1>8. CopyIsCold BY <1>3, ConstantAssumption DEF CopyIsCold, Orderly, Core, TypeOK, Bytes
<1> QED BY <1>5, <1>6, <1>7, <1>8 DEF Honest

(* A step that changes one member, and loses it only to an archive that    *)
(* gives it back.                                                          *)
LEMMA HotStep ==
  ASSUME Orderly, OnDisk, NEW m \in Member,
         cache'.journal = cache.journal, cache'.catalog = cache.catalog,
         \A n \in Member \ {m} : cache'.hot[n] = cache.hot[n],
         "power" \in Faults =>
           /\ kept'.journal = kept.journal /\ kept'.catalog = kept.catalog
           /\ kept'.hot[m] \in {cache'.hot[m], Torn}
           /\ \A n \in Member \ {m} : kept'.hot[n] = kept.hot[n],
         cache.hot[m] = truth[m] /\ cache'.hot[m] = Absent => ColdIn(cache', m)
  PROVE  OnDisk' /\ Honest
<1>1. OnDisk' BY DEF OnDisk
<1>2. JournalStays /\ ReceiptIsEarned /\ CompleteIsEarned
  BY ConstantAssumption DEF JournalStays, ReceiptIsEarned, CompleteIsEarned
<1>3. \A n \in Member : truth[n] # Absent
  BY ConstantAssumption DEF Orderly, Core, TypeOK, Bytes
<1>4. CopyIsCold BY <1>3 DEF CopyIsCold
<1> QED BY <1>1, <1>2, <1>4 DEF Honest

LEMMA PublishHonest ==
  ASSUME Orderly, OnDisk, OneLoss, NEW p \in Process,
         PublishBlob(p) \/ PublishManifest(p) \/ PublishCatalog(p) \/ PublishStatus(p)
  PROVE  OnDisk' /\ Honest
<1> DEFINE r == plan[p].rep
<1>1. /\ pc[p] \in {"blob", "manifest", "catalog", "evict"} /\ r \in Rep /\ cache \in Store
      /\ plan[p].op \in {"archive", "archive_keep_hot", "reclaim"}
  <2>1. pc[p] \in {"blob", "manifest", "catalog", "evict"}
    BY DEF PublishBlob, PublishManifest, PublishCatalog, PublishStatus
  <2> QED BY <2>1, EngineStep DEF Orderly, Core, StepOK, Plan, Op
<1>2. CASE Refuse(p) BY <1>2, QuietStep DEF Refuse
<1>3. CASE PublishBlob(p) BY <1>1, <1>2, <1>3, QuietWrite DEF PublishBlob
<1>4. CASE PublishManifest(p) BY <1>1, <1>4, QuietWrite DEF PublishManifest
<1>5. CASE PublishCatalog(p)
  <2> DEFINE v == [blob |-> cache.manifest[r],
                   reclamation |-> IF plan[p].op = "archive" THEN "pending" ELSE "not_requested"]
  <2>1. CASE BlobMatchesManifest(cache, r) /\ Write(p, "catalog", r, v, "evict", todo[p])
    <3>1. cache.manifest[r] \in Blob BY <1>1, <2>1 DEF BlobMatchesManifest, Store
    <3>2. v \in Entry /\ v.reclamation # "complete" BY <3>1 DEF Entry, Reclamation
    <3> HIDE DEF v
    <3> QED BY <1>1, <2>1, <3>2, CatalogWrite
  <2> QED BY <1>2, <1>5, <2>1 DEF PublishCatalog
<1>6. CASE PublishStatus(p)
  <2> DEFINE v == [cache.catalog[r] EXCEPT !.reclamation = ReclaimStatus(p)]
  <2>1. pc[p] = "evict" /\ todo[p] \subseteq Refusal /\ Write(p, "catalog", r, v, "finish", {})
    BY <1>6 DEF PublishStatus
  <2>2. cache.catalog[r] \in Entry BY <1>1, <2>1 DEF Orderly, Core, StepOK, Store
  <2>3. ReclaimStatus(p) \in Reclamation BY <1>1 DEF ReclaimStatus, Reclamation
  <2>4. v \in Entry /\ v.reclamation = ReclaimStatus(p) BY <2>2, <2>3 DEF Entry
  <2>5. ReclaimStatus(p) = "complete" => StillHot(r) = {}
    <3>1. CASE plan[p].op = "archive"
      <4>1. \A m \in DOMAIN r : Accounted(p, m) BY <2>1, <3>1 DEF Orderly, Grounded
      <4>2. ReclaimStatus(p) = "complete" => todo[p] = {} BY <3>1 DEF ReclaimStatus
      <4> QED BY <4>1, <4>2 DEF Accounted, StillHot
    <3>2. CASE plan[p].op = "reclaim" BY <3>2 DEF ReclaimStatus
    <3>3. CASE plan[p].op = "archive_keep_hot" BY <3>3 DEF ReclaimStatus
    <3> QED BY <1>1, <3>1, <3>2, <3>3
  <2> HIDE DEF v
  <2> QED BY <1>1, <2>1, <2>4, <2>5, CatalogWrite
<1> QED BY <1>3, <1>4, <1>5, <1>6

(* The bytes just compared are those of an archive that authenticates. *)
LEMMA ReclaimHonest ==
  ASSUME Orderly, OnDisk, OneLoss, NEW p \in Process, NEW m \in Member, ReclaimMember(p, m)
  PROVE  OnDisk' /\ Honest
<1> DEFINE left == todo[p] \ {<<"hot", m>>}
           r == plan[p].rep
<1>1. /\ pc[p] = "evict" /\ <<"hot", m>> \in todo[p] /\ r \in Rep
      /\ cache \in Store /\ kept \in Store
      /\ todo[p] \subseteq ({"hot"} \X DOMAIN r) \cup Refusal
  BY EngineStep DEF ReclaimMember, Orderly, Core, TypeOK
<1>2. m \in DOMAIN r BY <1>1 DEF Refusal
<1>3. Authentic(cache, r) BY <1>1 DEF Orderly, Grounded
<1>4. CASE UNCHANGED <<cache, kept>> BY <1>4, QuietStep
<1>5. CASE cache.hot[m] = r[m] /\ Write(p, "hot", m, Absent, "evict", left)
  <2>1. cache' = [cache EXCEPT !["hot"][m] = Absent] BY <1>5 DEF Write
  <2>2. /\ cache'.journal = cache.journal /\ cache'.catalog = cache.catalog
        /\ cache'.blob = cache.blob /\ cache'.manifest = cache.manifest
        /\ cache'.hot[m] = Absent /\ \A n \in Member \ {m} : cache'.hot[n] = cache.hot[n]
    BY <1>1, <2>1 DEF Store
  <2>3. "power" \in Faults => kept' = Synced("hot", m) BY <1>5 DEF Write, OneLoss
  <2>4. "power" \in Faults =>
          /\ kept'.journal = kept.journal /\ kept'.catalog = kept.catalog
          /\ kept'.hot[m] = cache'.hot[m]
          /\ \A n \in Member \ {m} : kept'.hot[n] = kept.hot[n]
    BY <1>1, <2>3 DEF Synced, Store
  <2>5. Authentic(cache', r) BY <1>3, <2>2 DEF Authentic, BlobMatchesManifest
  <2>6. cache.hot[m] = truth[m] => ColdIn(cache', m) BY <1>1, <1>2, <1>5, <2>5 DEF ColdIn
  <2> QED BY <2>2, <2>4, <2>6, HotStep
<1> QED BY <1>4, <1>5 DEF ReclaimMember, Skip

LEMMA InstallHonest ==
  ASSUME Orderly, OnDisk, OneLoss, NEW p \in Process, NEW m \in Member, InstallMember(p, m)
  PROVE  OnDisk' /\ Honest
<1> DEFINE r == plan[p].rep
<1>1. /\ pc[p] = "install" /\ <<"hot", m>> \in todo[p] /\ r \in Rep
      /\ cache \in Store /\ kept \in Store
      /\ todo[p] \subseteq ({"hot"} \X DOMAIN r) \cup Refusal
  BY EngineStep DEF InstallMember, Orderly, Core, TypeOK
<1>2. m \in DOMAIN r /\ r[m] # Absent BY <1>1, ConstantAssumption DEF Refusal, Rep
<1>3. CASE UNCHANGED <<cache, kept>> BY <1>3, QuietStep
<1>4. CASE /\ cache' = [cache EXCEPT !.hot[m] = r[m]]
           /\ \/ kept' = [kept EXCEPT !.hot[m] = Torn]
              \/ "crash" \in Faults /\ kept' = kept
  <2>1. /\ cache'.journal = cache.journal /\ cache'.catalog = cache.catalog
        /\ cache'.hot[m] = r[m] /\ \A n \in Member \ {m} : cache'.hot[n] = cache.hot[n]
    BY <1>1, <1>4 DEF Store
  <2>2. "power" \in Faults => kept' = [kept EXCEPT !.hot[m] = Torn] BY <1>4 DEF OneLoss
  <2>3. "power" \in Faults =>
          /\ kept'.journal = kept.journal /\ kept'.catalog = kept.catalog
          /\ kept'.hot[m] = Torn /\ \A n \in Member \ {m} : kept'.hot[n] = kept.hot[n]
    BY <1>1, <2>2 DEF Store
  <2> QED BY <1>2, <2>1, <2>3, HotStep
<1> QED BY <1>3, <1>4 DEF InstallMember, Skip

LEMMA RestoreHonest ==
  ASSUME Orderly, OnDisk, OneLoss, NEW p \in Process,
         OpenJournal(p) \/ StageMembers(p) \/ CloseJournal(p) \/ ClearStaging(p)
  PROVE  OnDisk' /\ Honest
<1> DEFINE r == plan[p].rep
<1>1. r \in Rep /\ cache \in Store
  BY EngineStep DEF OpenJournal, StageMembers, CloseJournal, ClearStaging, Orderly
<1>2. CASE OpenJournal(p)
  BY <1>1, <1>2, JournalWrite, ConstantAssumption DEF OpenJournal
<1>3. CASE StageMembers(p) \/ ClearStaging(p)
  <2>1. kept' = kept /\ cache'.journal = cache.journal /\ cache'.catalog = cache.catalog
        /\ cache'.hot = cache.hot
    BY <1>1, <1>3 DEF StageMembers, ClearStaging, Store
  <2> QED BY <2>1, QuietStep
<1>4. CASE CloseJournal(p)
  BY <1>1, <1>4, JournalWrite, QuietStep, ConstantAssumption DEF CloseJournal, Skip
<1> QED BY <1>2, <1>3, <1>4

LEMMA SweepHonest ==
  ASSUME Orderly, OnDisk, OneLoss, NEW p \in Process, NEW t \in todo[p], SweepTarget(p, t)
  PROVE  OnDisk' /\ Honest
<1> DEFINE left == todo[p] \ {t}
<1>1. /\ pc[p] = "sweep" /\ t \in {"blob", "manifest", "journal", "staging"} \X Rep
      /\ \A r \in Rep : <<"journal", r>> \in todo[p] => cache.journal[r] # "staging"
  BY DEF SweepTarget, Orderly, Core, StepOK, Grounded
<1>2. CASE Skip(p, "sweep", left) BY <1>2, QuietStep DEF Skip
<1>3. CASE Write(p, t[1], t[2], Absent, "sweep", left)
  <2>1. CASE t[1] \in {"blob", "manifest", "staging"} BY <1>1, <1>3, <2>1, QuietWrite
  <2>2. CASE t[1] = "journal"
    <3>1. t[2] \in Rep /\ t = <<"journal", t[2]>> BY <1>1, <2>2
    <3>2. cache.journal[t[2]] # "staging" BY <1>1, <3>1
    <3>3. Write(p, "journal", t[2], Absent, "sweep", left) BY <1>3, <2>2
    <3> QED BY <3>1, <3>2, <3>3, JournalWrite, ConstantAssumption
  <2> QED BY <1>1, <2>1, <2>2
<1> QED BY <1>2, <1>3 DEF SweepTarget

LEMMA EnvironmentHonest ==
  ASSUME Orderly, OnDisk, OneLoss, Environment
  PROVE  OnDisk' /\ Honest
<1>1. cache \in Store /\ kept \in Store BY DEF Orderly, Core, TypeOK
<1>2. ASSUME NEW m \in Member, NEW c \in Content, OwnerWrite(m, c) PROVE OnDisk' /\ Honest
  <2>1. cache' = [cache EXCEPT !.hot[m] = c] /\ kept' = [kept EXCEPT !.hot[m] = c]
    BY <1>2 DEF OwnerWrite
  <2>2. /\ cache'.journal = cache.journal /\ cache'.catalog = cache.catalog
        /\ kept'.journal = kept.journal /\ kept'.catalog = kept.catalog
        /\ cache'.hot[m] = c /\ kept'.hot[m] = c
        /\ \A n \in Member \ {m} : cache'.hot[n] = cache.hot[n] /\ kept'.hot[n] = kept.hot[n]
    BY <1>1, <2>1 DEF Store
  <2>3. c # Absent BY ConstantAssumption DEF Bytes
  <2> QED BY <2>2, <2>3, HotStep
<1>3. ASSUME NEW p \in Process, Crash(p) PROVE OnDisk' /\ Honest
  <2>1. kept' = kept /\ cache'.journal = cache.journal /\ cache'.catalog = cache.catalog
        /\ cache'.hot = cache.hot
    BY <1>1, <1>3 DEF Crash, Store
  <2> QED BY <2>1, QuietStep
<1>4. ASSUME PowerLoss PROVE OnDisk' /\ Honest
  <2>1. PICK lost \in SUBSET Unsynced :
          cache' = [hot      |-> After("hot", lost),
                    blob     |-> After("blob", lost),
                    manifest |-> After("manifest", lost),
                    catalog  |-> After("catalog", lost),
                    journal  |-> After("journal", lost),
                    staging  |-> After("staging", lost)]
    BY <1>4 DEF PowerLoss
  <2>2. "power" \in Faults /\ kept' = cache' BY <1>4 DEF PowerLoss
  <2>3. kept.journal = cache.journal /\ kept.catalog = cache.catalog
        /\ \A m \in Member : kept.hot[m] \in {cache.hot[m], Torn}
    BY <2>2 DEF OnDisk
  <2>4. /\ \A r \in Rep : cache'.journal[r] = cache.journal[r] /\ cache'.catalog[r] = cache.catalog[r]
        /\ \A m \in Member : cache'.hot[m] \in {cache.hot[m], Torn}
    BY <1>1, <2>1, <2>3 DEF After, Store
  <2>5. OnDisk' BY <2>2 DEF OnDisk
  <2>6. JournalStays /\ ReceiptIsEarned /\ CompleteIsEarned
    BY <2>4, ConstantAssumption DEF JournalStays, ReceiptIsEarned, CompleteIsEarned
  <2>7. CopyIsCold
    BY <2>4, ConstantAssumption DEF CopyIsCold, Orderly, Core, TypeOK, Bytes
  <2> QED BY <2>5, <2>6, <2>7 DEF Honest
<1>5. ASSUME NEW r \in Rep, Rot(r) PROVE OnDisk' /\ Honest
  <2>1. /\ cache'.journal = cache.journal /\ cache'.catalog = cache.catalog
        /\ cache'.hot = cache.hot
        /\ kept'.journal = kept.journal /\ kept'.catalog = kept.catalog /\ kept'.hot = kept.hot
    BY <1>1, <1>5 DEF Rot, Store
  <2> QED BY <2>1, QuietStep
<1> QED BY <1>2, <1>3, <1>4, <1>5 DEF Environment

LEMMA InitOnDisk == Init => OnDisk
BY DEF Init, OnDisk, EmptyStore

LEMMA StepHonest ==
  ASSUME OneLoss, Orderly, OnDisk, [Next]_vars
  PROVE  OnDisk' /\ Honest
<1>1. ASSUME NEW p \in Process, Request(p) PROVE UNCHANGED <<cache, kept>>
  BY <1>1 DEF Request, PlanArchive, PlanReclaim, PlanRestore, PlanSweep, Bind
<1>2. ASSUME NEW p \in Process, Engine(p) PROVE OnDisk' /\ Honest
  <2>1. CASE AcquireLease(p) \/ LeaseTimeout(p) \/ Begin(p) \/ EndSweep(p) \/ Finish(p)
    <3>1. UNCHANGED <<cache, kept>>
      BY <2>1 DEF AcquireLease, LeaseTimeout, Begin, EndSweep, Finish, Refuse, Skip
    <3> QED BY <3>1, QuietStep
  <2>2. CASE PublishBlob(p) \/ PublishManifest(p) \/ PublishCatalog(p) \/ PublishStatus(p)
    BY <2>2, PublishHonest
  <2>3. CASE \E m \in Member : ReclaimMember(p, m) \/ InstallMember(p, m)
    BY <2>3, ReclaimHonest, InstallHonest
  <2>4. CASE OpenJournal(p) \/ StageMembers(p) \/ CloseJournal(p) \/ ClearStaging(p)
    BY <2>4, RestoreHonest
  <2>5. CASE \E t \in todo[p] : SweepTarget(p, t) BY <2>5, SweepHonest
  <2> QED BY <1>2, <2>1, <2>2, <2>3, <2>4, <2>5 DEF Engine
<1>3. CASE UNCHANGED vars BY <1>3, QuietStep DEF vars
<1> QED BY <1>1, <1>2, <1>3, QuietStep, EnvironmentHonest DEF Next

LEMMA OrderlyRun ==
  ASSUME OneLoss
  PROVE  Spec => [](Orderly /\ OnDisk)
<1>1. Init => Orderly /\ OnDisk BY InitOrderly, InitOnDisk
<1>2. (Orderly /\ OnDisk) /\ [Next]_vars => (Orderly /\ OnDisk)' BY StepOrderly, StepHonest
<1> QED BY <1>1, <1>2, PTL DEF Spec

(* Journals that are open stay until they are terminal. *)
THEOREM OpenJournalsStay == OneLoss /\ Spec => OpenJournalKept
<1> SUFFICES ASSUME OneLoss PROVE Spec => OpenJournalKept
  BY DEF OneLoss
<1>1. Orderly /\ OnDisk /\ [Next]_vars => [JournalStays]_vars BY StepHonest DEF Honest
<1> QED BY <1>1, OrderlyRun, PTL DEF Spec, OpenJournalKept, JournalStays

(* A restore installs from complete staging under an open journal, and its *)
(* receipt follows on a complete installation.                             *)
THEOREM RestoresAreOrderly == OneLoss /\ Spec => RestoreIsOrderly
<1> SUFFICES ASSUME OneLoss PROVE Spec => RestoreIsOrderly
  BY DEF OneLoss
<1>1. Orderly /\ OnDisk /\ [Next]_vars => [ReceiptIsEarned]_vars BY StepHonest DEF Honest
<1> QED BY <1>1, OrderlyRun, OrderlyInstalls, PTL
    DEF Spec, RestoreIsOrderly, ReceiptFollowsInstall, ReceiptIsEarned

(* The catalog claims a complete reclamation of cold members only. *)
THEOREM CompleteIsCold == OneLoss /\ Spec => CompleteMeansCold
<1> SUFFICES ASSUME OneLoss PROVE Spec => CompleteMeansCold
  BY DEF OneLoss
<1>1. Orderly /\ OnDisk /\ [Next]_vars => [CompleteIsEarned]_vars BY StepHonest DEF Honest
<1> QED BY <1>1, OrderlyRun, PTL DEF Spec, CompleteMeansCold, CompleteIsEarned

(* Even while blobs decay, the last good copy of a member is never unlinked. *)
THEOREM LastCopyStays == OneLoss /\ Spec => LastCopyNeverReclaimed
<1> SUFFICES ASSUME OneLoss PROVE Spec => LastCopyNeverReclaimed
  BY DEF OneLoss
<1>1. Orderly /\ OnDisk /\ [Next]_vars => [CopyIsCold]_vars BY StepHonest DEF Honest
<1> QED BY <1>1, OrderlyRun, PTL DEF Spec, LastCopyNeverReclaimed, CopyIsCold

-----------------------------------------------------------------------------
(* No content is lost as long as nothing decays on disk, and processes do  *)
(* not die half-way through a publication in the same behaviour that loses *)
(* power: an entry published by a process that died before the directory   *)
(* fsync is taken for retained authority, and the power loss may take it.  *)

SingleFault == "rot" \notin Faults /\ OneLoss

(* A power loss finds every archive, manifest and entry on the disk. *)
Durable == "power" \in Faults =>
  kept.blob = cache.blob /\ kept.manifest = cache.manifest /\ kept.catalog = cache.catalog

(* The latest bytes are hot, durably so when power may fail, or cold. *)
Safe(m) ==
  \/ cache.hot[m] = truth[m] /\ ("power" \in Faults => kept.hot[m] = truth[m])
  \/ ColdIn(cache, m)

Vaulted == Core /\ CatalogAuthenticates /\ Durable /\ \A m \in Member : Safe(m)

(* An archive that the catalog names gives its members back. *)
LEMMA CatalogedIsCold ==
  ASSUME CatalogAuthenticates, NEW r \in Rep, cache.catalog[r] # Absent,
         NEW m \in DOMAIN r, r[m] = truth[m]
  PROVE  ColdIn(cache, m)
BY DEF CatalogAuthenticates, Authentic, ColdIn

(* Retained archives go on giving back what they gave. *)
LEMMA ColdStays ==
  ASSUME RetentionKept, NEW m \in Member, truth'[m] = truth[m], ColdIn(cache, m)
  PROVE  ColdIn(cache, m)'
<1>1. PICK r \in Rep : m \in DOMAIN r /\ r[m] = truth[m] /\ Authentic(cache, r)
  BY DEF ColdIn
<1>2. Authentic(cache, r)' BY <1>1 DEF RetentionKept, Authentic, BlobMatchesManifest
<1> QED BY <1>1, <1>2 DEF ColdIn

(* What is left to show of a step that writes no owner content. *)
LEMMA StorageStep ==
  ASSUME Vaulted, Core', RetentionKept, CatalogAuthenticates', Durable', truth' = truth,
         \A m \in Member :
           \/ cache'.hot[m] = cache.hot[m] /\ ("power" \in Faults => kept'.hot[m] = kept.hot[m])
           \/ ColdIn(cache, m)
  PROVE  Vaulted'
<1>1. ASSUME NEW m \in Member PROVE Safe(m)'
  <2>1. CASE ColdIn(cache, m) BY <2>1, ColdStays DEF Safe
  <2>2. CASE ~ColdIn(cache, m) BY <2>2 DEF Safe, Vaulted
  <2> QED BY <2>1, <2>2
<1> QED BY <1>1 DEF Vaulted

(* A step that leaves archives, manifests and entries alone. *)
LEMMA ArchivesAlone ==
  ASSUME Vaulted, Core', truth' = truth,
         cache'.blob = cache.blob, cache'.manifest = cache.manifest, cache'.catalog = cache.catalog,
         "power" \in Faults =>
           kept'.blob = kept.blob /\ kept'.manifest = kept.manifest /\ kept'.catalog = kept.catalog,
         \A m \in Member :
           \/ cache'.hot[m] = cache.hot[m] /\ ("power" \in Faults => kept'.hot[m] = kept.hot[m])
           \/ ColdIn(cache, m)
  PROVE  Vaulted' /\ RetentionKept
<1>1. RetentionKept BY DEF RetentionKept
<1>2. CatalogAuthenticates' BY DEF Vaulted, CatalogAuthenticates, BlobMatchesManifest
<1>3. Durable' BY DEF Vaulted, Durable
<1> QED BY <1>1, <1>2, <1>3, StorageStep

(* A step that leaves all files alone. *)
LEMMA FilesAlone ==
  ASSUME Vaulted, Core', UNCHANGED <<cache, kept, truth>>
  PROVE  Vaulted' /\ RetentionKept
BY ArchivesAlone

(* Writing or removing an archive or a manifest that has no entry. *)
LEMMA WriteUncataloged ==
  ASSUME Vaulted, Core', SingleFault, NEW p \in Process, NEW kind \in {"blob", "manifest"},
         NEW r \in Rep, NEW v, NEW next, NEW left, Write(p, kind, r, v, next, left),
         cache.catalog[r] = Absent
  PROVE  Vaulted' /\ RetentionKept
<1>1. cache \in Store /\ kept \in Store BY DEF Vaulted, Core, TypeOK
<1>2. cache' = [cache EXCEPT ![kind][r] = v] /\ truth' = truth BY DEF Write
<1>3. /\ cache'.catalog = cache.catalog /\ cache'.hot = cache.hot
      /\ \A s \in Rep \ {r} : cache'.blob[s] = cache.blob[s] /\ cache'.manifest[s] = cache.manifest[s]
  BY <1>1, <1>2 DEF Store
<1>4. RetentionKept BY <1>3 DEF RetentionKept
<1>5. CatalogAuthenticates'
  BY <1>3 DEF Vaulted, CatalogAuthenticates, BlobMatchesManifest
<1>6. "power" \in Faults => kept' = Synced(kind, r) BY DEF Write, SingleFault, OneLoss
<1>7. "power" \in Faults =>
        /\ kept'.blob = cache'.blob /\ kept'.manifest = cache'.manifest
        /\ kept'.catalog = kept.catalog /\ kept'.hot = kept.hot
  BY <1>1, <1>6 DEF Synced, Store
<1>8. Durable' BY <1>3, <1>7 DEF Vaulted, Durable
<1> QED BY <1>2, <1>3, <1>4, <1>5, <1>7, <1>8, StorageStep

(* Publishing an entry over an archive and a manifest that match it. *)
LEMMA WriteEntry ==
  ASSUME Vaulted, Core', SingleFault, NEW p \in Process, NEW r \in Rep, NEW v \in Entry,
         NEW next, NEW left, Write(p, "catalog", r, v, next, left),
         BlobMatchesManifest(cache, r), v.blob = cache.blob[r],
         cache.catalog[r] # Absent => v.blob = cache.catalog[r].blob
  PROVE  Vaulted' /\ RetentionKept
<1>1. cache \in Store /\ kept \in Store BY DEF Vaulted, Core, TypeOK
<1>2. cache' = [cache EXCEPT !["catalog"][r] = v] /\ truth' = truth BY DEF Write
<1>3. /\ cache'.catalog = [cache.catalog EXCEPT ![r] = v] /\ cache'.hot = cache.hot
      /\ cache'.blob = cache.blob /\ cache'.manifest = cache.manifest
  BY <1>1, <1>2 DEF Store
<1>4. v # Absent BY ConstantAssumption
<1>5. RetentionKept BY <1>1, <1>3, <1>4 DEF RetentionKept, Store
<1>6. CatalogAuthenticates'
  BY <1>1, <1>3 DEF Vaulted, CatalogAuthenticates, BlobMatchesManifest, Store
<1>7. "power" \in Faults =>
        /\ kept'.blob = kept.blob /\ kept'.manifest = kept.manifest
        /\ kept'.catalog = cache'.catalog /\ kept'.hot = kept.hot
  <2>1. "power" \in Faults => kept' = Synced("catalog", r) BY DEF Write, SingleFault, OneLoss
  <2> QED BY <1>1, <1>3, <2>1 DEF Synced, Store
<1>8. Durable' BY <1>3, <1>7 DEF Vaulted, Durable
<1> QED BY <1>2, <1>3, <1>5, <1>6, <1>7, <1>8, StorageStep

(* Writing a journal or removing a journal or a staging tree. *)
LEMMA WriteJournal ==
  ASSUME Vaulted, Core', NEW p \in Process, NEW kind \in {"journal", "staging"},
         NEW r \in Rep, NEW v, NEW next, NEW left, Write(p, kind, r, v, next, left)
  PROVE  Vaulted' /\ RetentionKept
<1>1. cache \in Store /\ kept \in Store BY DEF Vaulted, Core, TypeOK
<1>2. /\ cache' = [cache EXCEPT ![kind][r] = v] /\ truth' = truth
      /\ kept' = Synced(kind, r) \/ kept' = kept
  BY DEF Write
<1>3. /\ cache'.blob = cache.blob /\ cache'.manifest = cache.manifest
      /\ cache'.catalog = cache.catalog /\ cache'.hot = cache.hot
  BY <1>1, <1>2 DEF Store
<1>4. /\ kept'.blob = kept.blob /\ kept'.manifest = kept.manifest
      /\ kept'.catalog = kept.catalog /\ kept'.hot = kept.hot
  <2>1. CASE kind = "journal" BY <1>1, <1>2, <2>1 DEF Synced, Store
  <2>2. CASE kind = "staging" BY <1>1, <1>2, <2>2 DEF Synced, Store
  <2> QED BY <2>1, <2>2
<1> QED BY <1>2, <1>3, <1>4, ArchivesAlone

-----------------------------------------------------------------------------
(* The actions that write, and the faults. *)

LEMMA PublishBlobVaulted ==
  ASSUME Vaulted, Core', SingleFault, NEW p \in Process, PublishBlob(p)
  PROVE  Vaulted' /\ RetentionKept
<1>1. pc[p] = "blob" /\ Core BY DEF PublishBlob, Vaulted
<1>2. cache.catalog[plan[p].rep] = Absent BY <1>1 DEF Core, StepOK
<1> QED BY <1>1, <1>2, EngineStep, WriteUncataloged, FilesAlone DEF PublishBlob, Refuse

LEMMA PublishManifestVaulted ==
  ASSUME Vaulted, Core', SingleFault, NEW p \in Process, PublishManifest(p)
  PROVE  Vaulted' /\ RetentionKept
<1>1. pc[p] = "manifest" /\ Core BY DEF PublishManifest, Vaulted
<1>2. cache.catalog[plan[p].rep] = Absent BY <1>1 DEF Core, StepOK
<1> QED BY <1>1, <1>2, EngineStep, WriteUncataloged DEF PublishManifest

LEMMA PublishCatalogVaulted ==
  ASSUME Vaulted, Core', SingleFault, NEW p \in Process, PublishCatalog(p)
  PROVE  Vaulted' /\ RetentionKept
<1> DEFINE r == plan[p].rep
           v == [blob |-> cache.manifest[r],
                 reclamation |-> IF plan[p].op = "archive" THEN "pending" ELSE "not_requested"]
<1>1. pc[p] = "catalog" /\ Core BY DEF PublishCatalog, Vaulted
<1>2. CASE Refuse(p) BY <1>2, FilesAlone DEF Refuse
<1>3. CASE BlobMatchesManifest(cache, r) /\ Write(p, "catalog", r, v, "evict", todo[p])
  <2>1. r \in Rep /\ cache.catalog[r] = Absent BY <1>1, EngineStep DEF Core, StepOK
  <2>2. cache.manifest[r] \in Blob /\ cache.manifest[r] = cache.blob[r]
    BY <1>1, <1>3, <2>1, EngineStep DEF BlobMatchesManifest, Store
  <2>3. v \in Entry /\ v.blob = cache.blob[r] BY <2>2 DEF Entry, Reclamation
  <2> HIDE DEF v
  <2> QED BY <1>3, <2>1, <2>3, WriteEntry
<1> QED BY <1>2, <1>3 DEF PublishCatalog

LEMMA PublishStatusVaulted ==
  ASSUME Vaulted, Core', SingleFault, NEW p \in Process, PublishStatus(p)
  PROVE  Vaulted' /\ RetentionKept
<1> DEFINE r == plan[p].rep
           v == [cache.catalog[r] EXCEPT !.reclamation = ReclaimStatus(p)]
<1>1. pc[p] = "evict" /\ Core BY DEF PublishStatus, Vaulted
<1>2. r \in Rep /\ cache.catalog[r] # Absent BY <1>1, EngineStep DEF Core, StepOK
<1>3. cache.catalog[r] \in Entry BY <1>1, <1>2, EngineStep DEF Store
<1>4. ReclaimStatus(p) \in Reclamation
  <2>1. plan[p].op \in {"archive", "archive_keep_hot", "reclaim"}
    BY <1>1, EngineStep DEF Core, StepOK, Plan, Op
  <2> QED BY <2>1 DEF ReclaimStatus, Reclamation
<1>5. BlobMatchesManifest(cache, r) /\ cache.catalog[r].blob = cache.blob[r]
  BY <1>2 DEF Vaulted, CatalogAuthenticates
<1>6. v \in Entry /\ v.blob = cache.catalog[r].blob BY <1>3, <1>4 DEF Entry
<1>7. Write(p, "catalog", r, v, "finish", {}) BY DEF PublishStatus
<1> HIDE DEF v
<1> QED BY <1>2, <1>5, <1>6, <1>7, WriteEntry

(* The hash just compared and the entry of the archive make the unlinked   *)
(* bytes cold, unless they were not the latest, and then those are cold.   *)
LEMMA ReclaimMemberVaulted ==
  ASSUME Vaulted, Core', NEW p \in Process, NEW m \in Member, ReclaimMember(p, m)
  PROVE  Vaulted' /\ RetentionKept
<1> DEFINE left == todo[p] \ {<<"hot", m>>}
<1>1. pc[p] = "evict" /\ Core /\ <<"hot", m>> \in todo[p] BY DEF ReclaimMember, Vaulted
<1>2. CASE UNCHANGED <<cache, kept, truth>> BY <1>2, FilesAlone
<1>3. CASE cache.hot[m] = plan[p].rep[m] /\ Write(p, "hot", m, Absent, "evict", left)
  <2>1. m \in DOMAIN plan[p].rep /\ plan[p].rep \in Rep /\ cache.catalog[plan[p].rep] # Absent
    BY <1>1, EngineStep DEF Refusal, Core, StepOK
  <2>2. ColdIn(cache, m)
    <3>1. CASE plan[p].rep[m] = truth[m] BY <2>1, <3>1, CatalogedIsCold DEF Vaulted
    <3>2. CASE plan[p].rep[m] # truth[m] BY <1>3, <3>2 DEF Vaulted, Safe
    <3> QED BY <3>1, <3>2
  <2>3. cache \in Store /\ kept \in Store BY <1>1 DEF Core, TypeOK
  <2>4. /\ cache' = [cache EXCEPT !["hot"][m] = Absent] /\ truth' = truth
        /\ kept' = Synced("hot", m) \/ kept' = kept
    BY <1>3 DEF Write
  <2>5. /\ cache'.blob = cache.blob /\ cache'.manifest = cache.manifest
        /\ cache'.catalog = cache.catalog
        /\ kept'.blob = kept.blob /\ kept'.manifest = kept.manifest
        /\ kept'.catalog = kept.catalog
        /\ \A n \in Member \ {m} : cache'.hot[n] = cache.hot[n] /\ kept'.hot[n] = kept.hot[n]
    BY <2>3, <2>4 DEF Synced, Store
  <2> QED BY <2>2, <2>4, <2>5, ArchivesAlone
<1> QED BY <1>2, <1>3 DEF ReclaimMember, Skip

(* A member is installed where nothing is hot, so its latest bytes are cold *)
(* before and after.                                                       *)
LEMMA InstallMemberVaulted ==
  ASSUME Vaulted, Core', NEW p \in Process, NEW m \in Member, InstallMember(p, m)
  PROVE  Vaulted' /\ RetentionKept
<1>1. CASE UNCHANGED <<cache, kept, truth>> BY <1>1, FilesAlone
<1>2. CASE /\ cache.hot[m] = Absent /\ cache' = [cache EXCEPT !.hot[m] = plan[p].rep[m]]
           /\ kept' = [kept EXCEPT !.hot[m] = Torn] \/ kept' = kept
           /\ truth' = truth
  <2>1. cache \in Store /\ kept \in Store /\ truth[m] \in Content BY DEF Vaulted, Core, TypeOK
  <2>2. ColdIn(cache, m) BY <1>2, <2>1, ConstantAssumption DEF Vaulted, Safe, Bytes
  <2>3. /\ cache'.blob = cache.blob /\ cache'.manifest = cache.manifest
        /\ cache'.catalog = cache.catalog
        /\ kept'.blob = kept.blob /\ kept'.manifest = kept.manifest
        /\ kept'.catalog = kept.catalog
        /\ \A n \in Member \ {m} : cache'.hot[n] = cache.hot[n] /\ kept'.hot[n] = kept.hot[n]
    BY <1>2, <2>1 DEF Store
  <2> QED BY <1>2, <2>2, <2>3, ArchivesAlone
<1> QED BY <1>1, <1>2 DEF InstallMember, Skip

(* Filling or clearing a staging tree. *)
LEMMA StagingVaulted ==
  ASSUME Vaulted, Core', NEW r \in Rep, NEW v, cache' = [cache EXCEPT !.staging[r] = v],
         kept' = kept, truth' = truth
  PROVE  Vaulted' /\ RetentionKept
<1>1. cache \in Store BY DEF Vaulted, Core, TypeOK
<1>2. /\ cache'.blob = cache.blob /\ cache'.manifest = cache.manifest
      /\ cache'.catalog = cache.catalog /\ cache'.hot = cache.hot
  BY <1>1 DEF Store
<1> QED BY <1>2, ArchivesAlone

LEMMA RestoreVaulted ==
  ASSUME Vaulted, Core', NEW p \in Process,
         OpenJournal(p) \/ StageMembers(p) \/ CloseJournal(p) \/ ClearStaging(p)
  PROVE  Vaulted' /\ RetentionKept
<1>1. pc[p] \in {"journal", "stage", "install", "unstage"} /\ Core
  BY DEF OpenJournal, StageMembers, CloseJournal, ClearStaging, Vaulted
<1>2. plan[p].rep \in Rep BY <1>1, EngineStep
<1>3. CASE OpenJournal(p) BY <1>2, <1>3, WriteJournal DEF OpenJournal
<1>4. CASE StageMembers(p) BY <1>2, <1>4, StagingVaulted DEF StageMembers
<1>5. CASE CloseJournal(p)
  BY <1>2, <1>5, WriteJournal, FilesAlone DEF CloseJournal, Skip
<1>6. CASE ClearStaging(p) BY <1>2, <1>6, StagingVaulted DEF ClearStaging
<1> QED BY <1>3, <1>4, <1>5, <1>6

LEMMA SweepTargetVaulted ==
  ASSUME Vaulted, Core', SingleFault, NEW p \in Process, NEW t \in todo[p], SweepTarget(p, t)
  PROVE  Vaulted' /\ RetentionKept
<1> DEFINE left == todo[p] \ {t}
<1>1. pc[p] = "sweep" /\ Core BY DEF SweepTarget, Vaulted
<1>2. /\ t \in {"blob", "manifest", "journal", "staging"} \X Rep
      /\ t[1] \in {"blob", "manifest"} => cache.catalog[t[2]] = Absent
  BY <1>1 DEF Core, StepOK
<1>3. CASE Skip(p, "sweep", left) BY <1>3, FilesAlone DEF Skip
<1>4. CASE Write(p, t[1], t[2], Absent, "sweep", left)
  <2>1. CASE t[1] \in {"blob", "manifest"} BY <1>2, <1>4, <2>1, WriteUncataloged
  <2>2. CASE t[1] \in {"journal", "staging"} BY <1>2, <1>4, <2>2, WriteJournal
  <2> QED BY <1>2, <2>1, <2>2
<1> QED BY <1>3, <1>4 DEF SweepTarget

LEMMA OwnerWriteVaulted ==
  ASSUME Vaulted, Core', NEW m \in Member, NEW c \in Content, OwnerWrite(m, c)
  PROVE  Vaulted' /\ RetentionKept
<1>1. cache \in Store /\ kept \in Store /\ truth \in [Member -> Content]
  BY DEF Vaulted, Core, TypeOK
<1>2. /\ cache' = [cache EXCEPT !.hot[m] = c] /\ kept' = [kept EXCEPT !.hot[m] = c]
      /\ truth' = [truth EXCEPT ![m] = c]
  BY DEF OwnerWrite
<1>3. /\ cache'.blob = cache.blob /\ cache'.manifest = cache.manifest
      /\ cache'.catalog = cache.catalog
      /\ kept'.blob = kept.blob /\ kept'.manifest = kept.manifest /\ kept'.catalog = kept.catalog
      /\ cache'.hot[m] = c /\ kept'.hot[m] = c /\ truth'[m] = c
      /\ \A n \in Member \ {m} :
           cache'.hot[n] = cache.hot[n] /\ kept'.hot[n] = kept.hot[n] /\ truth'[n] = truth[n]
  BY <1>1, <1>2 DEF Store
<1>4. RetentionKept BY <1>3 DEF RetentionKept
<1>5. CatalogAuthenticates' BY <1>3 DEF Vaulted, CatalogAuthenticates, BlobMatchesManifest
<1>6. Durable' BY <1>3 DEF Vaulted, Durable
<1>7. ASSUME NEW n \in Member PROVE Safe(n)'
  <2>1. CASE n = m BY <1>3, <2>1 DEF Safe
  <2>2. CASE n # m /\ ColdIn(cache, n) BY <1>3, <1>4, <2>2, ColdStays DEF Safe
  <2>3. CASE n # m /\ ~ColdIn(cache, n) BY <1>3, <2>3 DEF Safe, Vaulted
  <2> QED BY <2>1, <2>2, <2>3
<1> QED BY <1>4, <1>5, <1>6, <1>7 DEF Vaulted

LEMMA CrashVaulted ==
  ASSUME Vaulted, Core', NEW p \in Process, Crash(p)
  PROVE  Vaulted' /\ RetentionKept
<1>1. kept' = kept /\ truth' = truth /\ Core BY DEF Crash, Vaulted
<1>2. CASE cache' = cache BY <1>1, <1>2, FilesAlone
<1>3. CASE pc[p] = "install" /\ cache' = [cache EXCEPT !.staging[plan[p].rep] = Absent]
  <2>1. plan[p].rep \in Rep BY <1>1, <1>3, EngineStep
  <2> QED BY <1>1, <1>3, <2>1, StagingVaulted
<1> QED BY <1>2, <1>3 DEF Crash

LEMMA PowerLossVaulted ==
  ASSUME Vaulted, Core', PowerLoss
  PROVE  Vaulted' /\ RetentionKept
<1>1. PICK lost \in SUBSET Unsynced :
        cache' = [hot      |-> After("hot", lost),
                  blob     |-> After("blob", lost),
                  manifest |-> After("manifest", lost),
                  catalog  |-> After("catalog", lost),
                  journal  |-> After("journal", lost),
                  staging  |-> After("staging", lost)]
  BY DEF PowerLoss
<1>2. cache \in Store /\ kept \in Store /\ cache' \in Store BY DEF Vaulted, Core, TypeOK
<1>3. "power" \in Faults /\ kept' = cache' /\ truth' = truth BY DEF PowerLoss
<1>4. kept.blob = cache.blob /\ kept.manifest = cache.manifest /\ kept.catalog = cache.catalog
  BY <1>3 DEF Vaulted, Durable
<1>5. /\ \A r \in Rep : /\ cache'.blob[r] = cache.blob[r]
                        /\ cache'.manifest[r] = cache.manifest[r]
                        /\ cache'.catalog[r] = cache.catalog[r]
      /\ \A m \in Member : cache'.hot[m] \in {cache.hot[m], kept.hot[m]}
  BY <1>1, <1>2, <1>4 DEF After, Store
<1>6. RetentionKept BY <1>5 DEF RetentionKept
<1>7. CatalogAuthenticates' BY <1>5 DEF Vaulted, CatalogAuthenticates, BlobMatchesManifest
<1>8. Durable' BY <1>3 DEF Durable
<1>9. ASSUME NEW m \in Member PROVE Safe(m)'
  <2>1. CASE ColdIn(cache, m) BY <1>3, <1>6, <2>1, ColdStays DEF Safe
  <2>2. CASE ~ColdIn(cache, m) BY <1>3, <1>5, <2>2 DEF Safe, Vaulted
  <2> QED BY <2>1, <2>2
<1> QED BY <1>6, <1>7, <1>8, <1>9 DEF Vaulted

-----------------------------------------------------------------------------
LEMMA InitVaulted == Init => Vaulted
<1> SUFFICES ASSUME Init PROVE Vaulted
  OBVIOUS
<1>1. Core BY InitCore
<1>2. CatalogAuthenticates BY DEF Init, EmptyStore, CatalogAuthenticates
<1>3. Durable BY DEF Init, EmptyStore, Durable
<1>4. \A m \in Member : Safe(m) BY DEF Init, EmptyStore, Safe
<1> QED BY <1>1, <1>2, <1>3, <1>4 DEF Vaulted

LEMMA StepVaulted ==
  ASSUME SingleFault, Vaulted, [Next]_vars
  PROVE  Vaulted' /\ RetentionKept
<1>1. Core' BY StepCore DEF Vaulted
<1>2. ASSUME NEW p \in Process, Request(p) PROVE UNCHANGED <<cache, kept, truth>>
  BY <1>2 DEF Request, PlanArchive, PlanReclaim, PlanRestore, PlanSweep, Bind
<1>3. ASSUME NEW p \in Process, Engine(p) PROVE Vaulted' /\ RetentionKept
  <2>1. CASE AcquireLease(p) \/ LeaseTimeout(p) \/ Begin(p) \/ EndSweep(p) \/ Finish(p)
    <3>1. UNCHANGED <<cache, kept, truth>>
      BY <2>1 DEF AcquireLease, LeaseTimeout, Begin, EndSweep, Finish, Refuse, Skip
    <3> QED BY <1>1, <3>1, FilesAlone
  <2>2. CASE PublishBlob(p) \/ PublishManifest(p) \/ PublishCatalog(p) \/ PublishStatus(p)
    BY <1>1, <2>2, PublishBlobVaulted, PublishManifestVaulted, PublishCatalogVaulted,
       PublishStatusVaulted
  <2>3. CASE \E m \in Member : ReclaimMember(p, m) \/ InstallMember(p, m)
    BY <1>1, <2>3, ReclaimMemberVaulted, InstallMemberVaulted
  <2>4. CASE OpenJournal(p) \/ StageMembers(p) \/ CloseJournal(p) \/ ClearStaging(p)
    BY <1>1, <2>4, RestoreVaulted
  <2>5. CASE \E t \in todo[p] : SweepTarget(p, t)
    BY <1>1, <2>5, SweepTargetVaulted
  <2> QED BY <1>3, <2>1, <2>2, <2>3, <2>4, <2>5 DEF Engine
<1>4. CASE Environment
  <2>1. \A r \in Rep : ~Rot(r) BY DEF Rot, SingleFault, OneLoss
  <2> QED BY <1>1, <1>4, <2>1, OwnerWriteVaulted, CrashVaulted, PowerLossVaulted DEF Environment
<1>5. CASE UNCHANGED vars BY <1>1, <1>5, FilesAlone DEF vars
<1> QED BY <1>1, <1>2, <1>3, <1>4, <1>5, FilesAlone DEF Next

(* Whatever any number of storage commands do and wherever processes crash *)
(* or power is lost, the bytes an owner last wrote are hot or cold.        *)
THEOREM ContentSurvives == SingleFault /\ Spec => []NoContentLost
<1> SUFFICES ASSUME SingleFault PROVE Spec => []NoContentLost
  BY DEF SingleFault, OneLoss
<1>1. Vaulted => NoContentLost BY DEF Vaulted, Safe, NoContentLost
<1>2. Vaulted /\ [Next]_vars => Vaulted' BY StepVaulted
<1> QED BY <1>1, <1>2, InitVaulted, PTL DEF Spec

(* The catalog names what is on disk, and that matches its members. *)
THEOREM CatalogIsTrue == SingleFault /\ Spec => []CatalogAuthenticates
<1> SUFFICES ASSUME SingleFault PROVE Spec => []CatalogAuthenticates
  BY DEF SingleFault, OneLoss
<1>1. Vaulted => CatalogAuthenticates BY DEF Vaulted
<1>2. Vaulted /\ [Next]_vars => Vaulted' BY StepVaulted
<1> QED BY <1>1, <1>2, InitVaulted, PTL DEF Spec

(* No step rewrites or removes a retained archive. *)
THEOREM RetentionIsKept == SingleFault /\ Spec => RetainedNeverRewritten
<1> SUFFICES ASSUME SingleFault PROVE Spec => RetainedNeverRewritten
  BY DEF SingleFault, OneLoss
<1>1. Vaulted /\ [Next]_vars => Vaulted' /\ [RetentionKept]_vars BY StepVaulted
<1> QED BY <1>1, InitVaulted, PTL DEF Spec, RetainedNeverRewritten

-----------------------------------------------------------------------------
(* Every step of the storage commands is a step of EvidenceVault, or none. *)

(* A power loss finds what is hot, or tears what an archive gives back. *)
ReadBack == "power" \in Faults =>
  \A m \in Member : kept.hot[m] = cache.hot[m] \/ (kept.hot[m] = Torn /\ cache.hot[m] \in ColdBytes[m])

Kept == Vaulted /\ Orderly /\ ReadBack

(* No archive stops giving back what it gave. *)
LEMMA ColdBytesGrow ==
  ASSUME RetentionKept, NEW m \in Member
  PROVE  ColdBytes[m] \subseteq ColdBytes'[m]
<1>1. \A r \in Rep : Authentic(cache, r) => Authentic(cache', r)
  BY DEF RetentionKept, Authentic, BlobMatchesManifest
<1> QED BY <1>1 DEF ColdBytes

(* What an archive gives back follows from the entries alone. *)
LEMMA ColdBytesSame ==
  ASSUME RetentionKept, \A r \in Rep : cache.catalog[r] = Absent => cache'.catalog[r] = Absent
  PROVE  ColdBytes' = ColdBytes
<1>1. \A r \in Rep : Authentic(cache', r) <=> Authentic(cache, r)
  BY DEF RetentionKept, Authentic, BlobMatchesManifest
<1>2. \A m \in Member : {r \in Rep : m \in DOMAIN r /\ Authentic(cache', r)}
                        = {r \in Rep : m \in DOMAIN r /\ Authentic(cache, r)}
  BY <1>1
<1> QED BY <1>2 DEF ColdBytes

LEMMA VaultStutters ==
  ASSUME ReadBack, RetentionKept, cache'.hot = cache.hot, truth' = truth,
         \A r \in Rep : cache.catalog[r] = Absent => cache'.catalog[r] = Absent,
         "power" \in Faults => kept'.hot = kept.hot
  PROVE  ReadBack' /\ UNCHANGED Vault!vars
<1>1. ColdBytes' = ColdBytes BY ColdBytesSame
<1> QED BY <1>1 DEF ReadBack, Vault!vars

(* Writing a file that is neither a member nor an entry. *)
LEMMA WriteStutters ==
  ASSUME Kept, RetentionKept, SingleFault, NEW p \in Process,
         NEW kind \in {"blob", "manifest", "journal", "staging"}, NEW r \in Rep, NEW v,
         NEW next, NEW left, Write(p, kind, r, v, next, left)
  PROVE  ReadBack' /\ UNCHANGED Vault!vars
<1>1. cache \in Store /\ kept \in Store /\ ReadBack BY DEF Kept, Vaulted, Core, TypeOK
<1>2. cache' = [cache EXCEPT ![kind][r] = v] /\ truth' = truth BY DEF Write
<1>3. cache'.hot = cache.hot /\ cache'.catalog = cache.catalog BY <1>1, <1>2 DEF Store
<1>4. kept' = Synced(kind, r) \/ kept' = kept BY DEF Write
<1>5. kept'.hot = kept.hot BY <1>1, <1>4 DEF Synced, Store
<1> QED BY <1>1, <1>2, <1>3, <1>5, VaultStutters

(* The entry makes an archive of exactly the bytes that are hot. *)
LEMMA CatalogArchives ==
  ASSUME Kept, RetentionKept, SingleFault, NEW p \in Process, PublishCatalog(p)
  PROVE  ReadBack' /\ [Vault!Next]_(Vault!vars)
<1> DEFINE r == plan[p].rep
           v == [blob |-> cache.manifest[r],
                 reclamation |-> IF plan[p].op = "archive" THEN "pending" ELSE "not_requested"]
<1>1. /\ pc[p] = "catalog" /\ Core /\ cache \in Store /\ kept \in Store /\ r \in Rep
      /\ DOMAIN r \subseteq Member /\ cache.catalog[r] = Absent /\ HoldsHot(r)
  BY EngineStep DEF PublishCatalog, Kept, Vaulted, Orderly, Grounded, Core, TypeOK, StepOK
<1>2. CASE Refuse(p) BY <1>2, VaultStutters DEF Refuse, Kept
<1>3. CASE BlobMatchesManifest(cache, r) /\ Write(p, "catalog", r, v, "evict", todo[p])
  <2>1. cache.manifest[r] \in Blob BY <1>1, <1>3 DEF BlobMatchesManifest, Store
  <2>2. v \in Entry BY <2>1 DEF Entry, Reclamation
  <2> HIDE DEF v
  <2>3. cache' = [cache EXCEPT !["catalog"][r] = v] /\ truth' = truth BY <1>3 DEF Write
  <2>4. /\ cache'.catalog = [cache.catalog EXCEPT ![r] = v] /\ cache'.hot = cache.hot
        /\ cache'.blob = cache.blob /\ cache'.manifest = cache.manifest
    BY <1>1, <2>3 DEF Store
  <2>5. \A s \in Rep : Authentic(cache', s) <=> (Authentic(cache, s) \/ s = r)
    BY <1>1, <1>3, <2>2, <2>4, ConstantAssumption DEF Authentic, BlobMatchesManifest, Store
  <2>6. \A m \in DOMAIN r : cache.hot[m] = r[m] /\ r[m] # Absent
    BY <1>1, <1>3, ConstantAssumption DEF HoldsHot, BlobMatchesManifest, Rep
  <2>7. ASSUME NEW m \in Member
        PROVE  ColdBytes'[m] = IF m \in DOMAIN r THEN ColdBytes[m] \cup {cache.hot[m]}
                                                 ELSE ColdBytes[m]
    <3>1. {s \in Rep : m \in DOMAIN s /\ Authentic(cache', s)}
          = {s \in Rep : m \in DOMAIN s /\ Authentic(cache, s)}
            \cup (IF m \in DOMAIN r THEN {r} ELSE {})
      BY <1>1, <2>5
    <3> QED BY <2>6, <3>1 DEF ColdBytes
  <2>8. ColdBytes' = [m \in Member |-> IF m \in DOMAIN r THEN ColdBytes[m] \cup {cache.hot[m]}
                                                         ELSE ColdBytes[m]]
    BY <2>7 DEF ColdBytes
  <2>9. Vault!Archive(DOMAIN r) BY <2>3, <2>4, <2>6, <2>8 DEF Vault!Archive
  <2>10. kept'.hot = kept.hot
    <3>1. kept' = Synced("catalog", r) \/ kept' = kept BY <1>3 DEF Write
    <3> QED BY <1>1, <3>1 DEF Synced, Store
  <2>11. ReadBack' BY <2>4, <2>7, <2>10 DEF Kept, ReadBack
  <2> QED BY <1>1, <2>9, <2>11 DEF Vault!Next
<1> QED BY <1>2, <1>3 DEF PublishCatalog

LEMMA StatusStutters ==
  ASSUME Kept, RetentionKept, SingleFault, NEW p \in Process, PublishStatus(p)
  PROVE  ReadBack' /\ UNCHANGED Vault!vars
<1> DEFINE r == plan[p].rep
           v == [cache.catalog[r] EXCEPT !.reclamation = ReclaimStatus(p)]
<1>1. /\ pc[p] = "evict" /\ cache \in Store /\ kept \in Store /\ r \in Rep
      /\ cache.catalog[r] # Absent
  BY EngineStep DEF PublishStatus, Kept, Vaulted, Core, TypeOK, StepOK
<1>2. cache' = [cache EXCEPT !["catalog"][r] = v] /\ truth' = truth
      /\ (kept' = Synced("catalog", r) \/ kept' = kept)
  BY DEF PublishStatus, Write
<1> HIDE DEF v
<1>3. cache'.hot = cache.hot /\ kept'.hot = kept.hot
      /\ \A s \in Rep : cache.catalog[s] = Absent => cache'.catalog[s] = Absent
  BY <1>1, <1>2 DEF Synced, Store
<1> QED BY <1>2, <1>3, VaultStutters DEF Kept

(* An archive gives back the bytes that are unlinked. *)
LEMMA ReclaimEvicts ==
  ASSUME Kept, RetentionKept, SingleFault, NEW p \in Process, NEW m \in Member,
         ReclaimMember(p, m)
  PROVE  ReadBack' /\ [Vault!Next]_(Vault!vars)
<1> DEFINE left == todo[p] \ {<<"hot", m>>}
           r == plan[p].rep
<1>1. /\ pc[p] = "evict" /\ <<"hot", m>> \in todo[p] /\ r \in Rep
      /\ cache \in Store /\ kept \in Store
      /\ todo[p] \subseteq ({"hot"} \X DOMAIN r) \cup Refusal
  BY EngineStep DEF ReclaimMember, Kept, Vaulted, Core, TypeOK
<1>2. m \in DOMAIN r BY <1>1 DEF Refusal
<1>3. Authentic(cache, r) BY <1>1 DEF Kept, Orderly, Grounded
<1>4. CASE UNCHANGED <<cache, kept, truth>> BY <1>4, VaultStutters DEF Kept
<1>5. CASE cache.hot[m] = r[m] /\ Write(p, "hot", m, Absent, "evict", left)
  <2>1. /\ cache' = [cache EXCEPT !["hot"][m] = Absent] /\ truth' = truth
        /\ (kept' = Synced("hot", m) \/ ("crash" \in Faults /\ kept' = kept))
    BY <1>5 DEF Write
  <2>2. /\ cache'.hot = [cache.hot EXCEPT ![m] = Absent] /\ cache'.catalog = cache.catalog
    BY <1>1, <2>1 DEF Store
  <2>3. ColdBytes' = ColdBytes BY <2>2, ColdBytesSame
  <2>4. cache.hot[m] \in ColdBytes[m] BY <1>1, <1>2, <1>3, <1>5 DEF ColdBytes
  <2>5. Vault!Evict(m) BY <2>1, <2>2, <2>3, <2>4 DEF Vault!Evict
  <2>6. ReadBack'
    <3> SUFFICES ASSUME "power" \in Faults, NEW n \in Member
                 PROVE  \/ kept'.hot[n] = cache'.hot[n]
                        \/ kept'.hot[n] = Torn /\ cache'.hot[n] \in ColdBytes'[n]
      BY DEF ReadBack
    <3>1. kept' = Synced("hot", m) \/ kept' = kept BY <2>1
    <3>2. CASE n # m
      <4>1. kept'.hot[n] = kept.hot[n] BY <1>1, <3>1, <3>2 DEF Synced, Store
      <4>2. cache'.hot[n] = cache.hot[n] BY <1>1, <2>2, <3>2 DEF Store
      <4> QED BY <2>3, <4>1, <4>2 DEF Kept, ReadBack
    <3>3. CASE n = m /\ kept' = Synced("hot", m) BY <1>1, <3>3 DEF Synced, Store
    <3>4. CASE n = m /\ "crash" \in Faults BY <3>4 DEF SingleFault, OneLoss
    <3> QED BY <2>1, <3>2, <3>3, <3>4
  <2> QED BY <2>5, <2>6 DEF Vault!Next
<1> QED BY <1>4, <1>5 DEF ReclaimMember, Skip

(* An archive gives back the bytes that are installed, durable or not. *)
LEMMA InstallRestores ==
  ASSUME Kept, RetentionKept, SingleFault, NEW p \in Process, NEW m \in Member,
         InstallMember(p, m)
  PROVE  ReadBack' /\ [Vault!Next]_(Vault!vars)
<1> DEFINE r == plan[p].rep
<1>1. /\ pc[p] = "install" /\ <<"hot", m>> \in todo[p] /\ r \in Rep
      /\ cache \in Store /\ kept \in Store
      /\ todo[p] \subseteq ({"hot"} \X DOMAIN r) \cup Refusal
      /\ cache.catalog[r] # Absent
  BY EngineStep DEF InstallMember, Kept, Vaulted, Core, TypeOK, StepOK
<1>2. m \in DOMAIN r BY <1>1 DEF Refusal
<1>3. Authentic(cache, r) BY <1>1 DEF Kept, Vaulted, CatalogAuthenticates, Authentic
<1>4. CASE UNCHANGED <<cache, kept, truth>> BY <1>4, VaultStutters DEF Kept
<1>5. CASE /\ cache.hot[m] = Absent /\ cache' = [cache EXCEPT !.hot[m] = r[m]] /\ truth' = truth
           /\ \/ kept' = [kept EXCEPT !.hot[m] = Torn]
              \/ "crash" \in Faults /\ kept' = kept
  <2>1. cache'.hot = [cache.hot EXCEPT ![m] = r[m]] /\ cache'.catalog = cache.catalog
    BY <1>1, <1>5 DEF Store
  <2>2. ColdBytes' = ColdBytes BY <2>1, ColdBytesSame
  <2>3. r[m] \in ColdBytes[m] BY <1>1, <1>2, <1>3 DEF ColdBytes
  <2>4. Vault!Restore(m) BY <1>5, <2>1, <2>2, <2>3 DEF Vault!Restore
  <2>5. ReadBack'
    <3> SUFFICES ASSUME "power" \in Faults, NEW n \in Member
                 PROVE  \/ kept'.hot[n] = cache'.hot[n]
                        \/ kept'.hot[n] = Torn /\ cache'.hot[n] \in ColdBytes'[n]
      BY DEF ReadBack
    <3>1. kept' = [kept EXCEPT !.hot[m] = Torn] BY <1>5 DEF SingleFault, OneLoss
    <3>2. kept'.hot[m] = Torn /\ cache'.hot[m] = r[m]
          /\ (n # m => kept'.hot[n] = kept.hot[n] /\ cache'.hot[n] = cache.hot[n])
      BY <1>1, <2>1, <3>1 DEF Store
    <3> QED BY <2>2, <2>3, <3>2 DEF Kept, ReadBack
  <2> QED BY <2>4, <2>5 DEF Vault!Next
<1> QED BY <1>4, <1>5 DEF InstallMember, Skip

LEMMA RestoreStutters ==
  ASSUME Kept, RetentionKept, SingleFault, NEW p \in Process,
         OpenJournal(p) \/ StageMembers(p) \/ CloseJournal(p) \/ ClearStaging(p)
  PROVE  ReadBack' /\ UNCHANGED Vault!vars
<1> DEFINE r == plan[p].rep
<1>1. r \in Rep /\ cache \in Store
  BY EngineStep DEF OpenJournal, StageMembers, CloseJournal, ClearStaging, Kept, Vaulted
<1>2. CASE OpenJournal(p) BY <1>1, <1>2, WriteStutters DEF OpenJournal
<1>3. CASE StageMembers(p) \/ ClearStaging(p)
  <2>1. kept' = kept /\ truth' = truth /\ cache'.catalog = cache.catalog /\ cache'.hot = cache.hot
    BY <1>1, <1>3 DEF StageMembers, ClearStaging, Store
  <2> QED BY <2>1, VaultStutters DEF Kept
<1>4. CASE CloseJournal(p)
  BY <1>1, <1>4, WriteStutters, VaultStutters DEF CloseJournal, Skip, Kept
<1> QED BY <1>2, <1>3, <1>4

LEMMA SweepStutters ==
  ASSUME Kept, RetentionKept, SingleFault, NEW p \in Process, NEW t \in todo[p],
         SweepTarget(p, t)
  PROVE  ReadBack' /\ UNCHANGED Vault!vars
<1>1. t \in {"blob", "manifest", "journal", "staging"} \X Rep
  BY DEF SweepTarget, Kept, Vaulted, Core, StepOK
<1>2. CASE Skip(p, "sweep", todo[p] \ {t}) BY <1>2, VaultStutters DEF Skip, Kept
<1>3. CASE Write(p, t[1], t[2], Absent, "sweep", todo[p] \ {t})
  BY <1>1, <1>3, WriteStutters
<1> QED BY <1>2, <1>3 DEF SweepTarget

LEMMA OwnerRewrites ==
  ASSUME Kept, RetentionKept, NEW m \in Member, NEW c \in Content, OwnerWrite(m, c)
  PROVE  ReadBack' /\ [Vault!Next]_(Vault!vars)
<1>1. cache \in Store /\ kept \in Store BY DEF Kept, Vaulted, Core, TypeOK
<1>2. /\ cache'.hot = [cache.hot EXCEPT ![m] = c] /\ cache'.catalog = cache.catalog
      /\ kept'.hot = [kept.hot EXCEPT ![m] = c] /\ truth' = [truth EXCEPT ![m] = c]
  BY <1>1 DEF OwnerWrite, Store
<1>3. ColdBytes' = ColdBytes BY <1>2, ColdBytesSame
<1>4. Vault!Rewrite(m, c) BY <1>2, <1>3 DEF Vault!Rewrite
<1>5. ReadBack' BY <1>1, <1>2, <1>3 DEF Kept, ReadBack, Store
<1> QED BY <1>4, <1>5 DEF Vault!Next

(* A power loss tears members that an archive gives back, and nothing else. *)
LEMMA PowerTears ==
  ASSUME Kept, RetentionKept, PowerLoss
  PROVE  ReadBack' /\ [Vault!Next]_(Vault!vars)
<1> DEFINE torn == {m \in Member : cache'.hot[m] # cache.hot[m]}
<1>1. PICK lost \in SUBSET Unsynced :
        cache' = [hot      |-> After("hot", lost),
                  blob     |-> After("blob", lost),
                  manifest |-> After("manifest", lost),
                  catalog  |-> After("catalog", lost),
                  journal  |-> After("journal", lost),
                  staging  |-> After("staging", lost)]
  BY DEF PowerLoss
<1>2. cache \in Store /\ kept \in Store /\ "power" \in Faults /\ kept' = cache' /\ truth' = truth
  BY DEF PowerLoss, Kept, Vaulted, Core, TypeOK
<1>3. kept.catalog = cache.catalog BY <1>2 DEF Kept, Vaulted, Durable
<1>4. \A r \in Rep : cache.catalog[r] = Absent => cache'.catalog[r] = Absent
  BY <1>1, <1>2, <1>3 DEF After, Store
<1>5. ColdBytes' = ColdBytes BY <1>4, ColdBytesSame
<1>6. \A m \in Member :
        \/ cache'.hot[m] = cache.hot[m]
        \/ cache'.hot[m] = Torn /\ cache.hot[m] \in ColdBytes[m]
  <2>1. ASSUME NEW m \in Member PROVE cache'.hot[m] \in {cache.hot[m], kept.hot[m]}
    BY <1>1, <1>2 DEF After, Store
  <2> QED BY <1>2, <2>1 DEF Kept, ReadBack
<1>7. cache'.hot = [m \in Member |-> IF m \in torn THEN Torn ELSE cache.hot[m]]
  <2>1. cache'.hot = [m \in Member |-> cache'.hot[m]] BY <1>1, <1>2 DEF After, Store
  <2>2. \A m \in Member : cache'.hot[m] = IF m \in torn THEN Torn ELSE cache.hot[m] BY <1>6
  <2> HIDE DEF torn
  <2> QED BY <2>1, <2>2
<1>8. Vault!Tear(torn)
  <2>1. \A m \in torn : cache.hot[m] \in ColdBytes[m] BY <1>6
  <2> HIDE DEF torn
  <2> QED BY <1>2, <1>5, <1>7, <2>1 DEF Vault!Tear
<1>9. ReadBack' BY <1>2 DEF ReadBack
<1> QED BY <1>8, <1>9 DEF Vault!Next

LEMMA InitKept == Init => Kept /\ Vault!Init
<1> SUFFICES ASSUME Init PROVE Kept /\ Vault!Init
  OBVIOUS
<1>1. ReadBack BY DEF Init, EmptyStore, ReadBack
<1>2. \A r \in Rep : ~Authentic(cache, r) BY DEF Init, EmptyStore, Authentic
<1>3. ColdBytes = [m \in Member |-> {}] BY <1>2 DEF ColdBytes
<1>4. cache.hot = truth BY DEF Init, EmptyStore
<1> QED BY <1>1, <1>3, <1>4, InitVaulted, InitOrderly DEF Kept, Vault!Init, Init

LEMMA StepKept ==
  ASSUME SingleFault, Kept, [Next]_vars
  PROVE  Kept' /\ [Vault!Next]_(Vault!vars)
<1>1. Vaulted' /\ RetentionKept BY StepVaulted DEF Kept
<1>2. Orderly' BY StepOrderly DEF Kept
<1>3. ReadBack' /\ [Vault!Next]_(Vault!vars)
  <2>1. ASSUME NEW p \in Process, Request(p) PROVE UNCHANGED <<cache, kept, truth>>
    BY <2>1 DEF Request, PlanArchive, PlanReclaim, PlanRestore, PlanSweep, Bind
  <2>2. ASSUME NEW p \in Process, Engine(p) PROVE ReadBack' /\ [Vault!Next]_(Vault!vars)
    <3>1. CASE AcquireLease(p) \/ LeaseTimeout(p) \/ Begin(p) \/ EndSweep(p) \/ Finish(p)
      <4>1. UNCHANGED <<cache, kept, truth>>
        BY <3>1 DEF AcquireLease, LeaseTimeout, Begin, EndSweep, Finish, Refuse, Skip
      <4> QED BY <1>1, <4>1, VaultStutters DEF Kept
    <3>2. CASE PublishBlob(p) \/ PublishManifest(p)
      <4>1. plan[p].rep \in Rep BY <3>2, EngineStep DEF PublishBlob, PublishManifest, Kept, Vaulted
      <4> QED BY <1>1, <3>2, <4>1, WriteStutters, VaultStutters
          DEF PublishBlob, PublishManifest, Refuse, Kept
    <3>3. CASE PublishCatalog(p) \/ PublishStatus(p)
      BY <1>1, <3>3, CatalogArchives, StatusStutters
    <3>4. CASE \E m \in Member : ReclaimMember(p, m) \/ InstallMember(p, m)
      BY <1>1, <3>4, ReclaimEvicts, InstallRestores
    <3>5. CASE OpenJournal(p) \/ StageMembers(p) \/ CloseJournal(p) \/ ClearStaging(p)
      BY <1>1, <3>5, RestoreStutters
    <3>6. CASE \E t \in todo[p] : SweepTarget(p, t) BY <1>1, <3>6, SweepStutters
    <3> QED BY <2>2, <3>1, <3>2, <3>3, <3>4, <3>5, <3>6 DEF Engine
  <2>3. ASSUME NEW p \in Process, Crash(p) PROVE ReadBack' /\ UNCHANGED Vault!vars
    <3>1. cache \in Store /\ kept' = kept /\ truth' = truth
      BY <2>3 DEF Crash, Kept, Vaulted, Core, TypeOK
    <3>2. cache'.catalog = cache.catalog /\ cache'.hot = cache.hot
      BY <2>3, <3>1 DEF Crash, Store
    <3> QED BY <1>1, <3>1, <3>2, VaultStutters DEF Kept
  <2>4. CASE Environment
    <3>1. \A r \in Rep : ~Rot(r) BY DEF Rot, SingleFault, OneLoss
    <3> QED BY <1>1, <2>3, <2>4, <3>1, OwnerRewrites, PowerTears DEF Environment
  <2>5. CASE UNCHANGED vars BY <1>1, <2>5, VaultStutters DEF vars, Kept
  <2>6. CASE UNCHANGED <<cache, kept, truth>> BY <1>1, <2>6, VaultStutters DEF Kept
  <2> QED BY <2>1, <2>2, <2>4, <2>5, <2>6 DEF Next
<1> QED BY <1>1, <1>2, <1>3 DEF Kept

(* The storage commands implement the vault: they catalog only what is hot, *)
(* unlink and install only what an archive gives back.                     *)
THEOREM VaultIsImplemented == SingleFault /\ Spec => ImplementsVault
<1> SUFFICES ASSUME SingleFault PROVE Spec => ImplementsVault
  BY DEF SingleFault, OneLoss
<1>1. Kept /\ [Next]_vars => Kept' /\ [Vault!Next]_(Vault!vars) BY StepKept
<1> QED BY <1>1, InitKept, PTL DEF Spec, ImplementsVault, Vault!Spec

-----------------------------------------------------------------------------
(* What EvidenceVault promises by itself, for any members and any contents, *)
(* whoever implements it: its variables are declared anew.                 *)

VARIABLES hot, cold, latest

Promise == INSTANCE EvidenceVault

Promised == Promise!TypeOK /\ Promise!NothingLost

(* Typing alone is not inductive for NothingLost: Restore needs to know that *)
(* no owner ever wrote the absence of a file.                              *)
LEMMA StepKeepsPromise ==
  ASSUME Promise!VaultAssumption, Promised, [Promise!Next]_(Promise!vars) PROVE Promised'
<1> USE DEF Promise!VaultAssumption, Promised, Promise!TypeOK, Promise!NothingLost
<1>1. ASSUME NEW S \in SUBSET Member, Promise!Archive(S) PROVE Promised'
  <2>1. \A m \in S : hot[m] \in Content \cup {Torn}
    BY <1>1 DEF Promise!Archive
  <2> QED BY <1>1, <2>1 DEF Promise!Archive
<1>2. ASSUME NEW S \in SUBSET Member, Promise!Tear(S) PROVE Promised'
  BY <1>2 DEF Promise!Tear
<1>3. ASSUME NEW m \in Member, Promise!Evict(m) PROVE Promised'
  BY <1>3 DEF Promise!Evict
<1>4. ASSUME NEW m \in Member, Promise!Restore(m) PROVE Promised'
  BY <1>4 DEF Promise!Restore
<1>5. ASSUME NEW m \in Member, NEW c \in Content, Promise!Rewrite(m, c) PROVE Promised'
  BY <1>5 DEF Promise!Rewrite
<1>6. CASE UNCHANGED Promise!vars
  BY <1>6 DEF Promise!vars
<1> QED BY <1>1, <1>2, <1>3, <1>4, <1>5, <1>6 DEF Promise!Next

(* The bytes an owner last wrote are hot or cold in every reachable state, *)
(* which is what an implementation of the vault inherits.                  *)
THEOREM NothingIsLost ==
  ASSUME Promise!VaultAssumption PROVE Promise!Spec => []Promise!NothingLost
<1>1. Promise!Init => Promised
  BY DEF Promise!VaultAssumption, Promise!Init, Promised, Promise!TypeOK, Promise!NothingLost
<1>2. Promised => Promise!NothingLost
  BY DEF Promised
<1>3. Promised /\ [Promise!Next]_(Promise!vars) => Promised'
  BY StepKeepsPromise
<1> QED BY <1>1, <1>2, <1>3, PTL DEF Promise!Spec

=============================================================================
