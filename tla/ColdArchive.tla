---------------------------- MODULE ColdArchive ----------------------------
(***************************************************************************)
(* The cold-archive life cycle of mdstats/training_data/storage: archive   *)
(* creation, hot reclamation, restore and the sweep of storage-owned       *)
(* residue, run by several storage processes that share one campaign       *)
(* workspace, one storage-operation lease and the owners of the files.     *)
(*                                                                         *)
(* The file system has two layers.  cache is what every process reads;     *)
(* kept is what a power loss falls back to.  A directory fsync copies the  *)
(* entries of that directory from cache to kept.                           *)
(***************************************************************************)
EXTENDS FiniteSets, Naturals

CONSTANTS
  Member,       \* the certified files of one historical run
  Content,      \* what the owner of the run may have written in a file
  Stamp,        \* the time a gzip header embeds: two blobs of one archive differ
  Process,      \* storage command invocations
  Commands,     \* the operations they are asked for
  Faults,       \* subset of {"crash", "power", "rot"}
  JournalKeep,  \* restore_journal_retention_records
  Absent,       \* no such file
  Torn,         \* bytes that never reached the disk, or rotted there
  Nobody,       \* the lease is free
  NoPlan        \* the process has no plan

Bytes == Content \cup {Torn}

(* An archive identity is the digest of the paths and the digests of its   *)
(* members, so the members and their bytes stand for it.                   *)
Rep == UNION {[S -> Bytes] : S \in (SUBSET Member) \ {{}}}

Blob == [bytes : Rep, stamp : Stamp]

Reclamation == {"pending", "not_requested", "partial", "complete"}

Entry == [blob : Blob, reclamation : Reclamation]

Store == [hot      : [Member -> Bytes \cup {Absent}],
          blob     : [Rep -> Blob \cup {Absent}],
          manifest : [Rep -> Blob \cup {Absent}],   \* the blob digest it names
          catalog  : [Rep -> Entry \cup {Absent}],
          journal  : [Rep -> {"staging", "terminal", Absent}],
          staging  : [Rep -> {"staged", Absent}]]

Target == ({"hot"} \X Member) \cup
          ({"blob", "manifest", "journal", "staging"} \X Rep)

(* A member the engine refused to reclaim. *)
Refusal == {"refused"} \X Member

Op == {"archive", "archive_keep_hot", "reclaim", "restore", "sweep"}

Views == [residue : SUBSET Target, open : SUBSET Rep, terminal : SUBSET Rep,
          staged : SUBSET Rep]

Plan == [op        : Op,
         rep       : Rep \cup {Absent},
         authority : Blob \cup {Absent},
         targets   : SUBSET Target,
         absent    : SUBSET Target,
         views     : Views]

Control == {"idle", "waiting", "begin", "blob", "manifest", "catalog",
            "evict", "journal", "stage", "install", "unstage", "sweep",
            "finish"}

ASSUME ConstantAssumption ==
  /\ Content # {} /\ Stamp # {}
  /\ Absent \notin Bytes /\ Absent \notin Blob /\ Absent \notin Entry
  /\ Absent \notin {"staging", "terminal", "staged"} /\ Absent \notin Rep
  /\ Torn \notin Content
  /\ Nobody \notin Process /\ NoPlan \notin Plan
  /\ Commands \subseteq Op /\ JournalKeep \in Nat \ {0}

VARIABLES
  cache,   \* the files as every process sees them
  kept,    \* the files as a power loss would leave them
  truth,   \* the bytes the owner last wrote in each member (history)
  lease,   \* the holder of the storage-operation lease
  pc,      \* where each process is
  plan,    \* the plan each process is bound to
  todo,    \* the targets of that plan its engine has not reached
  moved    \* the targets that changed on disk since the plan bound them

vars == <<cache, kept, truth, lease, pc, plan, todo, moved>>

-----------------------------------------------------------------------------
(* What a snapshot and an authentication read.                              *)

(* Mutant of Residue: the claims of the catalog are ignored. *)
ResidueIgnoringCatalog ==
  {t \in {"blob", "manifest"} \X Rep : cache[t[1]][t[2]] # Absent}

Residue == {t \in {"blob", "manifest"} \X Rep :
              cache[t[1]][t[2]] # Absent /\ cache.catalog[t[2]] = Absent}

OpenJournals == {r \in Rep : cache.journal[r] = "staging"}

(* Mutant of TerminalJournals: retention counts open journals too. *)
EveryJournal == {r \in Rep : cache.journal[r] # Absent}

TerminalJournals == {r \in Rep : cache.journal[r] = "terminal"}

Staged == {r \in Rep : cache.staging[r] # Absent}

CurrentViews == [residue |-> Residue, open |-> OpenJournals,
                 terminal |-> TerminalJournals, staged |-> Staged]

BlobMatchesManifest(store, r) ==
  /\ store.manifest[r] # Absent
  /\ store.blob[r] = store.manifest[r]
  /\ store.blob[r].bytes = r

Authentic(store, r) == store.catalog[r] # Absent /\ BlobMatchesManifest(store, r)

StillHot(r) == {m \in DOMAIN r : cache.hot[m] # Absent}

-----------------------------------------------------------------------------
(* Shared steps.                                                            *)

(* The process ends its operation: the kernel or the context manager frees *)
(* the lease, and the plan is gone with the process.                       *)
Leave(p) ==
  /\ lease' = IF lease = p THEN Nobody ELSE lease
  /\ pc' = [pc EXCEPT ![p] = "idle"]
  /\ plan' = [plan EXCEPT ![p] = NoPlan]
  /\ todo' = [todo EXCEPT ![p] = {}]

Goto(p, next, left) ==
  /\ pc' = [pc EXCEPT ![p] = next]
  /\ todo' = [todo EXCEPT ![p] = left]
  /\ UNCHANGED <<lease, plan>>

(* Every plan that bound target t and is not yet revalidated will find a   *)
(* different inode, size or mtime there.                                   *)
Touch(t) ==
  moved' = [q \in Process |->
              IF pc[q] \in {"waiting", "begin"} /\ t \in plan[q].targets
              THEN moved[q] \cup {t} ELSE moved[q]]

(* Mutant of Synced: the catalog directory is never fsynced. *)
SyncedButCatalog(kind, x) ==
  CASE kind = "catalog" -> kept
    [] kind \in {"blob", "manifest"} -> [kept EXCEPT !.blob = cache'.blob, !.manifest = cache'.manifest]
    [] kind \in {"hot", "journal", "staging"} -> [kept EXCEPT ![kind][x] = cache'[kind][x]]

(* An fsync of the directory that holds files of one kind, after the name x *)
(* in it changed.  Members may lie in different directories.               *)
Synced(kind, x) ==
  CASE kind \in {"blob", "manifest"} -> [kept EXCEPT !.blob = cache'.blob, !.manifest = cache'.manifest]
    [] kind = "catalog" -> [kept EXCEPT !.catalog = cache'.catalog]
    [] kind = "journal" -> [kept EXCEPT !.journal = cache'.journal]
    [] kind = "staging" -> [kept EXCEPT !.staging = cache'.staging]
    [] kind = "hot"     -> [kept EXCEPT !.hot[x] = cache'.hot[x]]

(* One durable publication or unlink: the name changes, then its directory *)
(* is fsynced.  A process that dies or raises in between leaves the name   *)
(* changed and the directory not synced.                                   *)
Write(p, kind, x, v, next, left) ==
  /\ cache' = [cache EXCEPT ![kind][x] = v]
  /\ Touch(<<kind, x>>)
  /\ \/ kept' = Synced(kind, x) /\ Goto(p, next, left)
     \/ "crash" \in Faults /\ kept' = kept /\ Leave(p)
  /\ UNCHANGED truth

Skip(p, next, left) == Goto(p, next, left) /\ UNCHANGED <<cache, kept, truth, moved>>

Refuse(p) == Leave(p) /\ UNCHANGED <<cache, kept, truth, moved>>

-----------------------------------------------------------------------------
(* Planning reads without any lock and binds what it read.                  *)

Bind(p, op, r, authority, targets) ==
  /\ op \in Commands
  /\ plan' = [plan EXCEPT ![p] =
       [op |-> op, rep |-> r, authority |-> authority, targets |-> targets,
        absent |-> {t \in targets : cache[t[1]][t[2]] = Absent},
        views |-> CurrentViews]]
  /\ pc' = [pc EXCEPT ![p] = "waiting"]
  /\ moved' = [moved EXCEPT ![p] = {}]
  /\ UNCHANGED <<cache, kept, truth, lease, todo>>

PlanArchive(p, op) ==
  LET present == {m \in Member : cache.hot[m] # Absent} IN
  /\ pc[p] = "idle"
  /\ op \in {"archive", "archive_keep_hot"}
  /\ present # {}
  /\ Bind(p, op, [m \in present |-> cache.hot[m]], Absent, {"hot"} \X present)

(* The plan takes the members that are still hot and that their owner lets *)
(* go; the others it refuses.                                              *)
PlanReclaim(p, r) ==
  /\ pc[p] = "idle"
  /\ Authentic(cache, r)
  /\ \E released \in SUBSET StillHot(r) :
       Bind(p, "reclaim", r, cache.manifest[r], {"hot"} \X released)

(* A destination that already holds other bytes is a conflict, and the     *)
(* command raises before it plans.                                         *)
PlanRestore(p, r) ==
  /\ pc[p] = "idle"
  /\ Authentic(cache, r)
  /\ \A m \in DOMAIN r : cache.hot[m] \in {Absent, r[m]}
  /\ Bind(p, "restore", r, cache.manifest[r], {"hot"} \X DOMAIN r)

(* Uncataloged blobs and manifests, staging whose journal is not open, and *)
(* terminal journals beyond the retention bound (oldest first in the code, *)
(* any of them here).                                                      *)
PlanSweep(p) ==
  /\ pc[p] = "idle"
  /\ \E retire \in SUBSET TerminalJournals :
       /\ Cardinality(TerminalJournals \ retire) <= JournalKeep
       /\ retire # {} => Cardinality(TerminalJournals \ retire) = JournalKeep
       /\ Bind(p, "sweep", Absent, Absent,
               Residue \cup ({"staging"} \X (Staged \ OpenJournals))
                       \cup ({"journal"} \X retire))

-----------------------------------------------------------------------------
(* The executor envelope: lease, owner barrier, revalidation, dispatch.     *)

AcquireLease(p) ==
  /\ pc[p] = "waiting" /\ lease = Nobody
  /\ lease' = p
  /\ pc' = [pc EXCEPT ![p] = "begin"]
  /\ UNCHANGED <<cache, kept, truth, plan, todo, moved>>

(* Mutant of LeaseTimeout: a busy lease is waited for without a deadline   *)
(* and the wait never ends.                                                *)
LeaseNeverTimesOut(p) == pc[p] = "waiting" /\ lease # Nobody /\ Skip(p, "waiting", todo[p])

LeaseTimeout(p) ==
  /\ pc[p] = "waiting" /\ lease # Nobody
  /\ Refuse(p)

(* revalidate_plan: the owner views and every target are as planned; a     *)
(* target of a removal may already be gone.                                *)
PlanHolds(p) ==
  /\ plan[p].views = CurrentViews
  /\ \A t \in plan[p].targets :
       \/ t \notin moved[p]
       \/ /\ cache[t[1]][t[2]] = Absent
          /\ t \in plan[p].absent \/ plan[p].op \in {"reclaim", "sweep"}

(* Mutant of Reauthentic: the plan's authentication is trusted at apply. *)
PlannedIsAuthentic(p) == cache.catalog[plan[p].rep] # Absent

(* reauthenticate_representation: the archive still authenticates and is   *)
(* the one the plan bound.                                                 *)
Reauthentic(p) == LET r == plan[p].rep IN
  Authentic(cache, r) /\ cache.manifest[r] = plan[p].authority

(* Mutant of FirstStep: an archive that already exists is built again. *)
RebuildFirst(p) ==
  CASE plan[p].op \in {"archive", "archive_keep_hot"} -> "blob"
    [] plan[p].op = "reclaim" -> "evict"
    [] plan[p].op = "restore" -> "journal"
    [] plan[p].op = "sweep" -> "sweep"

FirstStep(p) ==
  CASE plan[p].op \in {"archive", "archive_keep_hot"} /\ cache.catalog[plan[p].rep] = Absent -> "blob"
    [] plan[p].op \in {"archive", "archive_keep_hot"} /\ cache.catalog[plan[p].rep] # Absent -> "evict"
    [] plan[p].op = "reclaim" -> "evict"
    [] plan[p].op = "restore" -> "journal"
    [] plan[p].op = "sweep" -> "sweep"

Admitted(p) ==
  CASE plan[p].op \in {"archive", "archive_keep_hot"} ->
         cache.catalog[plan[p].rep] # Absent => Authentic(cache, plan[p].rep)
    [] plan[p].op \in {"reclaim", "restore"} -> Reauthentic(p)
    [] plan[p].op = "sweep" -> TRUE

Begin(p) ==
  /\ pc[p] = "begin"
  /\ IF PlanHolds(p) /\ Admitted(p)
     THEN Skip(p, FirstStep(p), IF plan[p].op = "archive_keep_hot" THEN {} ELSE plan[p].targets)
     ELSE Refuse(p)

-----------------------------------------------------------------------------
(* Archive creation.                                                        *)

PublishBlob(p) == LET r == plan[p].rep IN
  /\ pc[p] = "blob"
  /\ IF \A m \in DOMAIN r : cache.hot[m] # Absent
     THEN \E s \in Stamp :
            Write(p, "blob", r, [bytes |-> [m \in DOMAIN r |-> cache.hot[m]], stamp |-> s],
                  "manifest", todo[p])
     ELSE Refuse(p)

PublishManifest(p) == LET r == plan[p].rep IN
  /\ pc[p] = "manifest"
  /\ Write(p, "manifest", r, cache.blob[r], "catalog", todo[p])

(* Mutant of PublishCatalog: the entry leaves out the blob's digest. *)
PublishCatalogWithoutDigest(p) == LET r == plan[p].rep IN
  /\ pc[p] = "catalog"
  /\ Write(p, "catalog", r, [blob |-> cache.catalog[r], reclamation |-> "pending"], "evict", todo[p])

PublishCatalog(p) == LET r == plan[p].rep IN
  /\ pc[p] = "catalog"
  /\ IF /\ BlobMatchesManifest(cache, r)
        /\ cache.catalog[r] # Absent => cache.catalog[r].blob = cache.manifest[r]
     THEN Write(p, "catalog", r,
                [blob |-> cache.manifest[r],
                 reclamation |-> IF plan[p].op = "archive" THEN "pending" ELSE "not_requested"],
                "evict", todo[p])
     ELSE Refuse(p)

(* Mutant of ReclaimMember: whatever is hot is unlinked. *)
ReclaimUnhashed(p, m) == LET left == todo[p] \ {<<"hot", m>>} IN
  /\ pc[p] = "evict" /\ <<"hot", m>> \in todo[p]
  /\ IF cache.hot[m] # Absent THEN Write(p, "hot", m, Absent, "evict", left)
                              ELSE Skip(p, "evict", left)

(* Hot reclamation, member by member: absent already, or the planned bytes *)
(* and then unlinked, or refused because the bytes changed.                *)
ReclaimMember(p, m) == LET left == todo[p] \ {<<"hot", m>>} IN
  /\ pc[p] = "evict" /\ <<"hot", m>> \in todo[p]
  /\ \/ cache.hot[m] = Absent /\ Skip(p, "evict", left)
     \/ cache.hot[m] = plan[p].rep[m] /\ Write(p, "hot", m, Absent, "evict", left)
     \/ /\ cache.hot[m] \notin {Absent, plan[p].rep[m]}
        /\ Skip(p, "evict", left \cup {<<"refused", m>>})

(* Mutant of ReclaimStatus: an attempted reclamation is a complete one. *)
AttemptIsComplete(p) == IF plan[p].op = "archive_keep_hot" THEN "not_requested" ELSE "complete"

(* The creator counts the members it was refused; the reclaimer looks at   *)
(* every member of the archive again.                                      *)
ReclaimStatus(p) ==
  CASE plan[p].op = "archive_keep_hot" -> "not_requested"
    [] plan[p].op = "archive" -> IF todo[p] = {} THEN "complete" ELSE "partial"
    [] plan[p].op = "reclaim" -> IF StillHot(plan[p].rep) = {} THEN "complete" ELSE "partial"

(* The operational half of the catalog entry; the immutable half is        *)
(* carried forward.                                                        *)
PublishStatus(p) == LET r == plan[p].rep IN
  /\ pc[p] = "evict" /\ todo[p] \subseteq Refusal
  /\ Write(p, "catalog", r, [cache.catalog[r] EXCEPT !.reclamation = ReclaimStatus(p)],
           "finish", {})

-----------------------------------------------------------------------------
(* Restore.                                                                 *)

OpenJournal(p) ==
  /\ pc[p] = "journal"
  /\ Write(p, "journal", plan[p].rep, "staging", "stage", todo[p])

(* Staged content is written through the page cache and never fsynced.      *)
StageMembers(p) ==
  /\ pc[p] = "stage"
  /\ cache' = [cache EXCEPT !.staging[plan[p].rep] = "staged"]
  /\ Goto(p, "install", todo[p])
  /\ Touch(<<"staging", plan[p].rep>>)
  /\ UNCHANGED <<kept, truth>>

(* os.replace from staging and an fsync of the parent directory: the name  *)
(* is durable, the bytes behind it are not.                                *)
InstallMember(p, m) == LET left == todo[p] \ {<<"hot", m>>} IN
  /\ pc[p] = "install" /\ <<"hot", m>> \in todo[p]
  /\ IF cache.hot[m] # Absent
     THEN Skip(p, "install", left)
     ELSE /\ cache' = [cache EXCEPT !.hot[m] = plan[p].rep[m]]
          /\ Touch(<<"hot", m>>)
          /\ \/ kept' = [kept EXCEPT !.hot[m] = Torn] /\ Goto(p, "install", left)
             \/ "crash" \in Faults /\ kept' = kept /\ Leave(p)
          /\ UNCHANGED truth

Installed(r) == \A m \in DOMAIN r : cache.hot[m] = r[m]

(* Mutant of CloseJournal: the installation is not authenticated. *)
CloseUnread(p) ==
  /\ pc[p] = "install"
  /\ Write(p, "journal", plan[p].rep, "terminal", "unstage", {})

CloseJournal(p) == LET r == plan[p].rep IN
  /\ pc[p] = "install" /\ todo[p] = {}
  /\ IF Installed(r)
     THEN Write(p, "journal", r, "terminal", "unstage", {})
     ELSE Skip(p, "unstage", {})

ClearStaging(p) ==
  /\ pc[p] = "unstage"
  /\ cache' = [cache EXCEPT !.staging[plan[p].rep] = Absent]
  /\ Goto(p, "finish", {})
  /\ Touch(<<"staging", plan[p].rep>>)
  /\ UNCHANGED <<kept, truth>>

-----------------------------------------------------------------------------
(* The sweep of storage-owned residue.                                      *)

(* cleanup_action_authority asks the revalidated snapshot, whose views are *)
(* the planned ones, so a planned target is released unless already gone.  *)
SweepTarget(p, t) ==
  /\ pc[p] = "sweep" /\ t \in todo[p]
  /\ IF cache[t[1]][t[2]] # Absent
     THEN Write(p, t[1], t[2], Absent, "sweep", todo[p] \ {t})
     ELSE Skip(p, "sweep", todo[p] \ {t})

EndSweep(p) == pc[p] = "sweep" /\ todo[p] = {} /\ Skip(p, "finish", {})

(* Settlement and audit, then the barrier and the lease are released.       *)
Finish(p) == pc[p] = "finish" /\ Refuse(p)

-----------------------------------------------------------------------------
(* Owners and faults.                                                       *)

(* A supported writer of the run holds the run-activity lease, which the   *)
(* owner barrier of every operation that touches the run holds too.        *)
Fenced ==
  /\ lease # Nobody /\ pc[lease] # "begin"
  /\ \E m \in Member : <<"hot", m>> \in plan[lease].targets

OwnerWrite(m, c) ==
  /\ cache.hot[m] \in Content \ {c}
  /\ ~Fenced
  /\ cache' = [cache EXCEPT !.hot[m] = c]
  /\ kept' = [kept EXCEPT !.hot[m] = c]
  /\ truth' = [truth EXCEPT ![m] = c]
  /\ Touch(<<"hot", m>>)
  /\ UNCHANGED <<lease, pc, plan, todo>>

(* A process is killed, or its engine raises; only in the second case does *)
(* the finally block of the restore clear its staging.                     *)
Crash(p) ==
  /\ "crash" \in Faults /\ pc[p] # "idle"
  /\ \/ UNCHANGED <<cache, moved>>
     \/ /\ pc[p] = "install"
        /\ cache' = [cache EXCEPT !.staging[plan[p].rep] = Absent]
        /\ Touch(<<"staging", plan[p].rep>>)
  /\ Leave(p)
  /\ UNCHANGED <<kept, truth>>

Unsynced == {t \in Target \cup ({"catalog"} \X Rep) : cache[t[1]][t[2]] # kept[t[1]][t[2]]}

(* What is read of one kind of file after the names in lost fell back.      *)
After(kind, lost) ==
  [x \in DOMAIN cache[kind] |-> IF <<kind, x>> \in lost THEN kept[kind][x] ELSE cache[kind][x]]

PowerLoss ==
  /\ "power" \in Faults
  /\ \E lost \in SUBSET Unsynced :
       cache' = [hot      |-> After("hot", lost),
                 blob     |-> After("blob", lost),
                 manifest |-> After("manifest", lost),
                 catalog  |-> After("catalog", lost),
                 journal  |-> After("journal", lost),
                 staging  |-> After("staging", lost)]
  /\ kept' = cache'
  /\ lease' = Nobody
  /\ pc' = [p \in Process |-> "idle"]
  /\ plan' = [p \in Process |-> NoPlan]
  /\ todo' = [p \in Process |-> {}]
  /\ moved' = [p \in Process |-> {}]
  /\ UNCHANGED truth

(* A retained blob decays on disk while nothing consumes it.                *)
Rot(r) ==
  /\ "rot" \in Faults /\ lease = Nobody /\ cache.blob[r] # Absent
  /\ LET rotten == [cache.blob[r] EXCEPT !.bytes = [m \in DOMAIN @ |-> Torn]] IN
       /\ cache' = [cache EXCEPT !.blob[r] = rotten]
       /\ kept' = [kept EXCEPT !.blob[r] = rotten]
  /\ Touch(<<"blob", r>>)
  /\ UNCHANGED <<truth, lease, pc, plan, todo>>

-----------------------------------------------------------------------------
EmptyStore == [hot      |-> truth,
               blob     |-> [r \in Rep |-> Absent],
               manifest |-> [r \in Rep |-> Absent],
               catalog  |-> [r \in Rep |-> Absent],
               journal  |-> [r \in Rep |-> Absent],
               staging  |-> [r \in Rep |-> Absent]]

Init ==
  /\ truth \in [Member -> Content]
  /\ cache = EmptyStore
  /\ kept = EmptyStore
  /\ lease = Nobody
  /\ pc = [p \in Process |-> "idle"]
  /\ plan = [p \in Process |-> NoPlan]
  /\ todo = [p \in Process |-> {}]
  /\ moved = [p \in Process |-> {}]

Request(p) ==
  \/ \E op \in Op : PlanArchive(p, op)
  \/ \E r \in Rep : PlanReclaim(p, r) \/ PlanRestore(p, r)
  \/ PlanSweep(p)

Engine(p) ==
  \/ AcquireLease(p) \/ LeaseTimeout(p) \/ Begin(p)
  \/ PublishBlob(p) \/ PublishManifest(p) \/ PublishCatalog(p)
  \/ \E m \in Member : ReclaimMember(p, m) \/ InstallMember(p, m)
  \/ PublishStatus(p)
  \/ OpenJournal(p) \/ StageMembers(p) \/ CloseJournal(p) \/ ClearStaging(p)
  \/ \E t \in todo[p] : SweepTarget(p, t)
  \/ EndSweep(p) \/ Finish(p)

Environment ==
  \/ \E m \in Member, c \in Content : OwnerWrite(m, c)
  \/ \E p \in Process : Crash(p)
  \/ PowerLoss
  \/ \E r \in Rep : Rot(r)

Next == (\E p \in Process : Request(p) \/ Engine(p)) \/ Environment

Spec == Init /\ [][Next]_vars

(* A process that has started its operation keeps running it; nothing makes *)
(* an operator start one.                                                  *)
FairSpec == Spec /\ \A p \in Process : WF_vars(Engine(p))

-----------------------------------------------------------------------------
TypeOK ==
  /\ cache \in Store /\ kept \in Store
  /\ truth \in [Member -> Content]
  /\ lease \in Process \cup {Nobody}
  /\ pc \in [Process -> Control]
  /\ plan \in [Process -> Plan \cup {NoPlan}]
  /\ todo \in [Process -> SUBSET (Target \cup Refusal)]
  /\ moved \in [Process -> SUBSET Target]

(* A member whose latest bytes are hot, or in an archive that is cataloged *)
(* and authenticates.                                                      *)
ColdIn(store, m) ==
  \E r \in Rep : m \in DOMAIN r /\ r[m] = truth[m] /\ Authentic(store, r)

(* Whatever the storage commands do and wherever they are interrupted, the *)
(* bytes an owner last wrote survive: hot, or in an archive that is        *)
(* cataloged and authenticates (archive_create_engine,                     *)
(* _reclaim_planned_members, durable_unlink).                              *)
NoContentLost == \A m \in Member : cache.hot[m] = truth[m] \/ ColdIn(cache, m)

(* A catalog entry names exactly the blob and the manifest on disk, and    *)
(* they represent the members it stands for, whatever crashed, was swept or *)
(* was archived again since (publish_catalog_entry,                        *)
(* uncataloged_archive_residue).                                           *)
CatalogAuthenticates ==
  \A r \in Rep : cache.catalog[r] # Absent =>
    BlobMatchesManifest(cache, r) /\ cache.catalog[r].blob = cache.blob[r]

(* A restore that is installing has its journal open and its staging tree  *)
(* in place: no other storage command sweeps them under it                 *)
(* (archive_restore_engine, control_plane_views).                          *)
InstallKeepsItsGround ==
  \A p \in Process : pc[p] = "install" =>
    cache.journal[plan[p].rep] = "staging" /\ cache.staging[plan[p].rep] # Absent

(* No step of a storage command deletes the last good copy: an unlinked    *)
(* member is in an archive that authenticates at that very moment, even    *)
(* when blobs decay between planning and apply                             *)
(* (reauthenticate_representation).                                        *)
LastCopyNeverReclaimed ==
  [][\A m \in Member : cache.hot[m] = truth[m] /\ cache'.hot[m] = Absent => ColdIn(cache', m)]_vars

(* Every cataloged archive is there after the step as it was before it. *)
RetentionKept ==
  \A r \in Rep : cache.catalog[r] # Absent =>
    /\ cache'.catalog[r] # Absent
    /\ cache'.catalog[r].blob = cache.catalog[r].blob
    /\ cache'.blob[r] = cache.blob[r]
    /\ cache'.manifest[r] = cache.manifest[r]

(* A retained representation is neither rewritten nor removed: entry, blob *)
(* and manifest stay as they were cataloged                                *)
(* (IMMUTABLE_CATALOG_FIELDS; the reuse branch of archive_create_engine).  *)
RetainedNeverRewritten == [][RetentionKept]_vars

(* The catalog says that hot reclamation is complete only when no member is *)
(* hot (the status archive_create_engine and archive_reclaim_engine        *)
(* publish).                                                               *)
CompleteMeansCold ==
  [][\A r \in Rep :
       /\ cache'.catalog[r] # cache.catalog[r]
       /\ cache'.catalog[r] # Absent
       /\ cache'.catalog[r].reclamation = "complete"
       => StillHot(r) = {}]_vars

(* A terminal journal is published only over a complete installation of    *)
(* exactly the archived bytes (_authenticate_installed).                   *)
ReceiptFollowsInstall ==
  [][\A r \in Rep : cache.journal[r] # "terminal" /\ cache'.journal[r] = "terminal" => Installed(r)]_vars

(* While members are installed the journal is open and the staging complete, *)
(* and a terminal receipt follows only on the installation of every member *)
(* (archive_restore_engine).                                               *)
RestoreIsOrderly == []InstallKeepsItsGround /\ ReceiptFollowsInstall

(* A nonterminal journal is recovery authority: it goes on to terminal or  *)
(* stays, and no retention pass removes it (retirable_terminal_journals).  *)
OpenJournalKept ==
  [][\A r \in Rep : cache.journal[r] = "staging" => cache'.journal[r] # Absent]_vars

(* A terminal receipt never covers bytes the disk lost: durability.py says *)
(* that "a terminal receipt that outlives a power loss must never          *)
(* authenticate bytes that did not".                                       *)
ReceiptOutlivesNoBytes ==
  \A r \in Rep : cache.journal[r] = "terminal" => \A m \in DOMAIN r : cache.hot[m] # Torn \/ r[m] = Torn

(* Every command that was asked for comes to an end: it gets the lease or  *)
(* gives up, and whoever has the lease gives it back (_NonBlockingLease,   *)
(* StorageExecutor.run).                                                   *)
CommandsEnd == \A p \in Process : pc[p] # "idle" ~> pc[p] = "idle"

-----------------------------------------------------------------------------
(* What the archives give back for each member, and the promise of         *)
(* EvidenceVault: the storage commands only ever catalog bytes that are    *)
(* hot, unlink bytes that an archive gives back and install bytes that one *)
(* gives back; no archive ever stops giving back what it gave.             *)
ColdBytes == [m \in Member |-> {r[m] : r \in {s \in Rep : m \in DOMAIN s /\ Authentic(cache, s)}}]

Vault == INSTANCE EvidenceVault WITH hot <- cache.hot, cold <- ColdBytes, latest <- truth

ImplementsVault == Vault!Spec

=============================================================================
