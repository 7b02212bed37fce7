# mdstats: verified models of the storage plane, the one-shot protocols and the bounded schedulers

mdstats analyses molecular-dynamics trajectories and runs long training-data
campaigns over them. Most of its 3000 source files are numerics, parsers and
plots, which run on one thread and keep no state between calls. The part with
hard state is `src/mdstats/training_data`: a campaign workspace that several
processes share, whose bytes are archived, reclaimed and restored by storage
commands while the campaign that owns them may be running, and whose stages
spread work over a pool of workers under a memory budget. This directory models
that part in TLA+, checks it with TLC and proves theorems about it with TLAPS.

Paths below are relative to `src/mdstats/training_data` unless they start with
`src/`.

## 1. Inventory

### 1.1 The components and their state

| Component | Source | State it keeps | Operations that change it | Model |
|---|---|---|---|---|
| Cold archive | `storage/archive.py` | archive blob, manifest, catalog entry, restore journal, staging tree, hot members | create (with or without hot reclamation), reclaim, restore | `ColdArchive` |
| Control plane | `storage/control_plane.py` | directory of the above, the audit stream | publish catalog entry, open and close journal, append audit record, prune audit stream | `ColdArchive`, `StorageExecutor` |
| Durability primitives | `storage/durability.py`, `persistence.py` | none of their own | durable publication, durable unlink, durable append | partly, in the users |
| Storage lease and owner barrier | `storage/lease.py` | one `flock`; the barrier over the owners' locks | acquire with a deadline, release; the kernel releases on exit | `OwnerLocks`, `ColdArchive`, `StorageExecutor` |
| Plan and revalidation | `storage/plan.py` | the plan in the memory of a command | bind views, targets and authority; compare them under the lease | `ColdArchive` |
| Executor | `storage/executor.py` | outcome recorder, result | run: lease, barrier, revalidation, engine, settlement, audit, retention | `StorageExecutor` |
| Deduplication | `storage/dedup.py` | hard links of members | replace a duplicate by a link to a canonical inode | `DedupLinks` |
| Certified removal | `storage/removal.py`, `outcome.py`, `trust.py` | a directory tree under removal, the ledger of what went | anchored recursive removal | `CertifiedRemoval` (partly) |
| Commands, owner views, inventory, policy | `storage/commands.py`, `owners.py`, `inventory.py`, `policy.py` | none | planning of the sweep; the views a plan binds | only what the above use |
| Post-selection store (P5) | `post_selection_store.py` | objects and pointers | publish under the generation barrier | `OwnerLocks`, `LockedActivation` (partly) |
| Post-selection runtime (P5) | `campaign_post_selection_runtime.py` | pending and running training runs | admit, collect, retract, end the wave | `TrainingScheduler` (partly) |
| Adaptive training concurrency | `training_parallel.py` | level, ceiling, samples | observe, promote, back off, disprove a level | `TrainingScheduler` (partly) |
| Qualification (P7) | `qualification/` | attempts with their proofs; activations, disclosure, records, release index | open, release, reopen an attempt; remove its scratch; activate and evaluate the locked cohort once | `QualificationAttempt`, `LockedActivation` (partly) |
| Target-size screen (P3) | `target_size_execution/coordinator.py`, `campaign_target_size_*.py` | completions, progress, batches, heads; the campaign's revisions | complete, commit, reconcile; bind, install a recommendation, decide | `ScreenCoordinator` (partly) |
| Work queue | `work_queue.py` | ready, in-flight and completed tasks, reservations, memory | submit, reserve, release, dispatch, wait, drain, shut down | `WorkQueue` |
| Geometry pass (FEAS1) | `target_order/feasibility.py` | families, their blocks, ordered reducers | prepare, query a block, reduce, finalize | `FeasibilityScheduler` (partly) |
| Density scenes | `src/mdstats/plotting/density_scheduler.py` | task graph, memory and worker shares | admit, rebalance, finish, fail | `DensityScheduler` |
| Prepared generations, checkpoint capsules | `campaign_prepared_generation.py`, `checkpoint_capsule.py`, `artifact_staging.py` | immutable objects and the pointer that names one | create or verify, publish the pointer | not modelled |

The rest (trajectory input and output, structure and correlation statistics,
rendering, configuration, model trust, inference batch search, storage reports)
keeps no state that a second actor acts on. `PROJECT.json` lists it with the
reason.

### 1.2 How they interact

* A storage command **plans without a lock**: it reads the control plane and
  the owners' views and binds what it read. It then takes the storage lease,
  takes the owners' locks (the barrier), **revalidates** the plan and hands it
  to an engine. Between planning and applying, any other command may have run.
* The engine changes files one by one. Every change is a publication or an
  unlink **followed by an fsync of the directory**; a process may die between
  the two, and the next command sees a name that a power loss can take back.
* The executor records what the engine did in the audit stream, which every
  command appends to and which retention rewrites as a whole.
* The owner of a run writes its members whenever it holds its own run-activity
  lease, which the barrier excludes from revalidation to the end of the
  operation, and at no other time.
* Owners **publish in two steps**, an immutable object and then the pointer that
  makes it current, under the publication barrier of their generation (P5, P7),
  the state lock of their attempt (P7) or the screen locks of their root (P3).
  Storage takes the same barriers before it removes anything.
* The campaign's own state is a chain of **revisions**, each committed by
  comparing the predecessor. A screen, a diagnostic and an operator who chooses,
  resets or freezes a design race for the next revision.
* A stage of the campaign is one coordinator thread and a pool. The coordinator
  calls the work queue; worker threads only finish futures. The geometry pass is
  such a coordinator; it keeps results in per-family reducers until their turn
  comes and reserves memory for every prepared family.

### 1.3 What is hard, and what makes each part correct

| Component | Hard behaviour | Correct when |
|---|---|---|
| Cold archive | stale plans; archives that overlap; processes that die between any two steps; power failing between replace and fsync; blobs that decay | the owner's latest bytes are never lost; a cataloged archive is never rewritten and always authenticates; a status never claims more than happened |
| Restore | installation that stops half-way; a sweep in between; unsynced content | journal and staging stay while it installs; a terminal receipt stands only over complete, durable bytes |
| Lease | a waiter with a deadline; a holder that dies | one engine at a time; the lease comes back; every command ends |
| Executor | engines that raise before or after a change; a refusal that is recorded under a second lease | the status is what happened on the disk |
| Audit stream | append against prune; short writes; a rewrite that is not durable yet | a record whose caller was told of it stays readable while it is among the newest; damage is never rewritten away |
| Work queue | completion in any order; more futures done than result slots; failures that clear the queue | the account is exact and inside the budget; every task is in one place |
| Geometry pass | results out of order; families that hold memory while others wait for it | reduction in canonical order; the pass ends; it never runs out of work early |
| Owner locks | storage takes P5 run leases, P5 and P7 barriers and attempt locks; publishers take two barriers | nobody waits in a circle; nobody writes or publishes what storage is changing |
| Deduplication | files rewritten after the plan; links from outside; another command at the same names | every name reads what its owner wrote last; no inode is joined whose links are unaccounted for |
| Certified removal | entries added, replaced or removed under the hands of the removal; a stop half-way | nothing uncertified goes; the outcome credits exactly what went |
| Attempt | invocations that share a record, release it and reopen it, while storage removes released scratch | a pin stays until a terminal release; storage takes only what a proof released; a new record is never certified by an old proof |
| Locked cohort | several commands and crashes between building, disclosing and evaluating an activation; the binding changes meanwhile | one disclosed activation; nothing stale becomes current |
| Screen | deaths between completion, progress, batch, head, current head and campaign revision; two screens on one root; an operator in between | one score per cell; one chain of whole matrices; the newer decision wins |
| Training wave | observations that change between two looks; retracted runs that finish first | a disproven level is not entered again; no run is lost; the wave ends |
| Density scenes | outputs that pile up; failed parents; a task that fits only later | budgets are kept; no task that fits waits; a run leaves only what cannot run, and says why |

`PROJECT.json` ("hazards") gives each of these its line and the properties that
watch it.

## 2. The modules

| Module | Stands for |
|---|---|
| `EvidenceVault` | abstract: what the archive promises about the files of a run |
| `ColdArchive` | archive, reclaim, restore and sweep over a file system with a page cache, several processes, owners and faults; implements `EvidenceVault` |
| `StorageExecutor` | the envelope of a command, the audit stream and its retention |
| `CertifiedRemoval` | the removal of one certified directory |
| `DedupLinks` | deduplication by hard links |
| `OwnerLocks` | every lock storage shares with the owners |
| `QualificationAttempt` | the record of a P7 attempt and the removal of its scratch |
| `LockedActivation` | the one-shot evaluation of the locked cohort |
| `ScreenCoordinator` | the automatic target-size screen and the campaign revisions it races for |
| `TrainingScheduler` | a wave of training runs under the adaptive controller |
| `DensityScheduler` | the tasks of a density scene under one budget |
| `OrderedReduction` | abstract: blocks in order, each family finalized once |
| `WorkQueue` | the queue with any coordinator and any completion order |
| `FeasibilityScheduler` | the loop of the geometry pass, composed with `WorkQueue`; implements `OrderedReduction` |
| `ColdArchive_proofs` | the theorems of `ColdArchive` and of `EvidenceVault` |
| `WorkQueue_proofs`, `DedupLinks_proofs` | the theorems of these components |
| `MCExecutorFaults_proofs` | the theorems of `StorageExecutor`, and of `QualificationAttempt` and `CertifiedRemoval` as `MCExecutorFaults` instantiates them |
| `MCDedupLocks_proofs` | the theorems of `OwnerLocks`, and those of `DedupLinks` carried over to its two settings |
| `MCFeasibilityTraining_proofs` | the theorems of `FeasibilityScheduler`, and of `TrainingScheduler` as it is instantiated there |
| `MCScreenLocked_proofs` | the theorems of `ScreenCoordinator`, and of `LockedActivation` as it is instantiated there |
| `MCQueueDecay_proofs` | the theorems of `DensityScheduler` as it is instantiated there, and one of `ColdArchive` carried over to *decay* |
| `MCColdArchive`, `MCStorageExecutor`, `MCWorkQueue`, `MCFeasibility`, `MCScreen` | constants and symmetry of one component for TLC |
| `MCColdSettings`, `MCExecutorFaults`, `MCQueueDecay`, `MCDedupLocks`, `MCFeasibilityTraining`, `MCScreenLocked` | several settings in one run (section 3.1) |

`PROJECT.json` ("map") gives every definition the lines it stands for. The
sections below say what the state is and where a reader would look for a step.

### 2.1 ColdArchive

*State.* `cache` is the file system every process reads: hot members, blobs,
manifests, catalog, journals, staging. `kept` is what a power loss falls back
to. `truth` is what the owner last wrote (history). `lease`, `pc`, `plan`,
`todo` are the lease and, per process, the step, the bound plan and the targets
the engine has still to reach. `moved` says which bound targets changed on disk
since planning: it stands for the inode, size and mtime that
`revalidate_plan` compares.

*Data.* An archive's identity is the digest of the paths and digests of its
members, so an archive **is** the function from members to bytes. The gzip
header embeds a time: `Stamp` makes two blobs of one archive different, which is
why rebuilding a cataloged archive is a hazard. `Torn` are bytes that never
reached the disk or rotted there.

*Actions and code.*

| Action | Code |
|---|---|
| `PlanArchive`, `PlanReclaim`, `PlanRestore`, `PlanSweep` | the planners of `archive.py` and `commands.py`: guards are their refusals, `Bind` what the plan records |
| `AcquireLease`, `LeaseTimeout` | `_NonBlockingLease` and the executor's deadline |
| `Begin` | barrier, `revalidate_plan` (`PlanHolds`), `reauthenticate_representation` (`Reauthentic`), the reuse branch of the creator (`FirstStep`) |
| `PublishBlob`, `PublishManifest`, `PublishCatalog`, `PublishStatus` | `archive_create_engine`, `publish_catalog_entry` |
| `ReclaimMember` | `_reclaim_planned_members`: gone already, unlinked, or refused because the bytes changed |
| `OpenJournal`, `StageMembers`, `InstallMember`, `CloseJournal`, `ClearStaging` | `archive_restore_engine` with `_stage_members`, `_install_member`, `_authenticate_installed` |
| `SweepTarget`, `EndSweep` | the sweep engine of `commands.py` over uncataloged residue, orphaned staging and terminal journals beyond retention |
| `OwnerWrite` | a supported writer of the run; `Fenced` is the barrier |
| `Crash`, `PowerLoss`, `Rot` | kill or raise at any step; loss of any subset of unsynced names; decay of a retained blob |

`Write` is one durable publication or unlink. It changes the name in `cache` and
then either syncs the directory (`Synced`) or, if processes may die, leaves the
name changed and the directory unsynced.

### 2.2 EvidenceVault

Three variables: what is hot, what archives give back, what was last written.
Cataloging an archive, unlinking one member, installing one member and the tear
of a power loss are one step each. `Evict` requires that an archive gives the
bytes back **now**; no step takes anything out of `cold`. `ColdArchive!ImplementsVault`
maps `hot` to `cache.hot` and `cold` to the bytes in cataloged archives that
authenticate, so every write to a blob, manifest or catalog entry has to be a
stutter or an `Archive` step there.

### 2.3 StorageExecutor

`ColdArchive` looks at what engines do to files; this module looks at the
envelope all of them run in and abstracts the engine to one outcome per target
(gone already, removed, refused, partly done, or an exception before or after
the change). `stream` is the audit file, `open` its unterminated last line,
`synced`, `anchored` and `behind` what of it a power loss leaves. `log`, `told`
and `changed` are history: the records written whole, the operations whose
callers were told `audited`, and what each operation really changed.

Start to report follow `StorageExecutor.run`: lease, barrier and revalidation
(`Begin`, with the second lease of a stale plan), engine (`ApplyTarget`,
`Interrupt`, `Settle`), `durable_append_jsonl` (`WriteRecord`, `WriteShort`,
`WriteFails`, `AnchorStream`), `prune_audit` (`StageRetained`, `ReplaceStream`,
`SyncStream`), and the return or re-raise (`Report`).

### 2.4 WorkQueue and FeasibilityScheduler

`WorkQueue` has one action per entry point of `DeterministicWorkQueue` plus the
steps inside `_dispatch` and `wait_for_completion`; `at` is where the one
coordinator thread is inside the queue. Workers only take `Finish`. The
coordinator is unconstrained: it may make any legal call at any time.

`FeasibilityScheduler` instantiates the queue with its own task identifiers,
sizes and limits and adds the loop of `build_target_coverage_geometry`: refill
(prepare while allowed, otherwise query a block of any family), wait, drain, and
handle the batch in canonical order, reserving the state of each prepared family
and pushing each block into its `DeterministicOrderedReducer`, finalize what can
be finalized. All loop actions that touch the queue are conjunctions with the
queue's own actions, so nothing the queue does is restated.

Sums over tasks are written as the number of their units (`Units` in `WorkQueue`:
pairs of a task and a number up to its estimate), which is the same number and
one the prover can reason about. `DensityScheduler` writes its sums in the same
way.

The rotation among families in refill is abstracted to any order. Scratch memory
of a finalization is reserved and released inside one step, because no other
thread can observe it.

### 2.5 CertifiedRemoval

`tree` gives the entries of each directory; a directory and a file are certified
in the unit, a nested directory holds a file, a hard link shares an inode, and
an *alien* directory does not belong to the campaign. `frames` is the stack of
open directories of `_empty_certified_directory`, each with the names `scandir`
gave it and has still to visit; `seen`, `mutated`, `bytes` are the ledger of
`MutationOutcome`. `Observe` is the comparison with the plan, `Open` the
descriptor and the comparison of what was opened, `Contradiction`,
`UnlinkFile`, `ClassifyDirectory` and `Enter` one visit each, `Emptied` and
`Finalize` the `rmdir` with its identity check, `Persist` the fsync. A comparison
and the system call after it are one step, which the code's own comment grants
("POSIX offers no compare-and-remove"). `Meddle` is anybody else. What was taken
is history, and the outcome has to match it.

### 2.6 DedupLinks

A file is a name, an inode behind it and the value of the inode. `PlanGroups`
groups names of equal value and chooses a canonical inode (`Closed`: all its
links are names of the group); `Bind` records the inodes the plan is bound to;
`Begin` revalidates under the lease. For each action `Check` makes every
comparison of the engine in its order (already aliased, unaccounted links,
changed), `Link` creates the staged link and `Replace` renames it over the
duplicate. `Interrupt`, `Crash` and `Sweep` leave and collect staged links;
`OwnerWrite` publishes a new inode under a name, `LinkOutside` takes a link
nobody reports.

### 2.7 OwnerLocks

`held` says who holds each lock, `ask` the locks a process still needs, each at
the place at which its function takes it, `job` what it wants them for. A
process takes (`Take`) the lock it `Awaits`: the first by path among those at
the first place that is left. `Mutate`
is `StorageExecutor.run` with `owner_mutation_barrier`: the lease, then the
activity leases of the runs, the P5 barriers, the P7 barriers and the attempt
locks it touches, each group in path order. `Train`, `PublishP5`, `PublishP7`
and `ChangeAttempt` are the owners. A process may die anywhere. Locks of owners
have no deadline; only the storage lease has (`LeaseTimeout`).
`StorageIsAlone` is what the fence in `ColdArchive` (`Fenced`) and in `DedupLinks`
assumes of the owners.

### 2.8 QualificationAttempt

The record says whether the attempt is active, aborted or terminal, and which
invocations hold a reference; its digest is its kind and the second it was
written in. `Acquire`/`Pin` and `BeginRelease`/`PublishProof`/`CommitRelease`
are the critical sections of `store.py`, split where the process may die.
Storage plans (`PlanCleanup`), opens an authenticated session
(`OpenSession`) and removes name by name (`RemoveMember`), each removal
authenticating again.

### 2.9 LockedActivation

`activate_locked_test` step by step: look for what exists, run the components
outside of all locks, enter the barriers and the writer gate, put the activation
object, record the disclosure, publish the pointer, evaluate. Beside it a
non-locked qualification (`Attach`) that publishes a record which names what was
opened, and `Succeed`, after which another binding is current.

### 2.10 ScreenCoordinator

The execution root (completions, progress pointers, batches, heads,
`current_head.json`), the two screen locks and the per-cell fences; the log of
campaign revisions; and for every command its step, the revision it holds, the
design it started from and what it has read. `Start` to `Return` is
`execute_current_select_target_size --auto`: reconcile (`Replay`, `Settle`),
recover progress, train one cell after the other under its fence, publish
completion and progress, commit a complete matrix (`PutBatch`, `PutHead`,
`PutCurrent`), bind the head to the campaign, run the diagnostic, install the
recommendation. `Choose`, `Reset`, `Freeze` and `Prepare` are the operator.
Reducer state, batch and head are digests over their predecessor and the
outcomes, so each **is** the history of matrices it commits. The reducer's rules
(successful candidates, survivors, equivalence, termination) are translated.

### 2.11 TrainingScheduler and DensityScheduler

`TrainingScheduler` is the loop of `_train_post_selection_pending_runs` with the
controller `AdaptiveTrainingConcurrency` inside: collect finished futures, take an
observation (safe, unsafe, blind, or none), let the controller move target and
ceiling, demote the latest admission, admit, and on failure abort and reap. A
controller calibrates a level over `Window` samples; what the averages then say
is a choice. `DensityScheduler` is `DensitySceneScheduler.run`: the scan of the
pending list by descending peak, `can_admit`, the water-filling of worker tokens
(`Rebalance`), collection of every finished future with the lease accounting,
and the three ends of the run: a result; the failure of lowest order, when only
children of failed tasks are left; and the refusal of the first task that is left,
which is raised whether or not others failed. In both, workers only let a future end.

## 3. The runs

### 3.1 Settings and bundles

One run may check several configurations. Its MC module instantiates a component
once per *setting* and composes components that share nothing; the initial
predicate picks a setting and the next-state relation keeps it, so that a
behaviour of the run is a behaviour of exactly one of them. All variables of the
other settings stay at their first values, and a VIEW leaves them out. Nothing is
combined that interacts: the purpose is one run per *question*. In the same way a
property of a run may be a conjunction of the named parts of its component
(`DedupIsSafe`, `OwnersAreFenced`, `CellsAreExclusive`, ...); the parts are
stated one by one in the component's module.

| Run | Settings and instances | What it shows | Distinct states |
|---|---|---|---|
| `cold_crash` | *rewriting*: 1 process, 1 member, 1 stamp, all commands and crashes while the owner writes 2 contents. *dying*: 2 processes, 1 content, 2 stamps, crashes. *failing*: 2 stamps, archive, restore and sweep with power losses. *members*: 2 members, archive, keep hot, reclaim and restore | the catalog is true and retained archives stay; the latest bytes survive owners, crashes, power losses; open journals survive retention; a terminal receipt follows a complete installation; every step is a step of `EvidenceVault` | 341 thousand |
| `exec_faults` | *dying*, *power*: 2 processes, 2 targets, 3 operations, keep 1. *short*: 1 target, 3 operations, keep 1, short writes. *removal*: 2 changes by others. *attempt*: 2 invocations, 2 nodes, 2 seconds | the status is what happened; published records stay and damage stays visible; nothing uncertified is removed and the outcome tells what went; only released scratch is removed, pins last until a terminal release | 665 thousand |
| `dedup_locks` | *trio*: 3 names, 1 command, 4 inodes, all faults. *pair*: 2 names, 2 commands, 3 inodes. *locks*: 2 storage commands, 1 trainer, 1 qualifier, 2 generations, 1 run of the old one, 1 attempt of the current one | names keep their bytes, only accounted inodes are joined; owners are fenced, no circle | 172 thousand |
| `queue_decay` | *queue*: 5 tasks (one larger than the budget), 2 reservations, 2 workers, 1 result slot. *density*: every declaration of 3 tasks out of 3 profiles. *decay*: 2 storage processes, crashes and decay, fairness | exact account inside the budget, nothing lost or doubled; density budgets; a density run ends and leaves only what cannot run, with a result, the failure of lowest order, or a refusal that may stand in place of a failure; the last good copy is not unlinked, every command ends | 215 thousand |
| `feas_tight` | *geometry*: families of 4, 1, 1 blocks, budget 7, 2 workers, the first family needs 4 to be finalized, raising tasks. *training*: 3 runs, window 2. Fairness | reduction in order, memory charged as held, the pass ends; disproven levels stay disproven, no run lost, the wave ends | 280 thousand |
| `screen` | *screen*: 2 commands, 2 sizes, 2 boundaries, 2 starts, 1 decision. *locked*: 2 commands, 2 bindings, 2 seconds | one score per cell, one chain of whole matrices, newer decisions win; one disclosed activation, nothing stale becomes current | 600 thousand |
| `cold_receipt`, `exec_short`, `feas_last`, `locked_once`, `screen_restart`, `training_recheck` | smallest instances | **violated**: the findings of section 5 | |

Deadlock is checked everywhere but in `screen`, where `Starts` and `Decisions`
bound how many commands there are, after which nothing is left to do; what has to
go on there is the invariant `SomebodyGoesOn`.

### 3.2 Bounds, and why they are enough

* **Processes (2).** Commands interact only through files, locks and stale
  plans; the third party of every scenario we know (an owner, a power loss, an
  operator) is an action of its own. A storage command can be asked any number of
  times, so chains of operations are unbounded.
* **Members (1 or 2).** With one member the interleavings of processes are
  complete; with two, archives overlap, and partial reclamation and
  installation exist. The proofs cover any number.
* **Content, Stamp (1 or 2).** Two contents make rewriting observable, two
  stamps make two blobs of one archive distinguishable. Each has a setting of its
  own; the proofs cover them together.
* **`JournalKeep` = 1** is exceeded in *rewriting*, where two contents give two
  archives of the member, hence two journals for a sweep to choose from.
* **`MaxOps` = 3, `Keep` = 1**: `MaxOps` exceeds `Keep` by two, so
  retention runs twice, the second time over what the first left.
* **Removal: 2 changes** by others are enough to replace an entry and put it
  back, or to disturb a directory and its parent.
* **Deduplication.** Three names are the first group with two actions; four
  inodes let one be rewritten in between. One outside link at a time, as a second
  one raises the same count.
* **Locks.** A run of an old generation and an attempt of the current one make
  storage take both barriers of both generations, so every order of kinds and of
  paths can be wrong. The theorem covers any number of each.
* **Clock (2 seconds).** Equal and different stamps are both possible, which is
  what digests that cover a second distinguish.
* **Queue.** One result slot and three futures force the "more done than slots"
  case; memory sizes make tasks overtake each other in `_dispatch`.
* **Geometry.** `MaxPending + 2 * Workers` is 8; the family of four blocks piles
  up results behind a block that is late while the other two compete for the
  memory (budget 7, three states of 2). The first family needs 4 to be finalized,
  so it is passed by while the states of the two others are charged, and the loop
  comes back to it. A family's preparation precedes its blocks, so no more than six
  tasks and results exist at once and the part `HeldResultsBounded` of
  `GeometryIsCharged` does not bind here: its bound is shown by
  `GeometryStaysCharged`, for any blocks.
* **Density.** Every parent relation and every assignment of the three profiles
  to three tasks, with outputs that fill the memory and failed tasks whose charge
  makes a later one no longer fit, so that all three ends occur.
* **Training.** Three runs admit two promotions and a demotion between them; a
  window of two makes a level calibrate over more than one look.
* **Screen.** `Starts` = 2: two commands at once, or one after the other died. One score
  and the numerical failure: which candidate wins is the reducer's choice either
  way, but survivors, ties, the failed candidate and the empty matrix all occur.
  Two boundaries (the code has three): the second has a predecessor and ends the
  screen.

TLC's coverage shows every action taken. Three branches of `ScreenCoordinator`
are never taken: the refusals of an inactive size in `Recover`, of a foreign
history in `Settle` and of a foreign pointer in `PutProgress`. The code has them
as defences, and within these bounds nothing reaches them. For the last two the
invariants of section 4 say that no instance does: `Trains` for the pointer,
`Chain` with `Commits` for the history.

A VIEW that leaves `kept` out is used only where no power loss reads it.
Symmetry is used only in runs without liveness properties.

### 3.3 Fairness

* `ColdArchive!FairSpec`: weak fairness of `Engine(p)` for each process. A
  process that was started keeps executing unless it is killed. Nothing makes an
  operator start one, an owner write or a fault happen. The lease needs no
  strong fairness because a waiter has a deadline (`LeaseTimeout`) and gives up.
* `FeasibilityScheduler!FairSpec`: weak fairness of the coordinator thread and of
  the workers. Submitted functions are bounded computations without locks, so
  each returns or raises; the executor of the pool runs every submitted future.
* `DensityScheduler` and `TrainingScheduler`: weak fairness of the scheduler
  thread and of the end of each task or run that was started. A training child
  ends by itself, fails, or obeys its stop event. Observations are not fair: a
  device may stay blind or unsafe for ever, and the wave still has to end.

## 4. The theorems

All hold for every value of the constants that the modules' named assumptions
(`ConstantAssumption`, `VaultAssumption`, `ExecutorAssumption`, `QueueAssumption`,
`SchedulerAssumption`, `LockAssumption`, `ScreenAssumption`, `MarksAreApart`,
`ProtocolMarks`, `DedupAssumption`, `WaveConstants`, `SceneConstants`,
`DecayConstants`) admit; TLC evaluates those assumptions in every run. They
ask that marks such as `Absent` and `Nobody` differ from values, that bounds are
natural numbers and windows positive, that one invocation's processes are
finitely many, that a density task declares natural sizes and asks for a worker
(`DensityTaskResources`), for the screen that candidate sizes are a nonempty
finite set of natural numbers, scores positive (zero stands for the numerical
failure) and that there is a boundary, and, for the geometry pass, that one
family alone fits the budget. The code does not check the last one up front: the
queue refuses a task above the budget when it is submitted (`Submit`, checked in
`queue_decay`, whose task 5 no budget can hold), and the pass raises. That early
end is left out of `FeasibilityScheduler`. `MarksAreApart`, `NoneIsApart`,
`WaveAssumption`, `SceneAssumption` and `DedupAssumption` are operators of the
components; the MC modules assume them of the instances they check.

A theorem over `Spec` is about a component with any constants. A theorem over
`SettingSpec` is about an MC module, which fixes what the settings of section
3.1 name (the faults, that two processes share a setting) and leaves all other
constants open: tasks, families, blocks, runs, inodes, values, invocations,
artifacts, bindings, budgets. `SettingSpec => C!Spec` for every component `C`
of it, and what is proved of the component carries over.

| Theorem | Statement | Extra assumption |
|---|---|---|
| `ColdArchive_proofs!TypeCorrect` | `[]TypeOK` | none: all faults |
| `ColdArchive_proofs!ContentSurvives` | `[]NoContentLost` | `SingleFault` |
| `ColdArchive_proofs!CatalogIsTrue` | `[]CatalogAuthenticates` | `SingleFault` |
| `ColdArchive_proofs!RetentionIsKept` | `RetainedNeverRewritten` | `SingleFault` |
| `ColdArchive_proofs!VaultIsImplemented` | `ImplementsVault` (refinement) | `SingleFault` |
| `ColdArchive_proofs!OpenJournalsStay` | `OpenJournalKept` | `OneLoss` |
| `ColdArchive_proofs!RestoresAreOrderly` | `RestoreIsOrderly` | `OneLoss` |
| `ColdArchive_proofs!CompleteIsCold` | `CompleteMeansCold` | `OneLoss` |
| `ColdArchive_proofs!LastCopyStays` | `LastCopyNeverReclaimed` | `OneLoss` |
| `ColdArchive_proofs!NothingIsLost` | the vault keeps the latest bytes hot or cold | `VaultAssumption` |
| `MCExecutorFaults_proofs!ExecutorTypes` | `[]TypeOK` | none: all faults |
| `MCExecutorFaults_proofs!StatusIsTrue` | `[]StatusIsTold` | none: all faults |
| `MCExecutorFaults_proofs!RecordsSurvive` | `[]PublishedRecordsStay` | `NoShortWrite` |
| `MCExecutorFaults_proofs!DamageIsKept` | `DamageStays` | `PowerStays` |
| `MCExecutorFaults_proofs!AttemptStaysProven` | `[]AttemptIsProven` | settings |
| `MCExecutorFaults_proofs!PinsStayMergedUntilTerminal` | `PinsMergeUntilTerminal` | settings |
| `MCExecutorFaults_proofs!RemovesOnlyWhatIsReleased` | `RemovesReleasedOnly` | settings |
| `MCExecutorFaults_proofs!OutcomeStaysTrue` | `[]OutcomeTellsWhatWent` | settings |
| `MCExecutorFaults_proofs!UncertifiedIsNotTaken` | `UncertifiedStays` | settings |
| `MCDedupLocks_proofs!OwnersStayFenced` | `[]OwnersAreFenced` | none |
| `DedupLinks_proofs!AliasesAreSafe` | `[]DedupIsSafe` of the component | none: all faults |
| `DedupLinks_proofs!AliasesAreClosed` | `ClosedInodesOnly` of the component | none: all faults |
| `MCDedupLocks_proofs!FilesStaySafe` | `[]DedupIsSafe` | settings |
| `MCDedupLocks_proofs!InodesStayClosed` | `ClosedInodesOnly` | settings |
| `MCScreenLocked_proofs!CellsStayExclusive` | `[]CellsAreExclusive` | none |
| `MCScreenLocked_proofs!CommittedStaysWhole` | `[]CommittedIsWhole` | none |
| `MCScreenLocked_proofs!DecisionsStayOrdered` | `DecisionsMoveForward` | none |
| `MCScreenLocked_proofs!CohortIsEvaluatedOnce` | `[]EvaluatedOnce` | settings |
| `MCScreenLocked_proofs!DisclosureOnlyMovesForward` | `LockedMovesForward` | settings |
| `MCQueueDecay_proofs!SceneStaysInBudget` | `[]DensityInBudget` | settings |
| `MCQueueDecay_proofs!EndStaysJustified` | `[]DensityEndIsJustified` | settings |
| `MCQueueDecay_proofs!DecayTakesNoLastCopy` | `LastCopyNeverReclaimed` | settings |
| `WorkQueue_proofs!QueueTypes` | `[]TypeOK` | none |
| `WorkQueue_proofs!BudgetIsKept` | `[]AccountedFitsBudget` | none |
| `WorkQueue_proofs!TasksAreExact` | `[]QueueIsExact` | none |
| `WorkQueue_proofs!CountersStayTrue` | `[]AccountIsExact` | none |
| `MCFeasibilityTraining_proofs!GeometryIsOrdered` | `Spec => Ordered!Spec` (refinement) | none |
| `MCFeasibilityTraining_proofs!GeometryStaysCharged` | `[]GeometryIsCharged` | settings |
| `MCFeasibilityTraining_proofs!RunsStayInOnePlace` | `[]RunsInOnePlace` | settings |
| `MCFeasibilityTraining_proofs!LevelsRemainEarned` | `LevelsAreEarned` | settings |

`settings` marks a theorem over `SettingSpec`.
The extra assumptions are about faults, and no theorem that can do with a weaker
one states a stronger one. `OneLoss` excludes processes that die *and* power that
fails in one behaviour: that combination is the first observation of section 5.
`SingleFault` is `OneLoss` without decay of blobs, which does lose content, an
archive being a single copy. `NoShortWrite` excludes short writes (finding 2)
and power losses; `PowerStays` excludes power losses only.

### Arguments

Every safety theorem rests on an invariant that is stronger than the property.
Each was checked by TLC on the settings of section 3 before it was proved, and
each proof has one step for each action.

* **ContentSurvives, CatalogIsTrue, RetentionIsKept** share the invariant
  `Vaulted`. `NoContentLost` is not inductive: the step that unlinks a member
  needs that the archive in the plan is cataloged and authenticates *now*, though
  that was established at `Begin`; and the step that loses power needs that what
  was cataloged is on the disk. So `Vaulted` adds `Core` (types, and per process
  and step what its engine has established: which archive its plan names, that
  nobody else is past the lease, that the plan's archive is cataloged while it
  evicts, that a blob being published is not cataloged, that a sweep targets only
  residue), `CatalogAuthenticates`, `Durable` (blobs, manifests and entries in
  the page cache are the ones on the disk when power may fail) and `Safe(m)` (the
  latest bytes are hot, durably so when power may fail, or cold).
* **OpenJournalsStay, RestoresAreOrderly, CompleteIsCold, LastCopyStays** do
  not need that all content is there; they need what a command still relies on.
  `Grounded(p)` says it for every step of a command: the blob an archive builds
  holds what is hot (`HoldsHot`); while members are evicted the archive in the
  plan authenticates, and each member of it is gone, still to be reached or was
  refused (`Accounted`); a restore that stages or installs has its journal open,
  and its staging complete once it installs; a sweep has only terminal journals
  left, because it planned for no other (`PlanCovers`). `Orderly` is `Core` and
  `Grounded`; `OnDisk` adds that a power loss finds journals, entries and names
  of members on the disk. Every action keeps both, also the decay of a blob, which
  happens while no engine runs, and from both follows what the action may do to
  the files (`Honest`), which is these four properties.
* **VaultIsImplemented** maps `hot` to the hot members and `cold` to what
  cataloged archives give back. `Kept` joins `Vaulted` and `Orderly` with
  `ReadBack`: a power loss finds a hot member as it is, or tears one that an
  archive gives back. Then publishing a catalog entry is an `Archive`, unlinking
  an `Evict`, installing a `Restore`, an owner's write a `Rewrite`, a power loss
  that tears a restored member a `Tear`, and all other steps leave both mapped
  variables alone.
* **StatusIsTrue** needs `Recorded`: `mutated` in the result holds exactly when
  something changed, `refused` when a target was refused, every target that left
  `todo` without a refusal is gone, also after an owner removes it. `Interrupt`
  carries a change that the exception brings with it.
* **RecordsSurvive** needs `Retained`: the stream is the *end of the log*, in
  order and whole, and holds either all of it or at least `Keep` records; what is
  staged for the replacement is the newest `Keep` lines *of the stream as it is
  at that moment*, which holds because `LeaseHeld` says that only one process is
  between reading and replacing.
* **DamageIsKept** uses the same exclusion the other way round: a stream for
  which a replacement is staged had no damage when it was read
  (`ReplacesReadable`), and nobody can have appended to it since. An append
  changes at most the last, unterminated line, and makes it a damaged one.
* **OwnersStayFenced**: every lock has a `Height` (kind first, path order inside
  a kind). What a process has yet to take is higher than what it holds, and what
  it wants to change it holds or has yet to take (`Disciplined`). In a circle
  every process waits for a lock whose holder waits for a higher one, but a
  bounded set of numbers has a greatest (`GreatestNumber`, proved by a pigeonhole
  on an injection, as there is no induction here). The arrangement of runs and
  attempts over generations does not matter.
* **AliasesAreSafe, AliasesAreClosed**: `Linked` says for each command that its
  plan has one action for a name and replaces no canonical source (`WellPlanned`),
  that it has nothing to do or staged outside of its engine (`Tidy`), that from
  `Check` to `Replace` both files hold the planned bytes and an outside link of
  the canonical inode is later than the checks (`Checked`), and that what it
  recorded as an alias is one (`Aliased`). The step that matters is arithmetic:
  the engine compares a *link count* with the number of names it knows.
  `NoOtherLinks` turns that into a statement on names: the known targets inject
  into the names of the inode, so when the two numbers agree there is no other
  link.
* **CohortIsEvaluatedOnce, DisclosureOnlyMovesForward**: `OneShot` says what a command holds
  at each step (`Holds`): inside the window it holds the gate and its activation
  was put under the binding that is current; whoever evaluates has the *disclosed*
  activation in hand; what was disclosed is in the store. A second command that
  built an activation of its own (finding 4) never gets past the comparison with
  the disclosure.
* **CellsStayExclusive**: `Cells` adds to the types and `OneScorePerCell` what each
  command is `Sound` in. `Locks` ties every lock to the steps between its taking
  and its release; `Trains` says that a command at a cell has an active boundary,
  accepted records only and the record of a cell that is missing, and that from
  `PutCompletion` to `PutProgress` nobody else took the slot; `Unaccepted` says
  that the cell behind a fence is not accepted while somebody works at it, which
  is what the second look at the progress inside the fence is for. A fence alone
  would not do: cells of later rungs have none, and there the publication lock
  makes the second completion lose.
* **CommittedStaysWhole**: a commit is three writes (batch, head, pointer) and a
  process may die between any two. `Chain` says what that may leave behind: one
  chain of batches, at most one of them ahead of the heads, the pointer at the
  longest head or one behind. `Commits` says that a command starts from a
  committed state, and under the commit lock from the last one. The case that
  matters is `PutBatch` by a command that read its state long ago: another may
  have committed a batch over the same state. `SameMatrix` shows that both
  batches are equal, because a complete matrix has one accepted record for each
  active size and `Cells` allows one record for a cell. The longest head exists
  by a pigeonhole over the lengths (`TipIsThere`), as there is no induction here.
* **DecisionsStayOrdered**: `Campaign` adds `BoundIsCommitted` (a revision adopts
  only what is committed, and is complete only over a terminal state) and what a
  command `Serves`: the first generation, an open or a proposal over a revision
  that is not frozen, a diagnostic of a terminal state, a proposal over the
  design that it started from. A command appends only over the
  latest revision, so what it appends is `Fitting` to the one before it.
* **BudgetIsKept**: `Account` adds types and that undrained memory is not
  negative. The guards of dispatch and reserve do the rest; moving a task from
  in flight to completed leaves the sum alone, a failure only lowers it.
* **CountersStayTrue** compares counters with sums over sets of tasks, and a sum
  over a set is a recursion that no installed prover can do induction over.
  Written as a cardinality (`Units`) it needs none: the units of disjoint sets
  are disjoint, so they add up (`UnitsSplit`), and one task has as many as its
  estimate. The invariant is `Exact` with what is dispatched and what was charged
  (`Dispatched`, `Charged`).
* **TasksAreExact**: the property counts; its invariant `Exact` does not, but
  says that the five places are disjoint and together all that was submitted
  (`Apart`), and that a wait never collects more than there are slots for
  (`Collectable`). `EarliestFit`, `RemoveKeepsDistinct` and `AppendKeepsDistinct`
  are the lemmas on the ready sequence, from whose middle `_dispatch` takes.
* **GeometryIsOrdered** is a refinement proof. `Progress` says that what a family
  reduced is `1 .. n` in order, that the families pending or finished are fully
  reduced and fully submitted, with nothing in flight, and that no family is
  both. Then `HandleBlock` is a `Reduce` or a stutter, `Finalize` a `Finalize`,
  and everything else a stutter.
* **GeometryStaysCharged** is the invariant `Geometry`, over two components. What
  the queue promises is not proved again: `WorkQueue_proofs` is instantiated with
  the queue of the pass, and `OfTheQueue` is what its theorems give. `Ledger` ties
  the loop's counters to the tasks that were submitted and whose result was not
  handled yet; `Reducers` says that a reducer keeps exactly the results that came
  back beyond a gap; `Stages` that exactly the prepared and unfinished families
  are held, and that a family is to be finalized from the moment that all of it
  is reduced; `Control` what each step of the loop may assume. `Bounded` is
  inductive because a step either moves a result on or submits a task after
  `CanEnqueue`. `NothingLeft` is the argument for the end: with nothing
  outstanding, nothing to finalize and nothing that could be submitted, `Reducers`
  and `Ledger` leave no family unfinished. So the pass says `exhausted` only in
  the way of finding 3.
* **RunsStayInOnePlace, LevelsRemainEarned**: `Levels` keeps the target at most at
  the ceiling and that below the lowest disproven level. `Evidence` says what a
  closed admission and a backoff have behind them: a level is backed off from
  only after two unsafe observations in a row or with nothing running. `Places`
  says that each run is in one of pending, owned and trained, once (`Once`), that
  a pending one has not started or was cancelled, and that only owned ones run.
* **AttemptStaysProven, PinsStayMergedUntilTerminal, RemovesOnlyWhatIsReleased**
  rest on `Attested`. `Locked` ties the attempt lock to the steps of an
  invocation: who merges read the record that is still there, who releases found
  it open, and who commits has a proof on disk that binds the record it is about
  to write. `Authenticated` says that a session with something left to remove
  works for the record and the proof that its plan was made against, and removes
  what that proof names.
* **OutcomeStaysTrue, UncertifiedIsNotTaken**: `Credited` follows the walk through
  the tree. `Place` gives the stack of open directories at each step, `Tree` says
  that others cannot put the unit into itself, `Ledger` that what is recorded as
  changed, seen and credited is the history of what was taken, `Behind` what each
  step has behind it: nothing, the whole unit, or a part of it.
* **SceneStaysInBudget, EndStaysJustified** rest on the invariant `Scene`. `SceneTypes` says that a task
  is pending, once, or active with at least its minimum, or settled; `Course` what
  its future tells at each of these places; `Shared` are the three sums that stay
  in the budget; `Ending` is the second theorem's property itself, which the last
  step of a run establishes and nothing changes afterwards. With nothing active,
  workers and parallelism refuse nobody, so what the last scan passed by waits for
  a parent or lacks memory (`LeftForAReason`); a parent comes before its children,
  so the first that is left lacks memory if nothing failed (`SomeoneLacksMemory`).
  `Scanned` is what makes the scheduler work-conserving: a
  task that the scan passed by cannot be admitted later in the same scan, because
  admission only raises the sums it was refused for (`StaysRefused`).
  `Rebalanced` is the water-filling. That there is a greatest number of rounds
  that fits is a pigeonhole again (`GreatestNumber`); the workers that are left
  raise as many tasks by one as there are workers (`FirstOnes`, `UnitsRaise`), so
  the sum of the leases never exceeds the threads.
* **FilesStaySafe, InodesStayClosed, DecayTakesNoLastCopy**: a behaviour of the
  settings is a behaviour of each component that stutters while another one moves,
  so the theorems of `DedupLinks_proofs` and `ColdArchive_proofs`, instantiated
  with the variables of the setting, apply. In *decay* processes die and archives
  decay but no power fails, which is `OneLoss`.

### Model-checked only

* Out of the prover's reach: liveness (`CommandsEnd`, `GeometryPassEnds`,
  `WaveEnds`, `DensityRunEnds`) and `SomebodyGoesOn`, which is about ENABLED.
* `PowerTakesNothing` and `EveryStepIsTheVaults` are theorems of `ColdArchive_proofs`
  for the settings of `cold_crash`, and `DamageStaysVisible` is `DamageIsKept` for
  *short*: what is proved of the component is not restated for these instances.
* `ReceiptOutlivesNoBytes`, `AuditedMeansReadable`, `ExhaustedMeansMissing`,
  `OneActivation`, `AbsenceIsWork` and `ClearedObservationRecovers` are the
  violated statements of section 5.

## 5. What the checks found

1. **A terminal restore receipt can outlive the bytes it authenticates**
   (`cold_receipt`). `_stage_members` writes members with a plain `open("wb")`
   and never fsyncs them; they are renamed into place, the directories are
   fsynced, and the journal is closed durably. `storage/durability.py:3` and `:9`
   promise the opposite order. The content is not lost (the archive is retained),
   but the receipt is false.
2. **A short write is reported as a published audit record** (`exec_short`).
   `durable_append_jsonl` ignores what `os.write` returns, and the next record is
   glued to the torn line.
3. **A finished geometry pass is lost** (`feas_last`). The loop looks for missing
   results at its head, finalizes (`target_order/feasibility.py:602`) and then
   asks the queue for outstanding work without looking again. When the last family is
   finalized there, nothing is outstanding and the pass raises "FEAS1 scheduler
   exhausted work before every family completed." (`:607`) although every family
   completed. It takes a family that could not be finalized at the end of a batch
   because the state of a later one was still charged: `finalize_pending` goes
   through the families once, in order. `WorkLasts`, proved as part of
   `GeometryStaysCharged`, says that this is the only way to that error.
4. **Two commands activate one locked cohort** (`locked_once`). The look for an
   existing activation is made before the components run and not again under the
   locks. The second command puts an activation object of its own before it finds
   the first one disclosed, and the store then counts as inconsistent for ever.
   The cohort itself is still evaluated under one activation (`EvaluatedOnce`).
5. **A screen cannot go on after a death between completion and progress**
   (`screen_restart`). Every later command refuses the orphan completion, though
   the manual says that absence of progress is work that remains.
6. **A wave that was blocked while idle does not recover** (`training_recheck`).
   A safe observation during the recheck never raises the target from zero, so
   the wave ends as blocked although comment and manual say that it recovers.

Observed while modelling, without a run of their own:

* *Archive.* A process that dies between the replace of a catalog entry and the
  fsync of its directory leaves an entry that the next invocation takes for
  retained authority (`storage/archive.py:905`). That invocation does not sync the
  directory again and unlinks the hot member durably; a power loss can then take
  the entry. Blob and manifest stay, but "archive bytes without an authenticated
  catalog never authorize hot deletion" (`archive.py:38-39`). This needs a crash and
  a power loss in one behaviour and is why the theorems assume `SingleFault` or
  `OneLoss`: the *failing* setting with `"crash"` added to its faults violates
  `NoContentLost` in 12 states.
* *Audit.* In the same way the first append to the stream can create the file and
  die before the directory fsync; later appends see an existing file and never
  anchor it. The check of the staged file counts lines, so a truncated last line
  passes it and replaces the stream (`StageRetained`).
* *Removal.* When the removal stops inside a nested directory, only the directory
  of the unit itself is fsynced, not the nested one that lost entries.
* *Deduplication.* A group that was deduplicated once cannot be extended: the
  planner accepts a canonical inode whose links are all names of the group
  (`dedup.py:20-21`), the engine knows only the canonical name and the targets of
  this plan, and refuses every later duplicate of the same bytes. Nothing is lost;
  the space is not reclaimed. An outside link taken between an action's checks and its
  replacement is not seen; `ClosedInodesOnly` says so through `late`. The bytes a
  group claims to have reclaimed (`dedup.py:550`) exceed what was planned
  (`:257`) when two duplicates share an inode or a duplicate has an outside link.
* *Locks.* Owner locks have no deadline, and storage keeps its lease while it
  waits for the activity lease of a run: other storage commands time out until
  the training ends. `_publish_final_production_plan` puts run plans outside of
  the barrier; storage never removes these.
* *Attempt.* The abort of a second invocation lets storage remove the scratch of
  the first, which still runs; the docstring of `QualificationRetentionFence` reads
  otherwise. A death between proof and record of a second release leaves the
  scratch uncertified, hence unremovable, until the attempt is opened again.
* *Locked cohort.* A slow non-locked run may overwrite the record and release of
  a later activation, and its record may name an activation whose disclosure was
  never written; a repeated command repairs the first.
* *Screen.* A slow second command may bind an earlier head over a later one, also
  after the diagnostic completed; the next command repairs it. An operator who
  chooses and resets during the diagnostic leaves an equal design, so the
  recommendation is installed over two newer decisions. A command that is
  still training when another one completes the same cell of a later rung, which
  has no fence, may train it again; the publication lock makes it lose.
* *Training.* One unsafe sample disproves a level although a run finished between
  it and the unsafe one before it.
* *Density.* The order by descending peak can strand a set of tasks that another
  order would finish. `GraphComplexityError` (`density_scheduler.py:672`) can take
  the place of a task failure: the failure is raised only when each task that is
  left has a failed parent itself (`:658-668`). A grandchild of the failed task has
  not, against the comment at `:654-657`. Nor has a task without a parent that no
  longer fits because the failed one keeps its charge (`:723`), against the comment
  at `:719`. In *density*, with memory 4, tasks that retain 2, 1 and 1 and need 2
  each do so when the first fails. So `DensityEndIsJustified` claims of a refusal
  only what holds: every failure is known, the refused task is left, and some task
  is left for another reason than a failed parent. No caller in production passes
  parents today.
* *Geometry.* The pass can be lost to memory that would have come back. Results are
  drained together and handled one by one; after a block of one family the loop
  dispatches more of its blocks, and a preparation that was drained with it then
  finds its reservation refused (`target_order/feasibility.py:619`), although the
  family fits the budget. Two families, three blocks and one, budget 5 and states
  of 2 are enough. The workplan
  (`workplans/archive/TARGET_DATA2B_FEAS1_NEIGHBOR1_OUT_OF_CORE_MEM1.md:16`) says
  that contention is backpressure and only an oversized reservation an error.
  `GeometryPassEnds` takes the error for an end: the pass never stops silently.

## 6. What is left out, and why

* **Encodings**: tar members, path checks, expansion limits, digests and their
  cache, JSON, and timestamps other than those a digest covers. They stand for the
  values they encode.
* **`artifact_publication_lock` inside one process**: commands are separate
  invocations.
* **Storage commands, owner views, inventory, policy; maintenance, admission,
  report**: argument handling and read-only views; what a plan needs from them is
  mapped in the modules that use it. Digest caches and quota arithmetic have no
  second actor.
* **Removal**: mount boundaries, descriptor failures, special nodes, single-file
  units and the descent from the campaign anchor, which refuse without a change.
* **Deduplication**: candidate enumeration, protected paths and other file systems
  (refusals without a change); sweeping abandoned staging is one step under the
  lease.
* **P5**: what a training run computes, its phases and its sealing; the
  compare-and-set of P5 pointers; capability records.
* **P7**: component numerics, deployment realizations, resource observations,
  and a configuration edited inside the publication window.
* **P3**: the scientific validation of a record's parents and the inner steps of
  preparing a generation (`Prepare` is one step, so the fence against a stale
  preparation is left out; so is the second generation's root); one optimizer
  seed.
* **Training**: the cadence gate, the headroom arithmetic and benchmark records;
  a sample says safe, unsafe or blind.
* **Queue and geometry**: `_dispatch` chooses the first ready task that fits, the
  search through a sorted table is abstracted to that choice; heartbeats and
  telemetry; the rotation among families; the early end of a pass one of whose
  tasks is larger than the budget.
* **Prepared generations, checkpoint capsules, artifact staging**: not modelled
  yet (section 7). They are create-or-verify publications of content-addressed
  objects, the pattern `LockedActivation` and `OwnerLocks` already have.
* **Numerics, parsers, plots, reports, the command line, model trust and the
  inference batch search**: most of the repository by size. They run on one
  thread, keep nothing between calls that another actor changes, and what they
  compute is floating-point: a model of them would be a transliteration.

## 7. Plan

Done: the modules of section 2, the theorems of section 4.

To state next, as violated runs of their own: the observations on *Archive*,
*Density* and *Geometry* in section 5.

To prove next, in this order: `RecordsSurvive` with power losses and no crashes;
the theorems of `ColdArchive_proofs` for the settings of `cold_crash`;
`DamageIsKept` for the setting *short*.

To model next: prepared generations with the retention fence of P3 and its
publication window, composed with the sweep of unreferenced objects; the pointer
compare-and-set of P5; the inner steps of `Prepare` with their stale-preparation
fence.
