---------------------------- MODULE MCColdSettings ---------------------------
(***************************************************************************)
(* The cold archive in four settings, of which a behaviour keeps one: one  *)
(* process that dies while the owner rewrites the member that is archived, *)
(* reclaimed and restored, two processes that die, one whose power fails,  *)
(* and one with overlapping archives of two members.                       *)
(***************************************************************************)
EXTENDS ColdArchive, TLC

CONSTANTS
  c1, s2, \* one content and a second time stamp for the other settings
  p, q,   \* the processes of the second
  a, b    \* the members of the fourth

VARIABLES
  setting,
  dCache, dKept, dTruth, dLease, dPc, dPlan, dTodo, dMoved,
  pCache, pKept, pTruth, pLease, pPc, pPlan, pTodo, pMoved,
  mCache, mKept, mTruth, mLease, mPc, mPlan, mTodo, mMoved

dVars == <<dCache, dKept, dTruth, dLease, dPc, dPlan, dTodo, dMoved>>
pVars == <<pCache, pKept, pTruth, pLease, pPc, pPlan, pTodo, pMoved>>
mVars == <<mCache, mKept, mTruth, mLease, mPc, mPlan, mTodo, mMoved>>

Dying == INSTANCE ColdArchive WITH
  Content <- {c1}, Stamp <- Stamp \cup {s2}, Process <- {p, q},
  cache <- dCache, kept <- dKept, truth <- dTruth, lease <- dLease,
  pc <- dPc, plan <- dPlan, todo <- dTodo, moved <- dMoved

Failing == INSTANCE ColdArchive WITH
  Content <- {c1}, Stamp <- Stamp \cup {s2}, Faults <- {"power"},
  Commands <- {"archive", "restore", "sweep"},
  cache <- pCache, kept <- pKept, truth <- pTruth, lease <- pLease,
  pc <- pPc, plan <- pPlan, todo <- pTodo, moved <- pMoved

Members == INSTANCE ColdArchive WITH
  Content <- {c1}, Member <- {a, b}, Faults <- {},
  Commands <- {"archive", "archive_keep_hot", "reclaim", "restore"},
  cache <- mCache, kept <- mKept, truth <- mTruth, lease <- mLease,
  pc <- mPc, plan <- mPlan, todo <- mTodo, moved <- mMoved

SettingInit ==
  /\ setting \in {"rewriting", "dying", "failing", "members"}
  /\ setting # "rewriting" => truth = [m \in Member |-> c1]
  /\ Init /\ Dying!Init /\ Failing!Init /\ Members!Init

SettingNext ==
  /\ \/ setting = "rewriting" /\ Next /\ UNCHANGED <<dVars, pVars, mVars>>
     \/ setting = "dying" /\ Dying!Next /\ UNCHANGED <<vars, pVars, mVars>>
     \/ setting = "failing" /\ Failing!Next /\ UNCHANGED <<vars, dVars, mVars>>
     \/ setting = "members" /\ Members!Next /\ UNCHANGED <<vars, dVars, pVars>>
  /\ UNCHANGED setting

SettingSpec == SettingInit /\ [][SettingNext]_<<vars, dVars, pVars, mVars, setting>>

(* Where the power fails between any two steps, what was unlinked is in a  *)
(* cataloged archive that authenticates (durable_unlink,                   *)
(* _reclaim_planned_members), and no catalog entry names a blob or a       *)
(* manifest that the disk lost (publish_catalog_entry).                    *)
PowerTakesNothing == Failing!TypeOK /\ Failing!NoContentLost /\ Failing!CatalogAuthenticates

(* Also where two commands race, and where archives of several members     *)
(* overlap, storage commands only catalog hot bytes, and unlink and install *)
(* what an archive gives back, and nothing that is retained is rewritten,  *)
(* even though a second blob of the same members has other bytes           *)
(* (_reclaim_planned_members, archive_create_engine).                      *)
EveryStepIsTheVaults ==
  /\ Dying!ImplementsVault /\ Members!ImplementsVault
  /\ Dying!RetainedNeverRewritten /\ Dying!RestoreIsOrderly

Symmetry == Permutations({p, q})

(* What the chosen setting reads; without power losses nothing reads kept. *)
Live ==
  <<setting,
    CASE setting = "rewriting" -> <<cache, truth, lease, pc, plan, todo, moved>>
      [] setting = "dying" -> <<dCache, dTruth, dLease, dPc, dPlan, dTodo, dMoved>>
      [] setting = "failing" -> pVars
      [] setting = "members" -> <<mCache, mTruth, mLease, mPc, mPlan, mTodo, mMoved>> >>

=============================================================================
