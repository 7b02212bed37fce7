---------------------------- MODULE MCDedupLocks -----------------------------
(***************************************************************************)
(* Storage and the owners in three settings, of which a behaviour keeps    *)
(* one: the locks that storage shares with the owners, one command that    *)
(* deduplicates three files while somebody else links them, and two that   *)
(* deduplicate a pair.                                                     *)
(***************************************************************************)
EXTENDS OwnerLocks, TLC

CONSTANTS
  Inode, Value, NoInode,
  first, second,  \* the commands that deduplicate
  PairInode       \* the inodes of the third setting

VARIABLES
  setting,
  tFile, tValue, tOutside, tAbandoned, tLease, tPc, tPlan, tTodo, tCurrent,
  tStaged, tOutcome, tLate, tWritten,
  pFile, pValue, pOutside, pAbandoned, pLease, pPc, pPlan, pTodo, pCurrent,
  pStaged, pOutcome, pLate, pWritten

tVars == <<tFile, tValue, tOutside, tAbandoned, tLease, tPc, tPlan, tTodo,
           tCurrent, tStaged, tOutcome, tLate, tWritten>>
pVars == <<pFile, pValue, pOutside, pAbandoned, pLease, pPc, pPlan, pTodo,
           pCurrent, pStaged, pOutcome, pLate, pWritten>>

(* A run of an old generation and an attempt of the current one. *)
MCRunOf == <<1>>
MCAttemptOf == <<2>>

Trio == INSTANCE DedupLinks WITH
  Process <- {first}, Names <- 3, Faults <- {"raise", "crash", "outsider"},
  file <- tFile, value <- tValue, outside <- tOutside, abandoned <- tAbandoned,
  lease <- tLease, pc <- tPc, plan <- tPlan, todo <- tTodo, current <- tCurrent,
  staged <- tStaged, outcome <- tOutcome, late <- tLate, written <- tWritten

Pair == INSTANCE DedupLinks WITH
  Process <- {first, second}, Names <- 2, Inode <- PairInode, Faults <- {},
  file <- pFile, value <- pValue, outside <- pOutside, abandoned <- pAbandoned,
  lease <- pLease, pc <- pPc, plan <- pPlan, todo <- pTodo, current <- pCurrent,
  staged <- pStaged, outcome <- pOutcome, late <- pLate, written <- pWritten

ASSUME DedupAssumption == Trio!DedupAssumption /\ Pair!DedupAssumption

SettingInit ==
  /\ setting \in {"locks", "trio", "pair"}
  /\ Init
  /\ Trio!Init
  /\ setting # "pair" => pValue = [i \in PairInode |-> CHOOSE v \in Value : TRUE]
  /\ Pair!Init

SettingNext ==
  /\ \/ setting = "locks" /\ Next /\ UNCHANGED <<tVars, pVars>>
     \/ setting = "trio" /\ Trio!Next /\ UNCHANGED <<vars, pVars>>
     \/ setting = "pair" /\ Pair!Next /\ UNCHANGED <<vars, tVars>>
  /\ UNCHANGED setting

SettingSpec == SettingInit /\ [][SettingNext]_<<vars, tVars, pVars, setting>>

(* Whatever is made one inode with what, every name reads what its owner   *)
(* wrote last, and a name recorded as aliased is aliased                   *)
(* (plan_dedup_groups, dedup_engine).                                      *)
DedupIsSafe == Trio!DedupIsSafe /\ Pair!DedupIsSafe

(* No name is put on an inode that somebody else links, but for a link that *)
(* was taken after the checks of that very action (the link counts of      *)
(* _choose_canonical and dedup_engine).                                    *)
ClosedInodesOnly == Trio!ClosedInodesOnly /\ Pair!ClosedInodesOnly

Symmetry == Permutations(Inode)

(* What the chosen setting reads; an inode without a name holds nothing. *)
Live ==
  <<setting,
    CASE setting = "locks" -> vars
      [] setting = "trio" ->
           <<tFile, [i \in Inode |-> IF Trio!Links(i) = 0 THEN NoInode ELSE tValue[i]],
             tOutside, tAbandoned, Trio!command, tLate, tWritten>>
      [] setting = "pair" ->
           <<pFile, [i \in PairInode |-> IF Pair!Links(i) = 0 THEN NoInode ELSE pValue[i]],
             pOutside, pAbandoned, Pair!command, pLate, pWritten>>>>

=============================================================================
