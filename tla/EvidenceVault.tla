--------------------------- MODULE EvidenceVault ---------------------------
(***************************************************************************)
(* What the storage commands promise about the files of a historical run:  *)
(* every member is hot, or some archive gives its bytes back; an archive,  *)
(* once it exists, gives the same bytes back for ever.  The cataloging of  *)
(* one archive, the unlinking of one member and the installation of one    *)
(* member are each one step here, whatever the steps of the code.          *)
(***************************************************************************)
CONSTANTS
  Member,    \* the certified files of one historical run
  Content,   \* what the owner of the run may have written in a file
  Absent,    \* the file is not there
  Torn       \* bytes a power loss left unfinished

(* The marks of a missing and of a torn file are no bytes an owner writes. *)
VaultAssumption == Absent \notin Content \cup {Torn} /\ Torn \notin Content

VARIABLES
  hot,      \* what is at the canonical path of each member
  cold,     \* the bytes that authenticated archives give back for each member
  latest    \* the bytes the owner last wrote in each member

vars == <<hot, cold, latest>>

Init ==
  /\ latest \in [Member -> Content]
  /\ hot = latest
  /\ cold = [m \in Member |-> {}]

(* An archive of the hot bytes of S is cataloged. *)
Archive(S) ==
  /\ \A m \in S : hot[m] # Absent
  /\ cold' = [m \in Member |-> IF m \in S THEN cold[m] \cup {hot[m]} ELSE cold[m]]
  /\ UNCHANGED <<hot, latest>>

Evict(m) ==
  /\ hot[m] \in cold[m]
  /\ hot' = [hot EXCEPT ![m] = Absent]
  /\ UNCHANGED <<cold, latest>>

Restore(m) ==
  /\ hot[m] = Absent
  /\ \E c \in cold[m] : hot' = [hot EXCEPT ![m] = c]
  /\ UNCHANGED <<cold, latest>>

Rewrite(m, c) ==
  /\ hot' = [hot EXCEPT ![m] = c]
  /\ latest' = [latest EXCEPT ![m] = c]
  /\ UNCHANGED cold

(* A power loss tears files, but only ones that an archive gives back. *)
Tear(S) ==
  /\ \A m \in S : hot[m] \in cold[m]
  /\ hot' = [m \in Member |-> IF m \in S THEN Torn ELSE hot[m]]
  /\ UNCHANGED <<cold, latest>>

Next ==
  \/ \E S \in SUBSET Member : Archive(S) \/ Tear(S)
  \/ \E m \in Member : Evict(m) \/ Restore(m) \/ (\E c \in Content : Rewrite(m, c))

Spec == Init /\ [][Next]_vars

TypeOK ==
  /\ hot \in [Member -> Content \cup {Torn, Absent}]
  /\ cold \in [Member -> SUBSET (Content \cup {Torn})]
  /\ latest \in [Member -> Content]

(* The bytes an owner last wrote are hot or cold: what eviction, restore   *)
(* and a torn file may never take away (archive_create_engine,             *)
(* durable_unlink, archive_restore_engine).                                *)
NothingLost == \A m \in Member : latest[m] \in {hot[m]} \cup cold[m]

=============================================================================
