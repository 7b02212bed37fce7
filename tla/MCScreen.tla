------------------------------ MODULE MCScreen ------------------------------
(* Two boundaries: the first leaves two candidates, the last the winner. *)
EXTENDS ScreenCoordinator

MCKeep == <<2, 1>>
=============================================================================
