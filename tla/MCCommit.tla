------------------------------ MODULE MCCommit ------------------------------
(* InteractionCommit for TLC, over every bundle.                           *)
EXTENDS InteractionCommit
=============================================================================
