---------------------------- MODULE MCAdmission ----------------------------
(* Instances of EvidenceAdmission for TLC.                                 *)
EXTENDS EvidenceAdmission
=============================================================================
