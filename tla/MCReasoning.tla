---------------------------- MODULE MCReasoning ----------------------------
(* Instances of ReasoningCore for TLC.                                     *)
EXTENDS ReasoningInvariants

Observation(r) == [reliability |-> r, appraisable |-> TRUE]
StrongOnly == {Observation(8)}
WeakOnly == {Observation(3)}
StrongAndWeak == {Observation(8), Observation(3)}
MixedRoles == {Observation(8), Observation(3),
               [reliability |-> 8, appraisable |-> FALSE]}
=============================================================================
