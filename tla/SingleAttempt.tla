--------------------------- MODULE SingleAttempt ---------------------------
(***************************************************************************)
(* What execute() of run003_stage1.py promises: one authorised execution.  *)
(* An attempt may be given back only while it has had no effect; from its  *)
(* first model call on, no other attempt is ever made.                     *)
(***************************************************************************)
CONSTANTS Procs, Nobody   \* Nobody is none of Procs

VARIABLES
    holder,   \* the process whose attempt it is, or Nobody
    effects   \* whether that attempt has reached the model

vars == <<holder, effects>>

Init == holder = Nobody /\ effects = FALSE

Begin(p) == holder = Nobody /\ holder' = p /\ UNCHANGED effects

GiveBack == holder # Nobody /\ ~effects /\ holder' = Nobody /\ UNCHANGED effects

Reach == holder # Nobody /\ effects' = TRUE /\ UNCHANGED holder

Next == (\E p \in Procs : Begin(p)) \/ GiveBack \/ Reach

Spec == Init /\ [][Next]_vars
=============================================================================
