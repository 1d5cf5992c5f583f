--------------------------- MODULE Understanding ---------------------------
(***************************************************************************)
(* What the reasoning engine promises about a subject, with no plan, no    *)
(* appraiser and no identity rules in sight: evidence is only ever added;  *)
(* what supports and what contradicts a hypothesis grows, interaction by   *)
(* interaction, out of evidence admitted by that same interaction, never   *)
(* with one observation on both sides; and understanding moves exactly     *)
(* when the model version does.                                            *)
(***************************************************************************)
EXTENDS Naturals

CONSTANT Hypotheses

VARIABLES
    admitted,   \* identifiers of the evidence held
    pro,        \* hypothesis -> evidence supporting it
    con,        \* hypothesis -> evidence contradicting it
    version     \* the current model version, 0 if none

vars == <<admitted, pro, con, version>>

Init ==
    /\ admitted = {}
    /\ pro = [h \in Hypotheses |-> {}]
    /\ con = [h \in Hypotheses |-> {}]
    /\ version = 0

\* f grows to f' by members of fresh only.
Grows(was, is, fresh) ==
    \A h \in Hypotheses : was[h] \subseteq is[h] /\ is[h] \subseteq was[h] \cup fresh

Assimilate ==
    LET fresh == admitted' \ admitted IN
    /\ admitted \subseteq admitted'
    /\ Grows(pro, pro', fresh)
    /\ Grows(con, con', fresh)
    /\ \A h \in Hypotheses : pro'[h] \cap con'[h] = {}
    /\ IF <<pro, con>>' = <<pro, con>> THEN version' >= version
                                       ELSE version' > version

Spec == Init /\ [][Assimilate]_vars
=============================================================================
