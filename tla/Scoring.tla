------------------------------ MODULE Scoring ------------------------------
(***************************************************************************)
(* The pure arithmetic of application/reasoning/scoring.py.  A value of    *)
(* the unit interval is a whole number of Unit-ths: Unit stands for 1.0.   *)
(* Rounding is downwards; every comparison below is made on unrounded      *)
(* products, so only the two support updates lose precision.               *)
(***************************************************************************)
EXTENDS Integers, FiniteSets

CONSTANTS
    Unit,          \* the number that stands for 1.0
    LearningRate   \* support_learning_rate, in Unit-ths

ASSUME ScaleAssumption == Unit \in Nat \ {0} /\ LearningRate \in 0..Unit

ClampUnit(v) == IF v < 0 THEN 0 ELSE IF v > Unit THEN Unit ELSE v

\* Mutant: the headroom is forgotten.
SupportWithoutHeadroom(s, r) == s + (LearningRate * r) \div Unit

\* A supporting observation closes a share of the headroom above s ...
SupportAfterSupport(s, r) ==
    ClampUnit(s + (LearningRate * r * (Unit - s)) \div (Unit * Unit))

\* ... a contradicting one takes a share of what s has.
SupportAfterContradiction(s, r) ==
    ClampUnit(s - (LearningRate * r * s) \div (Unit * Unit))

----------------------------------------------------------------------------
(* The supports of the active hypotheses: f maps a hypothesis to Unit-ths. *)

Strongest(f) == CHOOSE h \in DOMAIN f : \A g \in DOMAIN f : f[g] =< f[h]

TopSupport(f) == f[Strongest(f)]

RivalSupport(f) ==
    IF Cardinality(DOMAIN f) < 2 THEN 0
    ELSE TopSupport([h \in DOMAIN f \ {Strongest(f)} |-> f[h]])

\* Twice the aggregate uncertainty: the mean of base and competition is
\* left undivided.  Knowing nothing is maximal uncertainty.
TwiceUncertainty(f) ==
    IF DOMAIN f = {} THEN 2 * Unit
    ELSE (Unit - TopSupport(f)) + RivalSupport(f)

\* Closeness times strength, scaled by 2 * Unit * Unit.
ExpectedInformationGain(f) ==
    IF Cardinality(DOMAIN f) < 2 THEN 0
    ELSE (Unit - (TopSupport(f) - RivalSupport(f)))
            * (TopSupport(f) + RivalSupport(f))
=============================================================================
