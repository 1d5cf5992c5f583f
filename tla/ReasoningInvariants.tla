------------------------ MODULE ReasoningInvariants ------------------------
(* What ReasoningCore promises.  Each property says which code is meant to *)
(* make it true.                                                           *)
EXTENDS ReasoningCore

RecordType ==
    [id : Nat, support : 0..Unit, pro : SUBSET Nat, con : SUBSET Nat,
     at : Nat, prev : Nat]
VersionType == [text : Texts, stance : Stances, at : Nat]
EventType ==
    [outcome : Outcomes, hyp : Hypotheses, by : Nat, at : Nat,
     anomalous : BOOLEAN]
AnomalyType == [by : Nat, hyp : Hypotheses, disposition : Dispositions]
ParkedType == [by : Nat, key : Keys, text : Texts, stance : Stances]
EdgeType == Nat \X {"supports", "contradicts"} \X Hypotheses
IdsType == [evidence : Nat, wm : 0..MaxInteractions,
            hyp : 0..MaxHypotheses, record : Nat]
ProposalType == [key : Keys, text : Texts, stance : Stances,
                 matched : 0..MaxHypotheses]
BearingType == [hyp : Hypotheses, kind : BearingKinds]
ObservationType == [proposals : Seq(ProposalType),
                    bearings : Seq(BearingType)]
PlanType ==
    [batch : Seq(EvidenceKinds), index : Nat, wm : 0..MaxInteractions,
     ids : IdsType,
     working : [Hypotheses -> RecordType],
     flights : [Hypotheses -> Candidates \cup {NoFlight}],
     versions : [Hypotheses -> Seq(VersionType)],
     records : [Hypotheses -> Seq(RecordType)],
     events : Seq(EventType), edges : SUBSET EdgeType,
     anomalies : SUBSET AnomalyType, parked : SUBSET ParkedType,
     proposals : Seq(ProposalType), bearings : Seq(BearingType),
     appraised : Seq(ObservationType)]

\* Every store and the plan hold values of the types the domain classes
\* declare; the plan never runs past its batch.
TypeOK ==
    /\ DOMAIN evidence \subseteq Nat
    /\ \A e \in DOMAIN evidence : evidence[e] \in EvidenceKinds
    /\ keyOf \in [Hypotheses -> Keys \cup {NoKey}]
    /\ versions \in [Hypotheses -> Seq(VersionType)]
    /\ records \in [Hypotheses -> Seq(RecordType)]
    /\ ledger \in Seq(EventType)
    /\ anomalies \subseteq AnomalyType
    /\ parked \subseteq ParkedType
    /\ edges \subseteq EdgeType
    /\ models \in [Versions -> [active : SUBSET Hypotheses,
                                predictions : SUBSET Hypotheses,
                                inquiry : BOOLEAN]]
    /\ current \in 0..MaxInteractions
    /\ ids \in IdsType
    /\ phase \in {"idle", "planning", "appraising"}
    /\ plan \in PlanType
    /\ plan.index =< Len(plan.batch)
    /\ phase = "appraising" => plan.index >= 1
    /\ outcome \in {"none", "committed", "held", "rejected", "breached",
                    "interrupted"}

----------------------------------------------------------------------------
(* Evidence.                                                               *)

\* A rejected interaction gives its identifiers back, so the admitted
\* evidence ids never have a hole (service.record_interaction opens the
\* boundary above the first mint).
EvidenceIdsGapless == DOMAIN evidence = 1..ids.evidence

\* No hypothesis is moved by anything but appraisable, admitted evidence: a
\* RESPONSE_OR_RESONANCE or META_INSTRUCTION record never becomes proof, and
\* no record cites evidence of an interaction that was given up.
GroundedInEvidence ==
    \A h \in Hypotheses : \A i \in DOMAIN records[h] :
        \A e \in records[h][i].pro \cup records[h][i].con :
            e \in DOMAIN evidence /\ evidence[e].appraisable

\* No evaluation counts one observation on both sides: matching, refining,
\* founding and the three bearings all meet in one plan.
EvidenceDisjoint ==
    \A h \in Hypotheses : \A i \in DOMAIN records[h] :
        records[h][i].pro \cap records[h][i].con = {}

\* One support effect per observation and lineage, whichever of the paths
\* (match, refinement, bearing) it arrives by (F-3).
OneEffectPerObservation ==
    \A i, j \in DOMAIN ledger :
        /\ ledger[i].hyp = ledger[j].hyp
        /\ ledger[i].by = ledger[j].by
        => i = j

----------------------------------------------------------------------------
(* The stores tell one story.                                              *)

\* A lineage, its statement versions and its evaluations exist together or
\* not at all, also when the commit policy declines what founded it (M-3); and
\* whatever names a WorldModel version names an appended one.
ReferencesResolve ==
    LET Appended == {v \in 1..current : models[v] # NoModel} IN
    /\ current # 0 => current \in Appended
    /\ \A i \in DOMAIN ledger : ledger[i].at \in Appended
    /\ \A h \in Hypotheses :
        /\ keyOf[h] # NoKey <=> records[h] # <<>>
        /\ versions[h] # <<>> <=> records[h] # <<>>
        /\ \A i \in DOMAIN records[h] : records[h][i].at \in Appended
        /\ \A i \in DOMAIN versions[h] : versions[h][i].at \in Appended

\* An evidence-to-hypothesis edge is written for each revision event and
\* for nothing else.
EdgesMatchLedger ==
    edges = {<<ledger[i].by,
               IF ledger[i].outcome \in {"hypothesize", "strengthen"}
               THEN "supports" ELSE "contradicts",
               ledger[i].hyp>> : i \in DOMAIN ledger}

\* Every evaluation but the first names its predecessor.
SupersedesChain(h) ==
    \A i \in DOMAIN records[h] :
        records[h][i].prev = IF i = 1 THEN 0 ELSE records[h][i - 1].id

\* The ledger alone reconstructs who supports and who contradicts a
\* hypothesis and how often it was evaluated; the evaluations chain, and the
\* edges are those of its events.
EventsOf(h) == {i \in DOMAIN ledger : ledger[i].hyp = h}
LedgerExplainsRecords ==
    /\ EdgesMatchLedger
    /\ \A h \in Held :
        LET By(S) == {ledger[i].by : i \in {j \in EventsOf(h) :
                                                ledger[j].outcome \in S}}
        IN  /\ Cardinality(EventsOf(h)) = Len(records[h])
            /\ Latest(h).pro = By({"hypothesize", "strengthen"})
            /\ Latest(h).con = By({"weaken", "contradict"})
            /\ SupersedesChain(h)

\* The current model is what re-reading the stores would give (plan():
\* "Equivalent to re-reading the store after the writes").
ModelRereadsStore ==
    current # 0 =>
        /\ models[current].active = Held
        /\ models[current].predictions =
             {h \in Held : Latest(h).support >= Predicting}

----------------------------------------------------------------------------
(* Identity.                                                               *)

\* A lineage never inverts its own stance from one interaction to the next:
\* R1a compares with the stance the interaction found (adjudicate).
NoInversionBetweenInteractions ==
    \A h \in Hypotheses : \A i \in DOMAIN versions[h] :
        /\ i > 1
        /\ versions[h][i].at # versions[h][i - 1].at
        => ~Inverts(versions[h][i - 1].stance, versions[h][i].stance)

\* The same statement and stance under one bound live in one lineage.
SameStatement(g, i, h, j) ==
    /\ keyOf[g] = keyOf[h]
    /\ versions[g][i].text = versions[h][j].text
    /\ versions[g][i].stance = versions[h][j].stance

\* Two lineages share a statement only if one interaction gave it to both:
\* exact match sees every committed version (F-2) and every lineage in
\* flight, but no version the same plan has appended.
DuplicatesConfinedToOnePlan ==
    \A g, h \in Hypotheses :
        \A i \in DOMAIN versions[g], j \in DOMAIN versions[h] :
            g # h /\ SameStatement(g, i, h, j)
                => versions[g][i].at = versions[h][j].at

----------------------------------------------------------------------------
(* Contradiction.                                                          *)

\* The disposition of an anomaly decides whether there is a revision event
\* (FR-MR-004): a revised one has the weakening it announces, an escalated or
\* rejected one leaves none, and no event claims an anomaly not recorded.
AnomaliesDecide ==
    LET Announced == {<<ledger[i].by, ledger[i].hyp>> :
                        i \in {j \in DOMAIN ledger : ledger[j].anomalous}}
        Weakenings == {<<ledger[i].by, ledger[i].hyp>> :
                        i \in {j \in DOMAIN ledger :
                                 ledger[j].outcome \in {"weaken", "contradict"}}}
        About(S) == {<<a.by, a.hyp>> : a \in {b \in anomalies :
                                               b.disposition \in S}}
    IN  /\ Announced = About({"revise"})
        /\ Weakenings \cap About({"escalate", "reject"}) = {}

\* check 10: an interaction that writes or parks a statement opposed to a
\* committed lineage also records a contradiction of that lineage.
Contradicted(g) ==
    \/ \E e \in edges' \ edges : e[2] = "contradicts" /\ e[3] = g
    \/ \E a \in anomalies' \ anomalies : a.hyp = g
OppositionIsContradicted ==
    [][\A g \in Held :
        LET opposes(k, stance) == keyOf[g] = k /\ Inverts(CurrentStance(g), stance)
        IN  /\ \A q \in parked' \ parked :
                 opposes(q.key, q.stance) => Contradicted(g)
            /\ \A h \in Hypotheses :
                 \A i \in Len(versions[h]) + 1 .. Len(versions'[h]) :
                    opposes(keyOf'[h], versions'[h][i].stance)
                        => Contradicted(g)
      ]_vars

\* Understanding moves only together with a newly appended model version
\* (FR-MR-003), and versions are never rewritten.
UnderstandingMovesWithModel ==
    [][/\ <<keyOf, versions, records, ledger, edges>>'
            # <<keyOf, versions, records, ledger, edges>>
            => current' > current
       /\ current' # current => models[current'] = NoModel
       /\ \A v \in Versions :
            models'[v] # models[v] => v = current']_vars

\* Every interaction closes: plans are finite and every appraised plan is
\* committed, held or rejected.
InteractionsClose == phase # "idle" ~> phase = "idle"

\* The engine implements module Understanding: read the evidence sets off the
\* latest evaluation of each hypothesis.
Abstract == INSTANCE Understanding
              WITH admitted <- DOMAIN evidence,
                   pro <- [h \in Hypotheses |-> Latest(h).pro],
                   con <- [h \in Hypotheses |-> Latest(h).con],
                   version <- current
ImplementsUnderstanding == Abstract!Spec

----------------------------------------------------------------------------
(* What comments of the code say and the code does not do.                 *)

\* identity.py:160: "a lineage can never invert its own stance".
LineageNeverInverts ==
    \A h \in Hypotheses : \A i, j \in DOMAIN versions[h] :
        ~Inverts(versions[h][i].stance, versions[h][j].stance)

\* model_revision.py:813: contradiction of established understanding is an
\* anomaly first, before any revision event.
ContradictionHasAnomaly ==
    \A i \in DOMAIN ledger :
        ledger[i].outcome = "contradict" => ledger[i].anomalous

\* plan_validation.py:204: conflicting operations are rejected as invalid
\* responses and never reach the overlap invariant as an internal breach.
ConflictsAreRejected == outcome # "breached"

\* An observation recorded as an anomaly against a hypothesis does not at
\* the same time support it: check 2(f) forbids it for a match, and a
\* refinement "attaches and strengthens exactly as a match would".
AnomalyNeverSupports ==
    \A a \in anomalies : a.by \notin Latest(a.hyp).pro
=============================================================================
