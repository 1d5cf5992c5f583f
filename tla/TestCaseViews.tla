---------------------------- MODULE TestCaseViews ---------------------------
(***************************************************************************)
(* The review analyses of testcase.py: what a test case shows of what the  *)
(* engine returned, derived and never reasoned about.                      *)
(*                                                                         *)
(* A result of an interaction is [evidence, committed, version,            *)
(* uncertainty, active, predictions, inquiry, events]: active a sequence   *)
(* of [id, statement, support], predictions of [from, likelihood], events  *)
(* of [outcome, affected]; None where there is no model.  A world is what  *)
(* the stores hold: [evidence, ledger, active, predictions, inquiry,       *)
(* version, uncertainty], the ledger a sequence of [no, outcome, affected, *)
(* evidence, to, status].  A case is [sequence, history, snapshots, ran,   *)
(* expectations]; a snapshot is [step, world], the world as it was after   *)
(* that many steps, and an expectation None if it is not one that can be   *)
(* read: nothing checks those of an imported case.                         *)
(***************************************************************************)
EXTENDS Naturals, FiniteSets, Sequences, SequencesExt

CONSTANT None

Committed(history) == SelectSeq(history, LAMBDA r : r.committed)
Ids(active) == {active[i].id : i \in DOMAIN active}
SupportIn(active, h) == (CHOOSE a \in ToSet(active) : a.id = h).support

\* Each hypothesis's support at every step, None before it exists.
HypothesisEvolution(history) ==
    [h \in UNION {Ids(r.active) : r \in ToSet(history)} |->
       [i \in DOMAIN history |->
          IF h \in Ids(history[i].active)
          THEN SupportIn(history[i].active, h) ELSE None]]

Known(series) == SelectSeq(series, LAMBDA s : s # None)
Ends(series) == <<Head(Known(series)), Known(series)[Len(Known(series))]>>
Gained(series) == Len(Known(series)) > 1 /\ Ends(series)[2] > Ends(series)[1]
Weakened(series) == Len(Known(series)) > 1 /\ Ends(series)[2] < Ends(series)[1]

----------------------------------------------------------------------------
\* Created, strengthened, weakened and invalidated predictions, one per
\* hypothesis and version: a later prediction of one hypothesis hides an
\* earlier one.
Foreseen(r) ==
    [h \in {p.from : p \in ToSet(r.predictions)} |->
       LET of == SelectSeq(r.predictions, LAMBDA p : p.from = h)
       IN  of[Len(of)].likelihood]

Change(before, now, h) ==
    CASE h \in DOMAIN now \ DOMAIN before -> "created"
      [] h \in DOMAIN before \ DOMAIN now -> "invalidated"
      [] now[h] > before[h] -> "strengthened"
      [] now[h] < before[h] -> "weakened"
      [] OTHER -> "unchanged"

NoPrediction == [h \in {} |-> 0]

\* Mutant: a held step counts as one without predictions.
LifecycleOfEveryStep(history) ==
    LET now(i) == IF history[i].committed THEN Foreseen(history[i]) ELSE NoPrediction
        before(i) == IF i = 1 THEN NoPrediction ELSE now(i - 1)
    IN  [i \in DOMAIN history |->
           [version |-> history[i].version,
            events |-> [h \in DOMAIN before(i) \cup DOMAIN now(i) |->
                          Change(before(i), now(i), h)]]]

\* A held step leaves the predictions as they were, and is skipped.
PredictionLifecycle(history) ==
    LET steps == Committed(history)
        before(i) == IF i = 1 THEN NoPrediction ELSE Foreseen(steps[i - 1])
    IN  [i \in DOMAIN steps |->
           [version |-> steps[i].version,
            events |-> [h \in DOMAIN before(i) \cup DOMAIN Foreseen(steps[i]) |->
                          Change(before(i), Foreseen(steps[i]), h)]]]

----------------------------------------------------------------------------
WorldModelTimeline(history) ==
    [i \in DOMAIN Committed(history) |->
       LET r == Committed(history)[i]
       IN  [version |-> r.version, uncertainty |-> r.uncertainty,
            active |-> Ids(r.active), predictions |-> Len(r.predictions),
            evidence |-> r.evidence]]

RevisionsByInteraction(history) ==
    [i \in DOMAIN history |->
       [evidence |-> history[i].evidence, committed |-> history[i].committed,
        version |-> IF history[i].committed THEN history[i].version ELSE None,
        revisions |-> history[i].events]]

\* Per evidence record: the revisions it triggered, in the ledger's order, and
\* the predictions and inquiries of the versions they led to.
EvidenceChains(history, world) ==
    [i \in DOMAIN world.evidence |->
       LET revs == SelectSeq(world.ledger, LAMBDA x : x.evidence = world.evidence[i])
           versions == {x.to : x \in ToSet(revs)}
           of == {r \in ToSet(Committed(history)) : r.version \in versions}
       IN  [evidence |-> world.evidence[i], revisions |-> revs,
            versions |-> versions,
            predictions |-> UNION {ToSet(r.predictions) : r \in of},
            inquiries |-> {r.version : r \in {s \in of : s.inquiry}}]]

Timeline(history) ==
    [i \in DOMAIN history |->
       LET before == IF i = 1 THEN 0 ELSE Len(history[i - 1].active)
           after == Len(history[i].active)
       IN  [evidence |-> history[i].evidence,
            created |-> IF after > before THEN after - before ELSE 0,
            total |-> after, revisions |-> Len(history[i].events),
            version |-> IF history[i].committed THEN history[i].version
                        ELSE None]]

Summary(case, world) ==
    [evidence |-> Len(world.evidence), interactions |-> case.ran,
     versions |-> {x.to : x \in ToSet(world.ledger)},
     revisions |-> Len(world.ledger), active |-> Len(world.active),
     predictions |-> Len(world.predictions), inquiry |-> world.inquiry,
     uncertainty |-> world.uncertainty]

\* The evidence ids of what has run, beside what has not.
SequenceRows(case) ==
    [i \in DOMAIN case.sequence |->
       [ran |-> i =< case.ran,
        evidence |-> IF i =< case.ran /\ i =< Len(case.history)
                     THEN case.history[i].evidence ELSE None]]

\* The hypotheses that lead: those with a prediction, or else a strongest one.
Leading(world) ==
    LET foreseen == {p.from : p \in ToSet(world.predictions)}
        strongest == {a.id : a \in {b \in ToSet(world.active) :
                        \A c \in ToSet(world.active) : c.support =< b.support}}
    IN  IF world.active = <<>> THEN {}
        ELSE IF Ids(world.active) \cap foreseen # {}
             THEN Ids(world.active) \cap foreseen
             ELSE {CHOOSE h \in strongest : TRUE}

\* Why they lead: how their support went, and whether another one weakened.
ExplainWhy(history, world) ==
    LET series == HypothesisEvolution(history)
        of(h) == IF h \in DOMAIN series THEN series[h] ELSE <<>>
    IN  [h \in Leading(world) |->
           [progression |-> Known(of(h)),
            othersWeakened |-> \E g \in Ids(world.active) : Weakened(of(g))]]

----------------------------------------------------------------------------
\* The verdict: five checks that hold of any correct run, per its docstring.
Retained(history) ==
    \A i, j \in DOMAIN history :
        i < j => Ids(history[i].active) \subseteq Ids(history[j].active)

UncertaintyRevised(history) ==
    LET us == SelectSeq([i \in DOMAIN history |-> history[i].uncertainty],
                        LAMBDA u : u # None)
    IN  us # <<>> /\ (Cardinality(ToSet(us)) > 1 \/ Len(us) = 1)

Cited(world) == \A i \in DOMAIN world.ledger : world.ledger[i].evidence # None

Immutable(world) ==
    \A i \in DOMAIN world.ledger : /\ world.ledger[i].no = i - 1
                                   /\ world.ledger[i].status = "committed"

Verdict(history, world) ==
    IF history = <<>> THEN "PENDING"
    ELSE IF /\ Retained(history) /\ UncertaintyRevised(history)
            /\ Cited(world) /\ Immutable(world)
         THEN "PASS" ELSE "FAIL"

\* The narrative: each of its sentences is one of these.
ReasoningSummary(history, world) ==
    LET series == HypothesisEvolution(history)
    IN  [initial |-> Ids(history[1].active),
         gained |-> {h \in DOMAIN series : Gained(series[h])},
         weakened |-> {h \in DOMAIN series : Weakened(series[h])},
         uncertainty |-> LET us == [i \in DOMAIN history |-> history[i].uncertainty]
                         IN  IF Len(Known(us)) > 1 THEN Ends(us) ELSE <<>>,
         predicted |-> {p.from : p \in ToSet(world.predictions)},
         inquiry |-> world.inquiry,
         consistent |-> Verdict(history, world) = "PASS"]

----------------------------------------------------------------------------
\* Authored ids are translated to durable ones by statement, and left alone
\* where a statement has more than one author or more than one bearer.
Authored(sequence) ==
    UNION {ToSet(spec.proposes) : spec \in ToSet(sequence)}
Authors(sequence, statement) ==
    [times |-> UNION {{<<i, k>> : k \in {m \in DOMAIN sequence[i].proposes :
                                   sequence[i].proposes[m].statement = statement}} :
                        i \in DOMAIN sequence},
     ids |-> {p.id : p \in {q \in Authored(sequence) : q.statement = statement}}]
Bearers(snapshots, statement) ==
    {a.id : a \in {b \in UNION {ToSet(s.world.active) : s \in ToSet(snapshots)} :
                     b.statement = statement}}

AuthoredToDurable(case) ==
    UNION {Authors(case.sequence, s).ids \X Bearers(case.snapshots, s) :
             s \in {p.statement : p \in {q \in Authored(case.sequence) :
                     /\ Cardinality(Authors(case.sequence, q.statement).times) = 1
                     /\ Cardinality(Bearers(case.snapshots, q.statement)) = 1}}}

\* An unmapped id stays as authored, and compares unequal.
Translate(case, ids) ==
    LET pairs == AuthoredToDurable(case)
    IN  {IF \E p \in pairs : p[1] = h THEN (CHOOSE p \in pairs : p[1] = h)[2]
         ELSE h : h \in ids}

Trend(before, now) ==
    CASE before = None -> "first"
      [] before # None /\ now > before -> "up"
      [] before # None /\ now < before -> "down"
      [] OTHER -> "flat"

\* The comparison pairs the i-th snapshot with the i-th expectation, and raises
\* at one it cannot read.
Unreadable(case) ==
    \E i \in DOMAIN case.snapshots \cap DOMAIN case.expectations :
        case.expectations[i] = None

\* Mutant: a step is compared with what is authored up to the latest one.
ExpectedSoFar(case) ==
    [i \in DOMAIN case.snapshots |->
       LET actual == case.snapshots[i].world
           run == SubSeq(case.sequence, 1, Len(case.snapshots))
       IN  /\ case.expectations[i].version = actual.version
           /\ Translate(case, {p.id : p \in Authored(run)}) = Ids(actual.active)]

\* What was expected of a step beside what its snapshot shows.
ExpectedVsActual(case) ==
    [i \in DOMAIN case.snapshots |->
       LET actual == case.snapshots[i].world
           expected == case.expectations[i]
           before == IF i = 1 THEN None ELSE case.snapshots[i - 1].world.uncertainty
       IN  /\ expected.version = actual.version
           /\ Translate(case, {p.id : p \in Authored(SubSeq(case.sequence, 1, i))})
                = Ids(actual.active)
           /\ expected.trend = Trend(before, actual.uncertainty)
           /\ Translate(case, expected.predictions)
                = {p.from : p \in ToSet(actual.predictions)}
           /\ expected.inquiry = actual.inquiry]
=============================================================================
