------------------------------ MODULE MCReview ------------------------------
(* ReviewHarness on a small instance, with a small deterministic engine:    *)
(* an explanation starts with support 4 and moves by 2; from 6 on it yields *)
(* a prediction.                                                            *)
EXTENDS ReviewProperties

Spec1 == [refused |-> "no", supports |-> {}, contradicts |-> {},
          proposes |-> <<[id |-> "Ha", statement |-> "a"],
                         [id |-> "Hb", statement |-> "b"]>>]
Spec2 == [refused |-> "no", supports |-> {"a"}, contradicts |-> {"b"},
          proposes |-> <<>>]
Spec3 == [refused |-> "no", supports |-> {}, contradicts |-> {"a"},
          proposes |-> <<[id |-> "Hc", statement |-> "c"]>>]
Mere == [refused |-> "no", supports |-> {}, contradicts |-> {}, proposes |-> <<>>]
Early == [Mere EXCEPT !.refused = "before"]
Within == [Mere EXCEPT !.refused = "within"]

MCEvidence == {Early}

Of(sequence, expectations) ==
    [born |-> <<"outside">>, sequence |-> sequence,
     expectations |-> expectations, noted |-> FALSE]

Expect(version, trend, predictions) ==
    [version |-> version, trend |-> trend, predictions |-> predictions,
     inquiry |-> TRUE]

MCSaved == (9 :> Of(<<Within>>, <<>>)) @@ (10 :> Of(<<Spec1, Spec2, Mere>>, <<>>))
MCSample == Of(<<Spec1, Spec3>>, <<Expect(1, "first", {}), Expect(2, "flat", {})>>)

MCConfigs == {[backend |-> "sqlite", writable |-> TRUE],
              [backend |-> "memory", writable |-> FALSE]}
\* Nobody checks the expectations of an imported case.
MCImported == Of(<<Mere, Spec1>>, <<None, Expect(1, "first", {})>>)

Held(active, statement) == \E a \in ToSet(active) : a.statement = statement

MCInteraction(world, spec, e) ==
    LET new == SelectSeq(spec.proposes, LAMBDA p : ~Held(world.active, p.statement))
        moved(a) == CASE a.statement \in spec.supports -> a.support + 2
                      [] a.statement \in spec.contradicts -> a.support - 2
                      [] OTHER -> a.support
        old == Len(world.active)
        active == [i \in 1..old + Len(new) |->
                     IF i > old THEN [id |-> i, statement |-> new[i - old].statement,
                                      support |-> 4]
                     ELSE [world.active[i] EXCEPT !.support = moved(world.active[i])]]
        changed == {i \in DOMAIN active :
                      i > old \/ active[i].support # world.active[i].support}
        committed == changed # {}
        version == IF world.version = None THEN 1 ELSE world.version + 1
        events == [i \in 1..Cardinality(changed) |->
                     LET h == SetToSortSeq(changed, <)[i]
                     IN  [outcome |-> IF h > old THEN "hypothesize"
                                      ELSE IF active[h].support > world.active[h].support
                                           THEN "strengthen" ELSE "weaken",
                          affected |-> h]]
        strong == SelectSeq(active, LAMBDA a : a.support >= 6)
        predictions == [i \in DOMAIN strong |->
                          [from |-> strong[i].id, likelihood |-> strong[i].support]]
        after ==
          IF ~committed THEN world
          ELSE [evidence |-> world.evidence,
                ledger |-> world.ledger \o
                  [i \in DOMAIN events |->
                     [no |-> Len(world.ledger) + i - 1, status |-> "committed",
                      outcome |-> events[i].outcome, affected |-> events[i].affected,
                      evidence |-> e, to |-> version]],
                active |-> active, predictions |-> predictions,
                inquiry |-> TRUE, version |-> version,
                uncertainty |-> 10 - Len(predictions)]
    IN  [world |-> after,
         result |-> [evidence |-> e, committed |-> committed,
                     version |-> after.version, uncertainty |-> after.uncertainty,
                     active |-> after.active, inquiry |-> after.inquiry,
                     predictions |-> IF committed THEN predictions ELSE <<>>,
                     events |-> events]]
=============================================================================
