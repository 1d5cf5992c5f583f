------------------------------- MODULE MCStore -------------------------------
(* Instances of SqliteStore for TLC: databases of no, one and two subjects   *)
(* written before the migration, and one where both used the same ids.       *)
EXTENDS StoreProperties

Old(s, id, data) == [id |-> id, writer |-> s, owner |-> s, space |-> None,
                     blob |-> s, data |-> data]
Anonymous(s, id, data) == [Old(s, id, data) EXCEPT !.owner = None, !.blob = None]

Table(cols, rows) == [cols |-> cols, rows |-> rows]

\* One interaction of each subject in order, subject i under the ids k[i];
\* the last began a second one that founded hypothesis 9 and got no further.
Database(order, k) ==
    LET each(F(_, _)) == [i \in DOMAIN order |-> F(order[i], k[i])]
        last == order[Len(order)]
        event(s, n) == Old(s, n, [seq |-> 0, outcome |-> "hypothesize",
                         affected |-> n, evidence |-> {n}, from |-> 0, to |-> n,
                         anomaly |-> 0])
        evidence(s, n) == Old(s, n, {})
        hypothesis(s, n) == Anonymous(s, n, {n})
        prediction(s, n) == Anonymous(s, n, n)
        model(s, n) == Old(s, n, [hypotheses |-> {n}, predictions |-> {n},
                                  inquiries |-> {}])
        pointer(s, n) == Old(s, s, n)
        trace(s, n) == Old(s, n, {n})
    IN  [evidence |-> Table({"subject"}, each(evidence) \o <<evidence(last, 9)>>),
         hypotheses |-> Table({}, each(hypothesis) \o <<hypothesis(last, 9)>>),
         predictions |-> Table({}, each(prediction)),
         world_models |-> Table({"subject"}, each(model)),
         current_pointer |-> Table({"subject"}, each(pointer)),
         ledger |-> Table({"subject"}, each(event)),
         anomalies |-> Table({}, <<>>),
         provenance |-> Table({}, each(trace))]

CONSTANTS ann, bob
MCSubjects == {ann, bob}
MCLegacy == {[t \in {} |-> Table({}, <<>>)], Database(<<ann>>, <<1>>),
             Database(<<ann, bob>>, <<1, 2>>)}
MCShared == {Database(<<ann, bob>>, <<1, 1>>)}

\* Bob's second interaction got as far as the ledger.
MCTorn ==
    LET tables == Database(<<ann, bob>>, <<1, 2>>)
        event == Old(bob, 9, [seq |-> 1, outcome |-> "hypothesize", affected |-> 9,
                              evidence |-> {9}, from |-> 2, to |-> 9, anomaly |-> 0])
    IN  {[tables EXCEPT !.ledger.rows = Append(@, event)]}

\* What the theorems about owners and readers ask of legacy databases.
ASSUME ApartAssumption ==
    /\ \A tables \in MCLegacy : Coherent(tables)
    /\ \A tables \in MCShared : ~SubjectsApart(tables)
    /\ \A tables \in MCTorn : SubjectsApart(tables)
=============================================================================
