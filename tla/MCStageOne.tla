----------------------------- MODULE MCStageOne ----------------------------
(* Instances of StageOneRun for TLC: three turns, the second a hold; turn 1 *)
(* has a recorded speaker, turn 3 has none.                                 *)
EXTENDS StageOneProperties

MCSpeaker == <<1, 1, 0>>
MCRosters == {<<>>, <<2, 1, 2>>}

Item(fields) ==
    Obj([observation |-> Str("seen"), evidence_class |-> Str("narrative"),
         reliability |-> Num(50), classification_confidence |-> Num(100),
         provenance_confidence |-> Num(0)] @@ fields)

About(role, label) ==
    Item([role |-> Str(role), subject_kind |-> Str("participant"),
          subject |-> Str(label)])

Observations(items) == Obj([evidence |-> List(items)])

\* Labels are of the turn itself or of another request; one reply answers who
\* spoke; one has no evidence at all.
MCExtraction ==
    << [two |-> Observations(<<About("account", <<1, 1>>),
                               About("meta_instruction", <<1, 2>>)>>),
        other |-> Observations(<<About("account", <<3, 1>>)>>)],
       <<>>,
       [unstated |-> Observations(<<Item(<<>>)>>),
        nothing |-> Obj([other |-> Null]),
        stale |-> Observations(<<About("account", <<1, 2>>)>>),
        speaks |-> Observations(<<Item([role |-> Str("account"),
                                        source_id |-> Str("someone")])>>)] >>

Proposal(fields) ==
    Obj([local_ref |-> Str("n1"), statement |-> Str("claim"),
         signature |-> Obj([subject |-> Str("P1"), stance |-> Str("open"),
                            claim_class |-> Str("intention")])] @@ fields)

MCAppraisal ==
    [founds |-> Obj([supports |-> List(<<>>),
                     proposals |-> List(<<Proposal(<<>>)>>)]),
     retired |-> Obj([proposals |->
                   List(<<Proposal([initial_support |-> Num(50)])>>)])]

Decision(outcome, fields) ==
    Obj([outcome |-> Str(outcome), confidence |-> Num(70),
         rationale |-> Str("why")] @@ fields)

MCIdentity ==
    [match |-> Decision("match_existing", [matched_ref |-> Str(1)]),
     unoffered |-> Decision("refine_existing", [matched_ref |-> Str(2)])]

MCBaseline ==
    [empty |-> Obj([question_asked |-> Null]),
     prose |-> NotJson]
=============================================================================
