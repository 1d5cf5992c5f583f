--------------------------- MODULE ModelBoundary ---------------------------
(***************************************************************************)
(* What phase 1 accepts from a model.  A reply is JSON, kept here as its   *)
(* shape: a value has a kind and, where a validator looks further, what it *)
(* is.  Each boundary has a validator that either accepts the whole reply  *)
(* or rejects it; none repairs one.  An absent field is the null value, as *)
(* dict.get returns it.                                                    *)
(*                                                                         *)
(* Participant labels are minted per request over the sorted roster: label *)
(* <<t, i>> is the i-th label of the request made for turn t, <<0, i>> a   *)
(* name no request mints.                                                  *)
(***************************************************************************)
EXTENDS Naturals, Sequences, SequencesExt, FiniteSets

----------------------------------------------------------------------------
\* JSON values.  A blank string is a kind of its own: strip() empties it.
Null == [kind |-> "null", is |-> "null"]
Bool == [kind |-> "bool", is |-> "bool"]
Blank == [kind |-> "blank", is |-> "blank"]
Str(s) == [kind |-> "string", is |-> s]
Num(percent) == [kind |-> "number", is |-> percent]
List(items) == [kind |-> "list", is |-> items]
Obj(fields) == [kind |-> "object", is |-> fields]
NotJson == [kind |-> "garbage", is |-> "garbage"]

Has(obj, f) == f \in DOMAIN obj.is
Get(obj, f) == IF Has(obj, f) THEN obj.is[f] ELSE Null

ParsesAsObject(reply) == reply.kind = "object"
UnitInterval(v) == v.kind = "number" /\ v.is =< 100
NonEmptyStr(v) == v.kind = "string"
StrOrNull(v) == v.kind \in {"null", "string", "blank"}
\* An absent list is an empty one, at every boundary.
ListShape(v) == v.kind \in {"null", "list"}
Items(v) == IF v.kind = "null" THEN <<>> ELSE v.is
StrList(v) ==
    ListShape(v) /\ \A s \in ToSet(Items(v)) : s.kind \in {"string", "blank"}
OneOf(v, names) == v.kind = "string" /\ v.is \in names

----------------------------------------------------------------------------
\* Extraction.
EvidenceClasses == {"narrative", "reflective", "behavioural", "contradictory",
                    "missing", "failed_acquisition"}
Roles == {"event_observation", "account", "response_or_resonance",
          "meta_instruction"}
SubjectKinds == {"participant", "dyad", "third_party", "none"}

ProposesStanding(item) == Has(item, "role") \/ Has(item, "subject_kind")

WellFormedStanding(item) ==
    ProposesStanding(item) =>
        /\ ~Has(item, "source_kind") /\ ~Has(item, "source_id")
        /\ NonEmptyStr(Get(item, "role"))
        /\ NonEmptyStr(Get(item, "subject_kind"))
        /\ StrOrNull(Get(item, "subject"))

ValidObservation(item) ==
    /\ item.kind = "object"
    /\ NonEmptyStr(Get(item, "observation"))
    /\ OneOf(Get(item, "evidence_class"), EvidenceClasses)
    /\ StrOrNull(Get(item, "text_span"))
    /\ \A f \in {"reliability", "classification_confidence",
                 "provenance_confidence"} : UnitInterval(Get(item, f))
    /\ WellFormedStanding(item)

ValidExtraction(reply) ==
    /\ ParsesAsObject(reply)
    /\ ListShape(Get(reply, "evidence"))
    /\ \A item \in ToSet(Items(Get(reply, "evidence"))) : ValidObservation(item)

----------------------------------------------------------------------------
\* Labels, and the standing the application completes from a proposal.
Rank(id, ids) == Cardinality({other \in ids : other =< id})
Vocabulary(turn, roster) ==
    LET ids == ToSet(roster)
    IN  {[label |-> <<turn, Rank(id, ids)>>, participant |-> id] : id \in ids}

Offered(label, vocabulary) == \E e \in vocabulary : e.label = label

\* Mutant: labels are minted without the request they belong to.
OfferedByPosition(label, vocabulary) ==
    \E e \in vocabulary : e.label[2] = label[2]

\* Offered labels resolve to the participant they stand for.
Resolvable(label, vocabulary) == Offered(label, vocabulary)

StandingAccepted(item, speaker, vocabulary) ==
    ProposesStanding(item) =>
        /\ Get(item, "role").is \in Roles
        /\ Get(item, "subject_kind").is \in SubjectKinds
        /\ Get(item, "subject_kind").is \in {"participant", "third_party"}
              => Get(item, "subject").kind # "null"
        /\ Get(item, "subject").kind # "null"
              => Resolvable(Get(item, "subject").is, vocabulary)
        /\ speaker # 0
              => \E e \in vocabulary : e.participant = speaker

\* What is kept of an admitted observation: the label its subject was resolved
\* from, who the transcript says spoke, and whether it goes to the appraiser.
Standing(item, speaker) ==
    [label |-> IF ProposesStanding(item) /\ Get(item, "subject").kind # "null"
               THEN Get(item, "subject").is ELSE <<0, 0>>,
     source |-> IF ProposesStanding(item) THEN speaker ELSE 0,
     appraisable |-> ProposesStanding(item) =>
                       Get(item, "role").is \in {"event_observation", "account"}]

----------------------------------------------------------------------------
\* Appraisal: references are handles, resolved by the engine's controls.
ClaimClasses == {"intention", "behaviour_pattern", "interpretation",
                 "relational_dynamic"}
Stances == {"affirms", "negates", "open"}
Retired == {"hypothesis_id", "initial_support", "supporting_evidence_ids"}

ValidSignature(v) ==
    /\ v.kind = "object"
    /\ ~Has(v, "attribution")
    /\ StrOrNull(Get(v, "temporal_scope"))
    /\ NonEmptyStr(Get(v, "subject"))
    /\ OneOf(Get(v, "claim_class"), ClaimClasses)
    /\ OneOf(Get(v, "stance"), Stances)

ValidProposal(item) ==
    /\ item.kind = "object"
    /\ \A f \in Retired : ~Has(item, f)
    /\ NonEmptyStr(Get(item, "local_ref"))
    /\ NonEmptyStr(Get(item, "statement"))
    /\ ValidSignature(Get(item, "signature"))

Proposals(reply) == Items(Get(reply, "proposals"))

ValidAppraisal(reply) ==
    /\ ParsesAsObject(reply)
    /\ StrList(Get(reply, "supports")) /\ StrList(Get(reply, "contradicts"))
    /\ ListShape(Get(reply, "proposals"))
    /\ \A item \in ToSet(Proposals(reply)) : ValidProposal(item)

----------------------------------------------------------------------------
\* Identity resolution.  The resolver is offered references 1..offered.
IdentityOutcomes == {"match_existing", "refine_existing", "distinct_new",
                     "ambiguous_review_required"}

ValidIdentity(reply) ==
    /\ ParsesAsObject(reply)
    /\ OneOf(Get(reply, "outcome"), IdentityOutcomes)
    /\ Get(reply, "matched_ref").kind \in {"null", "string"}
    /\ Get(reply, "outcome").is \in {"match_existing", "refine_existing"}
          <=> Get(reply, "matched_ref").kind # "null"
    /\ UnitInterval(Get(reply, "confidence"))
    /\ NonEmptyStr(Get(reply, "rationale"))

IdentityUsable(reply, offered) ==
    /\ ValidIdentity(reply)
    /\ Get(reply, "matched_ref").kind # "null"
          => Get(reply, "matched_ref").is \in 1..offered

----------------------------------------------------------------------------
\* The baselines: every key may be absent, none may be ill-typed.
ValidHeld(item) ==
    /\ item.kind = "object"
    /\ NonEmptyStr(Get(item, "id")) /\ NonEmptyStr(Get(item, "statement"))

ValidClaim(item) ==
    /\ item.kind = "object"
    /\ StrOrNull(Get(item, "cited_evidence_id"))
    /\ NonEmptyStr(Get(item, "text"))

ValidBaseline(reply) ==
    /\ ParsesAsObject(reply)
    /\ StrList(Get(reply, "best_explanations"))
    /\ ListShape(Get(reply, "competing_hypotheses_held"))
    /\ \A item \in ToSet(Items(Get(reply, "competing_hypotheses_held"))) :
          ValidHeld(item)
    /\ StrOrNull(Get(reply, "question_asked"))
    /\ ListShape(Get(reply, "continuity_claims"))
    /\ \A item \in ToSet(Items(Get(reply, "continuity_claims"))) :
          ValidClaim(item)
=============================================================================
