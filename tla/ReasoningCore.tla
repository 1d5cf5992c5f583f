--------------------------- MODULE ReasoningCore ---------------------------
(***************************************************************************)
(* One (space, subject) scope of the reasoning engine: what                *)
(* CoreLoop.ingest does to the governed stores.  An interaction plans      *)
(* (every observation is appraised, every candidate adjudicated, every     *)
(* bearing applied to the plan), the whole plan is validated, and          *)
(* commit_plan writes it.  Closing is one step here: that the unit of work *)
(* makes it one is the subject of module InteractionCommit.                *)
(*                                                                         *)
(* An appraisal response is chosen item by item while it is consumed, in   *)
(* the order the engine consumes it.                                       *)
(***************************************************************************)
EXTENDS Scoring, Sequences

CONSTANTS
    Keys,            \* retrieval bounds: (signature subject, attribution)
    Texts,           \* normalised statement and claim class of a candidate
    Stances,         \* the stances candidates may take
    EvidenceKinds,   \* reliability and appraisable role of an observation
    BearingKinds,    \* the bearings the appraiser may return
    CommitOutcomes,  \* outcomes the RevisionCommitPolicy lets commit
    HasResolver,     \* is an IdentityResolver configured?
    Established,     \* established_support_threshold
    Revise,          \* contradiction_revise_reliability
    Dismiss,         \* contradiction_reject_reliability
    Predicting,      \* prediction_support_threshold
    Inquiring,       \* inquiry_uncertainty_threshold
    NoKey,           \* the bound of a hypothesis id that names no lineage
    MaxInteractions, \* bound: model-version ids reserved
    MaxHypotheses,   \* bound: lineages founded
    MaxBatch,        \* bound: observations of one interaction
    MaxProposals,    \* bound: candidates in one response
    MaxBearings      \* bound: bearings in one response

Outcomes == {"hypothesize", "strengthen", "weaken", "contradict"}
AllStances == {"affirms", "negates", "open"}
AllBearings == {"supports", "weakens", "contradicts"}
Dispositions == {"revise", "escalate", "reject"}

ASSUME VocabularyAssumption ==
    /\ Stances \subseteq AllStances
    /\ BearingKinds \subseteq AllBearings
    /\ CommitOutcomes \subseteq Outcomes
    /\ HasResolver \in BOOLEAN
    /\ EvidenceKinds \subseteq [reliability : 0..Unit, appraisable : BOOLEAN]
    /\ NoKey \notin Keys
ASSUME ThresholdAssumption ==
    /\ {Established, Revise, Dismiss, Predicting, Inquiring} \subseteq 0..Unit
    /\ Dismiss =< Revise
ASSUME BoundAssumption ==
    {MaxInteractions, MaxHypotheses, MaxBatch, MaxProposals, MaxBearings}
        \subseteq Nat

Hypotheses == 1..MaxHypotheses
Versions == 1..MaxInteractions
Batches == UNION {[1..n -> EvidenceKinds] : n \in 0..MaxBatch}

VARIABLES
    evidence,   \* admitted evidence: id -> kind
    keyOf,      \* HypothesisLineage: hypothesis -> bound, NoKey if none
    versions,   \* statement versions of a lineage, oldest first
    records,    \* evaluations of a hypothesis, oldest first
    ledger,     \* committed revision events
    anomalies,  \* anomaly resolutions
    parked,     \* identity adjudications awaiting review
    edges,      \* evidence -> hypothesis dependency edges
    models,     \* appended WorldModel versions
    current,    \* the current-model pointer, 0 if none
    ids,        \* identifier counters as of the last closed unit of work
    phase,      \* "idle", "planning" or "appraising"
    plan,       \* the _RevisionRun of the interaction under way
    outcome     \* how the last interaction closed

stores == <<evidence, keyOf, versions, records, ledger, anomalies, parked,
            edges, models, current>>
vars == <<stores, ids, phase, plan, outcome>>

Inverts(a, b) == {a, b} = {"affirms", "negates"}

----------------------------------------------------------------------------
(* Records and the stores' read side.                                      *)

\* Stands for "this id names no hypothesis".
NoRecord == [id |-> 0, support |-> 0, pro |-> {}, con |-> {},
             at |-> 0, prev |-> 0]

Latest(h) == IF records[h] = <<>> THEN NoRecord
             ELSE records[h][Len(records[h])]

Held == {h \in Hypotheses : records[h] # <<>>}

\* What _committed_views and _validate read: the stance of the last version
\* in the store, whatever the plan has appended since.
CurrentStance(h) == versions[h][Len(versions[h])].stance

CommittedUnder(k) == {h \in Hypotheses : keyOf[h] = k}
FlightsUnder(k) == {h \in Hypotheses : plan.flights[h].key = k}

----------------------------------------------------------------------------
(* Opening an interaction: canonical evidence ids are minted by the        *)
(* service, the model-version id by plan().                                *)

NoFlight == [key |-> NoKey, text |-> "", stance |-> "open"]

EmptyPlan ==
    [batch |-> <<>>, index |-> 0, wm |-> 0, ids |-> ids,
     working  |-> [h \in Hypotheses |-> NoRecord],
     flights  |-> [h \in Hypotheses |-> NoFlight],
     versions |-> [h \in Hypotheses |-> <<>>],
     records  |-> [h \in Hypotheses |-> <<>>],
     events |-> <<>>, edges |-> {}, anomalies |-> {}, parked |-> {},
     proposals |-> <<>>, bearings |-> <<>>, appraised |-> <<>>]

RecordInteraction ==
    /\ phase = "idle"
    /\ ids.wm < MaxInteractions
    /\ \E batch \in Batches :
         plan' = [EmptyPlan EXCEPT
                    !.batch = batch,
                    !.wm = ids.wm + 1,
                    !.ids = [ids EXCEPT !.evidence = @ + Len(batch),
                                        !.wm = @ + 1],
                    !.working = [h \in Hypotheses |-> Latest(h)]]
    /\ phase' = "planning"
    /\ UNCHANGED <<stores, ids, outcome>>

\* Mutant: off by one.
EvBefore == ids.evidence + plan.index - 1

\* The evidence under appraisal.
Ev == ids.evidence + plan.index
Reliability == plan.batch[plan.index].reliability

\* A non-appraisable role gets no appraisal call at all.
SkipObservation ==
    /\ phase = "planning"
    /\ plan.index < Len(plan.batch)
    /\ ~plan.batch[plan.index + 1].appraisable
    /\ plan' = [plan EXCEPT !.index = @ + 1]
    /\ UNCHANGED <<stores, ids, phase, outcome>>

\* Mutant: every role is appraised.
AppraiseAnyRole ==
    /\ phase = "planning"
    /\ plan.index < Len(plan.batch)
    /\ plan' = [plan EXCEPT !.index = @ + 1,
                            !.proposals = <<>>, !.bearings = <<>>]
    /\ phase' = "appraising"
    /\ UNCHANGED <<stores, ids, outcome>>

Appraise ==
    /\ phase = "planning"
    /\ plan.index < Len(plan.batch)
    /\ plan.batch[plan.index + 1].appraisable
    /\ plan' = [plan EXCEPT !.index = @ + 1,
                            !.proposals = <<>>, !.bearings = <<>>]
    /\ phase' = "appraising"
    /\ UNCHANGED <<stores, ids, outcome>>

----------------------------------------------------------------------------
(* Revising the plan.                                                      *)

\* Mutant: the new evaluation supersedes what the store holds, not what the
\* plan has come to.
RevisedFromStore(p, h, support, pro, con, what, anomalous, rel) ==
    LET r == [id |-> p.ids.record + 1, support |-> support, pro |-> pro,
              con |-> con, at |-> p.wm, prev |-> Latest(h).id]
        e == [outcome |-> what, hyp |-> h, by |-> Ev, at |-> p.wm,
              anomalous |-> anomalous]
    IN  [p EXCEPT !.ids.record = @ + 1, !.working[h] = r,
                  !.edges = @ \cup {<<Ev, rel, h>>},
                  !.records[h] = Append(@, r), !.events = Append(@, e)]

\* One intent: a new evaluation of h, the event that announces it and its
\* edge.  The commit policy filters records and events, nothing else.
Revised(p, h, support, pro, con, what, anomalous, rel) ==
    LET r == [id |-> p.ids.record + 1, support |-> support, pro |-> pro,
              con |-> con, at |-> p.wm, prev |-> p.working[h].id]
        e == [outcome |-> what, hyp |-> h, by |-> Ev, at |-> p.wm,
              anomalous |-> anomalous]
        q == [p EXCEPT !.ids.record = @ + 1,
                       !.working[h] = r,
                       !.edges = @ \cup {<<Ev, rel, h>>}]
    IN  IF what \in CommitOutcomes
        THEN [q EXCEPT !.records[h] = Append(@, r), !.events = Append(@, e)]
        ELSE q

\* Mutant: a redundant support is applied twice.
StrengthenedTwice(p, h) ==
    LET w == p.working[h] IN
    Revised(p, h, SupportAfterSupport(w.support, Reliability),
            w.pro \cup {Ev}, w.con, "strengthen", FALSE, "supports")

\* At most one support effect per observation and lineage.
Strengthened(p, h) ==
    LET w == p.working[h] IN
    IF w.id = 0 \/ Ev \in w.pro THEN p
    ELSE Revised(p, h, SupportAfterSupport(w.support, Reliability),
                 w.pro \cup {Ev}, w.con, "strengthen", FALSE, "supports")

Weakened(p, h, anomalous) ==
    LET w == p.working[h]
        s == SupportAfterContradiction(w.support, Reliability)
        crossed == w.support >= Established /\ s < Established
    IN  Revised(p, h, s, w.pro, w.con \cup {Ev},
                IF crossed THEN "contradict" ELSE "weaken",
                anomalous, "contradicts")

Disposition(r) ==
    IF r >= Revise THEN "revise" ELSE IF r >= Dismiss THEN "escalate"
    ELSE "reject"

Versioned(p, h, c) ==
    [p EXCEPT !.versions[h] =
        Append(@, [text |-> c.text, stance |-> c.stance, at |-> p.wm])]

\* A lineage founded by this plan: id, version, first record, flight view.
Founded(p, c) ==
    LET h == p.ids.hyp + 1
        q == [p EXCEPT !.ids.hyp = h, !.flights[h] = c]
    IN  Revised(Versioned(q, h, c), h, SupportAfterSupport(0, Reliability),
                {Ev}, {}, "hypothesize", FALSE, "supports")

\* The plan remembers the candidate with the lineage it matched (0: none).
Proposed(p, c, matched) ==
    [p EXCEPT !.proposals =
        Append(@, [key |-> c.key, text |-> c.text, stance |-> c.stance,
                   matched |-> matched])]

Parked(p, c) ==
    [p EXCEPT !.parked = @ \cup {[by |-> Ev, key |-> c.key, text |-> c.text,
                                  stance |-> c.stance]}]

----------------------------------------------------------------------------
(* Identity adjudication (DeterministicAdjudicator.adjudicate), one action *)
(* per outcome.  Views of committed lineages are those of the store.       *)

Candidates == [key : Keys, text : Texts, stance : Stances]

\* Mutant: only the current version is compared (F-2 undone).
CurrentMatches(c) ==
    {h \in CommittedUnder(c.key) :
        LET v == versions[h][Len(versions[h])]
        IN  v.text = c.text /\ v.stance = c.stance}

CommittedMatches(c) ==
    {h \in CommittedUnder(c.key) : \E i \in DOMAIN versions[h] :
        versions[h][i].text = c.text /\ versions[h][i].stance = c.stance}
FlightMatches(c) == {h \in Hypotheses : plan.flights[h] = c}
Plausible(c) == CommittedUnder(c.key) \cup FlightsUnder(c.key)

\* Retrieval order is creation order, and ids are issued in that order.
IsFirst(h, S) == h \in S /\ \A g \in S : h =< g

\* The stance adjudication compares against.
ViewedStance(h) == IF h \in Held THEN CurrentStance(h)
                   ELSE plan.flights[h].stance

Adjudicating ==
    /\ phase = "appraising"
    /\ plan.bearings = <<>>
    /\ Len(plan.proposals) < MaxProposals
    /\ UNCHANGED <<stores, ids, phase, outcome>>

Inexact(c) == CommittedMatches(c) = {} /\ FlightMatches(c) = {}

MatchCommitted ==
    /\ Adjudicating
    /\ \E c \in Candidates, h \in Hypotheses :
        /\ IsFirst(h, CommittedMatches(c))
        /\ ~Inverts(CurrentStance(h), c.stance)
        /\ plan' = Strengthened(Proposed(plan, c, h), h)

\* An exact match with an earlier version whose lineage has since turned.
ParkOpposedMatch ==
    /\ Adjudicating
    /\ \E c \in Candidates, h \in Hypotheses :
        /\ IsFirst(h, CommittedMatches(c))
        /\ Inverts(CurrentStance(h), c.stance)
        /\ plan' = Parked(Proposed(plan, c, 0), c)

MatchInFlight ==
    /\ Adjudicating
    /\ \E c \in Candidates, h \in Hypotheses :
        /\ CommittedMatches(c) = {}
        /\ IsFirst(h, FlightMatches(c))
        /\ plan' = Strengthened(Proposed(plan, c, h), h)

\* Nothing under the bound, or the resolver says the candidate is distinct.
FoundDistinct ==
    /\ Adjudicating
    /\ plan.ids.hyp < MaxHypotheses
    /\ \E c \in Candidates :
        /\ Inexact(c)
        /\ Plausible(c) = {} \/ HasResolver
        /\ plan' = Founded(Proposed(plan, c, 0), c)

\* Plausible but inexact: parked without a resolver, or when it is unsure.
ParkAmbiguous ==
    /\ Adjudicating
    /\ \E c \in Candidates :
        /\ Inexact(c)
        /\ Plausible(c) # {}
        /\ plan' = Parked(Proposed(plan, c, 0), c)

ResolverMatch ==
    /\ Adjudicating
    /\ HasResolver
    /\ \E c \in Candidates : \E h \in Plausible(c) :
        /\ Inexact(c)
        /\ ~Inverts(ViewedStance(h), c.stance)
        /\ plan' = Strengthened(Proposed(plan, c, h), h)

\* Mutant: R1a not applied to refinements.
RefineOpposed ==
    /\ Adjudicating
    /\ HasResolver
    /\ \E c \in Candidates : \E h \in Plausible(c) :
        /\ Inexact(c)
        /\ plan' = Strengthened(Versioned(Proposed(plan, c, 0), h, c), h)

ResolverRefine ==
    /\ Adjudicating
    /\ HasResolver
    /\ \E c \in Candidates : \E h \in Plausible(c) :
        /\ Inexact(c)
        /\ ~Inverts(ViewedStance(h), c.stance)
        /\ plan' = Strengthened(Versioned(Proposed(plan, c, 0), h, c), h)

\* R1a: a merge into an opposed lineage is discarded and parks instead.
ParkOpposedMerge ==
    /\ Adjudicating
    /\ HasResolver
    /\ \E c \in Candidates : \E h \in Plausible(c) :
        /\ Inexact(c)
        /\ Inverts(ViewedStance(h), c.stance)
        /\ plan' = Parked(Proposed(plan, c, 0), c)

----------------------------------------------------------------------------
(* Bearings, applied after every candidate of the response.  Handles exist *)
(* only for the hypotheses entering the interaction.                       *)

Bearing(h, kind) ==
    /\ phase = "appraising"
    /\ Len(plan.bearings) < MaxBearings
    /\ h \in Held
    /\ kind \in BearingKinds

Bore(h, kind) ==
    [plan EXCEPT !.bearings = Append(@, [hyp |-> h, kind |-> kind])]

\* Hypothesis.__post_init__ refuses a record that both supports and
\* contradicts: an InvariantViolation that ends the interaction.
BearSupports ==
    \E h \in Hypotheses :
        /\ Bearing(h, "supports")
        /\ Ev \notin plan.working[h].con
        /\ plan' = Strengthened(Bore(h, "supports"), h)
        /\ UNCHANGED <<stores, ids, phase, outcome>>

\* Mutant: nothing looks at what the observation already did.
BearWeakensUnchecked ==
    \E h \in Hypotheses :
        /\ Bearing(h, "weakens")
        /\ plan' = Weakened(Bore(h, "weakens"), h, FALSE)
        /\ UNCHANGED <<stores, ids, phase, outcome>>

BearWeakens ==
    \E h \in Hypotheses :
        /\ Bearing(h, "weakens")
        /\ Ev \notin plan.working[h].pro
        /\ plan' = Weakened(Bore(h, "weakens"), h, FALSE)
        /\ UNCHANGED <<stores, ids, phase, outcome>>

\* Tentative: ordinary weakening.
BearContradictsTentative ==
    \E h \in Hypotheses :
        /\ Bearing(h, "contradicts")
        /\ plan.working[h].support < Established
        /\ Ev \notin plan.working[h].pro
        /\ plan' = Weakened(Bore(h, "contradicts"), h, FALSE)
        /\ UNCHANGED <<stores, ids, phase, outcome>>

Anomalous(p, h) ==
    [p EXCEPT !.anomalies = @ \cup {[by |-> Ev, hyp |-> h,
                            disposition |-> Disposition(Reliability)]}]

\* Mutant: the disposition is recorded but not heeded.
BearContradictsRegardless ==
    \E h \in Hypotheses :
        /\ Bearing(h, "contradicts")
        /\ plan.working[h].support >= Established
        /\ Ev \notin plan.working[h].pro
        /\ plan' = Weakened(Anomalous(Bore(h, "contradicts"), h), h, TRUE)
        /\ UNCHANGED <<stores, ids, phase, outcome>>

\* Established: an anomaly first, a revision only if it is so disposed.
BearContradictsEstablished ==
    \E h \in Hypotheses :
        LET p == Anomalous(Bore(h, "contradicts"), h)
            revising == Disposition(Reliability) = "revise"
        IN
        /\ Bearing(h, "contradicts")
        /\ plan.working[h].support >= Established
        /\ ~(revising /\ Ev \in plan.working[h].pro)
        /\ plan' = IF revising THEN Weakened(p, h, TRUE) ELSE p
        /\ UNCHANGED <<stores, ids, phase, outcome>>

EndObservation ==
    /\ phase = "appraising"
    /\ plan' = [plan EXCEPT
                  !.appraised = Append(@, [proposals |-> plan.proposals,
                                           bearings |-> plan.bearings])]
    /\ phase' = "planning"
    /\ UNCHANGED <<stores, ids, outcome>>

----------------------------------------------------------------------------
(* Closing the interaction.                                                *)

Close(how) ==
    /\ phase' = "idle"
    /\ plan' = [EmptyPlan EXCEPT !.ids = ids']
    /\ outcome' = how

\* Mutant: the identifier counters are left where they are.
AbandonKeepingIds(how) == UNCHANGED stores /\ ids' = plan.ids /\ Close(how)

Abandon(how) == UNCHANGED <<stores, ids>> /\ Close(how)

\* An unknown handle or participant, a blank statement, an unusable
\* resolver answer: a GovernedRejection before any bearing is applied.
RejectAppraisal ==
    /\ phase = "appraising"
    /\ plan.bearings = <<>>
    /\ Abandon("rejected")

Overlaps(h, kind) ==
    LET w == plan.working[h] IN
    CASE kind = "supports" -> Ev \in w.con /\ Ev \notin w.pro
      [] kind = "weakens" -> Ev \in w.pro
      [] kind = "contradicts" ->
            /\ Ev \in w.pro
            /\ w.support >= Established => Disposition(Reliability) = "revise"

Breach ==
    /\ \E h \in Hypotheses, kind \in BearingKinds :
         Bearing(h, kind) /\ Overlaps(h, kind)
    /\ Abandon("breached")

\* Any other exception: the appraiser or the resolver is unavailable, the
\* process is told to stop.
Interrupt == phase # "idle" /\ Abandon("interrupted")

\* Complete-plan validation.
RepeatedHandle(obs) ==                                        \* check 2(a)
    \E i, j \in DOMAIN obs.bearings :
        i # j /\ obs.bearings[i].hyp = obs.bearings[j].hyp

BearsAgainstMatch(obs) ==                                     \* check 2(f)
    \E i \in DOMAIN obs.bearings, j \in DOMAIN obs.proposals :
        /\ obs.bearings[i].kind # "supports"
        /\ obs.bearings[i].hyp = obs.proposals[j].matched

DuplicateProposal(obs) ==                                     \* check 3
    \E i, j \in DOMAIN obs.proposals :
        /\ i # j
        /\ obs.proposals[i].key = obs.proposals[j].key
        /\ obs.proposals[i].text = obs.proposals[j].text
        /\ obs.proposals[i].stance = obs.proposals[j].stance

\* Mutant: the index holds one lineage per bound, the last (M-2 undone).
UncontradictedLastInversion(obs) ==
    \E j \in DOMAIN obs.proposals :
      \E h \in CommittedUnder(obs.proposals[j].key) :
        /\ \A g \in CommittedUnder(obs.proposals[j].key) : g =< h
        /\ Inverts(CurrentStance(h), obs.proposals[j].stance)
        /\ \A i \in DOMAIN obs.bearings :
             ~(obs.bearings[i].hyp = h /\ obs.bearings[i].kind = "contradicts")

\* check 10: a candidate that inverts a committed lineage must be carried
\* by a response that contradicts that lineage.
UncontradictedInversion(obs) ==
    \E j \in DOMAIN obs.proposals :
      \E h \in CommittedUnder(obs.proposals[j].key) :
        /\ Inverts(CurrentStance(h), obs.proposals[j].stance)
        /\ \A i \in DOMAIN obs.bearings :
             ~(obs.bearings[i].hyp = h /\ obs.bearings[i].kind = "contradicts")

Valid ==
    \A i \in DOMAIN plan.appraised :
        LET obs == plan.appraised[i] IN
        /\ ~RepeatedHandle(obs)
        /\ ~BearsAgainstMatch(obs)
        /\ ~DuplicateProposal(obs)
        /\ ~UncontradictedInversion(obs)

Planned == phase = "planning" /\ plan.index = Len(plan.batch)

RejectPlan == Planned /\ ~Valid /\ Abandon("rejected")

\* commit_plan writes these whether or not the model moves.
WriteAudit ==
    /\ evidence' =
         [e \in DOMAIN evidence \cup (ids.evidence + 1)..plan.ids.evidence |->
             IF e \in DOMAIN evidence THEN evidence[e]
             ELSE plan.batch[e - ids.evidence]]
    /\ anomalies' = anomalies \cup plan.anomalies
    /\ parked' = parked \cup plan.parked
    /\ ids' = plan.ids

\* Mutant: a hold writes the plan's edges (M-3 undone).
HoldWithEdges ==
    /\ Planned /\ Valid
    /\ plan.events = <<>>
    /\ WriteAudit
    /\ edges' = edges \cup plan.edges
    /\ Close("held")
    /\ UNCHANGED <<keyOf, versions, records, ledger, models, current>>

\* Mutant: a plan in which nothing was appraised is not handled.
HoldAppraised ==
    /\ Planned /\ Valid
    /\ plan.events = <<>> /\ plan.appraised # <<>>
    /\ WriteAudit
    /\ Close("held")
    /\ UNCHANGED <<keyOf, versions, records, ledger, edges, models, current>>

\* No revision event was let through: understanding is unchanged.
Hold ==
    /\ Planned /\ Valid
    /\ plan.events = <<>>
    /\ WriteAudit
    /\ Close("held")
    /\ UNCHANGED <<keyOf, versions, records, ledger, edges, models, current>>

\* Mutant: the active set is the one the interaction found.
WorkingOnEntry == Held

\* The prospective active set, its predictions and its inquiry.
Working == {h \in Hypotheses : plan.working[h].id # 0}
Supports == [h \in Working |-> plan.working[h].support]
Predicted == {h \in Working : plan.working[h].support >= Predicting}
OpensInquiry ==
    /\ TwiceUncertainty(Supports) >= 2 * Inquiring
    /\ ExpectedInformationGain(Supports) > 0

\* Lineages and versions are written only for the hypotheses in S: those
\* with a committed record.
WriteLineages(S) ==
    /\ keyOf' = [h \in Hypotheses |->
                   IF h \in S /\ plan.flights[h].key # NoKey
                   THEN plan.flights[h].key ELSE keyOf[h]]
    /\ versions' = [h \in Hypotheses |->
                      IF h \in S THEN versions[h] \o plan.versions[h]
                      ELSE versions[h]]

\* Mutant: M-3 undone.
CommitOrphans == Hypotheses

CommittedHypotheses == {h \in Hypotheses : plan.records[h] # <<>>}

Commit ==
    /\ Planned /\ Valid
    /\ plan.events # <<>>
    /\ WriteAudit
    /\ WriteLineages(CommittedHypotheses)
    /\ records' = [h \in Hypotheses |-> records[h] \o plan.records[h]]
    /\ ledger' = ledger \o plan.events
    /\ edges' = edges \cup plan.edges
    /\ models' = [models EXCEPT ![plan.wm] =
                    [active |-> Working, predictions |-> Predicted,
                     inquiry |-> OpensInquiry]]
    /\ current' = plan.wm
    /\ Close("committed")

----------------------------------------------------------------------------
NoModel == [active |-> {}, predictions |-> {}, inquiry |-> FALSE]

Init ==
    /\ evidence = [e \in {} |-> 0]
    /\ keyOf = [h \in Hypotheses |-> NoKey]
    /\ versions = [h \in Hypotheses |-> <<>>]
    /\ records = [h \in Hypotheses |-> <<>>]
    /\ ledger = <<>>
    /\ anomalies = {} /\ parked = {} /\ edges = {}
    /\ models = [v \in Versions |-> NoModel]
    /\ current = 0
    /\ ids = [evidence |-> 0, wm |-> 0, hyp |-> 0, record |-> 0]
    /\ phase = "idle"
    /\ plan = EmptyPlan
    /\ outcome = "none"

Adjudicate ==
    \/ MatchCommitted \/ ParkOpposedMatch \/ MatchInFlight \/ FoundDistinct
    \/ ParkAmbiguous \/ ResolverMatch \/ ResolverRefine \/ ParkOpposedMerge

Bear ==
    \/ BearSupports \/ BearWeakens
    \/ BearContradictsTentative \/ BearContradictsEstablished

\* The engine's own steps, once an interaction is under way.
Step ==
    \/ SkipObservation \/ Appraise \/ Adjudicate \/ Bear \/ EndObservation
    \/ RejectAppraisal \/ Breach \/ RejectPlan \/ Hold \/ Commit

\* Callers may stop calling; only the bound makes them.
NoMoreCalls == phase = "idle" /\ ids.wm = MaxInteractions /\ UNCHANGED vars

Next == RecordInteraction \/ Step \/ Interrupt \/ NoMoreCalls

Spec == Init /\ [][Next]_vars
FairSpec == Spec /\ WF_vars(Step)
=============================================================================
