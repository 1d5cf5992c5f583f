------------------------ MODULE ReasoningStores_proofs ------------------------
(* That the governed stores tell one story.  Under any commit policy:       *)
(* references resolve, understanding moves only with the model version, the *)
(* engine implements module Understanding, and an observation has one       *)
(* effect on a lineage.  Under the policy the code comes with, which lets   *)
(* every outcome commit (AllOutcomes), as a selective one declines events   *)
(* whose evaluations later ones build on: ledger, evaluations, anomalies    *)
(* and model agree.                                                         *)
EXTENDS ReasoningCore_proofs, FiniteSetTheorems

-----------------------------------------------------------------------------
(* The inductive invariant: what the plan under way may have come to.      *)

\* Evaluation b follows a with evidence of this interaction alone.
GrowsFrom(a, b) ==
    /\ a.pro \subseteq b.pro /\ b.pro \subseteq a.pro \cup Fresh
    /\ a.con \subseteq b.con /\ b.con \subseteq a.con \cup Fresh

\* Whatever the plan evaluates, it evaluates further than the store.
Grown(p) ==
    \A h \in Hypotheses :
        /\ GrowsFrom(Latest(h), p.working[h])
        /\ \A i \in DOMAIN p.records[h] : GrowsFrom(Latest(h), p.records[h][i])

\* Everything the plan writes carries its model version, and what its events
\* announce is in its working set.
Stamped(p) ==
    /\ \A h \in Hypotheses :
        /\ \A i \in DOMAIN p.versions[h] : p.versions[h][i].at = p.wm
        /\ \A i \in DOMAIN p.records[h] : /\ p.records[h][i].at = p.wm
                                          /\ p.records[h][i].id # 0
    /\ \A i \in DOMAIN p.events : /\ p.events[i].at = p.wm
                                  /\ p.working[p.events[i].hyp].id # 0

Underway(p) ==
    /\ p.wm = ids.wm + 1 /\ p.ids.wm = p.wm /\ ids.hyp =< p.ids.hyp
    /\ Beyond(p) /\ FlightsAreNew(p) /\ Placed(p)
    /\ Grown(p) /\ Stamped(p)

\* The stores between interactions.
Kept ==
    /\ ReferencesResolve
    /\ \A h \in Held : h =< ids.hyp
    /\ current =< ids.wm
    /\ \A v \in Versions : models[v] # NoModel => v =< current
    /\ \A h \in Hypotheses : \A i \in DOMAIN records[h] : records[h][i].id # 0

SInv == IInv /\ Kept /\ (phase # "idle" => Underway(plan))

(* A turn: what adjudication or a bearing makes of the evaluations.         *)

Evaluates(q, h, r, what, anomalous, rel) ==
    /\ r.id = plan.ids.record + 1 /\ r.at = plan.wm
    /\ r.prev = plan.working[h].id
    /\ q.ids.record = plan.ids.record + 1
    /\ q.working = [plan.working EXCEPT ![h] = r]
    /\ q.edges = plan.edges \cup {<<Ev, rel, h>>}
    /\ IF what \in CommitOutcomes
       THEN /\ q.records = [plan.records EXCEPT ![h] = Append(@, r)]
            /\ q.events = Append(plan.events, EventOf(plan, h, what, anomalous))
       ELSE q.records = plan.records /\ q.events = plan.events

\* h got evaluation r, out of what the plan had come to.
TurnOf(q, h, r, what, anomalous, rel) ==
    /\ h \in Hypotheses /\ r \in RecordType
    /\ Evaluates(q, h, r, what, anomalous, rel)
    /\ \/ /\ what \in {"hypothesize", "strengthen"} /\ rel = "supports"
          /\ anomalous = FALSE
          /\ Ev \notin plan.working[h].pro \cup plan.working[h].con
          /\ r.pro = plan.working[h].pro \cup {Ev}
          /\ r.con = plan.working[h].con
       \/ /\ what \in {"weaken", "contradict"} /\ rel = "contradicts"
          /\ anomalous \in BOOLEAN
          /\ Ev \notin plan.working[h].pro
          /\ r.pro = plan.working[h].pro
          /\ r.con = plan.working[h].con \cup {Ev}
    /\ h \in Held \/ q.flights[h].key # NoKey
    /\ h =< q.ids.hyp

\* A turn in favour of h, by a candidate or by a bearing.
TurnsFor(q, h, r, what) ==
    /\ TurnOf(q, h, r, what, FALSE, "supports")
    /\ q.anomalies = plan.anomalies
    /\ q.bearings = plan.bearings \/ Bears(q, h, "supports")

\* A turn against h, by a bearing.
TurnsAgainst(q, h, r, what, anomalous, kind) ==
    /\ TurnOf(q, h, r, what, anomalous, "contradicts")
    /\ kind \in {"weakens", "contradicts"} /\ Bears(q, h, kind)
    /\ q.anomalies = IF anomalous
                     THEN plan.anomalies \cup
                            {[by |-> Ev, hyp |-> h, disposition |-> "revise"]}
                     ELSE plan.anomalies

Turned(q) ==
    \/ Noted(q)
    \/ \E h, r, what : TurnsFor(q, h, r, what)
    \/ \E h, r, what, anomalous, kind : TurnsAgainst(q, h, r, what, anomalous, kind)

\* The lineages of q are those of the plan, one refined, or one more.
Worded(q) ==
    \/ Identity(q) = Identity(plan)
    \/ \E c \in Candidates : \E h : Refines(q, c, h) \/ Founds(q, c, h)

\* What is recorded after remarks is recorded of the plan.
LEMMA RecordedAfterRemarks ==
    ASSUME NEW o, Remarked(o), NEW q, NEW h, NEW r, NEW what, NEW anomalous,
           NEW rel, Recorded(q, o, h, r, what, anomalous, rel)
    PROVE  Evaluates(q, h, r, what, anomalous, rel)
  <1>1. /\ o.working = plan.working
        /\ o.records = plan.records /\ o.events = plan.events
        /\ o.edges = plan.edges /\ o.ids.record = plan.ids.record
        /\ o.wm = plan.wm
    BY DEF Remarked, Frame, Evaluations
  <1>2. EventOf(o, h, what, anomalous) = EventOf(plan, h, what, anomalous)
    BY <1>1 DEF EventOf
  <1>3. /\ r.id = plan.ids.record + 1 /\ r.at = plan.wm
        /\ r.prev = plan.working[h].id
        /\ q.ids.record = plan.ids.record + 1
    BY <1>1 DEF Recorded
  <1>4. /\ q.working = [plan.working EXCEPT ![h] = r]
        /\ q.edges = plan.edges \cup {<<Ev, rel, h>>}
    BY <1>1 DEF Recorded
  <1>5. IF what \in CommitOutcomes
        THEN /\ q.records = [plan.records EXCEPT ![h] = Append(@, r)]
             /\ q.events = Append(plan.events, EventOf(plan, h, what, anomalous))
        ELSE q.records = plan.records /\ q.events = plan.events
    BY <1>1, <1>2 DEF Recorded
  <1> QED BY <1>3, <1>4, <1>5 DEF Evaluates

\* The three outcomes of a step are turns.
LEMMA StepsAreTurns ==
    ASSUME NEW q, Supported(q) \/ Contradicts(q) \/ Noted(q), SInv,
           phase = "appraising", q \in PlanType, plan.ids.hyp =< q.ids.hyp
    PROVE  Turned(q)
  <1>1. CASE Noted(q)
    BY <1>1 DEF Turned
  <1>2. CASE Supported(q)
    <2>1. PICK o, h, r, what : SupportsBy(q, o, h, r, what)
      BY <1>2 DEF Supported
    <2>2. TurnOf(q, h, r, what, FALSE, "supports")
      <3>1. Remarked(o)
        BY <2>1 DEF SupportsBy
      <3>2. Recorded(q, o, h, r, what, FALSE, "supports")
        BY <2>1 DEF SupportsBy
      <3>3. Evaluates(q, h, r, what, FALSE, "supports")
        BY <3>1, <3>2, RecordedAfterRemarks
      <3>4. r \in RecordType
        BY <3>2 DEF Recorded
      <3> QED BY <2>1, <3>3, <3>4 DEF SupportsBy, TurnOf
    <2>3. /\ q.anomalies = o.anomalies /\ q.bearings = o.bearings
      BY <2>1 DEF SupportsBy, Recorded, Remarks
    <2>4. TurnsFor(q, h, r, what)
      BY <2>1, <2>2, <2>3 DEF SupportsBy, TurnsFor, Bears
    <2> QED BY <2>4 DEF Turned
  <1>3. CASE Contradicts(q)
    <2>1. PICK o, h, r, what, anomalous, kind :
              ContradictsBy(q, o, h, r, what, anomalous, kind)
      BY <1>3 DEF Contradicts
    <2>2. TurnOf(q, h, r, what, anomalous, "contradicts")
      <3>1. Remarked(o) /\ h \in Held
        BY <2>1 DEF ContradictsBy
      <3>2. Recorded(q, o, h, r, what, anomalous, "contradicts")
        BY <2>1 DEF ContradictsBy
      <3>3. Evaluates(q, h, r, what, anomalous, "contradicts")
        BY <3>1, <3>2, RecordedAfterRemarks
      <3>4. h \in Hypotheses
        BY <3>1 DEF Held
      <3>5. h =< q.ids.hyp
        <4>1. h =< ids.hyp /\ ids.hyp =< plan.ids.hyp
          BY <3>1 DEF SInv, Kept, Underway
        <4>2. h \in Int /\ ids.hyp \in Int /\ plan.ids.hyp \in Int /\ q.ids.hyp \in Int
          BY <3>4 DEF Hypotheses, SInv, IInv, TypeOK, PlanType, IdsType
        <4> QED BY <4>1, <4>2
      <3>6. r \in RecordType
        BY <3>2 DEF Recorded
      <3> QED BY <2>1, <3>1, <3>3, <3>4, <3>5, <3>6 DEF ContradictsBy, TurnOf
    <2>3. /\ q.anomalies = o.anomalies /\ q.bearings = o.bearings
      BY <2>1 DEF ContradictsBy, Recorded, Remarks
    <2>4. TurnsAgainst(q, h, r, what, anomalous, kind)
      BY <2>1, <2>2, <2>3 DEF ContradictsBy, TurnsAgainst, Bears
    <2> QED BY <2>4 DEF Turned
  <1> QED BY <1>1, <1>2, <1>3

\* Facts about identifiers and about what the plan's fields hold.
LEMMA PlanFields ==
    ASSUME NEW p \in PlanType
    PROVE  /\ p.ids \in IdsType /\ p.ids.hyp \in Nat /\ p.wm \in Nat
           /\ p.ids.hyp \in 0..MaxHypotheses /\ p.ids.record \in Nat
           /\ p.working \in [Hypotheses -> RecordType]
           /\ p.flights \in [Hypotheses -> Candidates \cup {NoFlight}]
           /\ p.versions \in [Hypotheses -> Seq(VersionType)]
           /\ p.records \in [Hypotheses -> Seq(RecordType)]
           /\ p.events \in Seq(EventType)
           /\ p.edges \subseteq EdgeType
           /\ p.proposals \in Seq(ProposalType)
           /\ p.bearings \in Seq(BearingType)
           /\ p.appraised \in Seq(ObservationType)
           /\ p.anomalies \subseteq AnomalyType /\ p.parked \subseteq ParkedType
  <1>1. p.ids \in IdsType /\ p.wm \in 0..MaxInteractions
    BY DEF PlanType
  <1>2. p.ids.hyp \in 0..MaxHypotheses /\ p.ids.record \in Nat
    BY <1>1 DEF IdsType
  <1> QED BY <1>1, <1>2 DEF PlanType

\* A candidate names a bound, and no lineage is in flight without one.
LEMMA CandidateFields ==
    ASSUME NEW c \in Candidates
    PROVE  /\ c.key \in Keys /\ c.key # NoKey /\ c.text \in Texts
           /\ c.stance \in Stances
  BY VocabularyAssumption DEF Candidates

\* Only held lineages have a bound, words or a bound's room among the ids.
LEMMA HeldFields ==
    ASSUME Kept, TypeOK, NEW h \in Hypotheses
    PROVE  /\ h \in Held <=> keyOf[h] # NoKey
           /\ h \in Held <=> versions[h] # <<>>
           /\ h \in Held <=> records[h] # <<>>
           /\ h \in Held => h =< ids.hyp
  BY DEF Kept, ReferencesResolve, Held

WordsStand(q) ==
    /\ plan.ids.hyp =< q.ids.hyp
    /\ \A h \in Hypotheses : plan.flights[h].key # NoKey
                               => q.flights[h].key # NoKey
    /\ FlightsAreNew(q)
    /\ \A h \in Hypotheses :
          q.versions[h] # <<>> => h \in Held \/ q.flights[h].key # NoKey
    /\ \A h \in Hypotheses : \A i \in DOMAIN q.versions[h] :
          q.versions[h][i].at = plan.wm

\* Naming, refining and founding leave lineages in flight new and worded.
LEMMA WordedKeeps ==
    ASSUME SInv, phase = "appraising", NEW q \in PlanType, Worded(q)
    PROVE  WordsStand(q)
  <1>1. /\ plan \in PlanType /\ Underway(plan) /\ Kept /\ TypeOK
    BY DEF SInv, IInv, TypeOK
  <1>2. /\ FlightsAreNew(plan) /\ Placed(plan) /\ Stamped(plan)
        /\ ids.hyp =< plan.ids.hyp
    BY <1>1 DEF Underway
  <1>3. /\ plan.ids.hyp \in Nat /\ ids.hyp \in Nat
        /\ plan.flights \in [Hypotheses -> Candidates \cup {NoFlight}]
        /\ plan.versions \in [Hypotheses -> Seq(VersionType)]
        /\ \A g \in Hypotheses : g \in Int
    BY <1>1, PlanFields DEF TypeOK, IdsType, Hypotheses
  <1>4. CASE Identity(q) = Identity(plan)
    <2>1. /\ q.flights = plan.flights /\ q.versions = plan.versions
          /\ q.ids.hyp = plan.ids.hyp
      BY <1>4 DEF Identity
    <2> QED BY <1>2, <1>3, <2>1 DEF FlightsAreNew, Placed, Stamped, WordsStand
  <1>5. ASSUME NEW c \in Candidates, NEW h \in Hypotheses,
               q.versions = [plan.versions EXCEPT ![h] = Append(@, VersionOf(c))]
        PROVE  /\ \A g \in Hypotheses : \A i \in DOMAIN q.versions[g] :
                     q.versions[g][i].at = plan.wm
               /\ \A g \in Hypotheses : g # h => q.versions[g] = plan.versions[g]
               /\ q.versions[h] # <<>>
    <2>1. VersionOf(c).at = plan.wm
      BY DEF VersionOf
    <2>2. ASSUME NEW g \in Hypotheses, NEW i \in DOMAIN q.versions[g]
          PROVE  q.versions[g][i].at = plan.wm
      <3>1. CASE g # h
        <4>1. q.versions[g] = plan.versions[g]
          BY <1>3, <1>5, <3>1
        <4> QED BY <1>2, <2>2, <4>1 DEF Stamped
      <3>2. CASE g = h
        <4> DEFINE s == plan.versions[h]
                   v == VersionOf(c)
        <4>1. q.versions[g] = Append(s, v) /\ s \in Seq(VersionType)
          BY <1>3, <1>5, <3>2
        <4>2. \A j \in DOMAIN s : s[j].at = plan.wm
          BY <1>2 DEF Stamped
        <4> HIDE DEF s, v
        <4>3. \/ i \in DOMAIN s /\ Append(s, v)[i] = s[i]
              \/ Append(s, v)[i] = v
          BY <2>2, <4>1
        <4> QED BY <2>1, <4>1, <4>2, <4>3 DEF v
      <3> QED BY <3>1, <3>2
    <2>3. plan.versions[h] \in Seq(VersionType) /\ q.versions[h] = Append(plan.versions[h], VersionOf(c))
      BY <1>3, <1>5
    <2>4. q.versions[h] # <<>>
      BY <2>3
    <2> QED BY <1>3, <1>5, <2>2, <2>4
  <1>6. ASSUME NEW c \in Candidates, NEW h, Refines(q, c, h)
        PROVE  h \in Held \/ plan.flights[h].key # NoKey
    <2>1. h \in Hypotheses /\ h \in Plausible(c)
      BY <1>6 DEF Refines
    <2>2. CASE keyOf[h] = c.key
      BY <1>1, <2>1, <2>2, CandidateFields, HeldFields
    <2>3. CASE plan.flights[h].key = c.key
      BY <2>3, CandidateFields
    <2> QED BY <2>1, <2>2, <2>3 DEF Plausible, CommittedUnder, FlightsUnder
  <1>7. ASSUME NEW c \in Candidates, NEW h, Refines(q, c, h)
        PROVE  WordsStand(q)
    <2>1. /\ h \in Hypotheses /\ q.flights = plan.flights
          /\ q.ids.hyp = plan.ids.hyp
          /\ q.versions = [plan.versions EXCEPT ![h] = Append(@, VersionOf(c))]
      BY <1>7 DEF Refines
    <2>2. /\ \A g \in Hypotheses : \A i \in DOMAIN q.versions[g] :
                     q.versions[g][i].at = plan.wm
          /\ \A g \in Hypotheses : g # h => q.versions[g] = plan.versions[g]
          /\ q.versions[h] # <<>>
      BY <1>5, <2>1
    <2>3. FlightsAreNew(q)
      BY <1>2, <2>1, <2>2 DEF FlightsAreNew
    <2>4. \A g \in Hypotheses :
              q.versions[g] # <<>> => g \in Held \/ q.flights[g].key # NoKey
      BY <1>2, <1>6, <1>7, <2>1, <2>2 DEF Placed
    <2> QED BY <1>3, <2>1, <2>2, <2>3, <2>4 DEF WordsStand
  <1>8. ASSUME NEW c \in Candidates, NEW h, Founds(q, c, h)
        PROVE  WordsStand(q)
    <2>1. /\ h \in Hypotheses /\ q.flights = [plan.flights EXCEPT ![h] = c]
          /\ q.ids.hyp = h /\ h = plan.ids.hyp + 1
          /\ q.versions = [plan.versions EXCEPT ![h] = Append(@, VersionOf(c))]
      BY <1>8 DEF Founds
    <2>2. /\ \A g \in Hypotheses : \A i \in DOMAIN q.versions[g] :
                     q.versions[g][i].at = plan.wm
          /\ \A g \in Hypotheses : g # h => q.versions[g] = plan.versions[g]
          /\ q.versions[h] # <<>>
      BY <1>5, <2>1
    <2>3. /\ \A g \in Hypotheses : g # h => q.flights[g] = plan.flights[g]
          /\ q.flights[h].key # NoKey
      BY <1>3, <2>1, CandidateFields
    <2>4. FlightsAreNew(q)
      BY <1>2, <1>3, <2>1, <2>2, <2>3 DEF FlightsAreNew
    <2>5. \A g \in Hypotheses :
              q.versions[g] # <<>> => g \in Held \/ q.flights[g].key # NoKey
      BY <1>2, <2>2, <2>3 DEF Placed
    <2> QED BY <1>3, <2>1, <2>2, <2>3, <2>4, <2>5 DEF WordsStand
  <1> QED BY <1>4, <1>7, <1>8 DEF Worded

\* The observation under appraisal is of this interaction.
LEMMA UnderAppraisalIsFresh ==
    ASSUME IInv, phase = "appraising"
    PROVE  Ev \in Fresh /\ Ev \in Nat
  <1>1. Ev \in Nat /\ plan.index \in 1..Len(plan.batch)
    BY UnderAppraisal
  <1>2. ids.evidence \in Nat /\ plan.index \in Nat /\ plan.index >= 1
    BY DEF IInv, TypeOK, IdsType, PlanType
  <1> QED BY <1>1, <1>2 DEF Fresh, Ev

\* A turn evaluates h further, and nothing else.
LEMMA TurnFields ==
    ASSUME SInv, phase = "appraising", NEW q \in PlanType,
           NEW h, NEW r, NEW what, NEW anomalous, NEW rel,
           TurnOf(q, h, r, what, anomalous, rel)
    PROVE  /\ h \in Hypotheses /\ r \in RecordType
           /\ what \in Outcomes /\ anomalous \in BOOLEAN
           /\ r.id # 0 /\ r.at = plan.wm
           /\ q.working[h] = r
           /\ GrowsFrom(plan.working[h], r)
           /\ \A g \in Hypotheses : g # h => /\ q.working[g] = plan.working[g]
                                             /\ q.records[g] = plan.records[g]
           /\ \/ q.records[h] = plan.records[h] /\ q.events = plan.events
              \/ /\ q.records[h] = Append(plan.records[h], r)
                 /\ q.events = Append(plan.events,
                                      EventOf(plan, h, what, anomalous))
  <1>1. /\ plan \in PlanType /\ h \in Hypotheses /\ r \in RecordType
        /\ Ev \in Fresh
    BY UnderAppraisalIsFresh DEF TurnOf, SInv, IInv, TypeOK
  <1>2. /\ plan.working \in [Hypotheses -> RecordType]
        /\ plan.records \in [Hypotheses -> Seq(RecordType)]
        /\ plan.ids.record \in Nat
    BY <1>1, PlanFields
  <1>3. Evaluates(q, h, r, what, anomalous, rel)
    BY DEF TurnOf
  <1>4. r.id # 0 /\ r.at = plan.wm
    BY <1>2, <1>3 DEF Evaluates
  <1>5. /\ q.working[h] = r
        /\ \A g \in Hypotheses : g # h => q.working[g] = plan.working[g]
    BY <1>1, <1>2, <1>3 DEF Evaluates
  <1>6. /\ \A g \in Hypotheses : g # h => q.records[g] = plan.records[g]
        /\ \/ q.records[h] = plan.records[h] /\ q.events = plan.events
           \/ /\ q.records[h] = Append(plan.records[h], r)
              /\ q.events = Append(plan.events, EventOf(plan, h, what, anomalous))
    BY <1>1, <1>2, <1>3 DEF Evaluates
  <1>7. GrowsFrom(plan.working[h], r)
    BY <1>1 DEF TurnOf, GrowsFrom
  <1>8. what \in Outcomes /\ anomalous \in BOOLEAN
    BY DEF TurnOf, Outcomes
  <1> QED BY <1>1, <1>4, <1>5, <1>6, <1>7, <1>8

LEMMA GrowthIsTransitive ==
    ASSUME NEW a, NEW b, NEW c, GrowsFrom(a, b), GrowsFrom(b, c)
    PROVE  GrowsFrom(a, c)
  BY DEF GrowsFrom

\* A turn on a well-worded plan leaves a plan as it should be.
LEMMA TurnKeepsUnderway ==
    ASSUME SInv, phase = "appraising", NEW q \in PlanType,
           Turned(q), WordsStand(q), Frame(q) = Frame(plan)
    PROVE  Underway(q)
  <1>1. /\ plan \in PlanType /\ Underway(plan) /\ Kept /\ TypeOK /\ IInv
    BY DEF SInv, IInv, TypeOK
  <1>2. /\ Beyond(plan) /\ FlightsAreNew(plan) /\ Placed(plan)
        /\ Grown(plan) /\ Stamped(plan) /\ ids.hyp =< plan.ids.hyp
        /\ plan.wm = ids.wm + 1 /\ plan.ids.wm = plan.wm
    BY <1>1 DEF Underway
  <1>3. /\ plan.ids.hyp \in Nat /\ ids.hyp \in Nat /\ q.ids.hyp \in Nat
        /\ plan.working \in [Hypotheses -> RecordType]
        /\ plan.records \in [Hypotheses -> Seq(RecordType)]
        /\ plan.events \in Seq(EventType)
        /\ \A g \in Hypotheses : g \in Int
    BY <1>1, PlanFields DEF TypeOK, IdsType, Hypotheses
  <1>4. q.wm = plan.wm /\ q.ids.wm = plan.ids.wm
    BY DEF Frame
  <1>5. /\ q.wm = ids.wm + 1 /\ q.ids.wm = q.wm /\ ids.hyp =< q.ids.hyp
    BY <1>2, <1>3, <1>4 DEF WordsStand
  <1>6. CASE Evaluations(q) = Evaluations(plan)
    <2>1. /\ q.working = plan.working /\ q.records = plan.records
          /\ q.events = plan.events
      BY <1>6 DEF Evaluations
    <2>2. Beyond(q)
      BY <1>2, <1>3, <2>1 DEF Beyond, WordsStand
    <2>3. Placed(q)
      BY <1>2, <2>1 DEF Placed, WordsStand
    <2>4. Grown(q)
      BY <1>2, <2>1 DEF Grown
    <2>5. Stamped(q)
      BY <1>2, <1>4, <2>1 DEF Stamped, WordsStand
    <2> QED BY <1>5, <2>2, <2>3, <2>4, <2>5 DEF Underway, WordsStand
  <1>7. ASSUME NEW h, NEW r, NEW what, NEW anomalous, NEW rel,
               TurnOf(q, h, r, what, anomalous, rel)
        PROVE  Underway(q)
    <2>1. /\ h \in Hypotheses /\ r \in RecordType
          /\ what \in Outcomes /\ anomalous \in BOOLEAN
          /\ r.id # 0 /\ r.at = plan.wm
          /\ q.working[h] = r
          /\ GrowsFrom(plan.working[h], r)
          /\ \A g \in Hypotheses : g # h => /\ q.working[g] = plan.working[g]
                                            /\ q.records[g] = plan.records[g]
          /\ \/ q.records[h] = plan.records[h] /\ q.events = plan.events
             \/ /\ q.records[h] = Append(plan.records[h], r)
                /\ q.events = Append(plan.events,
                                     EventOf(plan, h, what, anomalous))
      BY <1>7, TurnFields
    <2>2. h \in Held \/ q.flights[h].key # NoKey
      BY <1>7 DEF TurnOf
    <2>3. h =< q.ids.hyp
      BY <1>7 DEF TurnOf
    <2>4. \A i \in DOMAIN q.records[h] :
              \/ i \in DOMAIN plan.records[h]
                 /\ q.records[h][i] = plan.records[h][i]
              \/ q.records[h][i] = r
      <3> DEFINE s == plan.records[h]
      <3>1. s \in Seq(RecordType)
        BY <1>3, <2>1
      <3> HIDE DEF s
      <3>2. \A i \in DOMAIN Append(s, r) :
                \/ i \in DOMAIN s /\ Append(s, r)[i] = s[i]
                \/ Append(s, r)[i] = r
        BY <3>1
      <3> QED BY <2>1, <3>2 DEF s
    <2>5. Beyond(q)
      BY <1>2, <1>3, <2>1, <2>3 DEF Beyond, WordsStand
    <2>6. Placed(q)
      BY <1>2, <2>1, <2>2 DEF Placed, WordsStand
    <2>7. Grown(q)
      <3>1. GrowsFrom(Latest(h), r)
        BY <1>2, <2>1, GrowthIsTransitive DEF Grown
      <3> QED BY <1>2, <2>1, <2>4, <3>1 DEF Grown
    <2>8. \A g \in Hypotheses : \A i \in DOMAIN q.records[g] :
              q.records[g][i].at = q.wm /\ q.records[g][i].id # 0
      BY <1>2, <1>4, <2>1, <2>4 DEF Stamped
    <2>9. \A i \in DOMAIN q.events : /\ q.events[i].at = q.wm
                                     /\ q.working[q.events[i].hyp].id # 0
      <3> DEFINE s == plan.events
                 e == EventOf(plan, h, what, anomalous)
      <3>1. e.at = plan.wm /\ e.hyp = h
        BY DEF EventOf
      <3>2. \A i \in DOMAIN s : /\ s[i].at = plan.wm
                                /\ plan.working[s[i].hyp].id # 0
                                /\ s[i].hyp \in Hypotheses
        <4>1. \A i \in DOMAIN s : s[i] \in EventType
          BY <1>3
        <4>2. \A i \in DOMAIN s : s[i].hyp \in Hypotheses
          BY <4>1 DEF EventType
        <4> QED BY <1>2, <4>2 DEF Stamped
      <3> HIDE DEF e, s
      <3>3. \A i \in DOMAIN s : q.working[s[i].hyp].id # 0
        BY <2>1, <3>2
      <3>4. \A i \in DOMAIN Append(s, e) :
                \/ i \in DOMAIN s /\ Append(s, e)[i] = s[i]
                \/ Append(s, e)[i] = e
        BY <1>3 DEF s
      <3>5. q.events = s \/ q.events = Append(s, e)
        BY <2>1 DEF s, e
      <3>6. e.at = q.wm /\ q.working[e.hyp].id # 0
        BY <1>4, <2>1, <3>1
      <3>7. \A i \in DOMAIN s : s[i].at = q.wm /\ q.working[s[i].hyp].id # 0
        BY <1>4, <3>2, <3>3
      <3>8. CASE q.events = s
        BY <3>7, <3>8
      <3>9. CASE q.events = Append(s, e)
        BY <3>4, <3>6, <3>7, <3>9
      <3> QED BY <3>5, <3>8, <3>9
    <2>10. Stamped(q)
      BY <1>4, <2>8, <2>9 DEF Stamped, WordsStand
    <2> QED BY <1>5, <2>5, <2>6, <2>7, <2>10 DEF Underway, WordsStand
  <1> QED BY <1>6, <1>7 DEF Turned, Noted, Remarked, TurnsFor, TurnsAgainst

\* A step that leaves stores, identifiers and position alone keeps the
\* invariant if it leaves the plan as it should be.
LEMMA PlanStepKeepsSInv ==
    ASSUME SInv, IInv', UNCHANGED <<stores, ids>>,
           phase' # "idle" => Underway(plan)'
    PROVE  SInv'
  <1>1. Kept'
    BY DEF SInv, Kept, ReferencesResolve, Held, stores
  <1> QED BY <1>1 DEF SInv

\* Judging the plan by what has been looked at so far, or a little later.
LEMMA UnderwayCarries ==
    ASSUME IInv, UNCHANGED <<stores, ids>>, Underway(plan'),
           plan'.index \in Nat, plan.index =< plan'.index
    PROVE  Underway(plan)'
  <1>1. Fresh \subseteq Fresh'
    <2>1. ids.evidence \in Nat /\ plan.index \in Nat
      BY DEF IInv, TypeOK, IdsType, PlanType
    <2> QED BY <2>1 DEF Fresh, Ev
  <1>2. \A h : Latest(h)' = Latest(h)
    BY DEF Latest, stores
  <1>3. \A a, b : GrowsFrom(a, b) => GrowsFrom(a, b)'
    BY <1>1 DEF GrowsFrom
  <1>4. Grown(plan)'
    BY <1>2, <1>3 DEF Underway, Grown
  <1>5. Beyond(plan)' /\ FlightsAreNew(plan)' /\ Placed(plan)' /\ Stamped(plan)'
    BY DEF Underway, Beyond, FlightsAreNew, Placed, Stamped, Held, stores
  <1> QED BY <1>4, <1>5 DEF Underway

LEMMA TurnFrame ==
    ASSUME NEW q, Supported(q) \/ Contradicts(q) \/ Noted(q)
    PROVE  q \in PlanType /\ Frame(q) = Frame(plan)
  <1>1. ASSUME NEW o, NEW h, NEW r, NEW what, NEW anomalous, NEW rel, Remarked(o),
               Recorded(q, o, h, r, what, anomalous, rel)
        PROVE  q \in PlanType /\ Frame(q) = Frame(plan)
    BY <1>1 DEF Recorded, Remarked
  <1>2. CASE Supported(q)
    BY <1>1, <1>2 DEF Supported, SupportsBy
  <1>3. CASE Contradicts(q)
    BY <1>1, <1>3 DEF Contradicts, ContradictsBy
  <1>4. CASE Noted(q)
    BY <1>4 DEF Noted, Remarked
  <1> QED BY <1>2, <1>3, <1>4

\* Adjudication is a turn on well-worded lineages.
LEMMA AdjudicateIsTurn ==
    ASSUME SInv, Adjudicate
    PROVE  /\ phase = "appraising" /\ UNCHANGED <<stores, ids, phase, outcome>>
           /\ plan' \in PlanType /\ Frame(plan') = Frame(plan)
           /\ Worded(plan') /\ WordsStand(plan') /\ Turned(plan')
  <1>1. phase = "appraising" /\ UNCHANGED <<stores, ids, phase, outcome>>
    BY DEF Adjudicate, Adjudicating, MatchCommitted, ParkOpposedMatch,
           MatchInFlight, FoundDistinct, ParkAmbiguous, ResolverMatch,
           ResolverRefine, ParkOpposedMerge
  <1>2. IInv /\ Placed(plan) /\ Beyond(plan)
    BY <1>1 DEF SInv, Underway
  <1>3. Supported(plan') \/ Noted(plan')
    BY <1>2, AdjudicateTurns
  <1>4. plan' \in PlanType /\ Frame(plan') = Frame(plan)
    BY <1>3, TurnFrame
  <1>5. PICK c \in Candidates, m \in 0..MaxHypotheses : Adjudged(plan', c, m)
    BY <1>2, AdjudicateWords
  <1>6. Worded(plan')
    BY <1>5 DEF Adjudged, Leaves, Worded
  <1>7. WordsStand(plan')
    BY <1>1, <1>4, <1>6, WordedKeeps
  <1>8. plan.ids.hyp =< plan'.ids.hyp
    BY <1>7 DEF WordsStand
  <1>9. Turned(plan')
    BY <1>1, <1>3, <1>4, <1>8, StepsAreTurns
  <1> QED BY <1>1, <1>4, <1>6, <1>7, <1>9

\* So is a bearing, and it leaves the lineages alone.
LEMMA BearIsTurn ==
    ASSUME SInv, Bear
    PROVE  /\ phase = "appraising" /\ UNCHANGED <<stores, ids, phase, outcome>>
           /\ plan' \in PlanType /\ Frame(plan') = Frame(plan)
           /\ Identity(plan') = Identity(plan)
           /\ Worded(plan') /\ WordsStand(plan') /\ Turned(plan')
  <1>1. phase = "appraising" /\ UNCHANGED <<stores, ids, phase, outcome>>
    BY DEF Bear, BearSupports, BearWeakens, BearContradictsTentative,
           BearContradictsEstablished, Bearing
  <1>2. IInv /\ Placed(plan) /\ Beyond(plan)
    BY <1>1 DEF SInv, Underway
  <1>3. Supported(plan') \/ Contradicts(plan') \/ Noted(plan')
    BY <1>2, BearTurns
  <1>4. plan' \in PlanType /\ Frame(plan') = Frame(plan)
    BY <1>3, TurnFrame
  <1>5. Identity(plan') = Identity(plan)
    BY <1>2, BearWords
  <1>6. Worded(plan')
    BY <1>5 DEF Worded
  <1>7. WordsStand(plan')
    BY <1>1, <1>4, <1>6, WordedKeeps
  <1>8. plan.ids.hyp =< plan'.ids.hyp
    BY <1>7 DEF WordsStand
  <1>9. Turned(plan')
    BY <1>1, <1>3, <1>4, <1>8, StepsAreTurns
  <1> QED BY <1>1, <1>4, <1>5, <1>6, <1>7, <1>9

LEMMA TurnKeepsSInv ==
    ASSUME SInv, IInv', Adjudicate \/ Bear
    PROVE  SInv'
  <1>1. /\ phase = "appraising" /\ UNCHANGED <<stores, ids, phase, outcome>>
        /\ plan' \in PlanType /\ Frame(plan') = Frame(plan)
        /\ WordsStand(plan') /\ Turned(plan')
    BY AdjudicateIsTurn, BearIsTurn
  <1>2. Underway(plan')
    BY <1>1, TurnKeepsUnderway
  <1>3. plan'.index \in Nat /\ plan.index =< plan'.index
    BY <1>1 DEF PlanType, Frame
  <1>4. Underway(plan)'
    BY <1>1, <1>2, <1>3, UnderwayCarries DEF SInv
  <1> QED BY <1>1, <1>4, PlanStepKeepsSInv

\* What moving on from one observation to the next changes in the plan.
LEMMA MovingOnFields ==
    ASSUME IInv, SkipObservation \/ Appraise \/ EndObservation
    PROVE  /\ phase # "idle" /\ UNCHANGED <<stores, ids, outcome>>
           /\ Evaluations(plan') = Evaluations(plan)
           /\ Identity(plan') = Identity(plan)
           /\ plan'.wm = plan.wm /\ plan'.ids = plan.ids
           /\ plan'.batch = plan.batch
           /\ plan'.anomalies = plan.anomalies /\ plan'.parked = plan.parked
           /\ plan'.index \in Nat /\ plan.index =< plan'.index
  <1>1. plan \in PlanType /\ plan.index \in Nat
    BY DEF IInv, TypeOK, PlanType
  <1>2. CASE SkipObservation
    BY <1>1, <1>2 DEF SkipObservation, PlanType, Evaluations, Identity
  <1>3. CASE Appraise
    BY <1>1, <1>3 DEF Appraise, PlanType, Evaluations, Identity
  <1>4. CASE EndObservation
    BY <1>1, <1>4 DEF EndObservation, PlanType, Evaluations, Identity
  <1> QED BY <1>2, <1>3, <1>4

LEMMA MovingOnKeepsSInv ==
    ASSUME SInv, IInv', SkipObservation \/ Appraise \/ EndObservation
    PROVE  SInv'
  <1>1. /\ phase # "idle" /\ UNCHANGED <<stores, ids, outcome>>
        /\ Evaluations(plan') = Evaluations(plan)
        /\ Identity(plan') = Identity(plan)
        /\ plan'.wm = plan.wm /\ plan'.ids = plan.ids
        /\ plan'.index \in Nat /\ plan.index =< plan'.index
    BY MovingOnFields DEF SInv
  <1>2. Underway(plan')
    BY <1>1 DEF SInv, Underway, Beyond, FlightsAreNew, Placed, Grown, Stamped,
                Evaluations, Identity
  <1> QED BY <1>1, <1>2, UnderwayCarries, PlanStepKeepsSInv DEF SInv

LEMMA AbandonKeepsSInv ==
    ASSUME SInv, IInv', NEW how, Abandon(how)
    PROVE  SInv'
  BY PlanStepKeepsSInv DEF Abandon, Close
(* Opening and closing.                                                     *)

\* Where an element of a concatenation comes from.
LEMMA Concatenation ==
    ASSUME NEW S, NEW s \in Seq(S), NEW t \in Seq(S)
    PROVE  /\ s \o t \in Seq(S) /\ Len(s \o t) = Len(s) + Len(t)
           /\ \A i \in DOMAIN (s \o t) :
                 \/ i \in DOMAIN s /\ (s \o t)[i] = s[i]
                 \/ /\ i \notin DOMAIN s /\ i - Len(s) \in DOMAIN t
                    /\ (s \o t)[i] = t[i - Len(s)]
           /\ \A i \in DOMAIN s : i \in DOMAIN (s \o t) /\ (s \o t)[i] = s[i]
           /\ \A i \in DOMAIN t : /\ Len(s) + i \in DOMAIN (s \o t)
                                  /\ (s \o t)[Len(s) + i] = t[i]
           /\ t = <<>> => s \o t = s
           /\ t # <<>> => s \o t # <<>>
  <1>1. /\ s \o t \in Seq(S) /\ Len(s \o t) = Len(s) + Len(t)
        /\ Len(s) \in Nat /\ Len(t) \in Nat
        /\ DOMAIN s = 1..Len(s) /\ DOMAIN t = 1..Len(t)
        /\ DOMAIN (s \o t) = 1..(Len(s) + Len(t))
    OBVIOUS
  <1>2. \A i \in 1..(Len(s) + Len(t)) :
            (s \o t)[i] = IF i =< Len(s) THEN s[i] ELSE t[i - Len(s)]
    OBVIOUS
  <1>3. t = <<>> => s \o t = s
    OBVIOUS
  <1>4. t # <<>> => s \o t # <<>>
    BY <1>1
  <1> DEFINE u == s \o t
  <1> HIDE DEF u
  <1>5. \A i \in DOMAIN u :
            \/ i \in DOMAIN s /\ u[i] = s[i]
            \/ /\ i \notin DOMAIN s /\ i - Len(s) \in DOMAIN t
               /\ u[i] = t[i - Len(s)]
    BY <1>1, <1>2 DEF u
  <1>6. \A i \in DOMAIN s : i \in DOMAIN u /\ u[i] = s[i]
    BY <1>1, <1>2 DEF u
  <1>7. \A i \in DOMAIN t : Len(s) + i \in DOMAIN u /\ u[Len(s) + i] = t[i]
    BY <1>1, <1>2 DEF u
  <1> QED BY <1>1, <1>3, <1>4, <1>5, <1>6, <1>7 DEF u

\* A non-empty sequence ends in one of its elements.
LEMMA LastElement ==
    ASSUME NEW S, NEW s \in Seq(S), s # <<>>
    PROVE  Len(s) \in DOMAIN s /\ s[Len(s)] \in S
  OBVIOUS

\* What a committed plan leaves as the latest evaluation of h.
LEMMA CommittedLatest ==
    ASSUME SInv, Commit, NEW h \in Hypotheses
    PROVE  /\ records'[h] = records[h] \o plan.records[h]
           /\ records[h] \in Seq(RecordType)
           /\ plan.records[h] \in Seq(RecordType)
           /\ plan.records[h] = <<>> => Latest(h)' = Latest(h)
           /\ plan.records[h] # <<>> =>
                 Latest(h)' = plan.records[h][Len(plan.records[h])]
  <1> DEFINE s == records[h]
             t == plan.records[h]
  <1>1. /\ s \in Seq(RecordType) /\ t \in Seq(RecordType)
        /\ records' = [g \in Hypotheses |-> records[g] \o plan.records[g]]
    BY PlanFields DEF SInv, IInv, TypeOK, Commit
  <1>2. records'[h] = s \o t
    BY <1>1
  <1>3. Latest(h)' = IF s \o t = <<>> THEN NoRecord ELSE (s \o t)[Len(s \o t)]
    BY <1>2 DEF Latest, NoRecord
  <1>4. Latest(h) = IF s = <<>> THEN NoRecord ELSE s[Len(s)]
    BY DEF Latest
  <1> HIDE DEF s, t
  <1>5. t = <<>> => s \o t = s
    BY <1>1, Concatenation
  <1>6. ASSUME t # <<>>
        PROVE  s \o t # <<>> /\ (s \o t)[Len(s \o t)] = t[Len(t)]
    <2>1. Len(t) \in DOMAIN t
      BY <1>1, <1>6, LastElement
    <2>2. Len(s) + Len(t) \in DOMAIN (s \o t)
          /\ (s \o t)[Len(s) + Len(t)] = t[Len(t)]
      BY <1>1, <2>1, Concatenation
    <2>3. Len(s \o t) = Len(s) + Len(t) /\ s \o t # <<>>
      BY <1>1, <1>6, Concatenation
    <2> QED BY <2>2, <2>3
  <1> QED BY <1>1, <1>2, <1>3, <1>4, <1>5, <1>6 DEF s, t

\* Committed records, versions and bounds.
LEMMA CommittedFields ==
    ASSUME SInv, Commit
    PROVE  /\ phase = "planning" /\ Underway(plan) /\ phase' = "idle"
           /\ ids' = plan.ids /\ current' = plan.wm
           /\ ledger' = ledger \o plan.events /\ plan.events # <<>>
           /\ edges' = edges \cup plan.edges
           /\ plan.wm \in Versions /\ plan.wm = ids.wm + 1
           /\ models'[plan.wm] # NoModel
           /\ \A v \in Versions : v # plan.wm => models'[v] = models[v]
           /\ \A h \in Hypotheses :
                 IF plan.records[h] = <<>>
                 THEN keyOf'[h] = keyOf[h] /\ versions'[h] = versions[h]
                 ELSE /\ keyOf'[h] = IF plan.flights[h].key # NoKey
                                     THEN plan.flights[h].key ELSE keyOf[h]
                      /\ versions'[h] = versions[h] \o plan.versions[h]
  <1>1. /\ phase = "planning" /\ Underway(plan) /\ phase' = "idle"
        /\ ids' = plan.ids /\ current' = plan.wm
        /\ ledger' = ledger \o plan.events /\ plan.events # <<>>
        /\ edges' = edges \cup plan.edges
    BY DEF SInv, Commit, Planned, Close, WriteAudit
  <1>2. /\ plan.wm = ids.wm + 1 /\ plan.wm \in 0..MaxInteractions
        /\ ids.wm \in Nat
        /\ plan \in PlanType
    <2>1. plan \in PlanType /\ ids \in IdsType
      BY <1>1 DEF SInv, IInv, TypeOK, Underway
    <2> QED
      BY <1>1, <2>1, SMTT(20) DEF Underway, PlanType, IdsType
  <1>3. plan.wm \in Versions
    BY <1>2 DEF Versions
  <1>4. Working # {}
    <2>1. /\ plan.events \in Seq(EventType)
          /\ \A i \in DOMAIN plan.events :
                plan.working[plan.events[i].hyp].id # 0
      BY <1>1, <1>2, PlanFields DEF Underway, Stamped
    <2>2. /\ Len(plan.events) \in DOMAIN plan.events
          /\ plan.events[Len(plan.events)] \in EventType
      BY <1>1, <2>1, LastElement
    <2>3. plan.events[Len(plan.events)].hyp \in Hypotheses
      BY <2>2 DEF EventType
    <2> QED BY <2>1, <2>2, <2>3 DEF Working
  <1>5. /\ models'[plan.wm] # NoModel
        /\ \A v \in Versions : v # plan.wm => models'[v] = models[v]
    <2> DEFINE new == [active |-> Working, predictions |-> Predicted,
                       inquiry |-> OpensInquiry]
               Model == [active : SUBSET Hypotheses,
                         predictions : SUBSET Hypotheses, inquiry : BOOLEAN]
    <2>1. new # NoModel
      BY <1>4 DEF NoModel
    <2> HIDE DEF new
    <2>2. models' = [models EXCEPT ![plan.wm] = new] /\ models \in [Versions -> Model]
      BY DEF Commit, new, SInv, IInv, TypeOK
    <2> QED BY <1>3, <2>1, <2>2
  <1>6. ASSUME NEW h \in Hypotheses
        PROVE  IF plan.records[h] = <<>>
               THEN keyOf'[h] = keyOf[h] /\ versions'[h] = versions[h]
               ELSE /\ keyOf'[h] = IF plan.flights[h].key # NoKey
                                   THEN plan.flights[h].key ELSE keyOf[h]
                    /\ versions'[h] = versions[h] \o plan.versions[h]
    BY DEF Commit, WriteLineages, CommittedHypotheses
  <1> QED BY <1>1, <1>2, <1>3, <1>5, <1>6

\* Facts about the types of the stores.
LEMMA StoreFields ==
    ASSUME TypeOK
    PROVE  /\ plan \in PlanType
           /\ ids.wm \in Nat /\ ids.hyp \in Nat /\ ids.evidence \in Nat
           /\ current \in Nat /\ current =< MaxInteractions
           /\ ledger \in Seq(EventType)
           /\ \A h \in Hypotheses : /\ h \in Int
                                    /\ records[h] \in Seq(RecordType)
                                    /\ versions[h] \in Seq(VersionType)
                                    /\ keyOf[h] \in Keys \cup {NoKey}
  <1>1. /\ ids.wm \in Nat /\ ids.hyp \in Nat /\ ids.evidence \in Nat
    <2>1. ids \in IdsType
      BY DEF TypeOK
    <2> QED BY <2>1 DEF IdsType
  <1>2. current \in Nat /\ current =< MaxInteractions
    BY DEF TypeOK
  <1>3. \A g \in Hypotheses : g \in Int
    BY DEF Hypotheses
  <1>4. /\ versions \in [Hypotheses -> Seq(VersionType)]
        /\ records \in [Hypotheses -> Seq(RecordType)]
        /\ keyOf \in [Hypotheses -> Keys \cup {NoKey}]
        /\ ledger \in Seq(EventType) /\ plan \in PlanType
    BY DEF TypeOK
  <1> QED BY <1>1, <1>2, <1>3, <1>4

Appended == {v \in 1..current : models[v] # NoModel}

LEMMA ReferencesInParts ==
    ReferencesResolve <=>
        /\ current # 0 => current \in Appended
        /\ \A i \in DOMAIN ledger : ledger[i].at \in Appended
        /\ \A h \in Hypotheses :
            /\ keyOf[h] # NoKey <=> records[h] # <<>>
            /\ versions[h] # <<>> <=> records[h] # <<>>
            /\ \A i \in DOMAIN records[h] : records[h][i].at \in Appended
            /\ \A i \in DOMAIN versions[h] : versions[h][i].at \in Appended
  BY DEF ReferencesResolve, Appended

\* Committing keeps the stores' references whole.
LEMMA CommitKeepsKept ==
    ASSUME SInv, Commit
    PROVE  Kept'
  <1>1. /\ phase = "planning" /\ Underway(plan)
        /\ ids' = plan.ids /\ current' = plan.wm
        /\ ledger' = ledger \o plan.events
        /\ plan.wm \in Versions /\ plan.wm = ids.wm + 1
        /\ models'[plan.wm] # NoModel
        /\ \A v \in Versions : v # plan.wm => models'[v] = models[v]
        /\ \A h \in Hypotheses :
              IF plan.records[h] = <<>>
              THEN keyOf'[h] = keyOf[h] /\ versions'[h] = versions[h]
              ELSE /\ keyOf'[h] = IF plan.flights[h].key # NoKey
                                  THEN plan.flights[h].key ELSE keyOf[h]
                   /\ versions'[h] = versions[h] \o plan.versions[h]
    BY CommittedFields
  <1>2. /\ FlightsAreNew(plan) /\ Placed(plan) /\ Stamped(plan)
        /\ ids.hyp =< plan.ids.hyp /\ plan.ids.wm = plan.wm
    BY <1>1 DEF Underway
  <1>3. /\ Kept /\ TypeOK /\ plan \in PlanType
    BY DEF SInv, IInv, TypeOK
  <1>4. /\ ids.wm \in Nat /\ ids.hyp \in Nat /\ plan.ids.hyp \in Nat
        /\ current \in Nat /\ plan.wm \in Nat /\ current =< ids.wm
        /\ ledger \in Seq(EventType) /\ plan.events \in Seq(EventType)
        /\ \A h \in Hypotheses : /\ h \in Int
                                 /\ records[h] \in Seq(RecordType)
                                 /\ plan.records[h] \in Seq(RecordType)
                                 /\ versions[h] \in Seq(VersionType)
                                 /\ plan.versions[h] \in Seq(VersionType)
    <2>1. /\ ids.wm \in Nat /\ ids.hyp \in Nat
          /\ current \in Nat /\ ledger \in Seq(EventType)
          /\ \A h \in Hypotheses : /\ h \in Int
                                   /\ records[h] \in Seq(RecordType)
                                   /\ versions[h] \in Seq(VersionType)
      BY <1>3, StoreFields
    <2>2. /\ plan.ids.hyp \in Nat /\ plan.wm \in Nat
          /\ plan.events \in Seq(EventType)
          /\ plan.records \in [Hypotheses -> Seq(RecordType)]
          /\ plan.versions \in [Hypotheses -> Seq(VersionType)]
      BY <1>3, PlanFields
    <2>3. current =< ids.wm
      BY <1>3 DEF Kept
    <2> QED BY <2>1, <2>2, <2>3
  <1>5. Appended \subseteq Appended' /\ plan.wm \in Appended'
    <2>1. ASSUME NEW v \in Appended PROVE v \in Appended'
      <3>0. /\ current \in Nat /\ current =< MaxInteractions
            /\ MaxInteractions \in Nat
        BY <1>3, StoreFields, BoundAssumption
      <3>1. /\ v \in Int /\ 1 =< v /\ v =< current /\ models[v] # NoModel
            /\ current =< MaxInteractions /\ MaxInteractions \in Nat
        BY <2>1, <3>0 DEF Appended
      <3>2. v < plan.wm
        BY <1>1, <1>4, <3>1
      <3>3. v \in Versions /\ v # plan.wm /\ v \in 1..plan.wm
        BY <1>4, <3>1, <3>2 DEF Versions
      <3> QED BY <1>1, <3>1, <3>3 DEF Appended
    <2>2. plan.wm \in Appended'
      BY <1>1, <1>4 DEF Appended, Versions
    <2> QED BY <2>1, <2>2
  <1>6. \A i \in DOMAIN ledger' : ledger'[i].at \in Appended'
    <2>1. /\ \A i \in DOMAIN ledger : ledger[i].at \in Appended'
          /\ \A i \in DOMAIN plan.events : plan.events[i].at \in Appended'
      BY <1>2, <1>3, <1>5, ReferencesInParts DEF Stamped, Kept
    <2>2. \A i \in DOMAIN (ledger \o plan.events) :
              \/ i \in DOMAIN ledger /\ (ledger \o plan.events)[i] = ledger[i]
              \/ /\ i - Len(ledger) \in DOMAIN plan.events
                 /\ (ledger \o plan.events)[i] = plan.events[i - Len(ledger)]
      BY <1>4, Concatenation
    <2> QED BY <1>1, <2>1, <2>2
  <1>7. ASSUME NEW h \in Hypotheses
        PROVE  /\ keyOf'[h] # NoKey <=> records'[h] # <<>>
               /\ versions'[h] # <<>> <=> records'[h] # <<>>
               /\ h \in Held' => h =< ids'.hyp
               /\ \A i \in DOMAIN records'[h] : /\ records'[h][i].at \in Appended'
                                                /\ records'[h][i].id # 0
               /\ \A i \in DOMAIN versions'[h] : versions'[h][i].at \in Appended'
    <2> DEFINE s == records[h]
               t == plan.records[h]
               v == versions[h]
               w == plan.versions[h]
    <2>1. /\ s \in Seq(RecordType) /\ t \in Seq(RecordType)
          /\ v \in Seq(VersionType) /\ w \in Seq(VersionType)
          /\ records'[h] = s \o t
      BY <1>4, CommittedLatest
    <2>2. /\ \A i \in DOMAIN s : s[i].at \in Appended' /\ s[i].id # 0
          /\ \A i \in DOMAIN t : t[i].at \in Appended' /\ t[i].id # 0
          /\ \A i \in DOMAIN v : v[i].at \in Appended'
          /\ \A i \in DOMAIN w : w[i].at \in Appended'
      BY <1>2, <1>3, <1>5, ReferencesInParts DEF Kept, Stamped
    <2>3. /\ h \in Held <=> keyOf[h] # NoKey
          /\ h \in Held <=> v # <<>>
          /\ h \in Held <=> s # <<>>
          /\ h \in Held => h =< ids.hyp
      BY <1>3, HeldFields
    <2>4. h \in Held' <=> records'[h] # <<>>
      BY DEF Held
    <2>5. CASE t = <<>>
      <3>0. keyOf'[h] = keyOf[h] /\ versions'[h] = v
        BY <1>1, <2>5
      <3>a. s \o t = s
        BY <2>1, <2>5
      <3>1. records'[h] = s /\ keyOf'[h] = keyOf[h] /\ versions'[h] = v
        BY <2>1, <3>0, <3>a
      <3>2. h \in Held => h =< plan.ids.hyp
        BY <1>2, <1>4, <2>3
      <3> QED BY <1>1, <2>2, <2>3, <2>4, <3>1, <3>2
    <2>6. CASE t # <<>>
      <3>1. /\ keyOf'[h] = IF plan.flights[h].key # NoKey
                           THEN plan.flights[h].key ELSE keyOf[h]
            /\ versions'[h] = v \o w
        BY <1>1, <2>6
      <3>2. h \in Held \/ plan.flights[h].key # NoKey
        BY <1>2, <2>6 DEF Placed
      <3>3. plan.flights[h].key # NoKey => w # <<>> /\ h =< plan.ids.hyp
        BY <1>2 DEF FlightsAreNew
      <3>4. keyOf'[h] # NoKey
        BY <2>3, <3>1, <3>2
      <3>5. h =< plan.ids.hyp
        BY <1>2, <1>4, <2>3, <3>2, <3>3
      <3> HIDE DEF s, t, v, w
      <3>6. s \o t # <<>> /\ (v # <<>> \/ w # <<>>)
        BY <2>1, <2>3, <2>6, <3>2, <3>3, Concatenation
      <3>7. v \o w # <<>>
        BY <2>1, <3>6, Concatenation
      <3>8. \A i \in DOMAIN (s \o t) :
                (s \o t)[i].at \in Appended' /\ (s \o t)[i].id # 0
        <4>1. \A i \in DOMAIN (s \o t) :
                 \/ i \in DOMAIN s /\ (s \o t)[i] = s[i]
                 \/ i - Len(s) \in DOMAIN t /\ (s \o t)[i] = t[i - Len(s)]
          BY <2>1, Concatenation
        <4> QED BY <2>2, <4>1
      <3>9. \A i \in DOMAIN (v \o w) : (v \o w)[i].at \in Appended'
        <4>1. \A i \in DOMAIN (v \o w) :
                 \/ i \in DOMAIN v /\ (v \o w)[i] = v[i]
                 \/ i - Len(v) \in DOMAIN w /\ (v \o w)[i] = w[i - Len(v)]
          BY <2>1, Concatenation
        <4> QED BY <2>2, <4>1
      <3> QED BY <1>1, <2>1, <3>1, <3>4, <3>5, <3>6, <3>7, <3>8, <3>9
    <2> QED BY <2>5, <2>6
  <1>8. ReferencesResolve'
    <2>1. current' \in Appended'
      BY <1>1, <1>5
    <2>2. \A h \in Hypotheses :
            /\ keyOf'[h] # NoKey <=> records'[h] # <<>>
            /\ versions'[h] # <<>> <=> records'[h] # <<>>
            /\ \A i \in DOMAIN records'[h] : records'[h][i].at \in Appended'
            /\ \A i \in DOMAIN versions'[h] : versions'[h][i].at \in Appended'
      BY <1>7
    <2> QED BY <1>6, <2>1, <2>2 DEF ReferencesResolve, Appended
  <1>9. current' =< ids'.wm
    BY <1>1, <1>2, <1>4
  <1>10. \A u \in Versions : models'[u] # NoModel => u =< current'
    <2> SUFFICES ASSUME NEW u \in Versions, models'[u] # NoModel
                 PROVE  u =< plan.wm
      BY <1>1
    <2>1. u \in Int
      BY DEF Versions
    <2>2. u # plan.wm => u =< current
      BY <1>1, <1>3 DEF Kept
    <2> QED BY <1>1, <1>4, <2>1, <2>2
  <1>11. /\ \A h \in Held' : h =< ids'.hyp
         /\ \A h \in Hypotheses : \A i \in DOMAIN records'[h] :
                records'[h][i].id # 0
    BY <1>7 DEF Held
  <1> QED BY <1>8, <1>9, <1>10, <1>11 DEF Kept

\* Holding writes no store that a reference comes from.
LEMMA HoldKeepsKept ==
    ASSUME SInv, Hold
    PROVE  Kept'
  <1>1. /\ UNCHANGED <<keyOf, versions, records, ledger, edges, models, current>>
        /\ ids' = plan.ids /\ Underway(plan) /\ TypeOK /\ Kept
    BY DEF Hold, WriteAudit, Planned, SInv, IInv
  <1>2. /\ ids.hyp \in Nat /\ ids.wm \in Nat /\ current \in Nat
        /\ plan.ids.hyp \in Nat /\ plan.wm \in Nat
        /\ \A g \in Hypotheses : g \in Int
    BY <1>1, StoreFields, PlanFields
  <1>3. /\ ids.hyp =< ids'.hyp /\ ids.wm =< ids'.wm
        /\ ids'.hyp \in Nat /\ ids'.wm \in Nat
    BY <1>1, <1>2 DEF Underway
  <1>4. Held' = Held
    BY <1>1 DEF Held
  <1>5. \A h \in Held' : h =< ids'.hyp
    BY <1>1, <1>2, <1>3, <1>4 DEF Kept, Held
  <1>6. ReferencesResolve'
    BY <1>1 DEF Kept, ReferencesResolve
  <1>7. current' =< ids'.wm
    BY <1>1, <1>2, <1>3 DEF Kept
  <1> QED BY <1>1, <1>5, <1>6, <1>7 DEF Kept

\* What an interaction opens with.
LEMMA OpeningFields ==
    ASSUME IInv, RecordInteraction
    PROVE  /\ phase = "idle" /\ phase' = "planning"
           /\ UNCHANGED <<stores, ids, outcome>>
           /\ plan' \in PlanType /\ plan'.index = 0
           /\ plan'.wm = ids.wm + 1 /\ plan'.ids.wm = plan'.wm
           /\ plan'.ids.hyp = ids.hyp /\ plan'.ids.record = ids.record
           /\ plan'.ids.evidence \in Nat
           /\ plan'.working = [h \in Hypotheses |-> Latest(h)]
           /\ plan'.flights = [h \in Hypotheses |-> NoFlight]
           /\ plan'.versions = [h \in Hypotheses |-> <<>>]
           /\ plan'.records = [h \in Hypotheses |-> <<>>]
           /\ plan'.events = <<>> /\ plan'.edges = {}
           /\ plan'.anomalies = {} /\ plan'.parked = {}
           /\ plan'.proposals = <<>> /\ plan'.bearings = <<>>
           /\ plan'.appraised = <<>>
  <1>1. PICK batch \in Batches :
            plan' = [EmptyPlan EXCEPT
                       !.batch = batch,
                       !.wm = ids.wm + 1,
                       !.ids = [ids EXCEPT !.evidence = @ + Len(batch),
                                           !.wm = @ + 1],
                       !.working = [h \in Hypotheses |-> Latest(h)]]
    BY DEF RecordInteraction
  <1> DEFINE newIds == [ids EXCEPT !.evidence = @ + Len(batch), !.wm = @ + 1]
             latest == [h \in Hypotheses |-> Latest(h)]
  <1>2. /\ phase = "idle" /\ phase' = "planning"
        /\ UNCHANGED <<stores, ids, outcome>> /\ ids \in IdsType
    BY DEF RecordInteraction, IInv, TypeOK
  <1>3. plan' \in PlanType
    BY OpeningKeepsIInv DEF IInv, TypeOK
  <1>4. newIds.wm = ids.wm + 1 /\ newIds.hyp = ids.hyp /\ newIds.record = ids.record
    BY <1>2 DEF IdsType
  <1> HIDE DEF newIds, latest
  <1>5. plan' = [EmptyPlan EXCEPT !.batch = batch, !.wm = ids.wm + 1,
                                  !.ids = newIds, !.working = latest]
    BY <1>1 DEF newIds, latest
  <1>6. /\ plan'.index = 0 /\ plan'.wm = ids.wm + 1 /\ plan'.ids = newIds
        /\ plan'.working = latest
        /\ plan'.flights = [h \in Hypotheses |-> NoFlight]
        /\ plan'.versions = [h \in Hypotheses |-> <<>>]
        /\ plan'.records = [h \in Hypotheses |-> <<>>]
        /\ plan'.events = <<>> /\ plan'.edges = {}
        /\ plan'.anomalies = {} /\ plan'.parked = {}
        /\ plan'.proposals = <<>> /\ plan'.bearings = <<>>
        /\ plan'.appraised = <<>>
    BY <1>5 DEF EmptyPlan
  <1>7. plan'.ids.evidence \in Nat
    BY <1>3 DEF PlanType, IdsType
  <1> QED BY <1>2, <1>3, <1>4, <1>6, <1>7 DEF latest

LEMMA OpeningKeepsSInv ==
    ASSUME SInv, IInv', RecordInteraction
    PROVE  SInv'
  <1>1. /\ phase = "idle" /\ UNCHANGED <<stores, ids>> /\ plan'.index = 0
        /\ plan'.wm = ids.wm + 1 /\ plan'.ids.wm = plan'.wm
        /\ plan'.ids.hyp = ids.hyp
        /\ plan'.working = [h \in Hypotheses |-> Latest(h)]
        /\ plan'.flights = [h \in Hypotheses |-> NoFlight]
        /\ plan'.versions = [h \in Hypotheses |-> <<>>]
        /\ plan'.records = [h \in Hypotheses |-> <<>>]
        /\ plan'.events = <<>>
    BY OpeningFields DEF SInv
  <1>2. Kept /\ TypeOK
    BY DEF SInv, IInv
  <1>3. /\ ids.hyp \in Nat /\ \A g \in Hypotheses : g \in Int
    BY <1>2, StoreFields
  <1>4. /\ \A h \in Hypotheses : /\ plan'.working[h] = Latest(h)
                                 /\ plan'.flights[h].key = NoKey
                                 /\ plan'.versions[h] = <<>>
                                 /\ plan'.records[h] = <<>>
    <2>1. NoFlight.key = NoKey
      BY DEF NoFlight
    <2>2. \A h \in Hypotheses : plan'.flights[h] = NoFlight
      BY <1>1
    <2>3. \A h \in Hypotheses : /\ plan'.working[h] = Latest(h)
                                /\ plan'.versions[h] = <<>>
                                /\ plan'.records[h] = <<>>
      BY <1>1
    <2> QED BY <2>1, <2>2, <2>3
  <1>5. \A h \in Hypotheses : Latest(h)' = Latest(h) /\ (h \in Held' <=> h \in Held)
    BY <1>1 DEF Latest, Held, stores
  <1>a. \A h \in Hypotheses : Latest(h).id # 0 => h \in Held
    BY DEF Latest, NoRecord, Held
  <1>6. Beyond(plan)'
    <2> SUFFICES ASSUME NEW h \in Hypotheses, h > ids.hyp
                 PROVE  Latest(h) = NoRecord
      BY <1>1, <1>4 DEF Beyond
    <2>1. h \notin Held
      BY <1>2, <1>3 DEF Kept
    <2> QED BY <2>1 DEF Held, Latest
  <1>7. FlightsAreNew(plan)'
    BY <1>1, <1>4 DEF FlightsAreNew
  <1>8. Placed(plan)'
    BY <1>1, <1>4, <1>5, <1>a DEF Placed
  <1>9. Grown(plan)'
    <2>1. \A a : GrowsFrom(a, a)'
      BY DEF GrowsFrom
    <2>2. \A h \in Hypotheses : DOMAIN plan'.records[h] = {}
      BY <1>4
    <2>3. \A h \in Hypotheses : GrowsFrom(Latest(h), plan.working[h])'
      BY <1>4, <1>5, <2>1
    <2> QED BY <2>2, <2>3 DEF Grown
  <1>10. Stamped(plan)'
    <2>1. DOMAIN plan'.events = {}
      BY <1>1
    <2>2. \A h \in Hypotheses : /\ DOMAIN plan'.records[h] = {}
                                /\ DOMAIN plan'.versions[h] = {}
      BY <1>4
    <2> QED BY <2>1, <2>2 DEF Stamped
  <1>11. Underway(plan)'
    BY <1>1, <1>3, <1>6, <1>7, <1>8, <1>9, <1>10 DEF Underway
  <1> QED BY <1>1, <1>11, PlanStepKeepsSInv

LEMMA ClosingKeepsSInv ==
    ASSUME SInv, IInv', Hold \/ Commit
    PROVE  SInv'
  <1>1. phase' = "idle"
    BY DEF Hold, Commit, Close
  <1> QED BY <1>1, HoldKeepsKept, CommitKeepsKept DEF SInv

LEMMA InitSInv == Init => SInv
  <1> SUFFICES ASSUME Init PROVE SInv
    OBVIOUS
  <1>1. IInv
    BY InitIInv
  <1>2. \A h \in Hypotheses : /\ records[h] = <<>> /\ versions[h] = <<>>
                              /\ keyOf[h] = NoKey
    BY DEF Init
  <1>3. Held = {}
    BY <1>2 DEF Held
  <1>4. /\ current = 0 /\ ledger = <<>> /\ ids.wm = 0 /\ phase = "idle"
        /\ \A v \in Versions : models[v] = NoModel
    BY DEF Init
  <1>5. ReferencesResolve
    BY <1>2, <1>4 DEF ReferencesResolve
  <1> QED BY <1>1, <1>2, <1>3, <1>4, <1>5 DEF SInv, Kept

LEMMA NextSInv == SInv /\ [Next]_vars => SInv'
  <1> SUFFICES ASSUME SInv, [Next]_vars PROVE SInv'
    OBVIOUS
  <1>1. IInv'
    BY NextIInv DEF SInv
  <1>2. CASE RecordInteraction
    BY <1>1, <1>2, OpeningKeepsSInv
  <1>3. CASE SkipObservation \/ Appraise \/ EndObservation
    BY <1>1, <1>3, MovingOnKeepsSInv
  <1>4. CASE Adjudicate \/ Bear
    BY <1>1, <1>4, TurnKeepsSInv
  <1>5. CASE RejectAppraisal \/ Breach \/ RejectPlan \/ Interrupt
    BY <1>1, <1>5, AbandonKeepsSInv DEF RejectAppraisal, Breach, RejectPlan, Interrupt
  <1>6. CASE Hold \/ Commit
    BY <1>1, <1>6, ClosingKeepsSInv
  <1>7. CASE UNCHANGED vars
    <2>1. UNCHANGED <<stores, ids>> /\ phase' = phase /\ plan' = plan
      BY <1>7 DEF vars
    <2>2. phase # "idle" => Underway(plan')
      BY <2>1 DEF SInv
    <2>3. plan'.index \in Nat /\ plan.index =< plan'.index
      BY <2>1 DEF SInv, IInv, TypeOK, PlanType
    <2>4. phase' # "idle" => Underway(plan)'
      BY <2>1, <2>2, <2>3, UnderwayCarries DEF SInv
    <2> QED BY <1>1, <2>1, <2>4, PlanStepKeepsSInv
  <1> QED BY <1>2, <1>3, <1>4, <1>5, <1>6, <1>7 DEF Next, Step, NoMoreCalls
(* What follows for any commit policy.                                      *)

\* The invariant behind the theorems of this section: the stores are kept in
\* order, and the plan under way only grows what it found in them.
THEOREM StoresInductive == Spec => []SInv
  BY InitSInv, NextSInv, PTL DEF Spec

\* A lineage, its statement versions and its evaluations exist together or
\* not at all, and whatever names a model version names an appended one,
\* whichever outcomes the commit policy lets through (M-3).
THEOREM ReferencesAlwaysResolve == Spec => []ReferencesResolve
  <1>1. SInv => ReferencesResolve
    BY DEF SInv, Kept
  <1> QED BY StoresInductive, <1>1, PTL

\* Only a commit moves understanding, and it moves the model with it.
MovesWithModel ==
    /\ <<keyOf, versions, records, ledger, edges>>'
         # <<keyOf, versions, records, ledger, edges>>
         => current' > current
    /\ current' # current => models[current'] = NoModel
    /\ \A v \in Versions : models'[v] # models[v] => v = current'

LEMMA StoresMoveOnlyOnClosing ==
    ASSUME SInv, [Next]_vars
    PROVE  Hold \/ Commit \/ UNCHANGED stores
  <1>1. CASE RecordInteraction
    BY <1>1 DEF RecordInteraction
  <1>2. CASE SkipObservation \/ Appraise \/ EndObservation
    BY <1>2 DEF SkipObservation, Appraise, EndObservation
  <1>3. CASE Adjudicate \/ Bear
    BY <1>3, AdjudicateIsTurn, BearIsTurn
  <1>4. CASE RejectAppraisal \/ Breach \/ RejectPlan \/ Interrupt
    BY <1>4 DEF RejectAppraisal, Breach, RejectPlan, Interrupt, Abandon
  <1>5. CASE Hold \/ Commit
    BY <1>5
  <1>6. CASE UNCHANGED vars
    BY <1>6 DEF vars
  <1> QED BY <1>1, <1>2, <1>3, <1>4, <1>5, <1>6 DEF Next, Step, NoMoreCalls

LEMMA StepMovesWithModel ==
    ASSUME SInv, [Next]_vars
    PROVE  MovesWithModel
  <1>1. CASE Hold \/ UNCHANGED stores
    BY <1>1 DEF Hold, stores, MovesWithModel
  <1>2. CASE Commit
    <2>1. /\ current' = plan.wm /\ plan.wm \in Versions
          /\ plan.wm = ids.wm + 1
          /\ \A v \in Versions : v # plan.wm => models'[v] = models[v]
      BY <1>2, CommittedFields
    <2>2. /\ ids.wm \in Nat /\ current \in Nat /\ current =< ids.wm
          /\ \A v \in Versions : models[v] # NoModel => v =< current
      BY StoreFields DEF SInv, IInv, Kept
    <2> QED BY <2>1, <2>2 DEF MovesWithModel
  <1> QED BY <1>1, <1>2, StoresMoveOnlyOnClosing

\* Understanding never moves without a newly appended model version, and no
\* version is ever rewritten (FR-MR-003).
THEOREM UnderstandingMoves == Spec => UnderstandingMovesWithModel
  <1>1. SInv /\ [Next]_vars => [MovesWithModel]_vars
    BY StepMovesWithModel
  <1> QED BY StoresInductive, <1>1, PTL
          DEF Spec, UnderstandingMovesWithModel, MovesWithModel
(* The engine implements module Understanding.                              *)

\* What the latest evaluations come to after a step.
LEMMA LatestIsSourced ==
    IInv => \A h \in Hypotheses : Latest(h).pro \cap Latest(h).con = {}
  <1> SUFFICES ASSUME IInv, NEW h \in Hypotheses
               PROVE  Latest(h).pro \cap Latest(h).con = {}
    OBVIOUS
  <1>1. CASE records[h] = <<>>
    BY <1>1 DEF Latest, NoRecord
  <1>2. CASE records[h] # <<>>
    <2>1. records[h] \in Seq(RecordType)
      BY DEF IInv, TypeOK
    <2>2. Len(records[h]) \in DOMAIN records[h]
      BY <1>2, <2>1, LastElement
    <2> QED BY <1>2, <2>2 DEF Latest, IInv, StoresGrounded
  <1> QED BY <1>1, <1>2

LEMMA CommitGrows ==
    ASSUME SInv, IInv', Commit, NEW h \in Hypotheses
    PROVE  LET fresh == (DOMAIN evidence)' \ DOMAIN evidence IN
           /\ Latest(h).pro \subseteq Latest(h)'.pro
           /\ Latest(h)'.pro \subseteq Latest(h).pro \cup fresh
           /\ Latest(h).con \subseteq Latest(h)'.con
           /\ Latest(h)'.con \subseteq Latest(h).con \cup fresh
  <1> DEFINE fresh == (DOMAIN evidence)' \ DOMAIN evidence
  <1>1. GrowsFrom(Latest(h), Latest(h)')
    <2>1. /\ plan.records[h] \in Seq(RecordType)
          /\ plan.records[h] = <<>> => Latest(h)' = Latest(h)
          /\ plan.records[h] # <<>> =>
                Latest(h)' = plan.records[h][Len(plan.records[h])]
      BY CommittedLatest
    <2>2. CASE plan.records[h] = <<>>
      <3>1. GrowsFrom(Latest(h), Latest(h))
        BY DEF GrowsFrom
      <3>2. Latest(h)' = Latest(h)
        BY <2>1, <2>2
      <3> QED BY <3>1, <3>2
    <2>3. CASE plan.records[h] # <<>>
      <3>1. Len(plan.records[h]) \in DOMAIN plan.records[h]
        BY <2>1, <2>3, LastElement
      <3>2. Grown(plan)
        BY CommittedFields DEF Underway
      <3> QED BY <2>1, <2>3, <3>1, <3>2 DEF Grown
    <2> QED BY <2>2, <2>3
  <1>2. Fresh \subseteq fresh
    <2>1. DOMAIN evidence = 1..ids.evidence /\ DOMAIN evidence' = 1..plan.ids.evidence
      BY CommittedFields DEF SInv, IInv, EvidenceIdsGapless
    <2>2. /\ ids.evidence \in Nat /\ plan.index = Len(plan.batch)
          /\ plan.ids.evidence = ids.evidence + Len(plan.batch)
          /\ plan.index \in Nat
      BY StoreFields DEF SInv, IInv, BatchNumbered, Commit, Planned, PlanType
    <2> QED BY <2>1, <2>2 DEF Fresh, Ev
  <1> HIDE DEF fresh
  <1>3. /\ Latest(h).pro \subseteq Latest(h)'.pro
        /\ Latest(h)'.pro \subseteq Latest(h).pro \cup fresh
        /\ Latest(h).con \subseteq Latest(h)'.con
        /\ Latest(h)'.con \subseteq Latest(h).con \cup fresh
    BY <1>1, <1>2 DEF GrowsFrom
  <1> QED BY <1>3 DEF fresh

LEMMA InitImplementsUnderstanding == Init => Abstract!Init
  <1> SUFFICES ASSUME Init PROVE Abstract!Init
    OBVIOUS
  <1>1. DOMAIN evidence = {} /\ current = 0
    BY DEF Init
  <1>2. \A h \in Hypotheses : Latest(h).pro = {} /\ Latest(h).con = {}
    BY DEF Init, Latest, NoRecord
  <1> QED BY <1>1, <1>2 DEF Abstract!Init

\* Every step assimilates, or changes nothing of what is abstracted.
LEMMA StepImplementsUnderstanding ==
    ASSUME SInv, IInv', [Next]_vars
    PROVE  [Abstract!Assimilate]_(Abstract!vars)
  <1>1. CASE UNCHANGED stores
    <2>1. /\ \A h \in Hypotheses : Latest(h)' = Latest(h)
          /\ (DOMAIN evidence)' = DOMAIN evidence /\ current' = current
      BY <1>1 DEF stores, Latest
    <2> QED BY <2>1 DEF Abstract!vars
  <1>2. CASE Hold
    <2>1. /\ \A h \in Hypotheses : Latest(h)' = Latest(h)
          /\ current' = current /\ current \in Nat
      BY <1>2, StoreFields DEF Hold, Latest, SInv, IInv
    <2>2. DOMAIN evidence \subseteq (DOMAIN evidence)'
      BY <1>2 DEF Hold, WriteAudit
    <2>3. \A h \in Hypotheses : Latest(h).pro \cap Latest(h).con = {}
      BY LatestIsSourced DEF SInv
    <2> QED BY <2>1, <2>2, <2>3 DEF Abstract!Assimilate, Abstract!Grows
  <1>3. CASE Commit
    <2>1. /\ current' > current /\ current' \in Nat /\ current \in Nat
      <3>1. current' = plan.wm /\ plan.wm = ids.wm + 1
        BY <1>3, CommittedFields
      <3> QED BY <3>1, StoreFields DEF SInv, IInv, Kept
    <2>2. DOMAIN evidence \subseteq (DOMAIN evidence)'
      BY <1>3 DEF Commit, WriteAudit
    <2>3. \A h \in Hypotheses : Latest(h)'.pro \cap Latest(h)'.con = {}
      <3>1. IInv' => (\A h \in Hypotheses : Latest(h).pro \cap Latest(h).con = {})'
        BY LatestIsSourced, PTL
      <3> QED BY <3>1
    <2>4. \A h \in Hypotheses :
            LET fresh == (DOMAIN evidence)' \ DOMAIN evidence IN
            /\ Latest(h).pro \subseteq Latest(h)'.pro
            /\ Latest(h)'.pro \subseteq Latest(h).pro \cup fresh
            /\ Latest(h).con \subseteq Latest(h)'.con
            /\ Latest(h)'.con \subseteq Latest(h).con \cup fresh
      BY <1>3, CommitGrows
    <2> QED BY <2>1, <2>2, <2>3, <2>4 DEF Abstract!Assimilate, Abstract!Grows
  <1> QED BY <1>1, <1>2, <1>3, StoresMoveOnlyOnClosing

\* The engine implements the abstract specification of understanding: evidence
\* is only added, and what supports or contradicts a hypothesis grows out of
\* the evidence of the same interaction, together with the model version.
THEOREM EngineImplementsUnderstanding == Spec => ImplementsUnderstanding
  <1>1. SInv /\ SInv' /\ [Next]_vars => [Abstract!Assimilate]_(Abstract!vars)
    BY StepImplementsUnderstanding DEF SInv
  <1> QED BY StoresInductive, InitImplementsUnderstanding, <1>1, PTL
          DEF Spec, ImplementsUnderstanding, Abstract!Spec
(* Identity: what the plan words stays apart from what is committed.        *)

\* The bound the lineage will be kept under.
KeyIn(p, h) == IF p.flights[h].key # NoKey THEN p.flights[h].key ELSE keyOf[h]

SameWords(v, w) == v.text = w.text /\ v.stance = w.stance

\* The plan opposes no held lineage in it, and repeats no statement that is
\* committed under the same bound.
Apart(p) ==
    \A h \in Hypotheses : \A j \in DOMAIN p.versions[h] :
        LET w == p.versions[h][j] IN
        /\ h \in Held => ~Inverts(CurrentStance(h), w.stance)
        /\ \A g \in Hypotheses : \A i \in DOMAIN versions[g] :
              keyOf[g] = KeyIn(p, h) => ~SameWords(versions[g][i], w)

IdentityInv ==
    /\ SInv
    /\ NoInversionBetweenInteractions
    /\ DuplicatesConfinedToOnePlan
    /\ phase # "idle" => Apart(plan)

\* Adding the words of a candidate to a lineage of its bound, which it neither
\* opposes nor repeats.
WordsAnew(q, c, h) ==
    /\ h \in Hypotheses /\ Inexact(c)
    /\ h \in Held => ~Inverts(CurrentStance(h), c.stance)
    /\ q.versions = [plan.versions EXCEPT ![h] = Append(@, VersionOf(c))]
    /\ \A g \in Hypotheses :
          plan.versions[g] # <<>> => KeyIn(q, g) = KeyIn(plan, g)
    /\ KeyIn(q, h) = c.key

\* What the plan's words are after such a step.
LEMMA AnewFields ==
    ASSUME SInv, NEW q, NEW c \in Candidates, NEW h, WordsAnew(q, c, h),
           NEW k \in Hypotheses, NEW j \in DOMAIN q.versions[k]
    PROVE  \/ /\ j \in DOMAIN plan.versions[k]
              /\ q.versions[k][j] = plan.versions[k][j]
              /\ KeyIn(q, k) = KeyIn(plan, k)
           \/ k = h /\ q.versions[k][j] = VersionOf(c) /\ KeyIn(q, k) = c.key
  <1> DEFINE s == plan.versions[k]
             v == VersionOf(c)
  <1>1. plan.versions \in [Hypotheses -> Seq(VersionType)] /\ s \in Seq(VersionType)
    BY PlanFields DEF SInv, IInv, TypeOK
  <1>2. q.versions = [plan.versions EXCEPT ![h] = Append(@, v)] /\ h \in Hypotheses
    BY DEF WordsAnew
  <1>3. \/ j \in DOMAIN s /\ q.versions[k][j] = s[j]
        \/ k = h /\ q.versions[k][j] = v
    <2>1. CASE k # h
      BY <1>1, <1>2, <2>1
    <2>2. CASE k = h
      <3>1. q.versions[k] = Append(s, v)
        BY <1>1, <1>2, <2>2
      <3> HIDE DEF s, v
      <3>2. \/ j \in DOMAIN s /\ Append(s, v)[j] = s[j]
            \/ Append(s, v)[j] = v
        BY <1>1, <3>1
      <3> QED BY <2>2, <3>1, <3>2
    <2> QED BY <2>1, <2>2
  <1>4. j \in DOMAIN s => s # <<>>
    OBVIOUS
  <1> QED BY <1>3, <1>4 DEF WordsAnew

LEMMA WordingKeepsApart ==
    ASSUME SInv, Apart(plan), NEW q, NEW c \in Candidates, NEW h, WordsAnew(q, c, h)
    PROVE  Apart(q)
  <1> SUFFICES ASSUME NEW k \in Hypotheses, NEW j \in DOMAIN q.versions[k]
               PROVE  LET w == q.versions[k][j] IN
                      /\ k \in Held => ~Inverts(CurrentStance(k), w.stance)
                      /\ \A g \in Hypotheses : \A i \in DOMAIN versions[g] :
                            keyOf[g] = KeyIn(q, k) => ~SameWords(versions[g][i], w)
    BY DEF Apart
  <1>1. Inexact(c) /\ (h \in Held => ~Inverts(CurrentStance(h), c.stance))
    BY DEF WordsAnew
  <1>2. CASE /\ j \in DOMAIN plan.versions[k]
             /\ q.versions[k][j] = plan.versions[k][j]
             /\ KeyIn(q, k) = KeyIn(plan, k)
    BY <1>2 DEF Apart
  <1>3. CASE k = h /\ q.versions[k][j] = VersionOf(c) /\ KeyIn(q, k) = c.key
    <2>1. /\ VersionOf(c).stance = c.stance /\ VersionOf(c).text = c.text
      BY DEF VersionOf
    <2>2. ASSUME NEW g \in Hypotheses, NEW i \in DOMAIN versions[g],
                 keyOf[g] = c.key
          PROVE  ~SameWords(versions[g][i], VersionOf(c))
      BY <1>1, <2>1, <2>2 DEF Inexact, CommittedMatches, CommittedUnder, SameWords
    <2> QED BY <1>1, <1>3, <2>1, <2>2
  <1>4. \/ /\ j \in DOMAIN plan.versions[k]
           /\ q.versions[k][j] = plan.versions[k][j]
           /\ KeyIn(q, k) = KeyIn(plan, k)
        \/ k = h /\ q.versions[k][j] = VersionOf(c) /\ KeyIn(q, k) = c.key
    BY AnewFields
  <1> QED BY <1>2, <1>3, <1>4

\* Refining and founding word a lineage anew.
LEMMA RefinesOrFoundsAnew ==
    ASSUME SInv, phase = "appraising", NEW q, NEW c \in Candidates, NEW h,
           Refines(q, c, h) \/ Founds(q, c, h)
    PROVE  WordsAnew(q, c, h)
  <1>1. /\ plan \in PlanType /\ Underway(plan) /\ Kept /\ TypeOK
        /\ FlightsAreNew(plan) /\ Placed(plan) /\ ids.hyp =< plan.ids.hyp
    BY DEF SInv, IInv, TypeOK, Underway
  <1>2. /\ plan.ids.hyp \in Nat /\ ids.hyp \in Nat
        /\ plan.flights \in [Hypotheses -> Candidates \cup {NoFlight}]
        /\ \A g \in Hypotheses : g \in Int
    BY <1>1, PlanFields, StoreFields
  <1>3. \A g \in Hypotheses : g \in Held => plan.flights[g].key = NoKey
    BY <1>1, <1>2, HeldFields DEF FlightsAreNew
  <1>5. CASE Refines(q, c, h)
    <2>1. /\ h \in Hypotheses /\ h \in Plausible(c) /\ Inexact(c)
          /\ ~Inverts(ViewedStance(h), c.stance)
          /\ q.flights = plan.flights
          /\ q.versions = [plan.versions EXCEPT ![h] = Append(@, VersionOf(c))]
      BY <1>5 DEF Refines
    <2>2. h \in Held => ~Inverts(CurrentStance(h), c.stance)
      BY <2>1 DEF ViewedStance
    <2>3. \A g : KeyIn(q, g) = KeyIn(plan, g)
      BY <2>1 DEF KeyIn
    <2>4. c.key # NoKey
      BY CandidateFields
    <2>5. KeyIn(q, h) = c.key
      <3>1. CASE keyOf[h] = c.key
        BY <1>1, <1>3, <2>1, <2>3, <2>4, <3>1, HeldFields DEF KeyIn
      <3>2. CASE plan.flights[h].key = c.key
        BY <2>3, <2>4, <3>2 DEF KeyIn
      <3> QED BY <2>1, <3>1, <3>2 DEF Plausible, CommittedUnder, FlightsUnder
    <2> QED BY <2>1, <2>2, <2>3, <2>5 DEF WordsAnew
  <1>6. CASE Founds(q, c, h)
    <2>1. /\ h \in Hypotheses /\ Inexact(c) /\ h = plan.ids.hyp + 1
          /\ q.flights = [plan.flights EXCEPT ![h] = c]
          /\ q.versions = [plan.versions EXCEPT ![h] = Append(@, VersionOf(c))]
      BY <1>6 DEF Founds
    <2>2. c.key # NoKey /\ q.flights[h] = c
      BY <1>2, <2>1, CandidateFields
    <2>3. ~(h =< ids.hyp) /\ ~(h =< plan.ids.hyp)
      BY <1>1, <1>2, <2>1
    <2>4. h \notin Held /\ plan.flights[h].key = NoKey
      BY <1>1, <2>1, <2>3, HeldFields DEF FlightsAreNew
    <2>5. plan.versions[h] = <<>>
      BY <2>1, <2>4, <1>1 DEF Placed
    <2>6. KeyIn(q, h) = c.key
      BY <2>2 DEF KeyIn
    <2>7. \A g \in Hypotheses : g # h => KeyIn(q, g) = KeyIn(plan, g)
      BY <1>2, <2>1 DEF KeyIn
    <2> QED BY <2>1, <2>4, <2>5, <2>6, <2>7 DEF WordsAnew
  <1> QED BY <1>5, <1>6

LEMMA WordedKeepsApart ==
    ASSUME SInv, phase = "appraising", Apart(plan), NEW q, Worded(q)
    PROVE  Apart(q)
  <1>1. CASE Identity(q) = Identity(plan)
    BY <1>1 DEF Identity, Apart, KeyIn
  <1>2. ASSUME NEW c \in Candidates, NEW h, Refines(q, c, h) \/ Founds(q, c, h)
        PROVE  Apart(q)
    BY <1>2, RefinesOrFoundsAnew, WordingKeepsApart
  <1> QED BY <1>1, <1>2 DEF Worded

\* Where the words of a committed lineage come from.
LEMMA CommittedWords ==
    ASSUME SInv, Commit, NEW h \in Hypotheses, NEW i \in DOMAIN versions'[h]
    PROVE  /\ versions[h] \in Seq(VersionType)
           /\ plan.versions[h] \in Seq(VersionType)
           /\ \/ /\ i \in DOMAIN versions[h]
                 /\ versions'[h][i] = versions[h][i] /\ keyOf'[h] = keyOf[h]
              \/ /\ i \notin DOMAIN versions[h]
                 /\ i - Len(versions[h]) \in DOMAIN plan.versions[h]
                 /\ versions'[h] = versions[h] \o plan.versions[h]
                 /\ versions'[h][i] = plan.versions[h][i - Len(versions[h])]
                 /\ versions'[h][i].at = plan.wm /\ keyOf'[h] = KeyIn(plan, h)
  <1> DEFINE v == versions[h]
             w == plan.versions[h]
  <1>1. v \in Seq(VersionType) /\ w \in Seq(VersionType)
    BY StoreFields, PlanFields DEF SInv, IInv
  <1>2. /\ Underway(plan)
        /\ IF plan.records[h] = <<>>
           THEN keyOf'[h] = keyOf[h] /\ versions'[h] = v
           ELSE keyOf'[h] = KeyIn(plan, h) /\ versions'[h] = v \o w
    BY CommittedFields DEF KeyIn
  <1>3. v # <<>> => KeyIn(plan, h) = keyOf[h]
    <2>1. v # <<>> => h =< ids.hyp
      BY HeldFields DEF SInv, IInv
    <2>2. h \in Int /\ ids.hyp \in Nat
      BY StoreFields DEF SInv, IInv
    <2> QED BY <1>2, <2>1, <2>2 DEF Underway, FlightsAreNew, KeyIn
  <1>4. \A j \in DOMAIN w : w[j].at = plan.wm
    BY <1>2 DEF Underway, Stamped
  <1> HIDE DEF v, w
  <1>5. CASE versions'[h] = v /\ keyOf'[h] = keyOf[h]
    BY <1>1, <1>5 DEF v, w
  <1>6. CASE versions'[h] = v \o w /\ keyOf'[h] = KeyIn(plan, h)
    <2>1. \/ i \in DOMAIN v /\ (v \o w)[i] = v[i]
          \/ /\ i \notin DOMAIN v /\ i - Len(v) \in DOMAIN w
             /\ (v \o w)[i] = w[i - Len(v)]
      BY <1>1, <1>6, Concatenation
    <2>2. CASE i \in DOMAIN v /\ (v \o w)[i] = v[i]
      <3>1. v # <<>>
        BY <2>2
      <3> QED BY <1>1, <1>3, <1>6, <2>2, <3>1 DEF v, w
    <2>3. CASE i \notin DOMAIN v /\ i - Len(v) \in DOMAIN w
               /\ (v \o w)[i] = w[i - Len(v)]
      BY <1>1, <1>4, <1>6, <2>3 DEF v, w
    <2> QED BY <2>1, <2>2, <2>3
  <1> QED BY <1>2, <1>5, <1>6

LEMMA CommitKeepsStances ==
    ASSUME IdentityInv, Commit
    PROVE  NoInversionBetweenInteractions'
  <1> SUFFICES ASSUME NEW h \in Hypotheses, NEW i \in DOMAIN versions'[h],
                      i > 1, versions'[h][i].at # versions'[h][i - 1].at
               PROVE  ~Inverts(versions'[h][i - 1].stance, versions'[h][i].stance)
    BY DEF NoInversionBetweenInteractions
  <1> DEFINE v == versions[h]
             w == plan.versions[h]
  <1>1. SInv /\ Apart(plan) /\ NoInversionBetweenInteractions
    BY DEF IdentityInv, Commit, Planned
  <1>2. v \in Seq(VersionType) /\ w \in Seq(VersionType)
    BY <1>1, CommittedWords
  <1>3. i - 1 \in DOMAIN versions'[h] /\ i \in Int
    <2>1. versions' \in [Hypotheses -> Seq(VersionType)]
      BY <1>1, CommitKeepsIInv DEF SInv, IInv, TypeOK
    <2>2. versions'[h] \in Seq(VersionType)
      BY <2>1
    <2> HIDE DEF v, w
    <2> QED BY <2>2
  <1>4. CASE i \in DOMAIN v /\ versions'[h][i] = v[i]
    <2>1. i - 1 \in DOMAIN v
      BY <1>2, <1>4
    <2>2. versions'[h][i - 1] = v[i - 1]
      BY <1>1, <1>3, <2>1, CommittedWords
    <2> QED BY <1>1, <1>4, <2>2 DEF NoInversionBetweenInteractions
  <1>5. CASE /\ i \notin DOMAIN v /\ i - Len(v) \in DOMAIN w
             /\ versions'[h][i] = w[i - Len(v)]
             /\ versions'[h][i].at = plan.wm
    <2>1. i - 1 \in DOMAIN v /\ versions'[h][i - 1] = v[i - 1]
      BY <1>1, <1>3, <1>5, CommittedWords
    <2>2. i - 1 = Len(v) /\ v # <<>>
      <3>1. v \in Seq(VersionType) /\ i \in Int
            /\ i - 1 \in DOMAIN v /\ i \notin DOMAIN v
        BY <1>2, <1>3, <1>5, <2>1
      <3> HIDE DEF v
      <3> QED BY <3>1
    <2>3. h \in Held /\ v[Len(v)].stance = CurrentStance(h)
      BY <1>1, <2>2, HeldFields DEF SInv, IInv, CurrentStance
    <2>4. ~Inverts(CurrentStance(h), w[i - Len(v)].stance)
      BY <1>1, <1>5, <2>3 DEF Apart
    <2> QED BY <1>5, <2>1, <2>2, <2>3, <2>4
  <1> QED BY <1>1, <1>4, <1>5, CommittedWords

LEMMA CommitKeepsLineagesApart ==
    ASSUME IdentityInv, Commit
    PROVE  DuplicatesConfinedToOnePlan'
  <1> DEFINE Same(g, i, h, j) == /\ keyOf'[g] = keyOf'[h]
                                 /\ SameWords(versions'[g][i], versions'[h][j])
  <1> SUFFICES ASSUME NEW g \in Hypotheses, NEW h \in Hypotheses,
                      NEW i \in DOMAIN versions'[g], NEW j \in DOMAIN versions'[h],
                      g # h, Same(g, i, h, j)
               PROVE  versions'[g][i].at = versions'[h][j].at
    BY DEF DuplicatesConfinedToOnePlan, SameStatement, SameWords
  <1> DEFINE Old(k, n) == /\ n \in DOMAIN versions[k]
                          /\ versions'[k][n] = versions[k][n]
                          /\ keyOf'[k] = keyOf[k]
             New(k, n) == /\ n - Len(versions[k]) \in DOMAIN plan.versions[k]
                          /\ versions'[k][n] = plan.versions[k][n - Len(versions[k])]
                          /\ versions'[k][n].at = plan.wm
                          /\ keyOf'[k] = KeyIn(plan, k)
  <1>1. SInv /\ Apart(plan) /\ DuplicatesConfinedToOnePlan
    BY DEF IdentityInv, Commit, Planned
  <1>2. (Old(g, i) \/ New(g, i)) /\ (Old(h, j) \/ New(h, j))
    BY <1>1, CommittedWords
  <1>3. CASE Old(g, i) /\ Old(h, j)
    <2>1. SameStatement(g, i, h, j)
      BY <1>3 DEF SameStatement, SameWords
    <2> QED BY <1>1, <1>3, <2>1 DEF DuplicatesConfinedToOnePlan
  <1>4. ASSUME NEW k \in Hypotheses, NEW l \in Hypotheses,
               NEW m, NEW n, Old(k, m), New(l, n), keyOf'[k] = keyOf'[l]
        PROVE  ~SameWords(versions'[k][m], versions'[l][n])
    BY <1>1, <1>4 DEF Apart
  <1>5. CASE Old(g, i) /\ New(h, j)
    BY <1>4, <1>5
  <1>6. CASE New(g, i) /\ Old(h, j)
    BY <1>4, <1>6 DEF SameWords
  <1>7. CASE New(g, i) /\ New(h, j)
    BY <1>7
  <1> QED BY <1>2, <1>3, <1>5, <1>6, <1>7

\* While the stores stand still, so does what they say of the plan.
LEMMA ApartCarries ==
    ASSUME UNCHANGED stores, Apart(plan')
    PROVE  Apart(plan)'
  BY DEF Apart, stores, Held, CurrentStance, KeyIn

LEMMA NextIdentityInv == IdentityInv /\ SInv' /\ [Next]_vars => IdentityInv'
  <1> SUFFICES ASSUME IdentityInv, SInv', [Next]_vars PROVE IdentityInv'
    OBVIOUS
  <1>1. SInv /\ (phase # "idle" => Apart(plan))
    BY DEF IdentityInv
  <1>a. ASSUME UNCHANGED <<keyOf, versions>>
        PROVE  NoInversionBetweenInteractions' /\ DuplicatesConfinedToOnePlan'
    BY <1>a DEF IdentityInv, NoInversionBetweenInteractions,
                DuplicatesConfinedToOnePlan, SameStatement
  <1>b. ASSUME UNCHANGED stores, phase' # "idle" => Apart(plan')
        PROVE  IdentityInv'
    BY <1>a, <1>b, ApartCarries DEF stores, IdentityInv
  <1>2. CASE RecordInteraction
    <2>1. /\ UNCHANGED stores
          /\ plan'.versions = [h \in Hypotheses |-> <<>>]
      BY <1>1, <1>2, OpeningFields DEF SInv
    <2>2. \A h \in Hypotheses : DOMAIN plan'.versions[h] = {}
      BY <2>1
    <2>3. Apart(plan')
      BY <2>2 DEF Apart
    <2> QED BY <1>b, <2>1, <2>3
  <1>3. CASE SkipObservation \/ Appraise \/ EndObservation
    <2>1. phase # "idle" /\ UNCHANGED stores /\ Identity(plan') = Identity(plan)
      BY <1>1, <1>3, MovingOnFields DEF SInv
    <2>2. Apart(plan')
      BY <1>1, <2>1 DEF Apart, Identity, KeyIn
    <2> QED BY <1>b, <2>1, <2>2
  <1>4. CASE Adjudicate \/ Bear
    <2>1. /\ phase = "appraising" /\ UNCHANGED stores
          /\ plan' \in PlanType /\ Worded(plan')
      BY <1>1, <1>4, AdjudicateIsTurn, BearIsTurn
    <2>2. Apart(plan')
      BY <1>1, <2>1, WordedKeepsApart
    <2> QED BY <1>b, <2>1, <2>2
  <1>5. CASE RejectAppraisal \/ Breach \/ RejectPlan \/ Interrupt
    BY <1>b, <1>5 DEF RejectAppraisal, Breach, RejectPlan, Interrupt, Abandon, Close
  <1>6. CASE Hold
    BY <1>a, <1>6 DEF Hold, Close, IdentityInv
  <1>7. CASE Commit
    <2>1. phase' = "idle"
      BY <1>7 DEF Commit, Close
    <2> QED BY <1>7, <2>1, CommitKeepsStances, CommitKeepsLineagesApart
            DEF IdentityInv
  <1>8. CASE UNCHANGED vars
    <2>1. UNCHANGED stores /\ phase' = phase /\ plan' = plan
      BY <1>8 DEF vars
    <2>2. phase' # "idle" => Apart(plan')
      BY <1>1, <2>1
    <2> QED BY <1>b, <2>1, <2>2
  <1> QED BY <1>2, <1>3, <1>4, <1>5, <1>6, <1>7, <1>8
          DEF Next, Step, NoMoreCalls

LEMMA InitIdentityInv == Init => IdentityInv
  <1> SUFFICES ASSUME Init PROVE IdentityInv
    OBVIOUS
  <1>1. phase = "idle" /\ \A h \in Hypotheses : DOMAIN versions[h] = {}
    BY DEF Init
  <1> QED BY <1>1, InitSInv DEF IdentityInv, NoInversionBetweenInteractions,
                                DuplicatesConfinedToOnePlan

\* The invariant behind the next two theorems: what a plan words neither opposes
\* the lineage it words nor repeats what is committed under the same bound.
THEOREM IdentityInductive == Spec => []IdentityInv
  BY StoresInductive, InitIdentityInv, NextIdentityInv, PTL DEF Spec

\* No lineage inverts its own stance from one interaction to the next, whether
\* it was matched, refined or merged in between (R1a).
THEOREM StancesKeptBetweenInteractions == Spec => []NoInversionBetweenInteractions
  <1>1. IdentityInv => NoInversionBetweenInteractions
    BY DEF IdentityInv
  <1> QED BY IdentityInductive, <1>1, PTL

\* Two lineages of a bound share a statement only if one plan gave it to both:
\* exact match sees every committed version (F-2).
THEOREM LineagesStayApart == Spec => []DuplicatesConfinedToOnePlan
  <1>1. IdentityInv => DuplicatesConfinedToOnePlan
    BY DEF IdentityInv
  <1> QED BY IdentityInductive, <1>1, PTL

-----------------------------------------------------------------------------
(* The ledger and what it agrees with.                                      *)

AllOutcomes == CommitOutcomes = Outcomes

(* What the appraiser has said in this interaction: the observations dealt  *)
(* with and the one under appraisal.                                        *)

Saying(p) == [proposals |-> p.proposals, bearings |-> p.bearings]
Heard(p, ph) == {p.appraised[i] : i \in DOMAIN p.appraised}
                   \cup (IF ph = "appraising" THEN {Saying(p)} ELSE {})
Repeats(p, ph) == \E obs \in Heard(p, ph) : RepeatedHandle(obs)
Said(p, ph, key, stance) ==
    \E obs \in Heard(p, ph) : \E j \in DOMAIN obs.proposals :
        obs.proposals[j].key = key /\ obs.proposals[j].stance = stance

Supporting == {"hypothesize", "strengthen"}
Weakening == {"weaken", "contradict"}

(* One effect per observation and lineage.                                  *)

\* What an event announces is in the plan's working evaluations.
Shown(p) ==
    \A i \in DOMAIN p.events :
        LET e == p.events[i] IN
        /\ e.by \in Fresh
        /\ e.outcome \in Supporting => e.by \in p.working[e.hyp].pro
        /\ e.outcome \in Weakening => e.by \in p.working[e.hyp].con

\* The observation under appraisal contradicts only what it has a bearing on.
Borne(p) ==
    \A h \in Hypotheses : Ev \in p.working[h].con =>
        \E i \in DOMAIN p.bearings : p.bearings[i].hyp = h

\* The plan repeats an effect only where the appraiser repeats a handle.
PlannedOnce(p, ph) ==
    \A i, j \in DOMAIN p.events :
        p.events[i].hyp = p.events[j].hyp /\ p.events[i].by = p.events[j].by
            => i = j \/ Repeats(p, ph)

EffectInv ==
    /\ SInv
    /\ OneEffectPerObservation
    /\ \A i \in DOMAIN ledger : ledger[i].by =< ids.evidence
    /\ phase # "idle" => Shown(plan) /\ PlannedOnce(plan, phase)
    /\ phase = "appraising" => Borne(plan)

(* The stores tell one story, and the plan continues it.                    *)

EventsIn(led, h) == {i \in DOMAIN led : led[i].hyp = h}
ByIn(led, h, S) == {led[i].by : i \in {j \in EventsIn(led, h) :
                                          led[j].outcome \in S}}
LastOf(s) == IF s = <<>> THEN NoRecord ELSE s[Len(s)]
Chained(s) == \A i \in DOMAIN s : s[i].prev = IF i = 1 THEN 0 ELSE s[i - 1].id

\* The ledger led explains the evaluations s of h.
Explains(led, h, s) ==
    /\ Cardinality(EventsIn(led, h)) = Len(s)
    /\ LastOf(s).pro = ByIn(led, h, Supporting)
    /\ LastOf(s).con = ByIn(led, h, Weakening)
    /\ Chained(s)

EdgesOf(led) == {<<led[i].by,
                   IF led[i].outcome \in Supporting
                   THEN "supports" ELSE "contradicts",
                   led[i].hyp>> : i \in DOMAIN led}

\* Were the plan committed now, the ledger would explain its records.
Continues(p) ==
    \A h \in Hypotheses :
        /\ Explains(ledger \o p.events, h, records[h] \o p.records[h])
        /\ p.working[h] = LastOf(records[h] \o p.records[h])

StoryInv ==
    /\ AllOutcomes /\ EffectInv
    /\ \A h \in Hypotheses : Explains(ledger, h, records[h])
    /\ edges = EdgesOf(ledger)
    /\ ModelRereadsStore
    /\ phase # "idle" => Continues(plan) /\ plan.edges = EdgesOf(plan.events)

(* Anomalies.                                                               *)

AnnouncedIn(led) == {<<led[i].by, led[i].hyp>> :
                        i \in {j \in DOMAIN led : led[j].anomalous}}
WeakenedIn(led) == {<<led[i].by, led[i].hyp>> :
                        i \in {j \in DOMAIN led : led[j].outcome \in Weakening}}
About(as, S) == {<<a.by, a.hyp>> : a \in {b \in as : b.disposition \in S}}

\* What the plan notes as anomalies and what its events announce agree.
Agreeing(p, ph) ==
    /\ AnnouncedIn(p.events) = About(p.anomalies, {"revise"})
    /\ \/ WeakenedIn(p.events)
             \cap About(p.anomalies, {"escalate", "reject"}) = {}
       \/ Repeats(p, ph)

\* An anomaly of the observation under appraisal comes from a bearing.
Reported(p) ==
    \A a \in p.anomalies : a.by = Ev =>
        \E i \in DOMAIN p.bearings : p.bearings[i].hyp = a.hyp

AnomalyInv ==
    /\ StoryInv
    /\ AnomaliesDecide
    /\ \A a \in anomalies : a.by =< ids.evidence
    /\ phase # "idle" => /\ Agreeing(plan, phase)
                         /\ \A a \in plan.anomalies : a.by \in Fresh
    /\ phase = "appraising" => Reported(plan)

(* Opposition.                                                              *)

\* A contradiction the appraiser reported left an edge or an anomaly.
Answered(p, h) ==
    \/ \E e \in p.edges : e[2] = "contradicts" /\ e[3] = h
    \/ \E a \in p.anomalies : a.hyp = h

AllAnswered(p, ph) ==
    \A obs \in Heard(p, ph) : \A i \in DOMAIN obs.bearings :
        obs.bearings[i].kind = "contradicts" => Answered(p, obs.bearings[i].hyp)

\* What the plan words or parks, the appraiser said.
AllSaid(p, ph) ==
    /\ \A h \in Hypotheses : \A j \in DOMAIN p.versions[h] :
          Said(p, ph, KeyIn(p, h), p.versions[h][j].stance)
    /\ \A q \in p.parked : Said(p, ph, q.key, q.stance)

OppositionInv ==
    /\ AnomalyInv
    /\ phase # "idle" => AllAnswered(plan, phase) /\ AllSaid(plan, phase)
----------------------------------------------------------------------------
(* Sequences and what a step makes of the plan's events and bearings.       *)

\* Where the elements of a sequence with one more come from.
LEMMA Appending ==
    ASSUME NEW S, NEW s \in Seq(S), NEW e
    PROVE  /\ \A i \in DOMAIN Append(s, e) :
                 \/ i \in DOMAIN s /\ Append(s, e)[i] = s[i]
                 \/ i = Len(s) + 1 /\ Append(s, e)[i] = e
           /\ \A i \in DOMAIN s : /\ i \in DOMAIN Append(s, e)
                                  /\ Append(s, e)[i] = s[i]
           /\ Len(s) + 1 \in DOMAIN Append(s, e)
           /\ Append(s, e)[Len(s) + 1] = e
           /\ Len(s) + 1 \notin DOMAIN s
           /\ Len(Append(s, e)) = Len(s) + 1
           /\ e \in S => Append(s, e) \in Seq(S)
  OBVIOUS

LEMMA EventFields ==
    ASSUME NEW e \in EventType
    PROVE  /\ e.hyp \in Hypotheses /\ e.outcome \in Outcomes /\ e.by \in Nat
           /\ e.outcome \in Supporting \/ e.outcome \in Weakening
           /\ ~(e.outcome \in Supporting /\ e.outcome \in Weakening)
           /\ e.anomalous \in BOOLEAN
  BY DEF EventType, Outcomes, Supporting, Weakening

\* What a turn announces.
LEMMA TurnAnnounces ==
    ASSUME SInv, phase = "appraising", NEW q \in PlanType,
           NEW h, NEW r, NEW what, NEW anomalous, NEW rel,
           TurnOf(q, h, r, what, anomalous, rel)
    PROVE  LET e == EventOf(plan, h, what, anomalous) IN
           /\ plan.events \in Seq(EventType)
           /\ e \in EventType
           /\ e.hyp = h /\ e.by = Ev /\ e.outcome = what
           /\ e.anomalous = anomalous
           /\ q.events = plan.events \/ q.events = Append(plan.events, e)
  <1>1. /\ h \in Hypotheses /\ what \in Outcomes /\ anomalous \in BOOLEAN
        /\ \/ q.events = plan.events
           \/ q.events = Append(plan.events, EventOf(plan, h, what, anomalous))
    BY TurnFields
  <1>2. plan \in PlanType /\ Ev \in Nat
    BY UnderAppraisalIsFresh DEF SInv, IInv, TypeOK
  <1>3. plan.wm \in Nat /\ plan.events \in Seq(EventType)
    BY <1>2, PlanFields
  <1> QED BY <1>1, <1>2, <1>3 DEF EventOf, EventType

\* An observation that repeats a handle still does when more is said.
LEMMA RepeatsGrow ==
    ASSUME plan \in PlanType, NEW q \in PlanType, q.appraised = plan.appraised,
           q.bearings = plan.bearings \/ \E h, kind : Bears(q, h, kind),
           Repeats(plan, "appraising")
    PROVE  Repeats(q, "appraising")
  <1>1. PICK obs \in Heard(plan, "appraising") : RepeatedHandle(obs)
    BY DEF Repeats
  <1>2. CASE obs = Saying(plan)
    <2>1. plan.bearings \in Seq(BearingType)
      BY PlanFields
    <2>2. PICK i \in DOMAIN plan.bearings, j \in DOMAIN plan.bearings :
              i # j /\ plan.bearings[i].hyp = plan.bearings[j].hyp
      BY <1>1, <1>2 DEF RepeatedHandle, Saying
    <2>3. \A k \in DOMAIN plan.bearings :
              k \in DOMAIN q.bearings /\ q.bearings[k] = plan.bearings[k]
      <3>1. CASE q.bearings = plan.bearings
        BY <3>1
      <3>2. ASSUME NEW h, NEW kind, Bears(q, h, kind)
            PROVE  \A k \in DOMAIN plan.bearings :
                      k \in DOMAIN q.bearings /\ q.bearings[k] = plan.bearings[k]
        <4> DEFINE b == [hyp |-> h, kind |-> kind]
        <4>1. q.bearings = Append(plan.bearings, b)
          BY <3>2 DEF Bears
        <4> HIDE DEF b
        <4> QED BY <2>1, <4>1, Appending
      <3> QED BY <3>1, <3>2
    <2>4. RepeatedHandle(Saying(q))
      BY <2>2, <2>3 DEF RepeatedHandle, Saying
    <2> QED BY <2>4 DEF Repeats, Heard
  <1>3. CASE obs \in Heard(q, "appraising")
    BY <1>1, <1>3 DEF Repeats
  <1> QED BY <1>1, <1>2, <1>3 DEF Heard

\* A second bearing on one hypothesis repeats its handle.
LEMMA SecondBearingRepeats ==
    ASSUME plan \in PlanType, NEW q, NEW h, NEW kind, Bears(q, h, kind),
           NEW i \in DOMAIN plan.bearings, plan.bearings[i].hyp = h
    PROVE  Repeats(q, "appraising")
  <1> DEFINE s == plan.bearings
             b == [hyp |-> h, kind |-> kind]
  <1>1. s \in Seq(BearingType) /\ b.hyp = h
    BY PlanFields
  <1>2. q.bearings = Append(s, b)
    BY DEF Bears
  <1> HIDE DEF b
  <1>3. /\ i \in DOMAIN q.bearings /\ q.bearings[i] = s[i]
        /\ Len(s) + 1 \in DOMAIN q.bearings /\ q.bearings[Len(s) + 1] = b
        /\ i # Len(s) + 1
    BY <1>1, <1>2, Appending
  <1>4. RepeatedHandle(Saying(q))
    BY <1>1, <1>3 DEF RepeatedHandle, Saying
  <1> QED BY <1>4 DEF Repeats, Heard

\* What a turn makes of the bearings.
LEMMA TurnBears ==
    ASSUME NEW q, Turned(q)
    PROVE  q.bearings = plan.bearings \/ \E h, kind : Bears(q, h, kind)
  BY DEF Turned, Noted, TurnsFor, TurnsAgainst
----------------------------------------------------------------------------
(* One effect per observation and lineage: any commit policy.               *)

LEMMA OutcomesSplit ==
    \A what : what \in {"hypothesize", "strengthen"} <=> what \in Supporting
  BY DEF Supporting

\* A turn keeps what is shown and what is borne.
LEMMA TurnShows ==
    ASSUME SInv, phase = "appraising", NEW q \in PlanType, Turned(q),
           Shown(plan)
    PROVE  Shown(q)
  <1>1. CASE Noted(q)
    BY <1>1 DEF Noted, Remarked, Evaluations, Shown
  <1>2. ASSUME NEW h, NEW r, NEW what, NEW anomalous, NEW rel,
               TurnOf(q, h, r, what, anomalous, rel)
        PROVE  Shown(q)
    <2> DEFINE e == EventOf(plan, h, what, anomalous)
    <2>1. /\ plan.events \in Seq(EventType) /\ e \in EventType
          /\ e.hyp = h /\ e.by = Ev /\ e.outcome = what
          /\ q.events = plan.events \/ q.events = Append(plan.events, e)
      BY <1>2, TurnAnnounces
    <2>2. /\ q.working[h] = r /\ GrowsFrom(plan.working[h], r)
          /\ \A g \in Hypotheses : g # h => q.working[g] = plan.working[g]
      BY <1>2, TurnFields
    <2>3. \A g \in Hypotheses : /\ plan.working[g].pro \subseteq q.working[g].pro
                                /\ plan.working[g].con \subseteq q.working[g].con
      BY <2>2 DEF GrowsFrom
    <2>4. /\ e.by \in Fresh
          /\ e.outcome \in Supporting => e.by \in q.working[e.hyp].pro
          /\ e.outcome \in Weakening => e.by \in q.working[e.hyp].con
      BY <1>2, <2>1, <2>2, UnderAppraisalIsFresh
         DEF SInv, TurnOf, Supporting, Weakening
    <2> HIDE DEF e
    <2>5. ASSUME NEW i \in DOMAIN plan.events
          PROVE  LET f == plan.events[i] IN
                 /\ f.by \in Fresh
                 /\ f.outcome \in Supporting => f.by \in q.working[f.hyp].pro
                 /\ f.outcome \in Weakening => f.by \in q.working[f.hyp].con
      <3>1. plan.events[i] \in EventType
        BY <2>1
      <3>2. plan.events[i].hyp \in Hypotheses
        BY <3>1, EventFields
      <3> QED BY <2>3, <3>2 DEF Shown
    <2>6. ASSUME NEW i \in DOMAIN q.events
          PROVE  \/ i \in DOMAIN plan.events /\ q.events[i] = plan.events[i]
                 \/ q.events[i] = e
      BY <2>1, Appending
    <2> QED BY <2>4, <2>5, <2>6 DEF Shown
  <1> QED BY <1>1, <1>2 DEF Turned, TurnsFor, TurnsAgainst

LEMMA TurnKeepsBorne ==
    ASSUME SInv, phase = "appraising", NEW q \in PlanType, Turned(q),
           Borne(plan)
    PROVE  Borne(q)
  <1>1. plan.bearings \in Seq(BearingType)
    BY PlanFields DEF SInv, IInv, TypeOK
  <1>2. ASSUME NEW i \in DOMAIN plan.bearings
        PROVE  i \in DOMAIN q.bearings /\ q.bearings[i] = plan.bearings[i]
    <2>1. ASSUME NEW h, NEW kind, Bears(q, h, kind)
          PROVE  i \in DOMAIN q.bearings /\ q.bearings[i] = plan.bearings[i]
      <3> DEFINE b == [hyp |-> h, kind |-> kind]
      <3>1. q.bearings = Append(plan.bearings, b)
        BY <2>1 DEF Bears
      <3> HIDE DEF b
      <3> QED BY <1>1, <1>2, <3>1, Appending
    <2> QED BY <1>2, <2>1, TurnBears
  <1>3. ASSUME NEW g \in Hypotheses, Ev \in plan.working[g].con
        PROVE  \E i \in DOMAIN q.bearings : q.bearings[i].hyp = g
    BY <1>2, <1>3 DEF Borne
  <1>4. CASE Noted(q)
    BY <1>3, <1>4 DEF Noted, Remarked, Evaluations, Borne
  <1>5. ASSUME NEW h, NEW r, NEW what, NEW anomalous, NEW rel,
               TurnOf(q, h, r, what, anomalous, rel),
               Ev \in r.con =>
                  \/ Ev \in plan.working[h].con
                  \/ \E i \in DOMAIN q.bearings : q.bearings[i].hyp = h
        PROVE  Borne(q)
    <2>1. /\ q.working[h] = r
          /\ \A g \in Hypotheses : g # h => q.working[g] = plan.working[g]
      BY <1>5, TurnFields
    <2> QED BY <1>3, <1>5, <2>1 DEF Borne
  <1>6. ASSUME NEW h, NEW r, NEW what, TurnsFor(q, h, r, what)
        PROVE  Borne(q)
    BY <1>5, <1>6 DEF TurnsFor, TurnOf
  <1>7. ASSUME NEW h, NEW r, NEW what, NEW anomalous, NEW kind,
               TurnsAgainst(q, h, r, what, anomalous, kind)
        PROVE  Borne(q)
    <2> DEFINE b == [hyp |-> h, kind |-> kind]
    <2>1. q.bearings = Append(plan.bearings, b) /\ b.hyp = h
      BY <1>7 DEF TurnsAgainst, Bears
    <2> HIDE DEF b
    <2>2. \E i \in DOMAIN q.bearings : q.bearings[i] = b
      BY <1>1, <2>1, Appending
    <2>3. \E i \in DOMAIN q.bearings : q.bearings[i].hyp = h
      BY <2>1, <2>2
    <2> QED BY <1>5, <1>7, <2>3 DEF TurnsAgainst
  <1> QED BY <1>4, <1>6, <1>7 DEF Turned

\* A turn on h the observation already had an effect on repeats a handle.
LEMMA SecondEffectRepeats ==
    ASSUME SInv, phase = "appraising", NEW q \in PlanType,
           Shown(plan), Borne(plan),
           NEW h, NEW r, NEW what, NEW anomalous, NEW rel,
           TurnOf(q, h, r, what, anomalous, rel),
           rel = "contradicts" => \E kind : Bears(q, h, kind),
           NEW i \in DOMAIN plan.events,
           plan.events[i].hyp = h, plan.events[i].by = Ev
    PROVE  Repeats(q, "appraising")
  <1>1. plan \in PlanType /\ plan.events \in Seq(EventType)
    BY PlanFields DEF SInv, IInv, TypeOK
  <1>2. plan.events[i] \in EventType
    BY <1>1
  <1>3. Ev \in plan.working[h].pro \cup plan.working[h].con
    BY <1>2, EventFields DEF Shown
  <1>4. rel = "contradicts" /\ Ev \in plan.working[h].con /\ h \in Hypotheses
    BY <1>3 DEF TurnOf
  <1>5. PICK j \in DOMAIN plan.bearings : plan.bearings[j].hyp = h
    BY <1>4 DEF Borne
  <1> QED BY <1>1, <1>4, <1>5, SecondBearingRepeats

LEMMA TurnPlansOnce ==
    ASSUME SInv, phase = "appraising", NEW q \in PlanType, Turned(q),
           q.appraised = plan.appraised,
           Shown(plan), Borne(plan), PlannedOnce(plan, "appraising")
    PROVE  PlannedOnce(q, "appraising")
  <1>1. plan \in PlanType
    BY DEF SInv, IInv, TypeOK
  <1>2. Repeats(plan, "appraising") => Repeats(q, "appraising")
    BY <1>1, TurnBears, RepeatsGrow
  <1>3. CASE q.events = plan.events
    BY <1>2, <1>3 DEF PlannedOnce
  <1>4. ASSUME NEW h, NEW r, NEW what, NEW anomalous, NEW rel,
               TurnOf(q, h, r, what, anomalous, rel),
               rel = "contradicts" => \E kind : Bears(q, h, kind)
        PROVE  PlannedOnce(q, "appraising")
    <2> DEFINE e == EventOf(plan, h, what, anomalous)
               s == plan.events
    <2>1. /\ s \in Seq(EventType) /\ e.hyp = h /\ e.by = Ev
          /\ q.events = s \/ q.events = Append(s, e)
      BY <1>4, TurnAnnounces
    <2>2. ASSUME NEW i \in DOMAIN s, s[i].hyp = e.hyp, s[i].by = e.by
          PROVE  Repeats(q, "appraising")
      BY <1>4, <2>1, <2>2, SecondEffectRepeats
    <2>3. ASSUME NEW i \in DOMAIN s, NEW j \in DOMAIN s,
                 s[i].hyp = s[j].hyp, s[i].by = s[j].by
          PROVE  i = j \/ Repeats(q, "appraising")
      BY <1>2, <2>3 DEF PlannedOnce
    <2> HIDE DEF e, s
    <2>4. CASE q.events = Append(s, e)
      <3> SUFFICES ASSUME NEW i \in DOMAIN q.events, NEW j \in DOMAIN q.events,
                          q.events[i].hyp = q.events[j].hyp,
                          q.events[i].by = q.events[j].by
                   PROVE  i = j \/ Repeats(q, "appraising")
        BY DEF PlannedOnce
      <3>1. \A k \in DOMAIN q.events :
                \/ k \in DOMAIN s /\ q.events[k] = s[k]
                \/ k = Len(s) + 1 /\ q.events[k] = e
        BY <2>1, <2>4, Appending
      <3> QED BY <2>2, <2>3, <3>1
    <2>5. CASE q.events = s
      BY <1>3, <2>5 DEF s
    <2> QED BY <2>1, <2>4, <2>5
  <1>5. CASE Noted(q)
    BY <1>3, <1>5 DEF Noted, Remarked, Evaluations
  <1>6. ASSUME NEW h, NEW r, NEW what, TurnsFor(q, h, r, what)
        PROVE  PlannedOnce(q, "appraising")
    BY <1>4, <1>6 DEF TurnsFor
  <1>7. ASSUME NEW h, NEW r, NEW what, NEW anomalous, NEW kind,
               TurnsAgainst(q, h, r, what, anomalous, kind)
        PROVE  PlannedOnce(q, "appraising")
    BY <1>4, <1>7 DEF TurnsAgainst
  <1> QED BY <1>5, <1>6, <1>7 DEF Turned

LEMMA TurnKeepsEffects ==
    ASSUME EffectInv, SInv', Adjudicate \/ Bear
    PROVE  EffectInv'
  <1>1. SInv
    BY DEF EffectInv
  <1>2. /\ phase = "appraising" /\ UNCHANGED <<stores, ids, phase, outcome>>
        /\ plan' \in PlanType /\ Frame(plan') = Frame(plan) /\ Turned(plan')
    BY <1>1, AdjudicateIsTurn, BearIsTurn
  <1>3. Shown(plan) /\ PlannedOnce(plan, "appraising") /\ Borne(plan)
    BY <1>2 DEF EffectInv
  <1>4. plan'.appraised = plan.appraised /\ plan'.index = plan.index
    BY <1>2 DEF Frame
  <1>5. Ev' = Ev /\ Fresh' = Fresh
    BY <1>2, <1>4 DEF Ev, Fresh
  <1>6. Shown(plan') /\ Borne(plan') /\ PlannedOnce(plan', "appraising")
    BY <1>1, <1>2, <1>3, <1>4, TurnShows, TurnKeepsBorne, TurnPlansOnce
  <1>7. Shown(plan)' /\ Borne(plan)'
    BY <1>5, <1>6 DEF Shown, Borne
  <1>8. PlannedOnce(plan, phase)'
    BY <1>2, <1>6 DEF PlannedOnce, Repeats, Heard
  <1>9. OneEffectPerObservation' /\ (\A i \in DOMAIN ledger : ledger[i].by =< ids.evidence)'
    BY <1>2 DEF EffectInv, OneEffectPerObservation, stores
  <1> QED BY <1>7, <1>8, <1>9 DEF EffectInv

\* What has been heard, as one moves on.
LEMMA MovingOnHears ==
    ASSUME IInv, SkipObservation \/ Appraise \/ EndObservation
    PROVE  /\ Heard(plan, phase) \subseteq Heard(plan', phase')
           /\ Heard(plan', phase') \subseteq Heard(plan, phase)
                 \cup {[proposals |-> <<>>, bearings |-> <<>>]}
  <1>1. plan \in PlanType
    BY DEF IInv, TypeOK
  <1>2. CASE SkipObservation
    BY <1>1, <1>2 DEF SkipObservation, PlanType, Heard
  <1>3. CASE Appraise
    <2>1. /\ plan'.appraised = plan.appraised /\ plan'.proposals = <<>>
          /\ plan'.bearings = <<>>
          /\ phase = "planning" /\ phase' = "appraising"
      BY <1>1, <1>3 DEF Appraise, PlanType
    <2> QED BY <2>1 DEF Heard, Saying
  <1>4. CASE EndObservation
    <2> DEFINE s == plan.appraised
               obs == Saying(plan)
    <2>1. /\ plan'.appraised = Append(s, obs)
          /\ phase = "appraising" /\ phase' = "planning"
      BY <1>1, <1>4 DEF EndObservation, PlanType, Saying
    <2>2. s \in Seq(ObservationType)
      BY <1>1, PlanFields
    <2> HIDE DEF obs
    <2>3. {plan'.appraised[i] : i \in DOMAIN plan'.appraised}
            = {s[i] : i \in DOMAIN s} \cup {obs}
      <3> DEFINE t == Append(s, obs)
      <3>0. Len(s) + 1 \in DOMAIN t /\ t[Len(s) + 1] = obs
        BY <2>2, Appending
      <3>1. /\ \A i \in DOMAIN t : \/ i \in DOMAIN s /\ t[i] = s[i]
                                   \/ t[i] = obs
            /\ \A i \in DOMAIN s : i \in DOMAIN t /\ t[i] = s[i]
            /\ \E i \in DOMAIN t : t[i] = obs
        BY <2>2, <3>0, Appending
      <3> HIDE DEF s, t
      <3>2. {t[i] : i \in DOMAIN t} = {s[i] : i \in DOMAIN s} \cup {obs}
        BY <3>1
      <3> QED BY <2>1, <3>2 DEF t, s
    <2> QED BY <2>1, <2>3 DEF Heard, obs
  <1> QED BY <1>2, <1>3, <1>4

LEMMA MovingOnRepeats ==
    ASSUME IInv, SkipObservation \/ Appraise \/ EndObservation
    PROVE  Repeats(plan, phase) => Repeats(plan', phase')
  BY MovingOnHears DEF Repeats

LEMMA MovingOnKeepsEffects ==
    ASSUME EffectInv, SInv', SkipObservation \/ Appraise \/ EndObservation
    PROVE  EffectInv'
  <1>1. SInv /\ IInv
    BY DEF EffectInv, SInv
  <1>2. /\ phase # "idle" /\ UNCHANGED <<stores, ids, outcome>>
        /\ Evaluations(plan') = Evaluations(plan)
        /\ plan'.index \in Nat /\ plan.index =< plan'.index
    BY <1>1, MovingOnFields
  <1>3. Shown(plan) /\ PlannedOnce(plan, phase)
    BY <1>2 DEF EffectInv
  <1>4. Fresh \subseteq Fresh'
    <2>1. ids.evidence \in Nat /\ plan.index \in Nat
      BY <1>1, StoreFields DEF IInv, TypeOK, PlanType
    <2> QED BY <1>2, <2>1 DEF Fresh, Ev
  <1>5. plan'.events = plan.events /\ plan'.working = plan.working
    BY <1>2 DEF Evaluations
  <1>6. Shown(plan)'
    BY <1>3, <1>4, <1>5 DEF Shown
  <1>7. PlannedOnce(plan, phase)'
    BY <1>1, <1>3, <1>5, MovingOnRepeats DEF PlannedOnce, Repeats, Heard
  <1>8. phase' = "appraising" => Borne(plan)'
    <2>1. CASE Appraise
      <3>1. plan'.bearings = <<>> /\ phase' = "appraising"
        BY <1>1, <2>1 DEF Appraise, IInv, TypeOK, PlanType
      <3>2. \A h \in Hypotheses : Ev' \notin plan'.working[h].con
        BY <3>1 DEF SInv, IInv, CandidatesComeFirst, Untouched
      <3> QED BY <3>2 DEF Borne
    <2>2. CASE SkipObservation \/ EndObservation
      BY <2>2, <1>2 DEF SkipObservation, EndObservation
    <2> QED BY <2>1, <2>2
  <1>9. OneEffectPerObservation' /\ (\A i \in DOMAIN ledger : ledger[i].by =< ids.evidence)'
    BY <1>2 DEF EffectInv, OneEffectPerObservation, stores
  <1> QED BY <1>6, <1>7, <1>8, <1>9 DEF EffectInv

LEMMA OpeningKeepsEffects ==
    ASSUME EffectInv, SInv', RecordInteraction
    PROVE  EffectInv'
  <1>1. /\ UNCHANGED <<stores, ids>> /\ plan'.events = <<>> /\ phase' = "planning"
    BY OpeningFields DEF EffectInv, SInv
  <1>2. DOMAIN plan'.events = {}
    BY <1>1
  <1>3. Shown(plan)' /\ PlannedOnce(plan, phase)'
    BY <1>2 DEF Shown, PlannedOnce
  <1>4. OneEffectPerObservation' /\ (\A i \in DOMAIN ledger : ledger[i].by =< ids.evidence)'
    BY <1>1 DEF EffectInv, OneEffectPerObservation, stores
  <1> QED BY <1>1, <1>3, <1>4 DEF EffectInv

\* The counters as a plan is closed: its whole batch is admitted.
LEMMA ClosingNumbers ==
    ASSUME SInv, Hold \/ Commit
    PROVE  /\ ids'.evidence = Ev /\ ids.evidence =< Ev
           /\ ids.evidence \in Nat /\ Ev \in Nat
           /\ phase' = "idle" /\ phase = "planning" /\ Valid
           /\ plan \in PlanType
  <1>1. plan \in PlanType /\ ids.evidence \in Nat /\ plan.index \in Nat
    BY StoreFields DEF SInv, IInv, TypeOK, PlanType
  <1>2. /\ plan.index = Len(plan.batch) /\ ids' = plan.ids
        /\ plan.ids.evidence = ids.evidence + Len(plan.batch)
    BY DEF SInv, IInv, BatchNumbered, Hold, Commit, Planned, WriteAudit
  <1>3. phase' = "idle" /\ phase = "planning" /\ Valid
    BY DEF Hold, Commit, Planned, Close
  <1>4. ids'.evidence = ids.evidence + plan.index
    BY <1>2
  <1> QED BY <1>1, <1>3, <1>4 DEF Ev

LEMMA ValidRepeatsNothing ==
    ASSUME phase = "planning", Valid
    PROVE  ~Repeats(plan, "planning")
  BY DEF Valid, Repeats, Heard

LEMMA CommitKeepsEffects ==
    ASSUME EffectInv, SInv', Commit
    PROVE  EffectInv'
  <1> DEFINE s == ledger
             t == plan.events
  <1>1. SInv
    BY DEF EffectInv
  <1>2. /\ ids'.evidence = Ev /\ ids.evidence =< Ev
        /\ ids.evidence \in Nat /\ Ev \in Nat
        /\ phase' = "idle" /\ phase = "planning" /\ Valid
        /\ plan \in PlanType
    BY <1>1, ClosingNumbers
  <1>3. s \in Seq(EventType) /\ t \in Seq(EventType) /\ ledger' = s \o t
    BY <1>1, <1>2, StoreFields, PlanFields, CommittedFields DEF SInv, IInv
  <1>4. ASSUME NEW i \in DOMAIN s
        PROVE  s[i].by \in Nat /\ s[i].by =< ids.evidence
    BY <1>3, <1>4, EventFields DEF EffectInv
  <1>5. ASSUME NEW i \in DOMAIN t
        PROVE  t[i].by \in Nat /\ ids.evidence < t[i].by /\ t[i].by =< Ev
    <2>1. t[i].by \in (ids.evidence + 1)..Ev
      BY <1>2, <1>5 DEF EffectInv, Shown, Fresh
    <2> QED BY <1>2, <2>1
  <1>6. ASSUME NEW i \in DOMAIN s, NEW j \in DOMAIN s,
               s[i].hyp = s[j].hyp, s[i].by = s[j].by
        PROVE  i = j
    BY <1>6 DEF EffectInv, OneEffectPerObservation
  <1>7. ASSUME NEW i \in DOMAIN t, NEW j \in DOMAIN t,
               t[i].hyp = t[j].hyp, t[i].by = t[j].by
        PROVE  i = j
    BY <1>2, <1>7, ValidRepeatsNothing DEF EffectInv, PlannedOnce
  <1>8. DOMAIN s = 1..Len(s) /\ Len(s) \in Nat
    BY <1>3
  <1> HIDE DEF s, t
  <1>a. \A i \in DOMAIN (s \o t) :
            \/ i \in DOMAIN s /\ (s \o t)[i] = s[i]
            \/ /\ i \notin DOMAIN s /\ i - Len(s) \in DOMAIN t
               /\ (s \o t)[i] = t[i - Len(s)]
    BY <1>3, Concatenation
  <1>b. \A i \in DOMAIN (s \o t) : i \in Int
    BY <1>3
  <1>9. OneEffectPerObservation'
    <2> SUFFICES ASSUME NEW i \in DOMAIN (s \o t), NEW j \in DOMAIN (s \o t),
                        (s \o t)[i].hyp = (s \o t)[j].hyp,
                        (s \o t)[i].by = (s \o t)[j].by
                 PROVE  i = j
      BY <1>3 DEF OneEffectPerObservation
    <2> DEFINE u == s \o t
    <2> HIDE DEF u
    <2>1. CASE i \in DOMAIN s /\ u[i] = s[i]
      <3>1. CASE j \in DOMAIN s /\ u[j] = s[j]
        BY <1>6, <2>1, <3>1 DEF u
      <3>2. CASE j - Len(s) \in DOMAIN t /\ u[j] = t[j - Len(s)]
        BY <1>2, <1>4, <1>5, <2>1, <3>2 DEF u
      <3> QED BY <1>a, <3>1, <3>2 DEF u
    <2>2. CASE i - Len(s) \in DOMAIN t /\ u[i] = t[i - Len(s)]
      <3>1. CASE j \in DOMAIN s /\ u[j] = s[j]
        BY <1>2, <1>4, <1>5, <2>2, <3>1 DEF u
      <3>2. CASE j - Len(s) \in DOMAIN t /\ u[j] = t[j - Len(s)]
        <4>1. i - Len(s) = j - Len(s)
          BY <1>7, <2>2, <3>2 DEF u
        <4> QED BY <1>8, <1>b, <4>1
      <3> QED BY <1>a, <3>1, <3>2 DEF u
    <2> QED BY <1>a, <2>1, <2>2 DEF u
  <1>10. \A i \in DOMAIN (s \o t) : (s \o t)[i].by =< Ev
    BY <1>2, <1>4, <1>5, <1>a
  <1>11. (\A i \in DOMAIN ledger : ledger[i].by =< ids.evidence)'
    BY <1>2, <1>3, <1>10
  <1> QED BY <1>2, <1>9, <1>11 DEF EffectInv

LEMMA HoldKeepsEffects ==
    ASSUME EffectInv, SInv', Hold
    PROVE  EffectInv'
  <1>1. SInv
    BY DEF EffectInv
  <1>2. /\ ids'.evidence = Ev /\ ids.evidence =< Ev
        /\ ids.evidence \in Nat /\ Ev \in Nat /\ phase' = "idle"
        /\ ledger' = ledger
    BY <1>1, ClosingNumbers DEF Hold
  <1>3. ASSUME NEW i \in DOMAIN ledger
        PROVE  ledger[i].by =< Ev
    <2>1. ledger \in Seq(EventType)
      BY <1>1, StoreFields DEF SInv, IInv
    <2>2. ledger[i].by \in Nat /\ ledger[i].by =< ids.evidence
      BY <2>1, EventFields DEF EffectInv
    <2> QED BY <1>2, <2>2
  <1>4. OneEffectPerObservation'
    BY <1>2 DEF EffectInv, OneEffectPerObservation
  <1> QED BY <1>2, <1>3, <1>4 DEF EffectInv

LEMMA NextEffectInv == EffectInv /\ SInv' /\ [Next]_vars => EffectInv'
  <1> SUFFICES ASSUME EffectInv, SInv', [Next]_vars PROVE EffectInv'
    OBVIOUS
  <1>1. CASE RecordInteraction
    BY <1>1, OpeningKeepsEffects
  <1>2. CASE SkipObservation \/ Appraise \/ EndObservation
    BY <1>2, MovingOnKeepsEffects
  <1>3. CASE Adjudicate \/ Bear
    BY <1>3, TurnKeepsEffects
  <1>4. CASE RejectAppraisal \/ Breach \/ RejectPlan \/ Interrupt
    BY <1>4 DEF RejectAppraisal, Breach, RejectPlan, Interrupt, Abandon, Close,
                stores, EffectInv, OneEffectPerObservation
  <1>5. CASE Hold \/ Commit
    BY <1>5, HoldKeepsEffects, CommitKeepsEffects
  <1>6. CASE UNCHANGED vars
    BY <1>6 DEF vars, stores, EffectInv, OneEffectPerObservation, Shown,
                PlannedOnce, Borne, Repeats, Heard, Fresh, Ev
  <1> QED BY <1>1, <1>2, <1>3, <1>4, <1>5, <1>6 DEF Next, Step, NoMoreCalls

LEMMA InitEffectInv == Init => EffectInv
  <1> SUFFICES ASSUME Init PROVE EffectInv
    OBVIOUS
  <1>1. phase = "idle" /\ DOMAIN ledger = {}
    BY DEF Init
  <1> QED BY <1>1, InitSInv DEF EffectInv, OneEffectPerObservation

\* The invariant behind the next theorem: a plan repeats an effect only where
\* its appraiser repeated a handle, which validation refuses (check 2(a)).
THEOREM EffectInductive == Spec => []EffectInv
  BY StoresInductive, InitEffectInv, NextEffectInv, PTL DEF Spec

\* No observation has more than one effect on a lineage, whichever of match,
\* refinement, founding and bearing brings it there (F-3), under any policy.
THEOREM EffectsAreSingle == Spec => []OneEffectPerObservation
  <1>1. EffectInv => OneEffectPerObservation
    BY DEF EffectInv
  <1> QED BY EffectInductive, <1>1, PTL
----------------------------------------------------------------------------
(* The stores tell one story, when every outcome commits.                   *)

\* Two ways to write one more element after two sequences.
LEMMA AppendAfter ==
    ASSUME NEW S, NEW s \in Seq(S), NEW t \in Seq(S), NEW e \in S
    PROVE  /\ s \o Append(t, e) = Append(s \o t, e)
           /\ s \o <<>> = s /\ s \o t \in Seq(S)
  OBVIOUS

LEMMA LastAppended ==
    ASSUME NEW S, NEW s \in Seq(S), NEW e \in S
    PROVE  LastOf(Append(s, e)) = e
  BY DEF LastOf

\* What one more event adds to those of a lineage.
LEMMA OneMoreEvent ==
    ASSUME NEW led \in Seq(EventType), NEW e \in EventType, NEW h, NEW S
    PROVE  LET more == Append(led, e) IN
           /\ EventsIn(more, h) =
                EventsIn(led, h) \cup (IF e.hyp = h THEN {Len(led) + 1} ELSE {})
           /\ ByIn(more, h, S) =
                ByIn(led, h, S)
                  \cup (IF e.hyp = h /\ e.outcome \in S THEN {e.by} ELSE {})
           /\ IsFiniteSet(EventsIn(led, h)) /\ Len(led) + 1 \notin EventsIn(led, h)
  <1> DEFINE more == Append(led, e)
  <1>1. /\ \A i \in DOMAIN more : \/ i \in DOMAIN led /\ more[i] = led[i]
                                  \/ i = Len(led) + 1 /\ more[i] = e
        /\ \A i \in DOMAIN led : i \in DOMAIN more /\ more[i] = led[i]
        /\ Len(led) + 1 \in DOMAIN more /\ more[Len(led) + 1] = e
        /\ Len(led) + 1 \notin DOMAIN led
    BY Appending
  <1>2. DOMAIN led = 1..Len(led) /\ Len(led) \in Nat
    OBVIOUS
  <1> HIDE DEF more
  <1>3. EventsIn(more, h) =
          EventsIn(led, h) \cup (IF e.hyp = h THEN {Len(led) + 1} ELSE {})
    BY <1>1 DEF EventsIn
  <1>4. ByIn(more, h, S) =
          ByIn(led, h, S)
            \cup (IF e.hyp = h /\ e.outcome \in S THEN {e.by} ELSE {})
    BY <1>1 DEF ByIn, EventsIn
  <1>5. IsFiniteSet(EventsIn(led, h))
    <2>1. EventsIn(led, h) \subseteq 1..Len(led) /\ IsFiniteSet(1..Len(led))
      BY <1>2, FS_Interval DEF EventsIn
    <2> QED BY <2>1, FS_Subset
  <1>6. Len(led) + 1 \notin EventsIn(led, h)
    BY <1>1 DEF EventsIn
  <1> QED BY <1>3, <1>4, <1>5, <1>6 DEF more

\* An event of another lineage explains nothing here.
LEMMA ExplainsOther ==
    ASSUME NEW led \in Seq(EventType), NEW e \in EventType, NEW h, NEW s,
           e.hyp # h, Explains(led, h, s)
    PROVE  Explains(Append(led, e), h, s)
  <1> DEFINE more == Append(led, e)
  <1>1. /\ EventsIn(more, h) = EventsIn(led, h)
        /\ \A S : ByIn(more, h, S) = ByIn(led, h, S)
    <2>1. ASSUME NEW S PROVE ByIn(more, h, S) = ByIn(led, h, S) \cup {}
      <3> DEFINE new == IF e.hyp = h /\ e.outcome \in S THEN {e.by} ELSE {}
      <3>1. ByIn(more, h, S) = ByIn(led, h, S) \cup new
        BY OneMoreEvent
      <3>2. new = {}
        OBVIOUS
      <3> HIDE DEF more, new
      <3> QED BY <3>1, <3>2
    <2>2. EventsIn(more, h) = EventsIn(led, h) \cup {}
      BY OneMoreEvent
    <2> HIDE DEF more
    <2> QED BY <2>1, <2>2
  <1> HIDE DEF more
  <1>2. Explains(more, h, s)
    BY <1>1 DEF Explains
  <1> QED BY <1>2 DEF more

\* An event and the evaluation it announces go together.
LEMMA ExplainsNext ==
    ASSUME NEW led \in Seq(EventType), NEW e \in EventType, NEW h,
           NEW s \in Seq(RecordType), NEW r \in RecordType,
           e.hyp = h, Explains(led, h, s), r.prev = LastOf(s).id,
           r.pro = LastOf(s).pro
                     \cup (IF e.outcome \in Supporting THEN {e.by} ELSE {}),
           r.con = LastOf(s).con
                     \cup (IF e.outcome \in Weakening THEN {e.by} ELSE {})
    PROVE  Explains(Append(led, e), h, Append(s, r))
  <1> DEFINE more == Append(led, e)
             new == Append(s, r)
  <1>1. /\ EventsIn(more, h) = EventsIn(led, h) \cup {Len(led) + 1}
        /\ \A S : ByIn(more, h, S) = ByIn(led, h, S)
                      \cup (IF e.outcome \in S THEN {e.by} ELSE {})
        /\ IsFiniteSet(EventsIn(led, h)) /\ Len(led) + 1 \notin EventsIn(led, h)
    <2>1. ASSUME NEW S
          PROVE  ByIn(more, h, S) = ByIn(led, h, S)
                     \cup (IF e.outcome \in S THEN {e.by} ELSE {})
      BY OneMoreEvent
    <2>2. /\ EventsIn(more, h) = EventsIn(led, h)
                                  \cup (IF e.hyp = h THEN {Len(led) + 1} ELSE {})
          /\ IsFiniteSet(EventsIn(led, h))
          /\ Len(led) + 1 \notin EventsIn(led, h)
      BY OneMoreEvent
    <2> HIDE DEF more
    <2> QED BY <2>1, <2>2
  <1>2. LastOf(new) = r /\ Len(new) = Len(s) + 1
    BY LastAppended
  <1>3. Chained(new)
    <2> SUFFICES ASSUME NEW i \in DOMAIN new
                 PROVE  new[i].prev = IF i = 1 THEN 0 ELSE new[i - 1].id
      BY DEF Chained
    <2>1. CASE i \in DOMAIN s /\ new[i] = s[i]
      <3>1. s[i].prev = IF i = 1 THEN 0 ELSE s[i - 1].id
        BY <2>1 DEF Explains, Chained
      <3>2. i # 1 => i - 1 \in DOMAIN s
        BY <2>1
      <3>3. i # 1 => new[i - 1] = s[i - 1]
        BY <3>2
      <3> QED BY <2>1, <3>1, <3>3
    <2>2. CASE i = Len(s) + 1 /\ new[i] = r
      <3>1. CASE s = <<>>
        BY <2>2, <3>1 DEF LastOf, NoRecord
      <3>2. CASE s # <<>>
        <4>1. Len(s) \in DOMAIN s /\ i # 1 /\ i - 1 = Len(s)
          BY <2>2, <3>2
        <4>2. new[i - 1] = s[Len(s)]
          BY <4>1
        <4> QED BY <2>2, <3>2, <4>1, <4>2 DEF LastOf
      <3> QED BY <3>1, <3>2
    <2> QED BY <2>1, <2>2, Appending
  <1> HIDE DEF more, new
  <1>4. Cardinality(EventsIn(more, h)) = Len(new)
    <2>1. Cardinality(EventsIn(more, h)) = Cardinality(EventsIn(led, h)) + 1
      BY <1>1, FS_AddElement
    <2> QED BY <1>2, <2>1 DEF Explains
  <1>5. /\ LastOf(new).pro = ByIn(more, h, Supporting)
        /\ LastOf(new).con = ByIn(more, h, Weakening)
    BY <1>1, <1>2 DEF Explains
  <1>6. Explains(more, h, new)
    BY <1>3, <1>4, <1>5 DEF Explains
  <1> QED BY <1>6 DEF more, new

\* Edges of a concatenation and of one more event.
LEMMA EdgesOfParts ==
    ASSUME NEW s \in Seq(EventType), NEW t \in Seq(EventType)
    PROVE  EdgesOf(s \o t) = EdgesOf(s) \cup EdgesOf(t)
  <1> DEFINE u == s \o t
  <1>1. /\ \A i \in DOMAIN u :
              \/ i \in DOMAIN s /\ u[i] = s[i]
              \/ i - Len(s) \in DOMAIN t /\ u[i] = t[i - Len(s)]
        /\ \A i \in DOMAIN s : i \in DOMAIN u /\ u[i] = s[i]
        /\ \A i \in DOMAIN t : Len(s) + i \in DOMAIN u /\ u[Len(s) + i] = t[i]
    BY Concatenation
  <1> HIDE DEF u
  <1>2. EdgesOf(u) \subseteq EdgesOf(s) \cup EdgesOf(t)
    BY <1>1 DEF EdgesOf
  <1>3. EdgesOf(s) \cup EdgesOf(t) \subseteq EdgesOf(u)
    BY <1>1 DEF EdgesOf
  <1> QED BY <1>2, <1>3 DEF u

LEMMA EdgeOfOneMore ==
    ASSUME NEW s \in Seq(EventType), NEW e \in EventType
    PROVE  EdgesOf(Append(s, e)) = EdgesOf(s) \cup
             {<<e.by, IF e.outcome \in Supporting THEN "supports"
                      ELSE "contradicts", e.hyp>>}
  <1> DEFINE u == Append(s, e)
  <1>1. /\ \A i \in DOMAIN u : \/ i \in DOMAIN s /\ u[i] = s[i]
                               \/ i = Len(s) + 1 /\ u[i] = e
        /\ \A i \in DOMAIN s : i \in DOMAIN u /\ u[i] = s[i]
        /\ Len(s) + 1 \in DOMAIN u /\ u[Len(s) + 1] = e
    BY Appending
  <1> HIDE DEF u
  <1> QED BY <1>1 DEF EdgesOf, u

\* Where every outcome commits, a turn writes what it evaluates.
LEMMA TurnWrites ==
    ASSUME SInv, AllOutcomes, phase = "appraising", NEW q \in PlanType,
           NEW h, NEW r, NEW what, NEW anomalous, NEW rel,
           TurnOf(q, h, r, what, anomalous, rel)
    PROVE  /\ q.records[h] = Append(plan.records[h], r)
           /\ q.events = Append(plan.events, EventOf(plan, h, what, anomalous))
           /\ q.edges = plan.edges \cup {<<Ev, rel, h>>}
           /\ r.prev = plan.working[h].id
  <1>1. /\ h \in Hypotheses /\ what \in CommitOutcomes
        /\ Evaluates(q, h, r, what, anomalous, rel)
    BY DEF TurnOf, AllOutcomes, Outcomes
  <1>2. plan.records \in [Hypotheses -> Seq(RecordType)]
    BY PlanFields DEF SInv, IInv, TypeOK
  <1> QED BY <1>1, <1>2 DEF Evaluates

\* A turn continues the story, and its edge is the one of its event.
LEMMA TurnContinues ==
    ASSUME SInv, AllOutcomes, phase = "appraising", NEW q \in PlanType,
           Turned(q), Continues(plan), plan.edges = EdgesOf(plan.events)
    PROVE  Continues(q) /\ q.edges = EdgesOf(q.events)
  <1>1. CASE Noted(q)
    BY <1>1 DEF Noted, Remarked, Evaluations, Continues
  <1>2. ASSUME NEW h, NEW r, NEW what, NEW anomalous, NEW rel,
               TurnOf(q, h, r, what, anomalous, rel)
        PROVE  Continues(q) /\ q.edges = EdgesOf(q.events)
    <2> DEFINE e == EventOf(plan, h, what, anomalous)
               led == ledger \o plan.events
    <2>1. /\ e \in EventType /\ plan.events \in Seq(EventType)
          /\ e.hyp = h /\ e.by = Ev /\ e.outcome = what
      BY <1>2, TurnAnnounces
    <2>2. /\ q.records[h] = Append(plan.records[h], r)
          /\ q.events = Append(plan.events, e)
          /\ q.edges = plan.edges \cup {<<Ev, rel, h>>}
          /\ r.prev = plan.working[h].id
      BY <1>2, TurnWrites
    <2>3. /\ h \in Hypotheses /\ r \in RecordType /\ q.working[h] = r
          /\ \A g \in Hypotheses : g # h => /\ q.working[g] = plan.working[g]
                                            /\ q.records[g] = plan.records[g]
      BY <1>2, TurnFields
    <2>4. /\ r.pro = plan.working[h].pro
                       \cup (IF what \in Supporting THEN {Ev} ELSE {})
          /\ r.con = plan.working[h].con
                       \cup (IF what \in Weakening THEN {Ev} ELSE {})
          /\ rel = IF what \in Supporting THEN "supports" ELSE "contradicts"
      <3>1. CASE what \in Supporting
        <4>1. what \notin Weakening
          BY <3>1 DEF Supporting, Weakening
        <4> QED BY <1>2, <3>1, <4>1 DEF TurnOf, Supporting
      <3>2. CASE what \in Weakening
        <4>1. what \notin Supporting
          BY <3>2 DEF Supporting, Weakening
        <4> QED BY <1>2, <3>2, <4>1 DEF TurnOf, Weakening
      <3>3. what \in Supporting \/ what \in Weakening
        BY <1>2 DEF TurnOf, Supporting, Weakening
      <3> QED BY <3>1, <3>2, <3>3
    <2>5. /\ ledger \in Seq(EventType)
          /\ \A g \in Hypotheses : /\ records[g] \in Seq(RecordType)
                                   /\ plan.records[g] \in Seq(RecordType)
      BY StoreFields, PlanFields DEF SInv, IInv
    <2>6. q.edges = EdgesOf(q.events)
      <3>1. EdgesOf(q.events) = EdgesOf(plan.events) \cup {<<Ev, rel, h>>}
        BY <2>1, <2>2, <2>4, EdgeOfOneMore
      <3> QED BY <2>2, <3>1
    <2> HIDE DEF e
    <2>7. led \in Seq(EventType) /\ ledger \o q.events = Append(led, e)
      BY <2>1, <2>2, <2>5, AppendAfter
    <2> HIDE DEF led
    <2>8. ASSUME NEW g \in Hypotheses, g # h
          PROVE  /\ Explains(ledger \o q.events, g, records[g] \o q.records[g])
                 /\ q.working[g] = LastOf(records[g] \o q.records[g])
      <3>1. /\ Explains(led, g, records[g] \o plan.records[g])
            /\ plan.working[g] = LastOf(records[g] \o plan.records[g])
        BY DEF Continues, led
      <3>2. Explains(Append(led, e), g, records[g] \o plan.records[g])
        BY <2>1, <2>7, <2>8, <3>1, ExplainsOther
      <3> QED BY <2>3, <2>7, <2>8, <3>1, <3>2
    <2>9. /\ Explains(ledger \o q.events, h, records[h] \o q.records[h])
          /\ q.working[h] = LastOf(records[h] \o q.records[h])
      <3> DEFINE s == records[h] \o plan.records[h]
      <3>1. /\ Explains(led, h, s) /\ plan.working[h] = LastOf(s)
        BY <2>3 DEF Continues, led
      <3>2. s \in Seq(RecordType) /\ records[h] \o q.records[h] = Append(s, r)
        <4> DEFINE a == records[h]
                   b == plan.records[h]
        <4>1. a \in Seq(RecordType) /\ b \in Seq(RecordType)
          BY <2>3, <2>5
        <4>2. r \in RecordType /\ q.records[h] = Append(b, r)
          BY <2>2, <2>3
        <4> HIDE DEF a, b
        <4>3. a \o Append(b, r) = Append(a \o b, r) /\ a \o b \in Seq(RecordType)
          BY <4>1, <4>2, AppendAfter
        <4> QED BY <4>2, <4>3 DEF a, b
      <3> HIDE DEF s
      <3>3. Explains(Append(led, e), h, Append(s, r))
        BY <2>1, <2>2, <2>3, <2>4, <2>7, <3>1, <3>2, ExplainsNext
      <3>4. LastOf(Append(s, r)) = r
        BY <2>3, <3>2, LastAppended
      <3> QED BY <2>3, <2>7, <3>2, <3>3, <3>4
    <2>10. Continues(q)
      BY <2>8, <2>9 DEF Continues
    <2> QED BY <2>6, <2>10
  <1> QED BY <1>1, <1>2 DEF Turned, TurnsFor, TurnsAgainst

StoryKept ==
    /\ \A h \in Hypotheses : Explains(ledger, h, records[h])
    /\ edges = EdgesOf(ledger)
    /\ ModelRereadsStore

LEMMA StoryKeptStands ==
    ASSUME StoryKept, UNCHANGED <<records, ledger, edges, models, current>>
    PROVE  StoryKept'
  BY DEF StoryKept, ModelRereadsStore, Held, Latest

LEMMA ContinuesCarries ==
    ASSUME UNCHANGED <<records, ledger>>, Continues(plan')
    PROVE  Continues(plan)'
  BY DEF Continues

\* A commit leaves the story the plan continued.
LEMMA CommitKeepsStory ==
    ASSUME StoryInv, SInv', Commit
    PROVE  StoryKept'
  <1>1. SInv /\ AllOutcomes /\ edges = EdgesOf(ledger) /\ Kept'
    BY DEF StoryInv, EffectInv, SInv
  <1>2. /\ phase = "planning" /\ current' = plan.wm
        /\ ledger' = ledger \o plan.events
        /\ edges' = edges \cup plan.edges
    BY <1>1, CommittedFields
  <1>3. Continues(plan) /\ plan.edges = EdgesOf(plan.events)
    BY <1>2 DEF StoryInv
  <1>4. \A h \in Hypotheses : /\ records'[h] = records[h] \o plan.records[h]
                              /\ records'[h] \in Seq(RecordType)
    <2> SUFFICES ASSUME NEW h \in Hypotheses
                 PROVE  /\ records'[h] = records[h] \o plan.records[h]
                        /\ records'[h] \in Seq(RecordType)
      OBVIOUS
    <2>1. /\ records'[h] = records[h] \o plan.records[h]
          /\ records[h] \in Seq(RecordType) /\ plan.records[h] \in Seq(RecordType)
      BY <1>1, CommittedLatest
    <2> QED BY <2>1, AppendAfter
  <1>5. \A h \in Hypotheses : Explains(ledger, h, records[h])'
    <2> SUFFICES ASSUME NEW h \in Hypotheses
                 PROVE  Explains(ledger', h, records'[h])
      BY DEF Explains, EventsIn, ByIn, LastOf, Chained
    <2> QED BY <1>2, <1>3, <1>4 DEF Continues
  <1>6. (edges = EdgesOf(ledger))'
    <2>1. ledger \in Seq(EventType) /\ plan.events \in Seq(EventType)
      BY <1>1, StoreFields, PlanFields DEF SInv, IInv
    <2>2. edges' = EdgesOf(ledger \o plan.events)
      BY <1>1, <1>2, <1>3, <2>1, EdgesOfParts
    <2> QED BY <1>2, <2>2 DEF EdgesOf
  <1>7. \A h \in Hypotheses :
            /\ Latest(h)' = plan.working[h]
            /\ h \in Held' <=> plan.working[h].id # 0
    <2> SUFFICES ASSUME NEW h \in Hypotheses
                 PROVE  /\ Latest(h)' = plan.working[h]
                        /\ h \in Held' <=> plan.working[h].id # 0
      OBVIOUS
    <2>1. plan.working[h] = LastOf(records'[h])
      BY <1>3, <1>4 DEF Continues
    <2>2. Latest(h)' = LastOf(records'[h])
      BY DEF Latest, LastOf, NoRecord
    <2>3. CASE records'[h] = <<>>
      BY <2>1, <2>2, <2>3 DEF LastOf, NoRecord, Held
    <2>4. CASE records'[h] # <<>>
      <3>1. Len(records'[h]) \in DOMAIN records'[h]
        BY <1>4, <2>4, LastElement
      <3>2. records'[h][Len(records'[h])].id # 0
        BY <1>1, <3>1 DEF Kept
      <3> QED BY <2>1, <2>2, <2>4, <3>2 DEF LastOf, Held
    <2> QED BY <2>3, <2>4
  <1>8. ModelRereadsStore'
    <2>1. plan.wm \in Versions
      BY <1>1, CommittedFields
    <2>2. models'[plan.wm] = [active |-> Working, predictions |-> Predicted,
                              inquiry |-> OpensInquiry]
      <3> DEFINE Model == [active : SUBSET Hypotheses,
                           predictions : SUBSET Hypotheses, inquiry : BOOLEAN]
                 new == [active |-> Working, predictions |-> Predicted,
                         inquiry |-> OpensInquiry]
      <3>1. models' = [models EXCEPT ![plan.wm] = new] /\ models \in [Versions -> Model]
        BY <1>1 DEF Commit, SInv, IInv, TypeOK
      <3> HIDE DEF new
      <3>2. models'[plan.wm] = new
        BY <2>1, <3>1
      <3> QED BY <3>2 DEF new
    <2>3. /\ models'[plan.wm].active = Working
          /\ models'[plan.wm].predictions = Predicted
      BY <2>2
    <2>4. Working = Held'
      <3>1. \A h : h \in Held' => h \in Hypotheses
        BY DEF Held
      <3> QED BY <1>7, <3>1 DEF Working
    <2>5. Predicted = {h \in Held' : Latest(h)'.support >= Predicting}
      <3>1. \A h \in Working : h \in Hypotheses
        BY DEF Working
      <3> QED BY <1>7, <2>4, <3>1 DEF Predicted
    <2> QED BY <1>2, <2>3, <2>4, <2>5 DEF ModelRereadsStore
  <1> QED BY <1>5, <1>6, <1>8 DEF StoryKept

LEMMA NextStoryInv == StoryInv /\ EffectInv' /\ [Next]_vars => StoryInv'
  <1> SUFFICES ASSUME StoryInv, EffectInv', [Next]_vars PROVE StoryInv'
    OBVIOUS
  <1>1. /\ SInv /\ SInv' /\ AllOutcomes /\ AllOutcomes' /\ StoryKept /\ TypeOK
        /\ phase # "idle" => Continues(plan) /\ plan.edges = EdgesOf(plan.events)
    BY DEF StoryInv, EffectInv, AllOutcomes, Outcomes, StoryKept, SInv, IInv
  <1>a. ASSUME StoryKept',
               phase' # "idle" => Continues(plan)' /\ (plan.edges = EdgesOf(plan.events))'
        PROVE  StoryInv'
    BY <1>1, <1>a DEF StoryInv, StoryKept
  <1>b. ASSUME UNCHANGED stores,
               phase' # "idle" => Continues(plan') /\ plan'.edges = EdgesOf(plan'.events)
        PROVE  StoryInv'
    <2>1. StoryKept'
      BY <1>1, <1>b, StoryKeptStands DEF stores
    <2>2. phase' # "idle" => Continues(plan)' /\ (plan.edges = EdgesOf(plan.events))'
      BY <1>b, ContinuesCarries DEF stores, EdgesOf
    <2> QED BY <1>a, <2>1, <2>2
  <1>2. CASE RecordInteraction
    <2>1. /\ UNCHANGED stores /\ plan'.events = <<>> /\ plan'.edges = {}
          /\ plan'.working = [h \in Hypotheses |-> Latest(h)]
          /\ plan'.records = [h \in Hypotheses |-> <<>>]
      BY <1>1, <1>2, OpeningFields DEF SInv
    <2>2. ledger \in Seq(EventType)
          /\ \A h \in Hypotheses : records[h] \in Seq(RecordType)
      BY <1>1, StoreFields
    <2>3. ledger \o <<>> = ledger /\ \A h \in Hypotheses : records[h] \o <<>> = records[h]
      BY <2>2
    <2>4. \A h \in Hypotheses : Latest(h) = LastOf(records[h])
      BY DEF Latest, LastOf
    <2>5. Continues(plan')
      BY <1>1, <2>1, <2>3, <2>4 DEF Continues, StoryKept
    <2>6. plan'.edges = EdgesOf(plan'.events)
      <3>1. DOMAIN plan'.events = {}
        BY <2>1
      <3> QED BY <2>1, <3>1 DEF EdgesOf
    <2> QED BY <1>b, <2>1, <2>5, <2>6
  <1>3. CASE SkipObservation \/ Appraise \/ EndObservation
    <2>1. /\ phase # "idle" /\ UNCHANGED stores
          /\ Evaluations(plan') = Evaluations(plan)
      BY <1>1, <1>3, MovingOnFields DEF SInv
    <2>2. Continues(plan') /\ plan'.edges = EdgesOf(plan'.events)
      BY <1>1, <2>1 DEF Evaluations, Continues
    <2> QED BY <1>b, <2>1, <2>2
  <1>4. CASE Adjudicate \/ Bear
    <2>1. /\ phase = "appraising" /\ UNCHANGED stores
          /\ plan' \in PlanType /\ Turned(plan')
      BY <1>1, <1>4, AdjudicateIsTurn, BearIsTurn
    <2>2. Continues(plan') /\ plan'.edges = EdgesOf(plan'.events)
      BY <1>1, <2>1, TurnContinues
    <2> QED BY <1>b, <2>1, <2>2
  <1>5. CASE RejectAppraisal \/ Breach \/ RejectPlan \/ Interrupt
    BY <1>b, <1>5 DEF RejectAppraisal, Breach, RejectPlan, Interrupt, Abandon, Close
  <1>6. CASE Hold
    BY <1>1, <1>a, <1>6, StoryKeptStands DEF Hold, Close
  <1>7. CASE Commit
    <2>1. phase' = "idle"
      BY <1>7 DEF Commit, Close
    <2> QED BY <1>1, <1>a, <1>7, <2>1, CommitKeepsStory
  <1>8. CASE UNCHANGED vars
    <2>1. UNCHANGED stores /\ phase' = phase /\ plan' = plan
      BY <1>8 DEF vars
    <2> QED BY <1>1, <1>b, <2>1
  <1> QED BY <1>2, <1>3, <1>4, <1>5, <1>6, <1>7, <1>8
          DEF Next, Step, NoMoreCalls

LEMMA InitStoryInv == Init /\ AllOutcomes => StoryInv
  <1> SUFFICES ASSUME Init, AllOutcomes PROVE StoryInv
    OBVIOUS
  <1>1. /\ phase = "idle" /\ ledger = <<>> /\ edges = {} /\ current = 0
        /\ \A h \in Hypotheses : records[h] = <<>>
    BY DEF Init
  <1>2. EffectInv
    BY InitEffectInv
  <1>3. DOMAIN ledger = {} /\ Len(ledger) = 0
    BY <1>1
  <1>4. \A h : EventsIn(ledger, h) = {}
    BY <1>3 DEF EventsIn
  <1>5. \A h, S : ByIn(ledger, h, S) = {}
    BY <1>4 DEF ByIn
  <1>6. ASSUME NEW h \in Hypotheses PROVE Explains(ledger, h, records[h])
    <2>1. Cardinality({}) = 0 /\ Len(<<>>) = 0 /\ DOMAIN <<>> = {}
      BY FS_EmptySet
    <2>2. LastOf(<<>>).pro = {} /\ LastOf(<<>>).con = {}
      BY DEF LastOf, NoRecord
    <2> QED BY <1>1, <1>4, <1>5, <2>1, <2>2 DEF Explains, Chained
  <1>7. EdgesOf(ledger) = {}
    BY <1>3 DEF EdgesOf
  <1> QED BY <1>1, <1>2, <1>6, <1>7 DEF StoryInv, ModelRereadsStore

\* The invariant behind the theorems of this section: the ledger explains the
\* evaluations, and would still were the plan committed now.
THEOREM StoryInductive == Spec /\ AllOutcomes => []StoryInv
  BY EffectInductive, InitStoryInv, NextStoryInv, PTL DEF Spec

\* Where every outcome commits, the ledger alone reconstructs who supports and
\* who contradicts a hypothesis and how often it was evaluated, the evaluations
\* chain, and the edges are those of the ledger's events.
THEOREM LedgerAlwaysExplains == Spec /\ AllOutcomes => []LedgerExplainsRecords
  <1>1. StoryInv => LedgerExplainsRecords
    <2> SUFFICES ASSUME StoryInv PROVE LedgerExplainsRecords
      OBVIOUS
    <2>1. EdgesMatchLedger
      BY DEF StoryInv, EdgesMatchLedger, EdgesOf, Supporting
    <2>2. ASSUME NEW h \in Held
          PROVE  LET By(S) == {ledger[i].by : i \in {j \in EventsOf(h) :
                                                      ledger[j].outcome \in S}}
                 IN  /\ Cardinality(EventsOf(h)) = Len(records[h])
                     /\ Latest(h).pro = By({"hypothesize", "strengthen"})
                     /\ Latest(h).con = By({"weaken", "contradict"})
                     /\ SupersedesChain(h)
      <3>1. Explains(ledger, h, records[h]) /\ EventsIn(ledger, h) = EventsOf(h)
        BY DEF StoryInv, Held, EventsIn, EventsOf
      <3>2. Latest(h) = LastOf(records[h])
        BY DEF Latest, LastOf
      <3> QED BY <3>1, <3>2 DEF Explains, ByIn, Supporting, Weakening, Chained,
                                SupersedesChain
    <2> QED BY <2>1, <2>2 DEF LedgerExplainsRecords
  <1> QED BY StoryInductive, <1>1, PTL

\* Where every outcome commits, the current model is what re-reading the
\* stores would give: its active set and its predictions.
THEOREM ModelAlwaysRereads == Spec /\ AllOutcomes => []ModelRereadsStore
  <1>1. StoryInv => ModelRereadsStore
    BY DEF StoryInv
  <1> QED BY StoryInductive, <1>1, PTL
----------------------------------------------------------------------------
(* Anomalies decide, when every outcome commits.                            *)

LEMMA AnomaliesInParts ==
    AnomaliesDecide <=>
        /\ AnnouncedIn(ledger) = About(anomalies, {"revise"})
        /\ WeakenedIn(ledger) \cap About(anomalies, {"escalate", "reject"}) = {}
  BY DEF AnomaliesDecide, AnnouncedIn, WeakenedIn, About, Weakening

LEMMA OneMoreAnnounced ==
    ASSUME NEW s \in Seq(EventType), NEW e \in EventType
    PROVE  /\ AnnouncedIn(Append(s, e)) = AnnouncedIn(s)
                 \cup (IF e.anomalous THEN {<<e.by, e.hyp>>} ELSE {})
           /\ WeakenedIn(Append(s, e)) = WeakenedIn(s)
                 \cup (IF e.outcome \in Weakening THEN {<<e.by, e.hyp>>} ELSE {})
  <1> DEFINE u == Append(s, e)
  <1>1. /\ \A i \in DOMAIN u : \/ i \in DOMAIN s /\ u[i] = s[i]
                               \/ i = Len(s) + 1 /\ u[i] = e
        /\ \A i \in DOMAIN s : i \in DOMAIN u /\ u[i] = s[i]
        /\ Len(s) + 1 \in DOMAIN u /\ u[Len(s) + 1] = e
    BY Appending
  <1> HIDE DEF u
  <1>2. AnnouncedIn(u) = AnnouncedIn(s)
           \cup (IF e.anomalous THEN {<<e.by, e.hyp>>} ELSE {})
    BY <1>1 DEF AnnouncedIn
  <1>3. WeakenedIn(u) = WeakenedIn(s)
           \cup (IF e.outcome \in Weakening THEN {<<e.by, e.hyp>>} ELSE {})
    BY <1>1 DEF WeakenedIn
  <1> QED BY <1>2, <1>3 DEF u

LEMMA AnnouncedInParts ==
    ASSUME NEW s \in Seq(EventType), NEW t \in Seq(EventType)
    PROVE  /\ AnnouncedIn(s \o t) = AnnouncedIn(s) \cup AnnouncedIn(t)
           /\ WeakenedIn(s \o t) = WeakenedIn(s) \cup WeakenedIn(t)
  <1> DEFINE u == s \o t
  <1>1. /\ \A i \in DOMAIN u :
              \/ i \in DOMAIN s /\ u[i] = s[i]
              \/ i - Len(s) \in DOMAIN t /\ u[i] = t[i - Len(s)]
        /\ \A i \in DOMAIN s : i \in DOMAIN u /\ u[i] = s[i]
        /\ \A i \in DOMAIN t : Len(s) + i \in DOMAIN u /\ u[Len(s) + i] = t[i]
    BY Concatenation
  <1> HIDE DEF u
  <1>2. AnnouncedIn(u) = AnnouncedIn(s) \cup AnnouncedIn(t)
    BY <1>1 DEF AnnouncedIn
  <1>3. WeakenedIn(u) = WeakenedIn(s) \cup WeakenedIn(t)
    BY <1>1 DEF WeakenedIn
  <1> QED BY <1>2, <1>3 DEF u

LEMMA AboutParts ==
    ASSUME NEW A, NEW B, NEW S
    PROVE  About(A \cup B, S) = About(A, S) \cup About(B, S)
  BY DEF About

LEMMA AboutOne ==
    ASSUME NEW by, NEW h, NEW d, NEW S
    PROVE  About({[by |-> by, hyp |-> h, disposition |-> d]}, S)
             = IF d \in S THEN {<<by, h>>} ELSE {}
  <1> DEFINE a == [by |-> by, hyp |-> h, disposition |-> d]
  <1>1. a.by = by /\ a.hyp = h /\ a.disposition = d
    OBVIOUS
  <1> HIDE DEF a
  <1>2. About({a}, S) = IF d \in S THEN {<<by, h>>} ELSE {}
    BY <1>1 DEF About
  <1> QED BY <1>2 DEF a

\* A turn on a hypothesis, as far as anomalies are concerned: what it adds to
\* the events and to the anomalies.
LEMMA TurnAgrees ==
    ASSUME SInv, AllOutcomes, phase = "appraising", NEW q \in PlanType,
           Turned(q), q.appraised = plan.appraised,
           Shown(plan), Borne(plan), Reported(plan),
           Agreeing(plan, "appraising")
    PROVE  Agreeing(q, "appraising")
  <1>1. plan \in PlanType /\ plan.events \in Seq(EventType)
    BY PlanFields DEF SInv, IInv, TypeOK
  <1>2. Repeats(plan, "appraising") => Repeats(q, "appraising")
    BY <1>1, TurnBears, RepeatsGrow
  <1>3. CASE q.events = plan.events /\ q.anomalies = plan.anomalies
    BY <1>2, <1>3 DEF Agreeing
  <1>4. ASSUME NEW h, NEW kind, Bears(q, h, kind),
               \E i \in DOMAIN plan.bearings : plan.bearings[i].hyp = h
        PROVE  Repeats(q, "appraising")
    BY <1>1, <1>4, SecondBearingRepeats
  <1>5. ASSUME NEW h, NEW r, NEW what, TurnsFor(q, h, r, what)
        PROVE  Agreeing(q, "appraising")
    <2> DEFINE no == FALSE
               e == EventOf(plan, h, what, no)
    <2>1. TurnOf(q, h, r, what, no, "supports")
      BY <1>5 DEF TurnsFor
    <2> HIDE DEF no
    <2>2. e \in EventType /\ e.outcome = what /\ e.anomalous = no
      BY <2>1, TurnAnnounces
    <2>3. q.events = Append(plan.events, e)
      BY <2>1, TurnWrites
    <2>4. q.anomalies = plan.anomalies
      BY <1>5 DEF TurnsFor
    <2>5. what \notin Weakening
      BY <2>1 DEF TurnOf, Weakening
    <2> HIDE DEF e
    <2>6. /\ AnnouncedIn(q.events) = AnnouncedIn(plan.events) \cup {}
          /\ WeakenedIn(q.events) = WeakenedIn(plan.events) \cup {}
      BY <1>1, <2>2, <2>3, <2>5, OneMoreAnnounced DEF no
    <2> QED BY <1>2, <2>4, <2>6 DEF Agreeing
  <1>6. ASSUME NEW h, NEW r, NEW what, NEW anomalous, NEW kind,
               TurnsAgainst(q, h, r, what, anomalous, kind)
        PROVE  Agreeing(q, "appraising")
    <2> DEFINE e == EventOf(plan, h, what, anomalous)
               a == [by |-> Ev, hyp |-> h, disposition |-> "revise"]
               more == IF anomalous THEN {a} ELSE {}
               pairs == IF anomalous THEN {<<Ev, h>>} ELSE {}
               Other == {"escalate", "reject"}
    <2>1. /\ TurnOf(q, h, r, what, anomalous, "contradicts") /\ Bears(q, h, kind)
          /\ q.anomalies = plan.anomalies \cup more
      BY <1>6 DEF TurnsAgainst
    <2>2. /\ e \in EventType /\ e.hyp = h /\ e.by = Ev
          /\ e.anomalous = anomalous
      BY <2>1, TurnAnnounces
    <2>3. q.events = Append(plan.events, e)
      BY <2>1, TurnWrites
    <2>4. About(more, {"revise"}) = pairs /\ About(more, Other) = {}
      <3>1. \A S : About({}, S) = {}
        BY DEF About
      <3>2. "revise" \in {"revise"} /\ "revise" \notin Other
        OBVIOUS
      <3>3. \A S : About({a}, S) = IF "revise" \in S THEN {<<Ev, h>>} ELSE {}
        BY AboutOne
      <3> HIDE DEF a, Other
      <3> QED BY <3>1, <3>2, <3>3
    <2> HIDE DEF e, a
    <2>5. /\ AnnouncedIn(q.events) = AnnouncedIn(plan.events) \cup pairs
          /\ WeakenedIn(q.events) \subseteq WeakenedIn(plan.events) \cup {<<Ev, h>>}
      BY <1>1, <2>2, <2>3, OneMoreAnnounced
    <2> HIDE DEF more, pairs
    <2>6. /\ About(q.anomalies, {"revise"})
                = About(plan.anomalies, {"revise"}) \cup pairs
          /\ About(q.anomalies, Other) = About(plan.anomalies, Other) \cup {}
      <3> HIDE DEF Other
      <3>1. ASSUME NEW S
            PROVE  About(q.anomalies, S) = About(plan.anomalies, S) \cup About(more, S)
        <4>1. About(plan.anomalies \cup more, S)
                = About(plan.anomalies, S) \cup About(more, S)
          BY AboutParts
        <4> QED BY <2>1, <4>1
      <3>2. /\ About(q.anomalies, {"revise"})
                  = About(plan.anomalies, {"revise"}) \cup About(more, {"revise"})
            /\ About(q.anomalies, Other)
                  = About(plan.anomalies, Other) \cup About(more, Other)
        BY <3>1
      <3> QED BY <2>4, <3>2
    <2>7. <<Ev, h>> \in About(plan.anomalies, Other) => Repeats(q, "appraising")
      <3> SUFFICES ASSUME <<Ev, h>> \in About(plan.anomalies, Other)
                   PROVE  Repeats(q, "appraising")
        OBVIOUS
      <3>1. \E b \in plan.anomalies : b.by = Ev /\ b.hyp = h
        BY DEF About
      <3>2. \E i \in DOMAIN plan.bearings : plan.bearings[i].hyp = h
        BY <3>1 DEF Reported
      <3> QED BY <1>4, <2>1, <3>2
    <2> HIDE DEF Other
    <2>8. \/ WeakenedIn(q.events) \cap About(q.anomalies, Other) = {}
          \/ Repeats(q, "appraising")
      BY <1>2, <2>5, <2>6, <2>7 DEF Agreeing, Other
    <2>9. AnnouncedIn(q.events) = About(q.anomalies, {"revise"})
      BY <2>5, <2>6 DEF Agreeing
    <2> QED BY <2>8, <2>9 DEF Agreeing, Other
  <1>7. ASSUME NEW h \in Hypotheses, NEW d \in {"escalate", "reject"},
               Bears(q, h, "contradicts"), q.events = plan.events,
               q.anomalies = plan.anomalies \cup
                               {[by |-> Ev, hyp |-> h, disposition |-> d]}
        PROVE  Agreeing(q, "appraising")
    <2> DEFINE Other == {"escalate", "reject"}
               a == [by |-> Ev, hyp |-> h, disposition |-> d]
    <2>1. /\ About({a}, {"revise"}) = {}
          /\ About({a}, Other) = {<<Ev, h>>}
      <3>1. d \notin {"revise"} /\ d \in Other
        BY <1>7
      <3>2. \A S : About({a}, S) = IF d \in S THEN {<<Ev, h>>} ELSE {}
        BY AboutOne
      <3> HIDE DEF a, Other
      <3> QED BY <3>1, <3>2
    <2>2. /\ About(q.anomalies, {"revise"}) = About(plan.anomalies, {"revise"}) \cup {}
          /\ About(q.anomalies, Other) = About(plan.anomalies, Other) \cup {<<Ev, h>>}
      <3>1. q.anomalies = plan.anomalies \cup {a}
        BY <1>7
      <3> HIDE DEF a, Other
      <3>2. ASSUME NEW S
            PROVE  About(q.anomalies, S) = About(plan.anomalies, S) \cup About({a}, S)
        <4>1. About(plan.anomalies \cup {a}, S)
                = About(plan.anomalies, S) \cup About({a}, S)
          BY AboutParts
        <4> QED BY <3>1, <4>1
      <3>3. /\ About(q.anomalies, {"revise"})
                  = About(plan.anomalies, {"revise"}) \cup About({a}, {"revise"})
            /\ About(q.anomalies, Other)
                  = About(plan.anomalies, Other) \cup About({a}, Other)
        BY <3>2
      <3> QED BY <2>1, <3>3
    <2>3. <<Ev, h>> \in WeakenedIn(plan.events) => Repeats(q, "appraising")
      <3> SUFFICES ASSUME <<Ev, h>> \in WeakenedIn(plan.events)
                   PROVE  Repeats(q, "appraising")
        OBVIOUS
      <3>1. PICK i \in DOMAIN plan.events : /\ plan.events[i].outcome \in Weakening
                                            /\ plan.events[i].by = Ev
                                            /\ plan.events[i].hyp = h
        BY DEF WeakenedIn
      <3>2. Ev \in plan.working[h].con
        BY <3>1 DEF Shown
      <3> QED BY <1>4, <1>7, <3>2 DEF Borne
    <2> HIDE DEF Other
    <2>4. \/ WeakenedIn(q.events) \cap About(q.anomalies, Other) = {}
          \/ Repeats(q, "appraising")
      BY <1>2, <1>7, <2>2, <2>3 DEF Agreeing, Other
    <2>5. AnnouncedIn(q.events) = About(q.anomalies, {"revise"})
      BY <1>7, <2>2 DEF Agreeing
    <2> QED BY <2>4, <2>5 DEF Agreeing, Other
  <1>8. CASE Noted(q)
    BY <1>3, <1>7, <1>8 DEF Noted, Remarked, Evaluations, Held
  <1> QED BY <1>5, <1>6, <1>8 DEF Turned

\* A turn notes an anomaly only where it notes a bearing.
LEMMA TurnReports ==
    ASSUME SInv, phase = "appraising", NEW q \in PlanType, Turned(q),
           Reported(plan), \A a \in plan.anomalies : a.by \in Fresh
    PROVE  Reported(q) /\ \A a \in q.anomalies : a.by \in Fresh
  <1>1. plan.bearings \in Seq(BearingType) /\ Ev \in Fresh
    BY PlanFields, UnderAppraisalIsFresh DEF SInv, IInv, TypeOK
  <1>2. ASSUME NEW h, NEW kind, Bears(q, h, kind)
        PROVE  /\ \A i \in DOMAIN plan.bearings :
                      i \in DOMAIN q.bearings /\ q.bearings[i] = plan.bearings[i]
               /\ \E i \in DOMAIN q.bearings : q.bearings[i].hyp = h
    <2> DEFINE b == [hyp |-> h, kind |-> kind]
    <2>1. q.bearings = Append(plan.bearings, b) /\ b.hyp = h
      BY <1>2 DEF Bears
    <2> HIDE DEF b
    <2>2. /\ Len(plan.bearings) + 1 \in DOMAIN q.bearings
          /\ q.bearings[Len(plan.bearings) + 1] = b
      BY <1>1, <2>1, Appending
    <2>3. \A i \in DOMAIN plan.bearings :
              i \in DOMAIN q.bearings /\ q.bearings[i] = plan.bearings[i]
      BY <1>1, <2>1, Appending
    <2> QED BY <2>1, <2>2, <2>3
  <1>3. ASSUME NEW h, NEW d, NEW kind,
               \/ q.anomalies = plan.anomalies
               \/ q.anomalies = plan.anomalies \cup
                                  {[by |-> Ev, hyp |-> h, disposition |-> d]},
               Bears(q, h, kind)
        PROVE  Reported(q) /\ \A a \in q.anomalies : a.by \in Fresh
    <2>1. \A a \in q.anomalies : a \in plan.anomalies \/ (a.by = Ev /\ a.hyp = h)
      BY <1>3
    <2>2. \A a \in q.anomalies : a.by \in Fresh
      BY <1>1, <2>1
    <2>3. Reported(q)
      BY <1>2, <1>3, <2>1 DEF Reported
    <2> QED BY <2>2, <2>3
  <1>4. CASE q.bearings = plan.bearings /\ q.anomalies = plan.anomalies
    BY <1>4 DEF Reported
  <1>5. CASE Noted(q)
    BY <1>3, <1>4, <1>5 DEF Noted
  <1>6. ASSUME NEW h, NEW r, NEW what, TurnsFor(q, h, r, what)
        PROVE  Reported(q) /\ \A a \in q.anomalies : a.by \in Fresh
    BY <1>3, <1>4, <1>6 DEF TurnsFor
  <1>7. ASSUME NEW h, NEW r, NEW what, NEW anomalous, NEW kind,
               TurnsAgainst(q, h, r, what, anomalous, kind)
        PROVE  Reported(q) /\ \A a \in q.anomalies : a.by \in Fresh
    BY <1>3, <1>7 DEF TurnsAgainst
  <1> QED BY <1>5, <1>6, <1>7 DEF Turned

\* Closing decides the anomalies of the plan with those already decided.
LEMMA ClosingDecides ==
    ASSUME AnomalyInv, Hold \/ Commit
    PROVE  AnomaliesDecide' /\ (\A a \in anomalies : a.by =< ids.evidence)'
  <1> DEFINE N == ids.evidence
             Other == {"escalate", "reject"}
  <1>1. SInv /\ AnomaliesDecide /\ TypeOK
    BY DEF AnomalyInv, StoryInv, EffectInv, SInv, IInv
  <1>2. /\ ids'.evidence = Ev /\ N =< Ev /\ N \in Nat /\ Ev \in Nat
        /\ phase = "planning" /\ Valid /\ plan \in PlanType
    BY <1>1, ClosingNumbers
  <1>3. ledger \in Seq(EventType) /\ plan.events \in Seq(EventType)
    BY <1>1, <1>2, StoreFields, PlanFields
  <1>4. /\ ledger' = ledger \o plan.events
        /\ anomalies' = anomalies \cup plan.anomalies
    <2>1. CASE Hold
      <3>1. plan.events = <<>> /\ ledger' = ledger /\ ledger \o <<>> = ledger
        BY <1>3, <2>1 DEF Hold
      <3> QED BY <2>1, <3>1 DEF Hold, WriteAudit
    <2>2. CASE Commit
      BY <2>2 DEF Commit, WriteAudit
    <2> QED BY <2>1, <2>2
  <1>5. /\ AnnouncedIn(plan.events) = About(plan.anomalies, {"revise"})
        /\ WeakenedIn(plan.events) \cap About(plan.anomalies, Other) = {}
    BY <1>2, ValidRepeatsNothing DEF AnomalyInv, Agreeing
  <1>6. /\ AnnouncedIn(ledger) = About(anomalies, {"revise"})
        /\ WeakenedIn(ledger) \cap About(anomalies, Other) = {}
    BY <1>1, AnomaliesInParts
  <1> HIDE DEF Other
  <1>7. ASSUME NEW x, x \in WeakenedIn(ledger) \/ x \in About(anomalies, Other)
        PROVE  x[1] \in Nat /\ x[1] =< N
    <2>1. \A i \in DOMAIN ledger : ledger[i].by \in Nat /\ ledger[i].by =< N
      BY <1>3, EventFields DEF AnomalyInv, StoryInv, EffectInv
    <2>2. \A a \in anomalies : a.by \in Nat /\ a.by =< N
      BY <1>1 DEF AnomalyInv, TypeOK, AnomalyType
    <2> QED BY <1>7, <2>1, <2>2 DEF WeakenedIn, About
  <1>8. ASSUME NEW x, x \in WeakenedIn(plan.events)
                         \/ x \in About(plan.anomalies, Other)
        PROVE  x[1] \in Nat /\ ~(x[1] =< N)
    <2>1. x[1] \in Fresh
      BY <1>2, <1>8 DEF AnomalyInv, StoryInv, EffectInv, Shown, WeakenedIn, About
    <2> QED BY <1>2, <2>1 DEF Fresh
  <1>9. \A S : About(anomalies', S) = About(anomalies, S) \cup About(plan.anomalies, S)
    BY <1>4, AboutParts
  <1>10. /\ AnnouncedIn(ledger') = AnnouncedIn(ledger) \cup AnnouncedIn(plan.events)
         /\ WeakenedIn(ledger') = WeakenedIn(ledger) \cup WeakenedIn(plan.events)
    BY <1>3, <1>4, AnnouncedInParts
  <1>11. AnnouncedIn(ledger') = About(anomalies', {"revise"})
    <2>1. About(anomalies', {"revise"})
            = About(anomalies, {"revise"}) \cup About(plan.anomalies, {"revise"})
      BY <1>9
    <2> QED BY <1>5, <1>6, <1>10, <2>1
  <1>12. WeakenedIn(ledger') \cap About(anomalies', Other) = {}
    <2> SUFFICES ASSUME NEW x, x \in WeakenedIn(ledger'), x \in About(anomalies', Other)
                 PROVE  FALSE
      OBVIOUS
    <2>1. x \in WeakenedIn(ledger) \/ x \in WeakenedIn(plan.events)
      BY <1>10
    <2>2. x \in About(anomalies, Other) \/ x \in About(plan.anomalies, Other)
      BY <1>9
    <2> QED BY <1>5, <1>6, <1>7, <1>8, <2>1, <2>2
  <1>13. AnomaliesDecide'
    BY <1>11, <1>12 DEF AnomaliesDecide, AnnouncedIn, WeakenedIn, About,
                        Weakening, Other
  <1>14. \A a \in anomalies' : a.by =< ids'.evidence
    <2>1. \A a \in anomalies : a.by \in Nat /\ a.by =< N
      BY <1>1 DEF AnomalyInv, TypeOK, AnomalyType
    <2>2. \A a \in plan.anomalies : a.by \in Fresh
      BY <1>2 DEF AnomalyInv
    <2> QED BY <1>2, <1>4, <2>1, <2>2 DEF Fresh
  <1> QED BY <1>13, <1>14

LEMMA MovingOnAgrees ==
    ASSUME AnomalyInv, IInv', SkipObservation \/ Appraise \/ EndObservation
    PROVE  /\ Agreeing(plan', phase')
           /\ \A a \in plan'.anomalies : a.by \in Fresh'
           /\ phase' = "appraising" => Reported(plan)'
  <1>1. IInv
    BY DEF AnomalyInv, StoryInv, EffectInv, SInv
  <1>2. /\ phase # "idle" /\ UNCHANGED <<stores, ids, outcome>>
        /\ Evaluations(plan') = Evaluations(plan)
        /\ plan'.anomalies = plan.anomalies
        /\ plan'.index \in Nat /\ plan.index =< plan'.index
    BY <1>1, MovingOnFields
  <1>3. plan'.events = plan.events
    BY <1>2 DEF Evaluations
  <1>4. Agreeing(plan', phase')
    BY <1>1, <1>2, <1>3, MovingOnRepeats DEF AnomalyInv, Agreeing
  <1>5. plan.index \in Nat /\ ids.evidence \in Nat
    BY <1>1, StoreFields DEF IInv, TypeOK, PlanType
  <1>6. Fresh \subseteq Fresh'
    BY <1>2, <1>5 DEF Fresh, Ev
  <1>7. \A a \in plan'.anomalies : a.by \in Fresh'
    BY <1>2, <1>6 DEF AnomalyInv
  <1>8. phase' = "appraising" => Reported(plan)'
    <2>1. CASE Appraise
      <3>1. plan'.index = plan.index + 1
        BY <1>1, <2>1 DEF Appraise, IInv, TypeOK, PlanType
      <3>2. Ev' \notin Fresh
        BY <1>2, <1>5, <3>1 DEF Fresh, Ev
      <3>3. \A a \in plan'.anomalies : a.by # Ev'
        BY <1>2, <3>2 DEF AnomalyInv
      <3> QED BY <3>3 DEF Reported
    <2>2. CASE SkipObservation \/ EndObservation
      BY <1>2, <2>2 DEF SkipObservation, EndObservation
    <2> QED BY <2>1, <2>2
  <1> QED BY <1>4, <1>7, <1>8

LEMMA NextAnomalyInv == AnomalyInv /\ StoryInv' /\ [Next]_vars => AnomalyInv'
  <1> SUFFICES ASSUME AnomalyInv, StoryInv', [Next]_vars PROVE AnomalyInv'
    OBVIOUS
  <1>1. /\ StoryInv /\ EffectInv /\ SInv /\ AllOutcomes /\ IInv' /\ TypeOK
        /\ \A a \in anomalies : a.by =< ids.evidence
    BY DEF AnomalyInv, StoryInv, EffectInv, SInv, IInv
  <1>a. ASSUME UNCHANGED stores, ids' = ids,
               phase' # "idle" => /\ Agreeing(plan', phase')
                                  /\ \A a \in plan'.anomalies : a.by \in Fresh',
               phase' = "appraising" => Reported(plan)'
        PROVE  AnomalyInv'
    <2>1. AnomaliesDecide'
      BY <1>a DEF AnomalyInv, AnomaliesDecide, stores
    <2>2. phase' # "idle" => Agreeing(plan, phase)'
      BY <1>a DEF Agreeing, AnnouncedIn, WeakenedIn, About, Repeats, Heard
    <2> QED BY <1>1, <1>a, <2>1, <2>2 DEF AnomalyInv, stores
  <1>2. CASE RecordInteraction
    <2>1. /\ UNCHANGED <<stores, ids>> /\ plan'.events = <<>>
          /\ plan'.anomalies = {} /\ phase' = "planning"
      BY <1>1, <1>2, OpeningFields DEF SInv
    <2>2. DOMAIN plan'.events = {}
      BY <2>1
    <2>3. Agreeing(plan', phase')
      BY <2>1, <2>2 DEF Agreeing, AnnouncedIn, WeakenedIn, About
    <2> QED BY <1>a, <2>1, <2>3
  <1>3. CASE SkipObservation \/ Appraise \/ EndObservation
    <2>1. UNCHANGED <<stores, ids>>
      BY <1>1, <1>3, MovingOnFields DEF SInv
    <2> QED BY <1>1, <1>3, <1>a, <2>1, MovingOnAgrees
  <1>4. CASE Adjudicate \/ Bear
    <2>1. /\ phase = "appraising" /\ UNCHANGED <<stores, ids, phase>>
          /\ plan' \in PlanType /\ Turned(plan') /\ Frame(plan') = Frame(plan)
      BY <1>1, <1>4, AdjudicateIsTurn, BearIsTurn
    <2>2. plan'.appraised = plan.appraised /\ Ev' = Ev /\ Fresh' = Fresh
      BY <2>1 DEF Frame, Ev, Fresh
    <2>3. /\ Shown(plan) /\ Borne(plan) /\ Reported(plan)
          /\ Agreeing(plan, "appraising")
          /\ \A a \in plan.anomalies : a.by \in Fresh
      BY <1>1, <2>1 DEF AnomalyInv, EffectInv
    <2>4. Agreeing(plan', "appraising")
      BY <1>1, <2>1, <2>2, <2>3, TurnAgrees
    <2>5. Reported(plan') /\ \A a \in plan'.anomalies : a.by \in Fresh
      BY <1>1, <2>1, <2>3, TurnReports
    <2>6. Reported(plan)'
      BY <2>2, <2>5 DEF Reported
    <2> QED BY <1>a, <2>1, <2>2, <2>4, <2>5, <2>6
  <1>5. CASE RejectAppraisal \/ Breach \/ RejectPlan \/ Interrupt
    BY <1>a, <1>5 DEF RejectAppraisal, Breach, RejectPlan, Interrupt, Abandon, Close
  <1>6. CASE Hold \/ Commit
    <2>1. phase' = "idle"
      BY <1>6 DEF Hold, Commit, Close
    <2> QED BY <1>6, <2>1, ClosingDecides DEF AnomalyInv
  <1>7. CASE UNCHANGED vars
    <2>1. UNCHANGED <<stores, ids>> /\ phase' = phase /\ plan' = plan
      BY <1>7 DEF vars
    <2>2. Ev' = Ev /\ Fresh' = Fresh
      BY <2>1 DEF Ev, Fresh
    <2>3. phase' = "appraising" => Reported(plan)'
      BY <2>1, <2>2 DEF AnomalyInv, Reported
    <2>4. phase' # "idle" => /\ Agreeing(plan', phase')
                             /\ \A a \in plan'.anomalies : a.by \in Fresh'
      BY <2>1, <2>2 DEF AnomalyInv
    <2> QED BY <1>a, <2>1, <2>3, <2>4
  <1> QED BY <1>2, <1>3, <1>4, <1>5, <1>6, <1>7 DEF Next, Step, NoMoreCalls

LEMMA InitAnomalyInv == Init /\ AllOutcomes => AnomalyInv
  <1> SUFFICES ASSUME Init, AllOutcomes PROVE AnomalyInv
    OBVIOUS
  <1>1. phase = "idle" /\ DOMAIN ledger = {} /\ anomalies = {}
    BY DEF Init
  <1> QED BY <1>1, InitStoryInv DEF AnomalyInv, AnomaliesDecide

\* The invariant behind the next theorem: what a plan notes as anomalies and
\* what its events announce agree, unless its appraiser repeated a handle.
THEOREM AnomalyInductive == Spec /\ AllOutcomes => []AnomalyInv
  BY StoryInductive, InitAnomalyInv, NextAnomalyInv, PTL DEF Spec

\* Where every outcome commits, the disposition of an anomaly decides whether
\* there is a revision: a revised one has the weakening it announces, an
\* escalated or rejected one none, and no event claims an unrecorded anomaly.
THEOREM AnomaliesAlwaysDecide == Spec /\ AllOutcomes => []AnomaliesDecide
  <1>1. AnomalyInv => AnomaliesDecide
    BY DEF AnomalyInv
  <1> QED BY AnomalyInductive, <1>1, PTL
----------------------------------------------------------------------------
(* Opposition is contradicted, when every outcome commits.                  *)

\* A turn answers the contradiction it is given.
LEMMA TurnAnswers ==
    ASSUME SInv, phase = "appraising", NEW q \in PlanType, Turned(q),
           q.appraised = plan.appraised, AllAnswered(plan, "appraising")
    PROVE  AllAnswered(q, "appraising")
  <1>1. plan.bearings \in Seq(BearingType)
    BY PlanFields DEF SInv, IInv, TypeOK
  <1>2. ASSUME plan.edges \subseteq q.edges, plan.anomalies \subseteq q.anomalies,
               q.bearings = plan.bearings
                 \/ \E h, kind : /\ Bears(q, h, kind)
                                 /\ kind = "contradicts" => Answered(q, h)
        PROVE  AllAnswered(q, "appraising")
    <2> SUFFICES ASSUME NEW obs \in Heard(q, "appraising"),
                        NEW i \in DOMAIN obs.bearings,
                        obs.bearings[i].kind = "contradicts"
                 PROVE  Answered(q, obs.bearings[i].hyp)
      BY DEF AllAnswered
    <2>1. \A h : Answered(plan, h) => Answered(q, h)
      BY <1>2 DEF Answered
    <2>2. CASE obs \in Heard(plan, "appraising")
      BY <2>1, <2>2 DEF AllAnswered
    <2>3. CASE obs = Saying(q)
      <3>1. obs.bearings = q.bearings
        BY <2>3 DEF Saying
      <3>2. CASE i \in DOMAIN plan.bearings /\ q.bearings[i] = plan.bearings[i]
        <4>1. Saying(plan) \in Heard(plan, "appraising")
              /\ Saying(plan).bearings = plan.bearings
          BY DEF Heard, Saying
        <4> QED BY <2>1, <3>1, <3>2, <4>1 DEF AllAnswered
      <3>3. ASSUME NEW h, NEW kind, Bears(q, h, kind),
                   kind = "contradicts" => Answered(q, h),
                   ~(i \in DOMAIN plan.bearings /\ q.bearings[i] = plan.bearings[i])
            PROVE  Answered(q, obs.bearings[i].hyp)
        <4> DEFINE b == [hyp |-> h, kind |-> kind]
        <4>1. q.bearings = Append(plan.bearings, b) /\ b.hyp = h /\ b.kind = kind
          BY <3>3 DEF Bears
        <4> HIDE DEF b
        <4>2. q.bearings[i] = b
          BY <1>1, <3>1, <3>3, <4>1, Appending
        <4> QED BY <3>1, <3>3, <4>1, <4>2
      <3> QED BY <1>2, <3>1, <3>2, <3>3
    <2> QED BY <2>2, <2>3 DEF Heard
  <1>3. CASE Noted(q)
    <2>1. plan.edges \subseteq q.edges
      BY <1>3 DEF Noted, Remarked, Evaluations
    <2>2. CASE q.bearings = plan.bearings /\ q.anomalies = plan.anomalies
      BY <1>2, <2>1, <2>2
    <2>3. ASSUME NEW h \in Held, Bears(q, h, "supports"),
                 q.anomalies = plan.anomalies
          PROVE  AllAnswered(q, "appraising")
      BY <1>2, <2>1, <2>3
    <2>4. ASSUME NEW h \in Held, NEW d \in {"escalate", "reject"},
                 Bears(q, h, "contradicts"),
                 q.anomalies = plan.anomalies \cup
                                 {[by |-> Ev, hyp |-> h, disposition |-> d]}
          PROVE  AllAnswered(q, "appraising")
      <3>1. \E a \in q.anomalies : a.hyp = h
        <4> DEFINE a == [by |-> Ev, hyp |-> h, disposition |-> d]
        <4>1. a \in q.anomalies /\ a.hyp = h
          BY <2>4
        <4> HIDE DEF a
        <4> QED BY <4>1
      <3>2. Answered(q, h) /\ plan.anomalies \subseteq q.anomalies
        BY <2>4, <3>1 DEF Answered
      <3> QED BY <1>2, <2>1, <2>4, <3>2
    <2> QED BY <1>3, <2>2, <2>3, <2>4 DEF Noted
  <1>4. ASSUME NEW h, NEW r, NEW what, TurnsFor(q, h, r, what)
        PROVE  AllAnswered(q, "appraising")
    <2>1. /\ q.anomalies = plan.anomalies
          /\ q.bearings = plan.bearings \/ Bears(q, h, "supports")
          /\ q.edges = plan.edges \cup {<<Ev, "supports", h>>}
      BY <1>4 DEF TurnsFor, TurnOf, Evaluates
    <2> QED BY <1>2, <2>1
  <1>5. ASSUME NEW h, NEW r, NEW what, NEW anomalous, NEW kind,
               TurnsAgainst(q, h, r, what, anomalous, kind)
        PROVE  AllAnswered(q, "appraising")
    <2>1. /\ plan.anomalies \subseteq q.anomalies /\ Bears(q, h, kind)
          /\ q.edges = plan.edges \cup {<<Ev, "contradicts", h>>}
      BY <1>5 DEF TurnsAgainst, TurnOf, Evaluates
    <2>2. Answered(q, h)
      <3> DEFINE e == <<Ev, "contradicts", h>>
      <3>1. e \in q.edges /\ e[2] = "contradicts" /\ e[3] = h
        BY <2>1
      <3> HIDE DEF e
      <3> QED BY <3>1 DEF Answered
    <2> QED BY <1>2, <2>1, <2>2
  <1> QED BY <1>3, <1>4, <1>5 DEF Turned

\* What has been said stays said.
LEMMA SaidGrows ==
    ASSUME NEW q, q.appraised = plan.appraised,
           \A j \in DOMAIN plan.proposals :
               /\ j \in DOMAIN q.proposals
               /\ q.proposals[j] = plan.proposals[j],
           NEW key, NEW stance, Said(plan, "appraising", key, stance)
    PROVE  Said(q, "appraising", key, stance)
  <1>1. PICK obs \in Heard(plan, "appraising") :
            \E j \in DOMAIN obs.proposals : /\ obs.proposals[j].key = key
                                            /\ obs.proposals[j].stance = stance
    BY DEF Said
  <1>2. CASE obs \in Heard(q, "appraising")
    BY <1>1, <1>2 DEF Said
  <1>3. CASE obs = Saying(plan)
    <2>1. obs.proposals = plan.proposals /\ Saying(q).proposals = q.proposals
          /\ Saying(q) \in Heard(q, "appraising")
      BY <1>3 DEF Saying, Heard
    <2>2. \E j \in DOMAIN q.proposals : /\ q.proposals[j].key = key
                                        /\ q.proposals[j].stance = stance
      BY <1>1, <2>1
    <2> QED BY <2>1, <2>2 DEF Said
  <1> QED BY <1>2, <1>3 DEF Heard

\* Adjudication words and parks what the appraiser just said.
LEMMA AdjudicateSays ==
    ASSUME SInv, phase = "appraising", AllSaid(plan, "appraising"),
           NEW q \in PlanType, q.appraised = plan.appraised,
           NEW c \in Candidates, NEW m, Adjudged(q, c, m)
    PROVE  AllSaid(q, "appraising")
  <1> DEFINE v == ProposalOf(c, m)
  <1>1. plan.proposals \in Seq(ProposalType)
    BY PlanFields DEF SInv, IInv, TypeOK
  <1>2. q.proposals = Append(plan.proposals, v) /\ v.key = c.key /\ v.stance = c.stance
    BY DEF Adjudged, ProposalOf
  <1> HIDE DEF v
  <1>3. /\ \A j \in DOMAIN plan.proposals :
              /\ j \in DOMAIN q.proposals
              /\ q.proposals[j] = plan.proposals[j]
        /\ \E j \in DOMAIN q.proposals : q.proposals[j] = v
    <2>1. /\ Len(plan.proposals) + 1 \in DOMAIN q.proposals
          /\ q.proposals[Len(plan.proposals) + 1] = v
      BY <1>1, <1>2, Appending
    <2> QED BY <1>1, <1>2, <2>1, Appending
  <1>4. \A key, stance : Said(plan, "appraising", key, stance)
                            => Said(q, "appraising", key, stance)
    BY <1>3, SaidGrows
  <1>5. Said(q, "appraising", c.key, c.stance)
    <2>1. Saying(q) \in Heard(q, "appraising") /\ Saying(q).proposals = q.proposals
      BY DEF Heard, Saying
    <2> QED BY <1>2, <1>3, <2>1 DEF Said
  <1>6. CASE Leaves(q, c)
    <2>1. \A h \in Hypotheses : /\ q.versions[h] = plan.versions[h]
                                /\ KeyIn(q, h) = KeyIn(plan, h)
      BY <1>6 DEF Leaves, Identity, KeyIn
    <2>2. \A r \in q.parked :
              r \in plan.parked \/ (r.key = c.key /\ r.stance = c.stance)
      <3> DEFINE p == [by |-> Ev, key |-> c.key, text |-> c.text,
                       stance |-> c.stance]
      <3>1. p.key = c.key /\ p.stance = c.stance
        OBVIOUS
      <3>2. q.parked = plan.parked \/ q.parked = plan.parked \cup {p}
        BY <1>6 DEF Leaves
      <3> HIDE DEF p
      <3> QED BY <3>1, <3>2
    <2>3. \A r \in q.parked : Said(q, "appraising", r.key, r.stance)
      BY <1>4, <1>5, <2>2 DEF AllSaid
    <2>4. \A h \in Hypotheses : \A j \in DOMAIN q.versions[h] :
              Said(q, "appraising", KeyIn(q, h), q.versions[h][j].stance)
      BY <1>4, <2>1 DEF AllSaid
    <2> QED BY <2>3, <2>4 DEF AllSaid
  <1>7. ASSUME NEW h, q.parked = plan.parked, Refines(q, c, h) \/ Founds(q, c, h)
        PROVE  AllSaid(q, "appraising")
    <2>1. WordsAnew(q, c, h)
      BY <1>7, RefinesOrFoundsAnew
    <2>2. ASSUME NEW k \in Hypotheses, NEW j \in DOMAIN q.versions[k]
          PROVE  Said(q, "appraising", KeyIn(q, k), q.versions[k][j].stance)
      <3>1. CASE /\ j \in DOMAIN plan.versions[k]
                 /\ q.versions[k][j] = plan.versions[k][j]
                 /\ KeyIn(q, k) = KeyIn(plan, k)
        BY <1>4, <3>1 DEF AllSaid
      <3>2. CASE k = h /\ q.versions[k][j] = VersionOf(c) /\ KeyIn(q, k) = c.key
        <4>1. VersionOf(c).stance = c.stance
          BY DEF VersionOf
        <4> QED BY <1>5, <3>2, <4>1
      <3> QED BY <2>1, <3>1, <3>2, AnewFields
    <2>3. \A r \in q.parked : Said(q, "appraising", r.key, r.stance)
      BY <1>4, <1>7 DEF AllSaid
    <2> QED BY <2>2, <2>3 DEF AllSaid
  <1> QED BY <1>6, <1>7 DEF Adjudged

\* So does a bearing: it words nothing.
LEMMA TurnSays ==
    ASSUME SInv, AllSaid(plan, "appraising"), Adjudicate \/ Bear
    PROVE  AllSaid(plan', "appraising")
  <1>1. /\ phase = "appraising" /\ plan' \in PlanType
        /\ plan'.appraised = plan.appraised
    BY AdjudicateIsTurn, BearIsTurn DEF Frame
  <1>2. IInv /\ Placed(plan) /\ Beyond(plan)
    BY <1>1 DEF SInv, Underway
  <1>3. CASE Adjudicate
    <2>1. PICK c \in Candidates, m \in 0..MaxHypotheses : Adjudged(plan', c, m)
      BY <1>2, <1>3, AdjudicateWords
    <2> QED BY <1>1, <2>1, AdjudicateSays
  <1>4. CASE Bear
    <2>1. /\ Identity(plan') = Identity(plan)
          /\ plan'.proposals = plan.proposals /\ plan'.parked = plan.parked
      BY <1>2, <1>4, BearWords
    <2>2. \A key, stance : Said(plan, "appraising", key, stance)
                              => Said(plan', "appraising", key, stance)
      BY <1>1, <2>1, SaidGrows
    <2> QED BY <2>1, <2>2 DEF AllSaid, Identity, KeyIn
  <1> QED BY <1>3, <1>4

LEMMA MovingOnIsAnswered ==
    ASSUME IInv, SkipObservation \/ Appraise \/ EndObservation,
           AllAnswered(plan, phase), AllSaid(plan, phase)
    PROVE  AllAnswered(plan', phase') /\ AllSaid(plan', phase')
  <1> DEFINE none == [proposals |-> <<>>, bearings |-> <<>>]
  <1>1. /\ Evaluations(plan') = Evaluations(plan)
        /\ Identity(plan') = Identity(plan)
        /\ plan'.anomalies = plan.anomalies /\ plan'.parked = plan.parked
    BY MovingOnFields
  <1>2. /\ Heard(plan, phase) \subseteq Heard(plan', phase')
        /\ Heard(plan', phase') \subseteq Heard(plan, phase) \cup {none}
    BY MovingOnHears
  <1>3. DOMAIN none.bearings = {}
    OBVIOUS
  <1> HIDE DEF none
  <1>4. \A h : Answered(plan, h) => Answered(plan', h)
    BY <1>1 DEF Answered, Evaluations
  <1>5. AllAnswered(plan', phase')
    BY <1>2, <1>3, <1>4 DEF AllAnswered
  <1>6. \A key, stance : Said(plan, phase, key, stance)
                            => Said(plan', phase', key, stance)
    BY <1>2 DEF Said
  <1>7. AllSaid(plan', phase')
    BY <1>1, <1>6 DEF AllSaid, Identity, KeyIn
  <1> QED BY <1>5, <1>7

LEMMA NextOppositionInv ==
    OppositionInv /\ AnomalyInv' /\ [Next]_vars => OppositionInv'
  <1> SUFFICES ASSUME OppositionInv, AnomalyInv', [Next]_vars
               PROVE  OppositionInv'
    OBVIOUS
  <1>1. /\ SInv /\ IInv
        /\ phase # "idle" => AllAnswered(plan, phase) /\ AllSaid(plan, phase)
    BY DEF OppositionInv, AnomalyInv, StoryInv, EffectInv, SInv
  <1>a. ASSUME UNCHANGED keyOf,
               phase' # "idle" => AllAnswered(plan', phase') /\ AllSaid(plan', phase')
        PROVE  OppositionInv'
    BY <1>a DEF OppositionInv, AllAnswered, Answered, AllSaid, Said, KeyIn, Heard
  <1>2. CASE RecordInteraction
    <2>1. /\ UNCHANGED stores /\ phase' = "planning"
          /\ plan'.appraised = <<>> /\ plan'.parked = {}
          /\ plan'.versions = [h \in Hypotheses |-> <<>>]
      BY <1>1, <1>2, OpeningFields
    <2>2. /\ \A h \in Hypotheses : DOMAIN plan'.versions[h] = {}
          /\ DOMAIN plan'.appraised = {}
      BY <2>1
    <2>3. Heard(plan', "planning") = {}
      BY <2>2 DEF Heard
    <2>4. AllAnswered(plan', "planning") /\ AllSaid(plan', "planning")
      BY <2>1, <2>2, <2>3 DEF AllAnswered, AllSaid
    <2> QED BY <1>a, <2>1, <2>4 DEF stores
  <1>3. CASE SkipObservation \/ Appraise \/ EndObservation
    <2>1. phase # "idle" /\ UNCHANGED stores
      BY <1>1, <1>3, MovingOnFields
    <2> QED BY <1>1, <1>3, <1>a, <2>1, MovingOnIsAnswered DEF stores
  <1>4. CASE Adjudicate \/ Bear
    <2>1. /\ phase = "appraising" /\ UNCHANGED <<stores, phase>>
          /\ plan' \in PlanType /\ Turned(plan')
          /\ plan'.appraised = plan.appraised
      BY <1>1, <1>4, AdjudicateIsTurn, BearIsTurn DEF Frame
    <2>2. AllAnswered(plan', "appraising")
      BY <1>1, <2>1, TurnAnswers
    <2>3. AllSaid(plan', "appraising")
      BY <1>1, <1>4, <2>1, TurnSays
    <2> QED BY <1>a, <2>1, <2>2, <2>3 DEF stores
  <1>5. CASE RejectAppraisal \/ Breach \/ RejectPlan \/ Interrupt
    BY <1>a, <1>5 DEF RejectAppraisal, Breach, RejectPlan, Interrupt, Abandon,
                      Close, stores
  <1>6. CASE Hold \/ Commit
    <2>1. phase' = "idle"
      BY <1>6 DEF Hold, Commit, Close
    <2> QED BY <2>1 DEF OppositionInv
  <1>7. CASE UNCHANGED vars
    <2>1. UNCHANGED stores /\ phase' = phase /\ plan' = plan
      BY <1>7 DEF vars
    <2> QED BY <1>1, <1>a, <2>1 DEF stores
  <1> QED BY <1>2, <1>3, <1>4, <1>5, <1>6, <1>7 DEF Next, Step, NoMoreCalls

LEMMA InitOppositionInv == Init /\ AllOutcomes => OppositionInv
  BY InitAnomalyInv DEF Init, OppositionInv

\* The invariant behind the next theorem: a reported contradiction leaves an
\* edge or an anomaly, and what a plan words or parks its appraiser said.
THEOREM OppositionInductive == Spec /\ AllOutcomes => []OppositionInv
  BY AnomalyInductive, InitOppositionInv, NextOppositionInv, PTL DEF Spec

\* What a plan says against a held lineage, it answers, and its answer is new
\* to the store.
LEMMA SaidIsContradicted ==
    ASSUME OppositionInv, Hold \/ Commit, NEW g \in Held, NEW key, NEW stance,
           Said(plan, "planning", key, stance),
           keyOf[g] = key, Inverts(CurrentStance(g), stance)
    PROVE  Contradicted(g)
  <1> DEFINE N == ids.evidence
  <1>1. /\ SInv /\ TypeOK /\ AnomalyInv
        /\ edges = EdgesOf(ledger)
        /\ \A i \in DOMAIN ledger : ledger[i].by =< N
        /\ \A a \in anomalies : a.by =< N
    BY DEF OppositionInv, AnomalyInv, StoryInv, EffectInv, SInv, IInv
  <1>2. /\ N \in Nat /\ Ev \in Nat /\ phase = "planning" /\ Valid /\ plan \in PlanType
    BY <1>1, ClosingNumbers
  <1>3. /\ AllAnswered(plan, "planning") /\ plan.edges = EdgesOf(plan.events)
        /\ Shown(plan) /\ \A a \in plan.anomalies : a.by \in Fresh
    BY <1>2 DEF OppositionInv, AnomalyInv, StoryInv, EffectInv
  <1>4. \A x \in Fresh : ~(x =< N)
    BY <1>2 DEF Fresh
  <1>5. Answered(plan, g)
    <2>1. PICK obs \in Heard(plan, "planning") :
              \E j \in DOMAIN obs.proposals : /\ obs.proposals[j].key = key
                                              /\ obs.proposals[j].stance = stance
      BY DEF Said
    <2>2. ~UncontradictedInversion(obs)
      BY <1>2, <2>1 DEF Heard, Valid
    <2>3. g \in CommittedUnder(key)
      BY DEF CommittedUnder, Held
    <2>4. \E i \in DOMAIN obs.bearings : /\ obs.bearings[i].hyp = g
                                         /\ obs.bearings[i].kind = "contradicts"
      BY <2>1, <2>2, <2>3 DEF UncontradictedInversion
    <2> QED BY <1>3, <2>1, <2>4 DEF AllAnswered
  <1>6. CASE \E a \in plan.anomalies : a.hyp = g
    <2>1. PICK a \in plan.anomalies : a.hyp = g
      BY <1>6
    <2>2. a \in anomalies'
      BY <2>1 DEF Hold, Commit, WriteAudit
    <2>3. a \notin anomalies
      BY <1>1, <1>3, <1>4
    <2> QED BY <2>1, <2>2, <2>3 DEF Contradicted
  <1>7. CASE \E e \in plan.edges : e[2] = "contradicts" /\ e[3] = g
    <2>1. PICK e \in plan.edges : e[2] = "contradicts" /\ e[3] = g
      BY <1>7
    <2>2. e[1] \in Fresh
      BY <1>3, <2>1 DEF Shown, EdgesOf
    <2>3. e \notin edges
      BY <1>1, <1>4, <2>2 DEF EdgesOf
    <2>4. CASE Hold
      <3>1. DOMAIN plan.events = {}
        BY <2>4 DEF Hold
      <3> QED BY <1>3, <2>1, <3>1 DEF EdgesOf
    <2>5. CASE Commit
      <3>1. e \in edges'
        BY <2>1, <2>5 DEF Commit
      <3> QED BY <2>1, <2>3, <3>1 DEF Contradicted
    <2> QED BY <2>4, <2>5
  <1> QED BY <1>5, <1>6, <1>7 DEF Answered

\* The body of OppositionIsContradicted.
StepIsContradicted ==
    \A g \in Held :
        LET opposes(k, stance) == keyOf[g] = k /\ Inverts(CurrentStance(g), stance)
        IN  /\ \A q \in parked' \ parked :
                 opposes(q.key, q.stance) => Contradicted(g)
            /\ \A h \in Hypotheses :
                 \A i \in Len(versions[h]) + 1 .. Len(versions'[h]) :
                    opposes(keyOf'[h], versions'[h][i].stance)
                        => Contradicted(g)

LEMMA OppositionStep ==
    OppositionInv /\ SInv' /\ [Next]_vars => [StepIsContradicted]_vars
  <1> SUFFICES ASSUME OppositionInv, SInv', [Next]_vars PROVE StepIsContradicted
    OBVIOUS
  <1>1. SInv /\ TypeOK /\ TypeOK'
    BY DEF OppositionInv, AnomalyInv, StoryInv, EffectInv, SInv, IInv
  <1>2. \A h \in Hypotheses : versions[h] \in Seq(VersionType)
                              /\ versions'[h] \in Seq(VersionType)
    BY <1>1 DEF TypeOK
  <1>3. ASSUME parked' = parked, versions' = versions
        PROVE  StepIsContradicted
    <2>1. \A h \in Hypotheses : Len(versions[h]) + 1 .. Len(versions'[h]) = {}
      <3> SUFFICES ASSUME NEW h \in Hypotheses
                   PROVE  Len(versions[h]) + 1 .. Len(versions'[h]) = {}
        OBVIOUS
      <3>1. Len(versions[h]) \in Nat /\ versions'[h] = versions[h]
        BY <1>2, <1>3
      <3> QED BY <3>1
    <2>2. parked' \ parked = {}
      BY <1>3
    <2> QED BY <2>1, <2>2 DEF StepIsContradicted
  <1>4. CASE ~(Hold \/ Commit)
    <2>1. UNCHANGED stores
      BY <1>1, <1>4, StoresMoveOnlyOnClosing
    <2> QED BY <1>3, <2>1 DEF stores
  <1>5. CASE Hold \/ Commit
    <2>1. phase = "planning" /\ AllSaid(plan, "planning")
      BY <1>1, <1>5, ClosingNumbers DEF OppositionInv
    <2>2. \A q \in parked' \ parked : q \in plan.parked
      BY <1>5 DEF Hold, Commit, WriteAudit
    <2>3. ASSUME NEW h \in Hypotheses,
                 NEW i \in Len(versions[h]) + 1 .. Len(versions'[h])
          PROVE  Said(plan, "planning", keyOf'[h], versions'[h][i].stance)
      <3>1. CASE Hold
        <4>1. versions'[h] = versions[h] /\ Len(versions[h]) \in Nat
          BY <1>2, <3>1 DEF Hold
        <4> QED BY <2>3, <4>1
      <3>2. CASE Commit
        <4>1. i \in DOMAIN versions'[h] /\ i \notin DOMAIN versions[h]
          <5>1. /\ DOMAIN versions[h] = 1..Len(versions[h])
                /\ DOMAIN versions'[h] = 1..Len(versions'[h])
                /\ Len(versions[h]) \in Nat /\ Len(versions'[h]) \in Nat
            BY <1>2
          <5> QED BY <2>3, <5>1
        <4>2. /\ i - Len(versions[h]) \in DOMAIN plan.versions[h]
              /\ versions'[h][i] = plan.versions[h][i - Len(versions[h])]
              /\ keyOf'[h] = KeyIn(plan, h)
          BY <1>1, <3>2, <4>1, CommittedWords
        <4> QED BY <2>1, <4>2 DEF AllSaid
      <3> QED BY <1>5, <3>1, <3>2
    <2> QED BY <1>5, <2>1, <2>2, <2>3, SaidIsContradicted
            DEF StepIsContradicted, AllSaid
  <1> QED BY <1>4, <1>5

\* check 10: where every outcome commits, an interaction that writes or parks
\* a statement opposed to a held lineage also records a contradiction of it.
THEOREM OppositionsAreContradicted ==
    Spec /\ AllOutcomes => OppositionIsContradicted
  <1>1. Spec /\ AllOutcomes => [][StepIsContradicted]_vars
    BY OppositionInductive, OppositionStep, StoresInductive, PTL DEF Spec
  <1> QED BY <1>1, PTL DEF OppositionIsContradicted, StepIsContradicted
=============================================================================
