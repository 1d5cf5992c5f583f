------------------------- MODULE ReasoningCore_proofs -------------------------
(* What ReasoningCore's runs check on small instances, for every value of   *)
(* its constants: types, support, roles and grounding of evaluations.  The  *)
(* second half says what each step of the engine does to the plan, for the  *)
(* proofs about the stores in ReasoningStores_proofs.                       *)
EXTENDS ReasoningInvariants, TLAPS

\* Whole division by a positive number is a whole number.
LEMMA DivInt ==
    ASSUME NEW a \in Int, NEW b \in Nat, b > 0
    PROVE  a \div b \in Int
  OBVIOUS

\* A support update stays in the unit interval.
LEMMA SupportUpdates ==
    ASSUME NEW s \in 0..Unit, NEW r \in 0..Unit
    PROVE  /\ SupportAfterSupport(s, r) \in 0..Unit
           /\ SupportAfterContradiction(s, r) \in 0..Unit
  <1>1. Unit * Unit \in Nat /\ Unit * Unit > 0
    BY ScaleAssumption
  <1>2. /\ LearningRate * r * (Unit - s) \in Int
        /\ LearningRate * r * s \in Int
    BY ScaleAssumption
  <1>3. \A v \in Int : ClampUnit(v) \in 0..Unit
    BY ScaleAssumption DEF ClampUnit
  <1> DEFINE up == (LearningRate * r * (Unit - s)) \div (Unit * Unit)
             down == (LearningRate * r * s) \div (Unit * Unit)
  <1>4. up \in Int /\ down \in Int
    BY <1>1, <1>2, DivInt
  <1> HIDE DEF up, down
  <1>5. s + up \in Int /\ s - down \in Int
    BY <1>4
  <1> QED BY <1>3, <1>5 DEF SupportAfterSupport, SupportAfterContradiction,
                            up, down

\* What planning leaves alone: a later state q of plan p is a plan for the same
\* batch at the same place of it, with the same identifiers for its evidence
\* and its model version.
Follows(q, p) ==
    /\ q \in PlanType
    /\ q.batch = p.batch /\ q.index = p.index /\ q.wm = p.wm
    /\ q.ids.evidence = p.ids.evidence
    /\ q.bearings = p.bearings

\* Revising a plan yields a plan.
LEMMA RevisedType ==
    ASSUME NEW p \in PlanType, NEW h \in Hypotheses, NEW s \in 0..Unit,
           NEW pro \in SUBSET Nat, NEW con \in SUBSET Nat,
           NEW what \in Outcomes, NEW anomalous \in BOOLEAN,
           NEW rel \in {"supports", "contradicts"}, Ev \in Nat
    PROVE  Revised(p, h, s, pro, con, what, anomalous, rel) \in PlanType
  <1> DEFINE r == [id |-> p.ids.record + 1, support |-> s, pro |-> pro,
                   con |-> con, at |-> p.wm, prev |-> p.working[h].id]
             e == [outcome |-> what, hyp |-> h, by |-> Ev, at |-> p.wm,
                   anomalous |-> anomalous]
             q == [p EXCEPT !.ids.record = @ + 1,
                            !.working[h] = r,
                            !.edges = @ \cup {<<Ev, rel, h>>}]
  <1>1. p.ids \in IdsType /\ p.wm \in 0..MaxInteractions
        /\ p.working \in [Hypotheses -> RecordType]
        /\ p.records \in [Hypotheses -> Seq(RecordType)]
        /\ p.events \in Seq(EventType) /\ p.edges \in SUBSET EdgeType
    BY DEF PlanType
  <1>a. p.wm \in Nat /\ p.ids.record + 1 \in Nat /\ p.working[h].id \in Nat
    <2>1. p.ids.record \in Nat
      BY <1>1 DEF IdsType
    <2>2. p.working[h] \in RecordType
      BY <1>1
    <2> QED BY <1>1, <2>1, <2>2, BoundAssumption DEF RecordType
  <1>2. r \in RecordType
    BY <1>a DEF RecordType
  <1>3. e \in EventType
    BY <1>a DEF EventType
  <1>4. q \in PlanType
    <2>1. [p.ids EXCEPT !.record = @ + 1] \in IdsType
      BY <1>1, <1>a DEF IdsType
    <2>2. [p.working EXCEPT ![h] = r] \in [Hypotheses -> RecordType]
      BY <1>1, <1>2
    <2>3. p.edges \cup {<<Ev, rel, h>>} \in SUBSET EdgeType
      BY <1>1 DEF EdgeType
    <2> HIDE DEF r
    <2> QED BY <2>1, <2>2, <2>3 DEF PlanType
  <1>5. /\ q.records = p.records /\ q.events = p.events
    BY DEF PlanType
  <1> HIDE DEF r, e, q
  <1>6. [q EXCEPT !.records[h] = Append(@, r), !.events = Append(@, e)]
            \in PlanType
    <2>1. [q.records EXCEPT ![h] = Append(@, r)] \in [Hypotheses -> Seq(RecordType)]
      BY <1>1, <1>2, <1>5
    <2>2. Append(q.events, e) \in Seq(EventType)
      BY <1>1, <1>3, <1>5
    <2> QED BY <1>4, <2>1, <2>2 DEF PlanType
  <1> QED BY <1>4, <1>6 DEF Revised, r, e, q

\* q is p after h got one new evaluation; no other hypothesis is touched.
OneRevision(q, p, h, pro, con) ==
    /\ Follows(q, p)
    /\ q.working[h].pro = pro /\ q.working[h].con = con
    /\ \A g \in Hypotheses \ {h} : /\ q.working[g] = p.working[g]
                                   /\ q.records[g] = p.records[g]
    /\ \A i \in DOMAIN q.records[h] :
          \/ i \in DOMAIN p.records[h] /\ q.records[h][i] = p.records[h][i]
          \/ q.records[h][i] = q.working[h]

\* A revision gives its hypothesis one new evaluation, and no other.
LEMMA RevisedEffect ==
    ASSUME NEW p \in PlanType, NEW h \in Hypotheses, NEW s \in 0..Unit,
           NEW pro \in SUBSET Nat, NEW con \in SUBSET Nat,
           NEW what \in Outcomes, NEW anomalous \in BOOLEAN,
           NEW rel \in {"supports", "contradicts"}, Ev \in Nat
    PROVE  OneRevision(Revised(p, h, s, pro, con, what, anomalous, rel),
                       p, h, pro, con)
  <1> DEFINE q == Revised(p, h, s, pro, con, what, anomalous, rel)
             r == [id |-> p.ids.record + 1, support |-> s, pro |-> pro,
                   con |-> con, at |-> p.wm, prev |-> p.working[h].id]
             e == [outcome |-> what, hyp |-> h, by |-> Ev, at |-> p.wm,
                   anomalous |-> anomalous]
             b == [p EXCEPT !.ids.record = @ + 1,
                            !.working[h] = r,
                            !.edges = @ \cup {<<Ev, rel, h>>}]
             c == [b EXCEPT !.records[h] = Append(@, r),
                            !.events = Append(@, e)]
  <1>1. q \in PlanType
    BY RevisedType
  <1>2. q = IF what \in CommitOutcomes THEN c ELSE b
    BY DEF Revised
  <1>3. /\ b.batch = p.batch /\ b.index = p.index /\ b.wm = p.wm
        /\ b.ids.evidence = p.ids.evidence /\ b.bearings = p.bearings
        /\ b.records = p.records
        /\ b.working = [p.working EXCEPT ![h] = r]
    BY DEF PlanType, IdsType
  <1>4. /\ c.batch = b.batch /\ c.index = b.index /\ c.wm = b.wm
        /\ c.ids = b.ids /\ c.bearings = b.bearings /\ c.working = b.working
        /\ c.records = [b.records EXCEPT ![h] = Append(@, r)]
    BY DEF PlanType
  <1>5. /\ p.working \in [Hypotheses -> RecordType]
        /\ p.records \in [Hypotheses -> Seq(RecordType)]
    BY DEF PlanType
  <1>6. r.pro = pro /\ r.con = con
    OBVIOUS
  <1> HIDE DEF r, e, b, c, q
  <1>7. Follows(q, p)
    BY <1>1, <1>2, <1>3, <1>4 DEF Follows
  <1>8. q.working = [p.working EXCEPT ![h] = r]
    BY <1>2, <1>3, <1>4
  <1>9. q.records = p.records \/ q.records = [p.records EXCEPT ![h] = Append(@, r)]
    BY <1>2, <1>3, <1>4
  <1>10. \A i \in DOMAIN q.records[h] :
            \/ i \in DOMAIN p.records[h] /\ q.records[h][i] = p.records[h][i]
            \/ q.records[h][i] = r
    <2>1. p.records[h] \in Seq(RecordType)
      BY <1>5
    <2>2. \A i \in DOMAIN Append(p.records[h], r) :
            \/ /\ i \in DOMAIN p.records[h]
               /\ Append(p.records[h], r)[i] = p.records[h][i]
            \/ Append(p.records[h], r)[i] = r
      BY <2>1
    <2> QED BY <1>5, <1>9, <2>2
  <1>11. OneRevision(q, p, h, pro, con)
    BY <1>5, <1>6, <1>7, <1>8, <1>9, <1>10 DEF OneRevision
  <1> QED BY <1>11 DEF q
----------------------------------------------------------------------------
(* Evidence in a plan.  Citable is what the plan may cite so far: evidence *)
(* of closed interactions and of the batch up to the observation under     *)
(* appraisal, if its role may be appraised at all.                         *)

KindOf(e) == IF e =< ids.evidence THEN evidence[e]
             ELSE plan.batch[e - ids.evidence]

Citable == {e \in 1..Ev : KindOf(e).appraisable}

Sourced(r) == r.pro \cap r.con = {} /\ r.pro \cup r.con \subseteq Citable

Grounded(p) ==
    \A h \in Hypotheses :
        /\ Sourced(p.working[h])
        /\ \A i \in DOMAIN p.records[h] : Sourced(p.records[h][i])

\* The observation under appraisal contradicts nothing yet.
Untouched(p) == \A h \in Hypotheses : Ev \notin p.working[h].con

SameEvaluations(q, p) == q.working = p.working /\ q.records = p.records

\* A revision on sourced grounds leaves a grounded plan grounded.
LEMMA RevisedGrounded ==
    ASSUME NEW p \in PlanType, NEW h \in Hypotheses, NEW s \in 0..Unit,
           NEW pro \in SUBSET Nat, NEW con \in SUBSET Nat,
           NEW what \in Outcomes, NEW anomalous \in BOOLEAN,
           NEW rel \in {"supports", "contradicts"}, Ev \in Nat,
           pro \cap con = {}, pro \cup con \subseteq Citable, Grounded(p)
    PROVE  Grounded(Revised(p, h, s, pro, con, what, anomalous, rel))
  <1> DEFINE q == Revised(p, h, s, pro, con, what, anomalous, rel)
  <1>1. OneRevision(q, p, h, pro, con)
    BY RevisedEffect
  <1> HIDE DEF q
  <1>2. Sourced(q.working[h])
    BY <1>1 DEF OneRevision, Sourced
  <1>3. \A i \in DOMAIN q.records[h] : Sourced(q.records[h][i])
    BY <1>1, <1>2 DEF OneRevision, Grounded
  <1>4. Grounded(q)
    BY <1>1, <1>2, <1>3 DEF OneRevision, Grounded
  <1> QED BY <1>4 DEF q

\* _strengthen: at most one more supporter, the observation under appraisal.
LEMMA StrengthenedEffect ==
    ASSUME NEW p \in PlanType, NEW h \in Hypotheses,
           Ev \in Nat, Reliability \in 0..Unit,
           NEW q, q = Strengthened(p, h)
    PROVE  /\ Follows(q, p)
           /\ Untouched(p) => Untouched(q)
           /\ Grounded(p) /\ Ev \in Citable /\ Ev \notin p.working[h].con
                => Grounded(q)
  <1> DEFINE w == p.working[h]
             pro == w.pro \cup {Ev}
             s == SupportAfterSupport(w.support, Reliability)
  <1>1. CASE w.id = 0 \/ Ev \in w.pro
    BY <1>1 DEF Strengthened, Follows
  <1>2. CASE ~(w.id = 0 \/ Ev \in w.pro)
    <2>1. w \in RecordType
      BY DEF PlanType
    <2>2. w.con \in SUBSET Nat /\ w.pro \in SUBSET Nat /\ w.support \in 0..Unit
      BY <2>1 DEF RecordType
    <2>3. pro \in SUBSET Nat /\ s \in 0..Unit
      BY <2>2, SupportUpdates
    <2> DEFINE con == w.con
               what == "strengthen"
               anomalous == FALSE
               rel == "supports"
    <2>4. what \in Outcomes /\ anomalous \in BOOLEAN
          /\ rel \in {"supports", "contradicts"}
      BY DEF Outcomes
    <2>5. q = Revised(p, h, s, pro, con, what, anomalous, rel)
      BY <1>2 DEF Strengthened
    <2>6. ASSUME Grounded(p), Ev \in Citable, Ev \notin w.con
          PROVE  pro \cap con = {} /\ pro \cup con \subseteq Citable
      BY <2>6 DEF Grounded, Sourced
    <2>0. con \in SUBSET Nat
      BY <2>2
    <2>10. con = p.working[h].con
      OBVIOUS
    <2> HIDE DEF pro, s, con, what, anomalous, rel
    <2>a. OneRevision(q, p, h, pro, con)
      BY <2>0, <2>3, <2>4, <2>5, RevisedEffect
    <2>7. Follows(q, p)
      BY <2>a DEF OneRevision
    <2>8. \A g \in Hypotheses : q.working[g].con = p.working[g].con
      BY <2>a, <2>10 DEF OneRevision
    <2>9. ASSUME Grounded(p), Ev \in Citable, Ev \notin w.con
          PROVE  Grounded(q)
      <3>1. pro \cap con = {} /\ pro \cup con \subseteq Citable /\ Grounded(p)
        BY <2>6, <2>9
      <3>2. Grounded(Revised(p, h, s, pro, con, what, anomalous, rel))
        BY <2>0, <2>3, <2>4, <3>1, RevisedGrounded
      <3> QED BY <2>5, <3>2
    <2> QED BY <2>7, <2>8, <2>9 DEF Untouched
  <1> QED BY <1>1, <1>2

\* _weaken: one more contradicting observation, the one under appraisal.
LEMMA WeakenedEffect ==
    ASSUME NEW p \in PlanType, NEW h \in Hypotheses,
           NEW anomalous \in BOOLEAN,
           Ev \in Nat, Reliability \in 0..Unit,
           NEW q, q = Weakened(p, h, anomalous)
    PROVE  /\ Follows(q, p)
           /\ Grounded(p) /\ Ev \in Citable /\ Ev \notin p.working[h].pro
                => Grounded(q)
  <1> DEFINE w == p.working[h]
             pro == w.pro
             con == w.con \cup {Ev}
             s == SupportAfterContradiction(w.support, Reliability)
             crossed == w.support >= Established /\ s < Established
             what == IF crossed THEN "contradict" ELSE "weaken"
             rel == "contradicts"
  <1>1. w \in RecordType
    BY DEF PlanType
  <1>2. pro \in SUBSET Nat /\ w.con \in SUBSET Nat /\ w.support \in 0..Unit
    BY <1>1 DEF RecordType
  <1>3. con \in SUBSET Nat /\ s \in 0..Unit
    BY <1>2, SupportUpdates
  <1>4. what \in Outcomes /\ rel \in {"supports", "contradicts"}
    BY DEF Outcomes
  <1>5. q = Revised(p, h, s, pro, con, what, anomalous, rel)
    BY DEF Weakened
  <1>6. ASSUME Grounded(p), Ev \in Citable, Ev \notin w.pro
        PROVE  pro \cap con = {} /\ pro \cup con \subseteq Citable
    BY <1>6 DEF Grounded, Sourced
  <1> HIDE DEF pro, con, s, what, rel
  <1>7. OneRevision(q, p, h, pro, con)
    BY <1>2, <1>3, <1>4, <1>5, RevisedEffect
  <1>8. ASSUME Grounded(p), Ev \in Citable, Ev \notin w.pro
        PROVE  Grounded(q)
    <2>1. pro \cap con = {} /\ pro \cup con \subseteq Citable /\ Grounded(p)
      BY <1>6, <1>8
    <2>2. Grounded(Revised(p, h, s, pro, con, what, anomalous, rel))
      BY <1>2, <1>3, <1>4, <2>1, RevisedGrounded
    <2> QED BY <1>5, <2>2
  <1> QED BY <1>7, <1>8 DEF OneRevision

\* Remembering and parking a candidate evaluate nothing.
LEMMA CandidatesEvaluateNothing ==
    ASSUME NEW p \in PlanType, NEW c \in Candidates,
           NEW m \in 0..MaxHypotheses, Ev \in Nat
    PROVE  /\ Follows(Proposed(p, c, m), p)
           /\ SameEvaluations(Proposed(p, c, m), p)
           /\ Follows(Parked(p, c), p) /\ SameEvaluations(Parked(p, c), p)
  <1>1. /\ p.proposals \in Seq(ProposalType)
        /\ p.parked \in SUBSET ParkedType
    BY DEF PlanType
  <1>2. /\ [key |-> c.key, text |-> c.text, stance |-> c.stance, matched |-> m]
              \in ProposalType
        /\ [by |-> Ev, key |-> c.key, text |-> c.text, stance |-> c.stance]
              \in ParkedType
    BY DEF Candidates, ProposalType, ParkedType
  <1>3. Follows(Proposed(p, c, m), p) /\ SameEvaluations(Proposed(p, c, m), p)
    <2> DEFINE v == [key |-> c.key, text |-> c.text, stance |-> c.stance,
                     matched |-> m]
    <2>1. v \in ProposalType
      BY <1>2
    <2>2. Proposed(p, c, m) = [p EXCEPT !.proposals = Append(@, v)]
      BY DEF Proposed
    <2> HIDE DEF v
    <2>3. Append(p.proposals, v) \in Seq(ProposalType)
      BY <1>1, <2>1
    <2> QED BY <2>2, <2>3 DEF PlanType, Follows, SameEvaluations
  <1>4. Follows(Parked(p, c), p) /\ SameEvaluations(Parked(p, c), p)
    <2> DEFINE v == [by |-> Ev, key |-> c.key, text |-> c.text,
                     stance |-> c.stance]
    <2>1. v \in ParkedType
      BY <1>2
    <2>2. Parked(p, c) = [p EXCEPT !.parked = @ \cup {v}]
      BY DEF Parked
    <2> HIDE DEF v
    <2>3. p.parked \cup {v} \in SUBSET ParkedType
      BY <1>1, <2>1
    <2> QED BY <2>2, <2>3 DEF PlanType, Follows, SameEvaluations
  <1> QED BY <1>3, <1>4

\* Appending a statement version evaluates nothing.
LEMMA VersionsEvaluateNothing ==
    ASSUME NEW p \in PlanType, NEW h \in Hypotheses, NEW c \in Candidates,
           Ev \in Nat
    PROVE  Follows(Versioned(p, h, c), p) /\ SameEvaluations(Versioned(p, h, c), p)
  <1>1. p.wm \in Nat /\ p.versions \in [Hypotheses -> Seq(VersionType)]
    BY BoundAssumption DEF PlanType
  <1>2. [text |-> c.text, stance |-> c.stance, at |-> p.wm] \in VersionType
    BY <1>1 DEF Candidates, VersionType
  <1>3. Follows(Versioned(p, h, c), p) /\ SameEvaluations(Versioned(p, h, c), p)
    <2> DEFINE v == [text |-> c.text, stance |-> c.stance, at |-> p.wm]
               new == [p.versions EXCEPT ![h] = Append(@, v)]
    <2>1. v \in VersionType
      BY <1>2
    <2> HIDE DEF v
    <2>2. new \in [Hypotheses -> Seq(VersionType)]
      BY <1>1, <2>1
    <2>3. Versioned(p, h, c) = [p EXCEPT !.versions = new]
      BY DEF Versioned, PlanType, v
    <2> HIDE DEF new
    <2> QED BY <2>2, <2>3 DEF PlanType, Follows, SameEvaluations
  <1> QED BY <1>3

\* Recording an anomaly evaluates nothing.
LEMMA AnomaliesEvaluateNothing ==
    ASSUME NEW p \in PlanType, NEW h \in Hypotheses, Ev \in Nat
    PROVE  Follows(Anomalous(p, h), p) /\ SameEvaluations(Anomalous(p, h), p)
  <1>1. p.anomalies \in SUBSET AnomalyType
    BY DEF PlanType
  <1>2. [by |-> Ev, hyp |-> h, disposition |-> Disposition(Reliability)]
              \in AnomalyType
    BY DEF AnomalyType, Disposition, Dispositions
  <1>3. Follows(Anomalous(p, h), p) /\ SameEvaluations(Anomalous(p, h), p)
    <2> DEFINE v == [by |-> Ev, hyp |-> h,
                     disposition |-> Disposition(Reliability)]
    <2>1. v \in AnomalyType
      BY <1>2
    <2>2. Anomalous(p, h) = [p EXCEPT !.anomalies = @ \cup {v}]
      BY DEF Anomalous
    <2> HIDE DEF v
    <2>3. p.anomalies \cup {v} \in SUBSET AnomalyType
      BY <1>1, <2>1
    <2> QED BY <2>2, <2>3 DEF PlanType, Follows, SameEvaluations
  <1> QED BY <1>3

\* A plan with the same evaluations is grounded and untouched alike.
LEMMA SameEvaluationsSuffice ==
    ASSUME NEW p, NEW q, SameEvaluations(q, p)
    PROVE  /\ Grounded(p) => Grounded(q)
           /\ Untouched(p) => Untouched(q)
  BY DEF SameEvaluations, Grounded, Untouched

\* What follows a plan that follows p follows p.
LEMMA FollowsTransitive ==
    ASSUME NEW p, NEW q, NEW r, Follows(q, p), Follows(r, q)
    PROVE  Follows(r, p)
  BY DEF Follows

\* Founding a lineage: its first evaluation rests on the observation under
\* appraisal alone.
LEMMA FoundedEffect ==
    ASSUME NEW p \in PlanType, NEW c \in Candidates,
           p.ids.hyp < MaxHypotheses, Ev \in Nat, Reliability \in 0..Unit,
           NEW f, f = Founded(p, c)
    PROVE  /\ Follows(f, p)
           /\ Untouched(p) => Untouched(f)
           /\ Grounded(p) /\ Ev \in Citable => Grounded(f)
  <1> DEFINE h == p.ids.hyp + 1
             q == [p EXCEPT !.ids.hyp = h, !.flights[h] = c]
             v == Versioned(q, h, c)
             s == SupportAfterSupport(0, Reliability)
             pro == {Ev}
             con == {}
             what == "hypothesize"
             anomalous == FALSE
             rel == "supports"
  <1>1. p.ids \in IdsType /\ p.ids.hyp \in 0..MaxHypotheses
        /\ p.flights \in [Hypotheses -> Candidates \cup {NoFlight}]
        /\ MaxHypotheses \in Nat
    BY BoundAssumption DEF PlanType, IdsType
  <1>2. h \in Hypotheses /\ h \in 0..MaxHypotheses
    BY <1>1 DEF Hypotheses
  <1> HIDE DEF h
  <1>3. /\ [p.ids EXCEPT !.hyp = h] \in IdsType
        /\ [p.ids EXCEPT !.hyp = h].evidence = p.ids.evidence
    BY <1>1, <1>2 DEF IdsType
  <1>4. [p.flights EXCEPT ![h] = c] \in [Hypotheses -> Candidates \cup {NoFlight}]
    BY <1>1, <1>2
  <1>5. q = [p EXCEPT !.ids = [p.ids EXCEPT !.hyp = h],
                      !.flights = [p.flights EXCEPT ![h] = c]]
    BY DEF PlanType
  <1> HIDE DEF q
  <1>6. Follows(q, p) /\ SameEvaluations(q, p)
    BY <1>3, <1>4, <1>5 DEF PlanType, Follows, SameEvaluations
  <1>7. q \in PlanType
    BY <1>6 DEF Follows
  <1>8. Follows(v, q) /\ SameEvaluations(v, q)
    BY <1>1, <1>2, <1>7, VersionsEvaluateNothing
  <1> HIDE DEF v
  <1>9. v \in PlanType
    BY <1>8 DEF Follows
  <1>10. s \in 0..Unit
    BY SupportUpdates, ScaleAssumption
  <1>11. /\ pro \in SUBSET Nat /\ con \in SUBSET Nat /\ pro \cap con = {}
         /\ Ev \notin con
         /\ Ev \in Citable => pro \cup con \subseteq Citable
         /\ what \in Outcomes /\ anomalous \in BOOLEAN
         /\ rel \in {"supports", "contradicts"}
    BY DEF Outcomes
  <1>12. f = Revised(v, h, s, pro, con, what, anomalous, rel)
    BY DEF Founded, v, q, h
  <1> HIDE DEF s, pro, con, what, anomalous, rel
  <1>13. OneRevision(f, v, h, pro, con)
    BY <1>2, <1>9, <1>10, <1>11, <1>12, RevisedEffect
  <1>14. Follows(f, p)
    BY <1>6, <1>8, <1>13, FollowsTransitive DEF OneRevision
  <1>15. Untouched(p) => Untouched(f)
    <2>1. Untouched(p) => Untouched(v)
      BY <1>6, <1>8, SameEvaluationsSuffice
    <2> QED BY <1>11, <1>13, <2>1 DEF OneRevision, Untouched
  <1>16. ASSUME Grounded(p), Ev \in Citable
         PROVE  Grounded(f)
    <2>1. Grounded(v)
      BY <1>6, <1>8, <1>16, SameEvaluationsSuffice
    <2>2. pro \cup con \subseteq Citable
      BY <1>11, <1>16
    <2>3. Grounded(Revised(v, h, s, pro, con, what, anomalous, rel))
      BY <1>2, <1>9, <1>10, <1>11, <2>1, <2>2, RevisedGrounded
    <2> QED BY <1>12, <2>3
  <1> QED BY <1>14, <1>15, <1>16
----------------------------------------------------------------------------
(* The inductive invariant.                                                *)

\* The batch is numbered onwards from the evidence of closed interactions.
BatchNumbered == plan.ids.evidence = ids.evidence + Len(plan.batch)

\* What the stores hold rests on admitted, appraisable evidence, and on no
\* observation twice.
StoresGrounded ==
    \A h \in Hypotheses : \A i \in DOMAIN records[h] :
        /\ records[h][i].pro \cap records[h][i].con = {}
        /\ records[h][i].pro \cup records[h][i].con
              \subseteq {e \in 1..ids.evidence : evidence[e].appraisable}

\* Only appraisable observations are under appraisal ...
AppraisedIsAppraisable ==
    phase = "appraising" => plan.batch[plan.index].appraisable

\* ... and until their first bearing they contradict nothing.
CandidatesComeFirst ==
    phase = "appraising" /\ plan.bearings = <<>> => Untouched(plan)

IInv ==
    /\ TypeOK
    /\ EvidenceIdsGapless
    /\ BatchNumbered
    /\ StoresGrounded
    /\ Grounded(plan)
    /\ AppraisedIsAppraisable
    /\ CandidatesComeFirst

USE BoundAssumption, ScaleAssumption

\* The evidence under appraisal, its reliability and what may be cited.
LEMMA UnderAppraisal ==
    ASSUME IInv, phase = "appraising"
    PROVE  /\ Ev \in Nat
           /\ plan.index \in 1..Len(plan.batch)
           /\ Reliability \in 0..Unit
           /\ Ev \in Citable
  <1>1. /\ plan \in PlanType /\ ids \in IdsType
        /\ plan.index =< Len(plan.batch) /\ plan.index >= 1
    BY DEF IInv, TypeOK
  <1>2. /\ plan.index \in Nat /\ plan.batch \in Seq(EvidenceKinds)
        /\ ids.evidence \in Nat
    BY <1>1 DEF PlanType, IdsType
  <1>3. plan.index \in 1..Len(plan.batch)
    BY <1>1, <1>2
  <1>4. plan.batch[plan.index] \in EvidenceKinds
    BY <1>2, <1>3
  <1>5. Reliability \in 0..Unit
    BY <1>4, VocabularyAssumption DEF Reliability
  <1>6. Ev \in 1..Ev /\ ~(Ev =< ids.evidence) /\ Ev - ids.evidence = plan.index
    BY <1>2, <1>3 DEF Ev
  <1>7. KindOf(Ev) = plan.batch[plan.index]
    BY <1>6 DEF KindOf
  <1>8. Ev \in Citable
    BY <1>6, <1>7 DEF IInv, AppraisedIsAppraisable, Citable
  <1> QED BY <1>2, <1>3, <1>5, <1>8 DEF Ev

\* A plan step that moves on to a plan for the same batch, grounded, keeps the
\* invariant; only a step that leaves no bearing applied must leave the
\* observation without a contradiction.
LEMMA PlanStepKeepsIInv ==
    ASSUME IInv, phase = "appraising", phase' = "appraising",
           UNCHANGED <<stores, ids, outcome>>,
           plan' \in PlanType,
           plan'.batch = plan.batch, plan'.index = plan.index,
           plan'.ids.evidence = plan.ids.evidence,
           Grounded(plan'),
           plan'.bearings = <<>> => Untouched(plan')
    PROVE  IInv'
  <1>1. TypeOK'
    BY DEF IInv, TypeOK, stores
  <1>2. Ev' = Ev /\ \A e : KindOf(e)' = KindOf(e)
    BY DEF Ev, KindOf, stores
  <1>3. Citable' = Citable
    BY <1>2 DEF Citable
  <1>4. Grounded(plan)'
    BY <1>3 DEF Grounded, Sourced
  <1>5. CandidatesComeFirst'
    BY <1>2 DEF CandidatesComeFirst, Untouched
  <1>6. EvidenceIdsGapless' /\ BatchNumbered' /\ StoresGrounded'
        /\ AppraisedIsAppraisable'
    BY DEF IInv, EvidenceIdsGapless, BatchNumbered, StoresGrounded,
           AppraisedIsAppraisable, stores
  <1> QED BY <1>1, <1>4, <1>5, <1>6 DEF IInv

\* A match, refinement or merge strengthens a plan that evaluates what the
\* current one does.
LEMMA StrengthenedAfterRemarks ==
    ASSUME IInv, phase = "appraising", plan.bearings = <<>>,
           NEW p \in PlanType, Follows(p, plan), SameEvaluations(p, plan),
           NEW h \in Hypotheses
    PROVE  /\ Follows(Strengthened(p, h), plan)
           /\ Grounded(Strengthened(p, h))
           /\ Untouched(Strengthened(p, h))
  <1>1. Ev \in Nat /\ Reliability \in 0..Unit /\ Ev \in Citable
    BY UnderAppraisal
  <1>2. Grounded(p) /\ Untouched(p)
    BY SameEvaluationsSuffice DEF IInv, CandidatesComeFirst
  <1> DEFINE q == Strengthened(p, h)
  <1>3. /\ Follows(q, p)
        /\ Untouched(p) => Untouched(q)
        /\ Grounded(p) /\ Ev \in Citable /\ Ev \notin p.working[h].con
                => Grounded(q)
    BY <1>1, StrengthenedEffect
  <1> HIDE DEF q
  <1>4. Ev \notin p.working[h].con
    BY <1>2 DEF Untouched
  <1>5. Follows(q, plan)
    BY <1>3, FollowsTransitive
  <1>6. Follows(q, plan) /\ Grounded(q) /\ Untouched(q)
    BY <1>1, <1>2, <1>3, <1>4, <1>5
  <1> QED BY <1>6 DEF q

\* Whatever adjudication decides, the plan stays one that follows, grounded
\* and without a contradiction by the observation under appraisal.
LEMMA AdjudicateFollows ==
    ASSUME IInv, Adjudicate
    PROVE  Follows(plan', plan) /\ Grounded(plan') /\ Untouched(plan')
  <1>1. /\ phase = "appraising" /\ plan.bearings = <<>>
        /\ UNCHANGED <<stores, ids, phase, outcome>>
    BY DEF Adjudicate, Adjudicating, MatchCommitted, ParkOpposedMatch,
           MatchInFlight, FoundDistinct, ParkAmbiguous, ResolverMatch,
           ResolverRefine, ParkOpposedMerge
  <1>2. /\ Ev \in Nat /\ Reliability \in 0..Unit /\ Ev \in Citable
        /\ plan \in PlanType /\ Grounded(plan) /\ Untouched(plan)
    BY <1>1, UnderAppraisal DEF IInv, TypeOK, CandidatesComeFirst
  <1>0. \A h \in Hypotheses : h \in 0..MaxHypotheses
    BY DEF Hypotheses
  <1>3. ASSUME NEW c \in Candidates, NEW m \in 0..MaxHypotheses,
               NEW h \in Hypotheses, plan' = Strengthened(Proposed(plan, c, m), h)
        PROVE  Follows(plan', plan) /\ Grounded(plan') /\ Untouched(plan')
    <2> DEFINE p == Proposed(plan, c, m)
    <2>1. Follows(p, plan) /\ SameEvaluations(p, plan)
      BY <1>2, CandidatesEvaluateNothing
    <2> HIDE DEF p
    <2>2. p \in PlanType
      BY <2>1 DEF Follows
    <2>3. plan' = Strengthened(p, h)
      BY <1>3 DEF p
    <2> QED BY <1>1, <2>1, <2>2, <2>3, StrengthenedAfterRemarks
  <1>4. ASSUME NEW c \in Candidates, NEW h \in Hypotheses,
               plan' = Strengthened(Versioned(Proposed(plan, c, 0), h, c), h)
        PROVE  Follows(plan', plan) /\ Grounded(plan') /\ Untouched(plan')
    <2> DEFINE o == Proposed(plan, c, 0)
               p == Versioned(o, h, c)
    <2>0. 0 \in 0..MaxHypotheses
      OBVIOUS
    <2>1. Follows(o, plan) /\ SameEvaluations(o, plan)
      BY <1>2, <2>0, CandidatesEvaluateNothing
    <2> HIDE DEF o
    <2>2. o \in PlanType
      BY <2>1 DEF Follows
    <2>3. Follows(p, o) /\ SameEvaluations(p, o)
      BY <1>2, <2>0, <2>2, VersionsEvaluateNothing
    <2> HIDE DEF p
    <2>4. p \in PlanType /\ Follows(p, plan) /\ SameEvaluations(p, plan)
      BY <2>1, <2>3, FollowsTransitive DEF Follows, SameEvaluations
    <2>5. plan' = Strengthened(p, h)
      BY <1>4 DEF p, o
    <2> QED BY <1>1, <2>4, <2>5, StrengthenedAfterRemarks
  <1>5. ASSUME NEW c \in Candidates, plan' = Parked(Proposed(plan, c, 0), c)
        PROVE  Follows(plan', plan) /\ Grounded(plan') /\ Untouched(plan')
    <2> DEFINE o == Proposed(plan, c, 0)
               p == Parked(o, c)
    <2>1. Follows(o, plan) /\ SameEvaluations(o, plan)
      BY <1>2, CandidatesEvaluateNothing
    <2> HIDE DEF o
    <2>2. o \in PlanType
      BY <2>1 DEF Follows
    <2>3. Follows(p, o) /\ SameEvaluations(p, o)
      BY <1>2, <2>2, CandidatesEvaluateNothing
    <2>4. p = plan'
      BY <1>5 DEF o
    <2> HIDE DEF p
    <2>5. Follows(p, plan) /\ SameEvaluations(p, plan)
      BY <2>1, <2>3, FollowsTransitive DEF SameEvaluations
    <2> QED BY <1>2, <2>4, <2>5, SameEvaluationsSuffice
  <1>6. ASSUME NEW c \in Candidates, plan.ids.hyp < MaxHypotheses,
               plan' = Founded(Proposed(plan, c, 0), c)
        PROVE  Follows(plan', plan) /\ Grounded(plan') /\ Untouched(plan')
    <2> DEFINE o == Proposed(plan, c, 0)
    <2>1. Follows(o, plan) /\ SameEvaluations(o, plan)
      BY <1>2, CandidatesEvaluateNothing
    <2>2. o.ids = plan.ids
      BY <1>2 DEF Proposed, PlanType
    <2>3. plan' = Founded(o, c)
      BY <1>6
    <2> HIDE DEF o
    <2>4. o \in PlanType /\ o.ids.hyp < MaxHypotheses
      BY <1>6, <2>1, <2>2 DEF Follows
    <2>5. Grounded(o) /\ Untouched(o)
      BY <1>2, <2>1, SameEvaluationsSuffice
    <2>6. Follows(plan', o) /\ Grounded(plan') /\ Untouched(plan')
      BY <1>2, <2>3, <2>4, <2>5, FoundedEffect
    <2> QED BY <2>1, <2>6, FollowsTransitive
  <1>7. CASE MatchCommitted
    BY <1>0, <1>3, <1>7 DEF MatchCommitted
  <1>8. CASE MatchInFlight
    BY <1>0, <1>3, <1>8 DEF MatchInFlight
  <1>9. CASE ResolverMatch
    <2>1. PICK c \in Candidates, h \in Hypotheses : plan' = Strengthened(Proposed(plan, c, h), h)
      BY <1>9 DEF ResolverMatch, Plausible, CommittedUnder, FlightsUnder
    <2> QED BY <1>0, <1>3, <2>1
  <1>10. CASE ResolverRefine
    <2>1. PICK c \in Candidates, h \in Hypotheses : plan' = Strengthened(Versioned(Proposed(plan, c, 0), h, c), h)
      BY <1>10 DEF ResolverRefine, Plausible, CommittedUnder, FlightsUnder
    <2> QED BY <1>4, <2>1
  <1>11. CASE ParkOpposedMatch \/ ParkAmbiguous \/ ParkOpposedMerge
    BY <1>5, <1>11 DEF ParkOpposedMatch, ParkAmbiguous, ParkOpposedMerge
  <1>12. CASE FoundDistinct
    BY <1>6, <1>12 DEF FoundDistinct
  <1> QED BY <1>7, <1>8, <1>9, <1>10, <1>11, <1>12 DEF Adjudicate

\* Noting a bearing evaluates nothing, and is the one thing that puts an end
\* to the candidates of the response.
LEMMA BoreEffect ==
    ASSUME plan \in PlanType, NEW h \in Hypotheses, NEW kind \in BearingKinds,
           NEW p, p = Bore(h, kind)
    PROVE  /\ p \in PlanType /\ SameEvaluations(p, plan)
           /\ p.batch = plan.batch /\ p.index = plan.index
           /\ p.ids.evidence = plan.ids.evidence
           /\ p.bearings # <<>>
  <1> DEFINE b == [hyp |-> h, kind |-> kind]
             bs == Append(plan.bearings, b)
  <1>1. b \in BearingType /\ plan.bearings \in Seq(BearingType)
    BY DEF BearingType, PlanType
  <1> HIDE DEF b
  <1>2. bs \in Seq(BearingType) /\ bs # <<>>
    BY <1>1
  <1>3. p = [plan EXCEPT !.bearings = bs]
    BY DEF Bore, b
  <1> HIDE DEF bs
  <1> QED BY <1>2, <1>3 DEF PlanType, SameEvaluations

\* Every bearing leaves a grounded plan: the engine refuses to let the
\* observation count on the other side of an evaluation it already counts in.
LEMMA BearKeepsIInv ==
    ASSUME IInv, Bear
    PROVE  IInv'
  <1>1. /\ phase = "appraising" /\ UNCHANGED <<stores, ids, phase, outcome>>
    BY DEF Bear, BearSupports, BearWeakens, BearContradictsTentative,
           BearContradictsEstablished, Bearing
  <1>2. /\ Ev \in Nat /\ Reliability \in 0..Unit /\ Ev \in Citable
        /\ plan \in PlanType /\ Grounded(plan)
    BY <1>1, UnderAppraisal DEF IInv, TypeOK
  <1> DEFINE Moved(q) == /\ q \in PlanType /\ q.batch = plan.batch
                         /\ q.index = plan.index
                         /\ q.ids.evidence = plan.ids.evidence
                         /\ q.bearings # <<>>
                         /\ Grounded(q)
  <1>3. ASSUME NEW p, NEW q, Moved(p), Follows(q, p), Grounded(q)
        PROVE  Moved(q)
    BY <1>3 DEF Follows
  <1>4. ASSUME NEW h \in Hypotheses, NEW kind \in BearingKinds
        PROVE  /\ Moved(Bore(h, kind))
               /\ Bore(h, kind).working = plan.working
               /\ Moved(Anomalous(Bore(h, kind), h))
               /\ Anomalous(Bore(h, kind), h).working = plan.working
    <2> DEFINE p == Bore(h, kind)
               q == Anomalous(p, h)
    <2>1. /\ p \in PlanType /\ SameEvaluations(p, plan)
          /\ p.batch = plan.batch /\ p.index = plan.index
          /\ p.ids.evidence = plan.ids.evidence
          /\ p.bearings # <<>>
      BY <1>2, BoreEffect
    <2> HIDE DEF p
    <2>2. Follows(q, p) /\ SameEvaluations(q, p)
      BY <1>2, <2>1, AnomaliesEvaluateNothing
    <2> HIDE DEF q
    <2>3. Grounded(p) /\ Grounded(q)
      BY <1>2, <2>1, <2>2, SameEvaluationsSuffice
    <2>4. Moved(p) /\ Moved(q)
      BY <1>3, <2>1, <2>2, <2>3
    <2> HIDE DEF Moved
    <2> QED BY <2>1, <2>2, <2>4 DEF SameEvaluations, p, q
  <1>5. ASSUME NEW p, Moved(p), p.working = plan.working, NEW h \in Hypotheses,
               Ev \notin plan.working[h].con
        PROVE  Moved(Strengthened(p, h))
    BY <1>2, <1>3, <1>5, StrengthenedEffect
  <1>6. ASSUME NEW p, Moved(p), p.working = plan.working, NEW h \in Hypotheses,
               NEW anomalous \in BOOLEAN, Ev \notin plan.working[h].pro
        PROVE  Moved(Weakened(p, h, anomalous))
    BY <1>2, <1>3, <1>6, WeakenedEffect
  <1> HIDE DEF Moved
  <1>7. CASE BearSupports
    <2>1. PICK h \in Hypotheses :
              /\ Bearing(h, "supports") /\ Ev \notin plan.working[h].con
              /\ plan' = Strengthened(Bore(h, "supports"), h)
      BY <1>7 DEF BearSupports
    <2>2. "supports" \in BearingKinds
      BY <2>1 DEF Bearing
    <2> QED BY <1>4, <1>5, <2>1, <2>2, <1>1, PlanStepKeepsIInv DEF Moved
  <1>8. CASE BearWeakens
    <2>1. PICK h \in Hypotheses :
              /\ Bearing(h, "weakens") /\ Ev \notin plan.working[h].pro
              /\ plan' = Weakened(Bore(h, "weakens"), h, FALSE)
      BY <1>8 DEF BearWeakens
    <2>2. "weakens" \in BearingKinds
      BY <2>1 DEF Bearing
    <2>3. Moved(plan')
      BY <1>4, <1>6, <2>1, <2>2
    <2> QED BY <2>3, <1>1, PlanStepKeepsIInv DEF Moved
  <1>9. CASE BearContradictsTentative
    <2>1. PICK h \in Hypotheses :
              /\ Bearing(h, "contradicts") /\ Ev \notin plan.working[h].pro
              /\ plan' = Weakened(Bore(h, "contradicts"), h, FALSE)
      BY <1>9 DEF BearContradictsTentative
    <2>2. "contradicts" \in BearingKinds
      BY <2>1 DEF Bearing
    <2>3. Moved(plan')
      BY <1>4, <1>6, <2>1, <2>2
    <2> QED BY <2>3, <1>1, PlanStepKeepsIInv DEF Moved
  <1>10. CASE BearContradictsEstablished
    <2> DEFINE p(h) == Anomalous(Bore(h, "contradicts"), h)
               revising == Disposition(Reliability) = "revise"
    <2>1. PICK h \in Hypotheses :
              /\ Bearing(h, "contradicts")
              /\ ~(revising /\ Ev \in plan.working[h].pro)
              /\ plan' = IF revising THEN Weakened(p(h), h, TRUE) ELSE p(h)
      BY <1>10 DEF BearContradictsEstablished
    <2>2. "contradicts" \in BearingKinds
      BY <2>1 DEF Bearing
    <2>3. Moved(p(h)) /\ p(h).working = plan.working
      BY <1>4, <2>2
    <2> HIDE DEF p, revising
    <2>4. revising => Moved(Weakened(p(h), h, TRUE))
      BY <1>6, <2>1, <2>3
    <2>5. Moved(plan')
      BY <2>1, <2>3, <2>4
    <2> QED BY <2>5, <1>1, PlanStepKeepsIInv DEF Moved
  <1> QED BY <1>7, <1>8, <1>9, <1>10 DEF Bear

\* An empty plan is a plan.
LEMMA EmptyPlanType ==
    ASSUME ids \in IdsType
    PROVE  EmptyPlan \in PlanType
  <1>1. NoRecord \in RecordType
    BY DEF NoRecord, RecordType
  <1>2. /\ [h \in Hypotheses |-> NoRecord] \in [Hypotheses -> RecordType]
        /\ [h \in Hypotheses |-> NoFlight]
              \in [Hypotheses -> Candidates \cup {NoFlight}]
        /\ [h \in Hypotheses |-> <<>>] \in [Hypotheses -> Seq(VersionType)]
        /\ [h \in Hypotheses |-> <<>>] \in [Hypotheses -> Seq(RecordType)]
    BY <1>1
  <1>3. /\ <<>> \in Seq(EvidenceKinds) /\ <<>> \in Seq(EventType)
        /\ <<>> \in Seq(ProposalType) /\ <<>> \in Seq(BearingType)
        /\ <<>> \in Seq(ObservationType)
        /\ 0 \in 0..MaxInteractions
    OBVIOUS
  <1> QED BY <1>2, <1>3 DEF EmptyPlan, PlanType

\* A closed interaction leaves an empty plan carrying the identifiers.
LEMMA ClosedPlan ==
    ASSUME ids \in IdsType, ids' \in IdsType, NEW how, Close(how)
    PROVE  /\ plan' \in PlanType /\ plan'.batch = <<>> /\ plan'.index = 0
           /\ plan'.ids = ids'
           /\ Grounded(plan)'
  <1>1. EmptyPlan \in PlanType
    BY EmptyPlanType
  <1>2. plan' = [EmptyPlan EXCEPT !.ids = ids']
    BY DEF Close
  <1>3. plan' \in PlanType
    BY <1>1, <1>2 DEF PlanType
  <1>4. /\ plan'.batch = <<>> /\ plan'.index = 0 /\ plan'.ids = ids'
        /\ plan'.working = [h \in Hypotheses |-> NoRecord]
        /\ plan'.records = [h \in Hypotheses |-> <<>>]
    BY <1>2 DEF EmptyPlan
  <1>5. Grounded(plan)'
    BY <1>4 DEF Grounded, Sourced, NoRecord
  <1> QED BY <1>3, <1>4, <1>5

\* Giving an interaction up keeps the invariant.
LEMMA AbandonKeepsIInv ==
    ASSUME IInv, NEW how \in {"rejected", "breached", "interrupted"},
           Abandon(how)
    PROVE  IInv'
  <1>1. UNCHANGED <<stores, ids>> /\ Close(how) /\ ids \in IdsType
    BY DEF Abandon, IInv, TypeOK
  <1>2. /\ plan' \in PlanType /\ plan'.batch = <<>> /\ plan'.index = 0
        /\ plan'.ids = ids' /\ Grounded(plan)'
    BY <1>1, ClosedPlan
  <1>3. phase' = "idle" /\ outcome' = how
    BY <1>1 DEF Close
  <1>4. TypeOK'
    BY <1>1, <1>2, <1>3 DEF IInv, TypeOK, stores
  <1>5. BatchNumbered'
    BY <1>1, <1>2 DEF BatchNumbered, IdsType
  <1>6. EvidenceIdsGapless' /\ StoresGrounded'
    BY <1>1 DEF IInv, EvidenceIdsGapless, StoresGrounded, stores
  <1> QED BY <1>2, <1>3, <1>4, <1>5, <1>6
          DEF IInv, AppraisedIsAppraisable, CandidatesComeFirst

\* Writing a planned batch admits all of it, under the next identifiers, and
\* whatever the plan may cite is then admitted and appraisable.
LEMMA AuditAdmits ==
    ASSUME IInv, Planned, WriteAudit
    PROVE  /\ evidence' \in [1..ids'.evidence -> EvidenceKinds]
           /\ ids' \in IdsType
           /\ anomalies' \subseteq AnomalyType /\ parked' \subseteq ParkedType
           /\ {e \in 1..ids.evidence : evidence[e].appraisable}
                 \subseteq {e \in 1..ids'.evidence : evidence'[e].appraisable}
           /\ Citable \subseteq {e \in 1..ids'.evidence : evidence'[e].appraisable}
  <1> DEFINE n == ids.evidence
             m == plan.ids.evidence
  <1>1. /\ plan \in PlanType /\ ids \in IdsType
        /\ plan.ids \in IdsType /\ plan.batch \in Seq(EvidenceKinds)
    BY DEF IInv, TypeOK, PlanType
  <1>2. /\ n \in Nat /\ m \in Nat /\ m = n + Len(plan.batch)
        /\ plan.index = Len(plan.batch)
    BY <1>1 DEF IInv, BatchNumbered, IdsType, Planned
  <1>3. DOMAIN evidence = 1..n /\ \A e \in 1..n : evidence[e] \in EvidenceKinds
    BY DEF IInv, EvidenceIdsGapless, TypeOK
  <1>4. DOMAIN evidence \cup (n + 1)..m = 1..m
    BY <1>2, <1>3
  <1>5. ids' = plan.ids
    BY DEF WriteAudit
  <1>6. evidence' = [e \in 1..m |-> IF e \in 1..n THEN evidence[e]
                                    ELSE plan.batch[e - n]]
    BY <1>3, <1>4 DEF WriteAudit
  <1>7. \A e \in 1..m : e \notin 1..n => e - n \in 1..Len(plan.batch)
    BY <1>2
  <1>8. evidence' \in [1..m -> EvidenceKinds]
    <2>1. \A e \in 1..m : evidence'[e] \in EvidenceKinds
      BY <1>1, <1>3, <1>6, <1>7
    <2> QED BY <1>6, <2>1
  <1>9. Ev = m
    BY <1>2 DEF Ev
  <1>10. \A e \in 1..m : KindOf(e) = evidence'[e]
    BY <1>2, <1>6 DEF KindOf
  <1>11. Citable \subseteq {e \in 1..m : evidence'[e].appraisable}
    BY <1>9, <1>10 DEF Citable
  <1>12. \A e \in 1..n : e \in 1..m /\ evidence'[e] = evidence[e]
    BY <1>2, <1>6
  <1>13. anomalies' \subseteq AnomalyType /\ parked' \subseteq ParkedType
    BY <1>1 DEF WriteAudit, IInv, TypeOK, PlanType
  <1> QED BY <1>1, <1>5, <1>8, <1>11, <1>12, <1>13

\* A closing that admits its evidence and leaves sourced evaluations behind
\* keeps the invariant, if the other stores stay well typed.
LEMMA ClosingKeepsIInv ==
    ASSUME IInv, Planned, WriteAudit, NEW how \in {"held", "committed"},
           Close(how),
           keyOf' \in [Hypotheses -> Keys \cup {NoKey}],
           versions' \in [Hypotheses -> Seq(VersionType)],
           records' \in [Hypotheses -> Seq(RecordType)],
           ledger' \in Seq(EventType), edges' \subseteq EdgeType,
           models' \in [Versions -> [active : SUBSET Hypotheses,
                                     predictions : SUBSET Hypotheses,
                                     inquiry : BOOLEAN]],
           current' \in 0..MaxInteractions,
           \A h \in Hypotheses : \A i \in DOMAIN records'[h] :
              \/ Sourced(records'[h][i])
              \/ i \in DOMAIN records[h] /\ records'[h][i] = records[h][i]
    PROVE  IInv'
  <1>1. /\ evidence' \in [1..ids'.evidence -> EvidenceKinds]
        /\ ids' \in IdsType
        /\ anomalies' \subseteq AnomalyType /\ parked' \subseteq ParkedType
        /\ {e \in 1..ids.evidence : evidence[e].appraisable}
              \subseteq {e \in 1..ids'.evidence : evidence'[e].appraisable}
        /\ Citable \subseteq {e \in 1..ids'.evidence : evidence'[e].appraisable}
    BY AuditAdmits
  <1>2. ids \in IdsType
    BY DEF IInv, TypeOK
  <1>3. /\ plan' \in PlanType /\ plan'.batch = <<>> /\ plan'.index = 0
        /\ plan'.ids = ids' /\ Grounded(plan)'
    BY <1>1, <1>2, ClosedPlan
  <1>4. phase' = "idle" /\ outcome' = how
    BY DEF Close
  <1>5. DOMAIN evidence' = 1..ids'.evidence /\ 1..ids'.evidence \subseteq Nat
    BY <1>1 DEF IdsType
  <1>6. TypeOK'
    BY <1>1, <1>3, <1>4, <1>5 DEF TypeOK
  <1>7. EvidenceIdsGapless'
    BY <1>5 DEF EvidenceIdsGapless
  <1>8. BatchNumbered'
    BY <1>1, <1>3 DEF BatchNumbered, IdsType
  <1>9. StoresGrounded'
    <2> DEFINE Was == {e \in 1..ids.evidence : evidence[e].appraisable}
               Is == {e \in 1..ids'.evidence : evidence'[e].appraisable}
    <2>1. Was \subseteq Is /\ Citable \subseteq Is
      BY <1>1
    <2>2. SUFFICES ASSUME NEW h \in Hypotheses, NEW i \in DOMAIN records'[h]
                   PROVE  /\ records'[h][i].pro \cap records'[h][i].con = {}
                          /\ records'[h][i].pro \cup records'[h][i].con
                                \subseteq Is
      BY DEF StoresGrounded
    <2> HIDE DEF Is
    <2>3. CASE Sourced(records'[h][i])
      BY <2>1, <2>3 DEF Sourced
    <2>4. CASE i \in DOMAIN records[h] /\ records'[h][i] = records[h][i]
      <3>1. /\ records[h][i].pro \cap records[h][i].con = {}
            /\ records[h][i].pro \cup records[h][i].con \subseteq Was
        BY <2>4 DEF IInv, StoresGrounded
      <3> QED BY <2>1, <2>4, <3>1
    <2> QED BY <2>3, <2>4
  <1> QED BY <1>3, <1>4, <1>6, <1>7, <1>8, <1>9
          DEF IInv, AppraisedIsAppraisable, CandidatesComeFirst

\* Holding keeps the invariant.
LEMMA HoldKeepsIInv ==
    ASSUME IInv, Hold
    PROVE  IInv'
  <1>1. Planned /\ WriteAudit /\ Close("held")
    BY DEF Hold
  <1>2. UNCHANGED <<keyOf, versions, records, ledger, edges, models, current>>
    BY DEF Hold
  <1> QED BY <1>1, <1>2, ClosingKeepsIInv DEF IInv, TypeOK

\* Committing keeps the invariant.
LEMMA CommitKeepsIInv ==
    ASSUME IInv, Commit
    PROVE  IInv'
  <1>1. Planned /\ WriteAudit /\ Close("committed")
    BY DEF Commit
  <1>2. /\ plan \in PlanType /\ Grounded(plan)
        /\ keyOf \in [Hypotheses -> Keys \cup {NoKey}]
        /\ versions \in [Hypotheses -> Seq(VersionType)]
        /\ records \in [Hypotheses -> Seq(RecordType)]
        /\ ledger \in Seq(EventType) /\ edges \subseteq EdgeType
    BY DEF IInv, TypeOK
  <1>3. /\ plan.flights \in [Hypotheses -> Candidates \cup {NoFlight}]
        /\ plan.versions \in [Hypotheses -> Seq(VersionType)]
        /\ plan.records \in [Hypotheses -> Seq(RecordType)]
        /\ plan.events \in Seq(EventType) /\ plan.edges \subseteq EdgeType
        /\ plan.wm \in 0..MaxInteractions
    BY <1>2 DEF PlanType
  <1>4. keyOf' \in [Hypotheses -> Keys \cup {NoKey}]
    <2>1. \A h \in Hypotheses : plan.flights[h].key \in Keys \cup {NoKey}
      <3> SUFFICES ASSUME NEW h \in Hypotheses
                   PROVE  plan.flights[h].key \in Keys \cup {NoKey}
        OBVIOUS
      <3>1. CASE plan.flights[h] \in Candidates
        BY <3>1 DEF Candidates
      <3>2. CASE plan.flights[h] = NoFlight
        <4>1. NoFlight.key = NoKey
          BY DEF NoFlight
        <4> QED BY <3>2, <4>1
      <3> QED BY <1>3, <3>1, <3>2
    <2> QED BY <1>2, <2>1 DEF Commit, WriteLineages
  <1>5. versions' \in [Hypotheses -> Seq(VersionType)]
    <2>1. \A h \in Hypotheses : /\ versions[h] \in Seq(VersionType)
                                /\ versions[h] \o plan.versions[h]
                                      \in Seq(VersionType)
      BY <1>2, <1>3
    <2> QED BY <2>1 DEF Commit, WriteLineages
  <1>6. records' = [h \in Hypotheses |-> records[h] \o plan.records[h]]
    BY DEF Commit
  <1>7. records' \in [Hypotheses -> Seq(RecordType)]
    <2>1. \A h \in Hypotheses : records[h] \o plan.records[h] \in Seq(RecordType)
      BY <1>2, <1>3
    <2> QED BY <1>6, <2>1
  <1>8. ledger' \in Seq(EventType) /\ edges' \subseteq EdgeType
    BY <1>2, <1>3 DEF Commit
  <1>9. models' \in [Versions -> [active : SUBSET Hypotheses,
                                  predictions : SUBSET Hypotheses,
                                  inquiry : BOOLEAN]]
    <2> DEFINE new == [active |-> Working, predictions |-> Predicted,
                       inquiry |-> OpensInquiry]
               Model == [active : SUBSET Hypotheses,
                         predictions : SUBSET Hypotheses, inquiry : BOOLEAN]
    <2>1. Working \subseteq Hypotheses /\ Predicted \subseteq Hypotheses
      BY DEF Working, Predicted
    <2>2. OpensInquiry \in BOOLEAN
      BY DEF OpensInquiry
    <2>3. new \in Model
      BY <2>1, <2>2
    <2> HIDE DEF new
    <2>4. models \in [Versions -> Model]
      BY DEF IInv, TypeOK
    <2>5. models' = [models EXCEPT ![plan.wm] = new]
      BY DEF Commit, new
    <2> HIDE DEF Model
    <2>6. models' \in [Versions -> Model]
      BY <2>3, <2>4, <2>5
    <2> QED BY <2>6 DEF Model
  <1>10. current' \in 0..MaxInteractions
    BY <1>3 DEF Commit
  <1>11. ASSUME NEW h \in Hypotheses, NEW i \in DOMAIN records'[h]
         PROVE  \/ Sourced(records'[h][i])
                \/ i \in DOMAIN records[h] /\ records'[h][i] = records[h][i]
    <2> DEFINE old == records[h]
               more == plan.records[h]
    <2>1. old \in Seq(RecordType) /\ more \in Seq(RecordType)
      BY <1>2, <1>3
    <2>2. records'[h] = old \o more
      BY <1>6
    <2>3. \A j \in DOMAIN more : Sourced(more[j])
      BY <1>2 DEF Grounded
    <2> HIDE DEF old, more
    <2>4. CASE i \in DOMAIN old
      BY <2>1, <2>2, <2>4 DEF old
    <2>5. CASE i \notin DOMAIN old
      <3>1. i - Len(old) \in DOMAIN more /\ (old \o more)[i] = more[i - Len(old)]
        BY <1>11, <2>1, <2>2, <2>5
      <3> QED BY <2>2, <2>3, <3>1
    <2> QED BY <2>4, <2>5
  <1> QED BY <1>1, <1>4, <1>5, <1>7, <1>8, <1>9, <1>10, <1>11, ClosingKeepsIInv

\* Opening an interaction, and moving from one observation to the next.
LEMMA OpeningKeepsIInv ==
    ASSUME IInv, RecordInteraction
    PROVE  IInv'
  <1>1. PICK batch \in Batches :
            plan' = [EmptyPlan EXCEPT
                       !.batch = batch,
                       !.wm = ids.wm + 1,
                       !.ids = [ids EXCEPT !.evidence = @ + Len(batch),
                                           !.wm = @ + 1],
                       !.working = [h \in Hypotheses |-> Latest(h)]]
    BY DEF RecordInteraction
  <1> DEFINE newIds == [ids EXCEPT !.evidence = @ + Len(batch), !.wm = @ + 1]
             latest == [h \in Hypotheses |-> Latest(h)]
  <1>2. /\ ids \in IdsType /\ ids.wm < MaxInteractions
        /\ phase' = "planning" /\ UNCHANGED <<stores, ids, outcome>>
        /\ records \in [Hypotheses -> Seq(RecordType)]
    BY DEF RecordInteraction, IInv, TypeOK
  <1>3. batch \in Seq(EvidenceKinds)
    <2>1. PICK n \in 0..MaxBatch : batch \in [1..n -> EvidenceKinds]
      BY DEF Batches
    <2> QED BY <2>1
  <1>4. /\ ids.wm + 1 \in 0..MaxInteractions
        /\ newIds \in IdsType
        /\ newIds.evidence = ids.evidence + Len(batch)
    <2>1. ids.wm \in 0..MaxInteractions /\ ids.evidence \in Nat /\ Len(batch) \in Nat
      BY <1>2, <1>3 DEF IdsType
    <2>2. ids.wm + 1 \in 0..MaxInteractions /\ ids.evidence + Len(batch) \in Nat
      BY <1>2, <2>1
    <2> QED BY <1>2, <2>1, <2>2 DEF IdsType
  <1>5. \A h \in Hypotheses :
            /\ Latest(h) \in RecordType
            /\ \/ Latest(h) = NoRecord
               \/ \E i \in DOMAIN records[h] : Latest(h) = records[h][i]
    <2> SUFFICES ASSUME NEW h \in Hypotheses
                 PROVE  /\ Latest(h) \in RecordType
                        /\ \/ Latest(h) = NoRecord
                           \/ \E i \in DOMAIN records[h] :
                                 Latest(h) = records[h][i]
      OBVIOUS
    <2>1. CASE records[h] = <<>>
      BY <2>1 DEF Latest, NoRecord, RecordType
    <2>2. CASE records[h] # <<>>
      <3>1. records[h] \in Seq(RecordType)
        BY <1>2
      <3>2. Len(records[h]) \in DOMAIN records[h]
        BY <2>2, <3>1
      <3> QED BY <2>2, <3>1, <3>2 DEF Latest
    <2> QED BY <2>1, <2>2
  <1>6. latest \in [Hypotheses -> RecordType]
    BY <1>5
  <1> HIDE DEF newIds, latest
  <1>7. EmptyPlan \in PlanType
    BY <1>2, EmptyPlanType
  <1>8. plan' = [EmptyPlan EXCEPT !.batch = batch, !.wm = ids.wm + 1,
                                  !.ids = newIds, !.working = latest]
    BY <1>1 DEF newIds, latest
  <1>9. plan' \in PlanType
    BY <1>3, <1>4, <1>6, <1>7, <1>8 DEF PlanType
  <1>10. /\ plan'.batch = batch /\ plan'.index = 0 /\ plan'.ids = newIds
         /\ plan'.working = latest
         /\ plan'.records = [h \in Hypotheses |-> <<>>]
    BY <1>8 DEF EmptyPlan
  <1>11. TypeOK'
    BY <1>2, <1>3, <1>9, <1>10 DEF IInv, TypeOK, stores
  <1>12. BatchNumbered'
    BY <1>2, <1>4, <1>10 DEF BatchNumbered
  <1>13. EvidenceIdsGapless' /\ StoresGrounded'
    BY <1>2 DEF IInv, EvidenceIdsGapless, StoresGrounded, stores
  <1>14. {e \in 1..ids.evidence : evidence[e].appraisable} \subseteq Citable'
    <2>1. Ev' = ids.evidence
      BY <1>2, <1>10 DEF Ev, IdsType
    <2>2. \A e \in 1..ids.evidence : KindOf(e)' = evidence[e]
      BY <1>2 DEF KindOf, stores, IdsType
    <2> QED BY <2>1, <2>2 DEF Citable
  <1>15. ASSUME NEW h \in Hypotheses
         PROVE  Sourced(plan.working[h])'
    <2>0. plan'.working[h] = Latest(h)
      BY <1>10 DEF latest
    <2>1. CASE Latest(h) = NoRecord
      BY <2>0, <2>1 DEF Sourced, NoRecord
    <2>2. CASE \E i \in DOMAIN records[h] : Latest(h) = records[h][i]
      BY <1>14, <2>0, <2>2 DEF Sourced, IInv, StoresGrounded
    <2> QED BY <1>5, <2>1, <2>2
  <1>16. Grounded(plan)'
    BY <1>10, <1>15 DEF Grounded
  <1> QED BY <1>2, <1>11, <1>12, <1>13, <1>16
          DEF IInv, AppraisedIsAppraisable, CandidatesComeFirst

\* The same plan, further on in its batch, stays grounded.
LEMMA MovingOnStaysGrounded ==
    ASSUME IInv, phase # "idle", UNCHANGED <<stores, ids>>,
           plan'.batch = plan.batch, plan'.index \in Nat,
           plan.index =< plan'.index, SameEvaluations(plan', plan)
    PROVE  Grounded(plan)'
  <1>1. ids.evidence \in Nat /\ plan.index \in Nat
    BY DEF IInv, TypeOK, IdsType, PlanType
  <1>2. Ev \in Nat /\ Ev' \in Nat /\ Ev =< Ev'
    BY <1>1 DEF Ev
  <1>3. \A e : KindOf(e)' = KindOf(e)
    BY DEF KindOf, stores
  <1>4. Citable \subseteq Citable'
    BY <1>2, <1>3 DEF Citable
  <1> QED BY <1>4 DEF IInv, Grounded, Sourced, SameEvaluations

\* Skipping, beginning and finishing an observation keep the invariant.
LEMMA MovingOnKeepsIInv ==
    ASSUME IInv, SkipObservation \/ Appraise \/ EndObservation
    PROVE  IInv'
  <1>1. /\ plan \in PlanType /\ plan.index \in Nat
        /\ plan.batch \in Seq(EvidenceKinds)
        /\ plan.proposals \in Seq(ProposalType)
        /\ plan.bearings \in Seq(BearingType)
        /\ plan.appraised \in Seq(ObservationType)
        /\ plan.index =< Len(plan.batch)
    BY DEF IInv, TypeOK, PlanType
  <1>2. phase # "idle" /\ UNCHANGED <<stores, ids, outcome>>
    BY DEF SkipObservation, Appraise, EndObservation
  <1>3. ASSUME plan' \in PlanType, plan'.batch = plan.batch,
               plan'.ids = plan.ids, SameEvaluations(plan', plan),
               plan'.index \in Nat, plan.index =< plan'.index,
               plan'.index =< Len(plan'.batch),
               phase' \in {"planning", "appraising"},
               phase' = "appraising" =>
                  /\ plan'.index = plan.index + 1
                  /\ plan'.batch[plan'.index].appraisable
        PROVE  IInv'
    <2>0. phase' = "appraising" => plan'.index >= 1
      BY <1>1, <1>3
    <2>1. TypeOK'
      <3>1. TypeOK
        BY DEF IInv
      <3> QED BY <1>2, <1>3, <2>0, <3>1 DEF TypeOK, stores
    <2>2. Grounded(plan)'
      BY <1>2, <1>3, MovingOnStaysGrounded
    <2>3. EvidenceIdsGapless' /\ BatchNumbered' /\ StoresGrounded'
      BY <1>2, <1>3 DEF IInv, EvidenceIdsGapless, BatchNumbered,
                        StoresGrounded, stores
    <2>4. ASSUME phase' = "appraising" PROVE Untouched(plan)'
      <3>1. Ev' \notin Citable
        BY <1>1, <1>2, <1>3, <2>4 DEF Citable, Ev, IInv, TypeOK, IdsType
      <3> QED BY <1>3, <3>1
              DEF IInv, Grounded, Sourced, SameEvaluations, Untouched
    <2> QED BY <1>3, <2>1, <2>2, <2>3, <2>4
            DEF IInv, AppraisedIsAppraisable, CandidatesComeFirst
  <1>a. ASSUME plan.index < Len(plan.batch)
        PROVE  plan.index + 1 \in Nat /\ plan.index + 1 =< Len(plan.batch)
    BY <1>1, <1>a
  <1>4. CASE SkipObservation
    <2> DEFINE next == plan.index + 1
    <2>1. next \in Nat /\ next =< Len(plan.batch) /\ plan.index =< next
      BY <1>1, <1>4, <1>a DEF SkipObservation
    <2>2. plan' = [plan EXCEPT !.index = next] /\ phase' = "planning"
      BY <1>4 DEF SkipObservation
    <2> HIDE DEF next
    <2>3. plan' \in PlanType
      BY <1>1, <2>1, <2>2 DEF PlanType
    <2>4. /\ plan'.batch = plan.batch /\ plan'.ids = plan.ids
          /\ SameEvaluations(plan', plan) /\ plan'.index = next
      BY <1>1, <2>2 DEF PlanType, SameEvaluations
    <2> QED BY <1>3, <2>1, <2>2, <2>3, <2>4
  <1>5. CASE Appraise
    <2> DEFINE next == plan.index + 1
    <2>1. /\ next \in Nat /\ next =< Len(plan.batch) /\ plan.index =< next
          /\ plan.batch[next].appraisable
      BY <1>1, <1>5, <1>a DEF Appraise
    <2>2. /\ plan' = [plan EXCEPT !.index = next,
                                  !.proposals = <<>>, !.bearings = <<>>]
          /\ phase' = "appraising"
      BY <1>5 DEF Appraise
    <2>3. next = plan.index + 1
      OBVIOUS
    <2>4. <<>> \in Seq(ProposalType) /\ <<>> \in Seq(BearingType)
      OBVIOUS
    <2> HIDE DEF next
    <2>5. plan' \in PlanType
      BY <1>1, <2>1, <2>2, <2>4 DEF PlanType
    <2>6. /\ plan'.batch = plan.batch /\ plan'.ids = plan.ids
          /\ SameEvaluations(plan', plan) /\ plan'.index = next
      BY <1>1, <2>2 DEF PlanType, SameEvaluations
    <2> QED BY <1>3, <2>1, <2>2, <2>3, <2>5, <2>6
  <1>6. CASE EndObservation
    <2> DEFINE obs == [proposals |-> plan.proposals, bearings |-> plan.bearings]
               all == Append(plan.appraised, obs)
    <2>1. obs \in ObservationType
      BY <1>1 DEF ObservationType
    <2>2. plan' = [plan EXCEPT !.appraised = all] /\ phase' = "planning"
      BY <1>6 DEF EndObservation
    <2> HIDE DEF obs
    <2>3. all \in Seq(ObservationType)
      BY <1>1, <2>1
    <2> HIDE DEF all
    <2>4. plan' \in PlanType
      BY <1>1, <2>2, <2>3 DEF PlanType
    <2>5. /\ plan'.batch = plan.batch /\ plan'.ids = plan.ids
          /\ SameEvaluations(plan', plan) /\ plan'.index = plan.index
      BY <1>1, <2>2 DEF PlanType, SameEvaluations
    <2> QED BY <1>1, <1>3, <2>2, <2>4, <2>5
  <1> QED BY <1>4, <1>5, <1>6

\* The initial state satisfies the invariant.
LEMMA InitIInv == Init => IInv
  <1> SUFFICES ASSUME Init PROVE IInv
    OBVIOUS
  <1>1. ids \in IdsType /\ ids.evidence = 0
    BY DEF Init, IdsType
  <1>2. plan \in PlanType
    BY <1>1, EmptyPlanType DEF Init
  <1>3. /\ plan.batch = <<>> /\ plan.index = 0 /\ plan.ids = ids
        /\ plan.working = [h \in Hypotheses |-> NoRecord]
        /\ plan.records = [h \in Hypotheses |-> <<>>]
    BY DEF Init, EmptyPlan
  <1>4. TypeOK
    BY <1>1, <1>2, <1>3 DEF Init, TypeOK, NoModel
  <1>5. Grounded(plan)
    BY <1>3 DEF Grounded, Sourced, NoRecord
  <1>6. EvidenceIdsGapless /\ BatchNumbered /\ StoresGrounded
    BY <1>1, <1>3 DEF Init, EvidenceIdsGapless, BatchNumbered, StoresGrounded
  <1> QED BY <1>4, <1>5, <1>6
          DEF Init, IInv, AppraisedIsAppraisable, CandidatesComeFirst

\* Every step preserves the invariant.
LEMMA NextIInv == IInv /\ [Next]_vars => IInv'
  <1> SUFFICES ASSUME IInv, [Next]_vars PROVE IInv'
    OBVIOUS
  <1>1. CASE RecordInteraction
    BY <1>1, OpeningKeepsIInv
  <1>2. CASE SkipObservation \/ Appraise \/ EndObservation
    BY <1>2, MovingOnKeepsIInv
  <1>3. CASE Adjudicate
    <2>1. /\ phase = "appraising" /\ UNCHANGED <<stores, ids, phase, outcome>>
      BY <1>3 DEF Adjudicate, Adjudicating, MatchCommitted, ParkOpposedMatch,
           MatchInFlight, FoundDistinct, ParkAmbiguous, ResolverMatch,
           ResolverRefine, ParkOpposedMerge
    <2>2. Follows(plan', plan) /\ Grounded(plan') /\ Untouched(plan')
      BY <1>3, AdjudicateFollows
    <2> QED BY <2>1, <2>2, PlanStepKeepsIInv DEF Follows
  <1>4. CASE Bear
    BY <1>4, BearKeepsIInv
  <1>5. CASE RejectAppraisal \/ Breach \/ RejectPlan \/ Interrupt
    BY <1>5, AbandonKeepsIInv DEF RejectAppraisal, Breach, RejectPlan, Interrupt
  <1>6. CASE Hold
    BY <1>6, HoldKeepsIInv
  <1>7. CASE Commit
    BY <1>7, CommitKeepsIInv
  <1>8. CASE UNCHANGED vars
    <2>1. Ev' = Ev /\ \A e : KindOf(e)' = KindOf(e)
      BY <1>8 DEF vars, stores, Ev, KindOf
    <2>2. Citable' = Citable
      BY <2>1 DEF Citable
    <2>3. Grounded(plan)' /\ CandidatesComeFirst'
      BY <1>8, <2>1, <2>2 DEF vars, stores, IInv, Grounded, Sourced,
                              CandidatesComeFirst, Untouched
    <2>4. TypeOK'
      BY <1>8 DEF vars, stores, IInv, TypeOK
    <2> QED BY <1>8, <2>3, <2>4 DEF vars, stores, IInv, EvidenceIdsGapless,
              BatchNumbered, StoresGrounded, AppraisedIsAppraisable
  <1> QED BY <1>1, <1>2, <1>3, <1>4, <1>5, <1>6, <1>7, <1>8
          DEF Next, Step, NoMoreCalls

\* The invariant holds in every reachable state.
THEOREM Inductive == Spec => []IInv
  BY InitIInv, NextIInv, PTL DEF Spec

\* Stores and plan hold values of the types the domain classes declare.
THEOREM TypeCorrect == Spec => []TypeOK
  <1>1. IInv => TypeOK
    BY DEF IInv
  <1> QED BY Inductive, <1>1, PTL

\* Rejected, breached and interrupted interactions give their evidence
\* identifiers back: admitted evidence is numbered without a hole.
THEOREM IdsAreGapless == Spec => []EvidenceIdsGapless
  <1>1. IInv => EvidenceIdsGapless
    BY DEF IInv
  <1> QED BY Inductive, <1>1, PTL

\* No evaluation ever counts one observation as both supporting and
\* contradicting, by whatever mixture of matches, refinements and bearings.
THEOREM SidesAreDisjoint == Spec => []EvidenceDisjoint
  <1>1. IInv => EvidenceDisjoint
    BY DEF IInv, StoresGrounded, EvidenceDisjoint
  <1> QED BY Inductive, <1>1, PTL

\* Every evaluation rests on admitted evidence whose role may be appraised.
THEOREM EvaluationsAreGrounded == Spec => []GroundedInEvidence
  <1>1. IInv => GroundedInEvidence
    BY DEF IInv, StoresGrounded, EvidenceIdsGapless, GroundedInEvidence
  <1> QED BY Inductive, <1>1, PTL
-----------------------------------------------------------------------------
(* How one step of the engine changes the plan, field by field: what the   *)
(* proofs below cite instead of the definitions of the actions.            *)

\* What a step of adjudication or of a bearing never touches.
Frame(p) == <<p.batch, p.index, p.wm, p.appraised, p.ids.evidence, p.ids.wm>>

\* What only a revision touches.
Evaluations(p) == <<p.working, p.records, p.events, p.edges, p.ids.record>>

\* What only adjudication touches.
Identity(p) == <<p.flights, p.versions, p.ids.hyp>>

\* What remains: what the response said and what was made of it.
Remarks(p) == <<p.proposals, p.bearings, p.anomalies, p.parked>>

EventOf(p, h, what, anomalous) ==
    [outcome |-> what, hyp |-> h, by |-> Ev, at |-> p.wm,
     anomalous |-> anomalous]

\* q is p after h got evaluation r, announced as what.
Recorded(q, p, h, r, what, anomalous, rel) ==
    /\ q \in PlanType
    /\ Frame(q) = Frame(p) /\ Identity(q) = Identity(p)
    /\ Remarks(q) = Remarks(p)
    /\ r \in RecordType
    /\ r.id = p.ids.record + 1 /\ r.at = p.wm /\ r.prev = p.working[h].id
    /\ q.ids.record = p.ids.record + 1
    /\ q.working = [p.working EXCEPT ![h] = r]
    /\ q.edges = p.edges \cup {<<Ev, rel, h>>}
    /\ IF what \in CommitOutcomes
       THEN /\ q.records = [p.records EXCEPT ![h] = Append(@, r)]
            /\ q.events = Append(p.events, EventOf(p, h, what, anomalous))
       ELSE q.records = p.records /\ q.events = p.events

LEMMA RevisedRecords ==
    ASSUME NEW p \in PlanType, NEW h \in Hypotheses, NEW s \in 0..Unit,
           NEW pro \in SUBSET Nat, NEW con \in SUBSET Nat,
           NEW what \in Outcomes, NEW anomalous \in BOOLEAN,
           NEW rel \in {"supports", "contradicts"}, Ev \in Nat
    PROVE  \E r : /\ Recorded(Revised(p, h, s, pro, con, what, anomalous, rel),
                              p, h, r, what, anomalous, rel)
                  /\ r.pro = pro /\ r.con = con /\ r.support = s
  <1> DEFINE q == Revised(p, h, s, pro, con, what, anomalous, rel)
             r == [id |-> p.ids.record + 1, support |-> s, pro |-> pro,
                   con |-> con, at |-> p.wm, prev |-> p.working[h].id]
             e == [outcome |-> what, hyp |-> h, by |-> Ev, at |-> p.wm,
                   anomalous |-> anomalous]
             b == [p EXCEPT !.ids.record = @ + 1,
                            !.working[h] = r,
                            !.edges = @ \cup {<<Ev, rel, h>>}]
             c == [b EXCEPT !.records[h] = Append(@, r),
                            !.events = Append(@, e)]
  <1>1. q \in PlanType
    BY RevisedType
  <1>2. q = IF what \in CommitOutcomes THEN c ELSE b
    BY DEF Revised
  <1>3. /\ Frame(b) = Frame(p) /\ Identity(b) = Identity(p)
        /\ Remarks(b) = Remarks(p)
        /\ b.records = p.records /\ b.events = p.events
        /\ b.working = [p.working EXCEPT ![h] = r]
        /\ b.ids.record = p.ids.record + 1
        /\ b.edges = p.edges \cup {<<Ev, rel, h>>}
    BY DEF PlanType, IdsType, Frame, Identity, Remarks
  <1>4. /\ Frame(c) = Frame(b) /\ Identity(c) = Identity(b)
        /\ Remarks(c) = Remarks(b) /\ c.ids = b.ids
        /\ c.working = b.working /\ c.edges = b.edges
        /\ c.records = [b.records EXCEPT ![h] = Append(@, r)]
        /\ c.events = Append(b.events, e)
    BY DEF PlanType, Frame, Identity, Remarks
  <1>5. /\ r.pro = pro /\ r.con = con /\ r.support = s /\ r.at = p.wm
        /\ r.id = p.ids.record + 1 /\ r.prev = p.working[h].id
    OBVIOUS
  <1>6. e = EventOf(p, h, what, anomalous)
    BY DEF EventOf
  <1>7. r \in RecordType
    <2>1. /\ p.ids \in IdsType /\ p.wm \in Nat
          /\ p.working \in [Hypotheses -> RecordType]
      BY BoundAssumption DEF PlanType
    <2>2. p.ids.record + 1 \in Nat /\ p.working[h].id \in Nat
      BY <2>1 DEF IdsType, RecordType
    <2> QED BY <2>1, <2>2 DEF RecordType
  <1> HIDE DEF r, e, b, c, q
  <1>8. Recorded(q, p, h, r, what, anomalous, rel)
    BY <1>1, <1>2, <1>3, <1>4, <1>5, <1>6, <1>7 DEF Recorded
  <1> QED BY <1>5, <1>8 DEF q

\* _strengthen: nothing, or one evaluation with one more supporter.
LEMMA StrengthenedRecords ==
    ASSUME NEW p \in PlanType, NEW h \in Hypotheses,
           Ev \in Nat, Reliability \in 0..Unit
    PROVE  LET q == Strengthened(p, h) IN
           \/ q = p
           \/ /\ p.working[h].id # 0 /\ Ev \notin p.working[h].pro
              /\ \E r : /\ Recorded(q, p, h, r, "strengthen", FALSE, "supports")
                        /\ r.pro = p.working[h].pro \cup {Ev}
                        /\ r.con = p.working[h].con
  <1> DEFINE q == Strengthened(p, h)
             w == p.working[h]
             pro == w.pro \cup {Ev}
             con == w.con
             s == SupportAfterSupport(w.support, Reliability)
             what == "strengthen"
             anomalous == FALSE
             rel == "supports"
  <1>1. CASE w.id = 0 \/ Ev \in w.pro
    BY <1>1 DEF Strengthened
  <1>2. CASE ~(w.id = 0 \/ Ev \in w.pro)
    <2>1. w \in RecordType
      BY DEF PlanType
    <2>2. con \in SUBSET Nat /\ w.pro \in SUBSET Nat /\ w.support \in 0..Unit
      BY <2>1 DEF RecordType
    <2>3. pro \in SUBSET Nat /\ s \in 0..Unit
      BY <2>2, SupportUpdates
    <2>4. what \in Outcomes /\ anomalous \in BOOLEAN
          /\ rel \in {"supports", "contradicts"}
      BY DEF Outcomes
    <2>5. q = Revised(p, h, s, pro, con, what, anomalous, rel)
      BY <1>2 DEF Strengthened
    <2> HIDE DEF pro, s, con, what, anomalous, rel
    <2>6. \E r : /\ Recorded(q, p, h, r, what, anomalous, rel)
                 /\ r.pro = pro /\ r.con = con
      BY <2>2, <2>3, <2>4, <2>5, RevisedRecords
    <2> QED BY <1>2, <2>6 DEF pro, con, what, anomalous, rel
  <1> QED BY <1>1, <1>2

\* _weaken: one evaluation with one more contradictor.
LEMMA WeakenedRecords ==
    ASSUME NEW p \in PlanType, NEW h \in Hypotheses,
           NEW anomalous \in BOOLEAN,
           Ev \in Nat, Reliability \in 0..Unit
    PROVE  LET q == Weakened(p, h, anomalous) IN
           \E r, what :
              /\ what \in {"weaken", "contradict"}
              /\ Recorded(q, p, h, r, what, anomalous, "contradicts")
              /\ r.pro = p.working[h].pro
              /\ r.con = p.working[h].con \cup {Ev}
  <1> DEFINE q == Weakened(p, h, anomalous)
             w == p.working[h]
             pro == w.pro
             con == w.con \cup {Ev}
             s == SupportAfterContradiction(w.support, Reliability)
             crossed == w.support >= Established /\ s < Established
             what == IF crossed THEN "contradict" ELSE "weaken"
             rel == "contradicts"
  <1>1. w \in RecordType
    BY DEF PlanType
  <1>2. pro \in SUBSET Nat /\ w.con \in SUBSET Nat /\ w.support \in 0..Unit
    BY <1>1 DEF RecordType
  <1>3. con \in SUBSET Nat /\ s \in 0..Unit
    BY <1>2, SupportUpdates
  <1>4. /\ what \in Outcomes /\ rel \in {"supports", "contradicts"}
        /\ what \in {"weaken", "contradict"}
    BY DEF Outcomes
  <1>5. q = Revised(p, h, s, pro, con, what, anomalous, rel)
    BY DEF Weakened
  <1> HIDE DEF pro, con, s, what, rel
  <1>6. \E r : /\ Recorded(q, p, h, r, what, anomalous, rel)
               /\ r.pro = pro /\ r.con = con
    BY <1>2, <1>3, <1>4, <1>5, RevisedRecords
  <1> QED BY <1>4, <1>6 DEF pro, con, rel

----------------------------------------------------------------------------
(* What adjudication and bearings note down before they revise.             *)

\* Noting a candidate changes the proposals only.
LEMMA ProposedFields ==
    ASSUME NEW p \in PlanType, NEW c \in Candidates, NEW m \in 0..MaxHypotheses
    PROVE  LET o == Proposed(p, c, m) IN
           /\ o \in PlanType /\ Frame(o) = Frame(p)
           /\ Evaluations(o) = Evaluations(p) /\ Identity(o) = Identity(p)
           /\ o.bearings = p.bearings /\ o.anomalies = p.anomalies
           /\ o.parked = p.parked
           /\ o.proposals = Append(p.proposals,
                  [key |-> c.key, text |-> c.text, stance |-> c.stance,
                   matched |-> m])
  <1> DEFINE o == Proposed(p, c, m)
             v == [key |-> c.key, text |-> c.text, stance |-> c.stance,
                   matched |-> m]
  <1>1. p.proposals \in Seq(ProposalType) /\ v \in ProposalType
    BY DEF PlanType, Candidates, ProposalType
  <1>2. o = [p EXCEPT !.proposals = Append(@, v)]
    BY DEF Proposed
  <1> HIDE DEF v
  <1>3. Append(p.proposals, v) \in Seq(ProposalType)
    BY <1>1
  <1>4. o \in PlanType /\ o.proposals = Append(p.proposals, v)
    BY <1>2, <1>3 DEF PlanType
  <1> QED BY <1>2, <1>4 DEF PlanType, Frame, Evaluations, Identity, v

\* Parking a candidate changes what is parked only.
LEMMA ParkedFields ==
    ASSUME NEW p \in PlanType, NEW c \in Candidates, Ev \in Nat
    PROVE  LET o == Parked(p, c) IN
           /\ o \in PlanType /\ Frame(o) = Frame(p)
           /\ Evaluations(o) = Evaluations(p) /\ Identity(o) = Identity(p)
           /\ o.bearings = p.bearings /\ o.anomalies = p.anomalies
           /\ o.proposals = p.proposals
           /\ o.parked = p.parked \cup
                 {[by |-> Ev, key |-> c.key, text |-> c.text,
                   stance |-> c.stance]}
  <1> DEFINE o == Parked(p, c)
             v == [by |-> Ev, key |-> c.key, text |-> c.text,
                   stance |-> c.stance]
  <1>1. p.parked \in SUBSET ParkedType /\ v \in ParkedType
    BY DEF PlanType, Candidates, ParkedType
  <1> DEFINE parking == p.parked \cup {v}
  <1>2. o = [p EXCEPT !.parked = parking]
    BY DEF Parked
  <1>3. parking \in SUBSET ParkedType
    BY <1>1
  <1> HIDE DEF v, parking
  <1>4. o \in PlanType
    BY <1>2, <1>3 DEF PlanType
  <1>5. o.parked = parking
    BY <1>2 DEF PlanType
  <1> QED BY <1>2, <1>4, <1>5 DEF PlanType, Frame, Evaluations, Identity, v, parking

\* A refinement appends one statement version.
LEMMA VersionedFields ==
    ASSUME NEW p \in PlanType, NEW h \in Hypotheses, NEW c \in Candidates
    PROVE  LET o == Versioned(p, h, c) IN
           /\ o \in PlanType /\ Frame(o) = Frame(p)
           /\ Evaluations(o) = Evaluations(p) /\ Remarks(o) = Remarks(p)
           /\ o.flights = p.flights /\ o.ids.hyp = p.ids.hyp
           /\ o.versions = [p.versions EXCEPT ![h] = Append(@,
                 [text |-> c.text, stance |-> c.stance, at |-> p.wm])]
  <1> DEFINE o == Versioned(p, h, c)
             v == [text |-> c.text, stance |-> c.stance, at |-> p.wm]
             new == [p.versions EXCEPT ![h] = Append(@, v)]
  <1>1. p.versions \in [Hypotheses -> Seq(VersionType)] /\ p.wm \in Nat
    BY BoundAssumption DEF PlanType
  <1>2. v \in VersionType
    BY <1>1 DEF Candidates, VersionType
  <1>3. o = [p EXCEPT !.versions = new]
    BY DEF Versioned, PlanType
  <1> HIDE DEF v
  <1>4. new \in [Hypotheses -> Seq(VersionType)]
    BY <1>1, <1>2
  <1> HIDE DEF new
  <1>5. o \in PlanType /\ o.versions = new
    BY <1>3, <1>4 DEF PlanType
  <1> QED BY <1>3, <1>5 DEF PlanType, Frame, Evaluations, Remarks, new, v

\* A lineage in flight, before its first version and evaluation.
InFlight(p, h, c) == [p EXCEPT !.ids.hyp = h, !.flights[h] = c]

LEMMA FlightFields ==
    ASSUME NEW p \in PlanType, NEW c \in Candidates, NEW h,
           p.ids.hyp < MaxHypotheses, h = p.ids.hyp + 1
    PROVE  LET o == InFlight(p, h, c) IN
           /\ h \in Hypotheses
           /\ o \in PlanType /\ Frame(o) = Frame(p)
           /\ Evaluations(o) = Evaluations(p) /\ Remarks(o) = Remarks(p)
           /\ o.versions = p.versions /\ o.ids.hyp = h
           /\ o.flights = [p.flights EXCEPT ![h] = c]
  <1> DEFINE o == InFlight(p, h, c)
  <1>1. /\ p.ids \in IdsType /\ MaxHypotheses \in Nat
        /\ p.flights \in [Hypotheses -> Candidates \cup {NoFlight}]
    BY BoundAssumption DEF PlanType
  <1>2. h \in Hypotheses /\ h \in 0..MaxHypotheses
    BY <1>1 DEF Hypotheses, IdsType
  <1>3. [p.ids EXCEPT !.hyp = h] \in IdsType
    BY <1>1, <1>2 DEF IdsType
  <1>4. [p.flights EXCEPT ![h] = c] \in [Hypotheses -> Candidates \cup {NoFlight}]
    BY <1>1, <1>2
  <1> DEFINE i == [p.ids EXCEPT !.hyp = h]
             f == [p.flights EXCEPT ![h] = c]
  <1>5. o = [p EXCEPT !.ids = i, !.flights = f]
    BY DEF PlanType, InFlight
  <1>6. /\ i.evidence = p.ids.evidence /\ i.wm = p.ids.wm
        /\ i.record = p.ids.record /\ i.hyp = h
    BY <1>1 DEF IdsType
  <1> HIDE DEF i, f
  <1>7. o \in PlanType /\ o.ids = i /\ o.flights = f
    BY <1>3, <1>4, <1>5 DEF PlanType, i, f
  <1> QED BY <1>2, <1>5, <1>6, <1>7 DEF PlanType, Frame, Evaluations, Remarks, f

\* A bearing is noted once, before it is applied.
LEMMA BoreFields ==
    ASSUME plan \in PlanType, NEW h \in Hypotheses, NEW kind \in BearingKinds
    PROVE  LET o == Bore(h, kind) IN
           /\ o \in PlanType /\ Frame(o) = Frame(plan)
           /\ Evaluations(o) = Evaluations(plan)
           /\ Identity(o) = Identity(plan)
           /\ o.proposals = plan.proposals /\ o.anomalies = plan.anomalies
           /\ o.parked = plan.parked
           /\ o.bearings = Append(plan.bearings, [hyp |-> h, kind |-> kind])
  <1> DEFINE o == Bore(h, kind)
             v == [hyp |-> h, kind |-> kind]
  <1>1. plan.bearings \in Seq(BearingType) /\ v \in BearingType
    BY DEF PlanType, BearingType
  <1>2. o = [plan EXCEPT !.bearings = Append(@, v)]
    BY DEF Bore
  <1> HIDE DEF v
  <1>3. Append(plan.bearings, v) \in Seq(BearingType)
    BY <1>1
  <1>4. o \in PlanType /\ o.bearings = Append(plan.bearings, v)
    BY <1>2, <1>3 DEF PlanType
  <1> QED BY <1>2, <1>4 DEF PlanType, Frame, Evaluations, Identity, v

\* An anomaly is recorded, whatever its disposition.
LEMMA AnomalousFields ==
    ASSUME NEW p \in PlanType, NEW h \in Hypotheses, Ev \in Nat
    PROVE  LET o == Anomalous(p, h) IN
           /\ o \in PlanType /\ Frame(o) = Frame(p)
           /\ Evaluations(o) = Evaluations(p) /\ Identity(o) = Identity(p)
           /\ o.proposals = p.proposals /\ o.bearings = p.bearings
           /\ o.parked = p.parked
           /\ o.anomalies = p.anomalies \cup
                 {[by |-> Ev, hyp |-> h,
                   disposition |-> Disposition(Reliability)]}
  <1> DEFINE o == Anomalous(p, h)
             v == [by |-> Ev, hyp |-> h,
                   disposition |-> Disposition(Reliability)]
  <1>1. p.anomalies \in SUBSET AnomalyType /\ v \in AnomalyType
    <2>1. Disposition(Reliability) \in Dispositions
      BY DEF Disposition, Dispositions
    <2>2. v \in AnomalyType
      BY <2>1 DEF AnomalyType
    <2> HIDE DEF v
    <2> QED BY <2>2 DEF PlanType
  <1>2. o = [p EXCEPT !.anomalies = @ \cup {v}]
    BY DEF Anomalous
  <1> HIDE DEF v
  <1>3. o \in PlanType /\ o.anomalies = p.anomalies \cup {v}
    <2>1. p.anomalies \cup {v} \in SUBSET AnomalyType
      BY <1>1
    <2> QED BY <1>2, <2>1 DEF PlanType
  <1> QED BY <1>2, <1>3 DEF PlanType, Frame, Evaluations, Identity, v

----------------------------------------------------------------------------
(* The invariant of the plan's lineages.                                    *)

\* What this interaction has admitted and looked at so far.
Fresh == (ids.evidence + 1)..Ev

\* Identifiers not issued yet name nothing.
Beyond(p) == \A h \in Hypotheses : h > p.ids.hyp => p.working[h] = NoRecord

\* A lineage in flight is new, and has a statement.
FlightsAreNew(p) ==
    \A h \in Hypotheses :
        p.flights[h].key # NoKey =>
            ids.hyp < h /\ h =< p.ids.hyp /\ p.versions[h] # <<>>

\* The plan evaluates and words only lineages that are held or in flight.
Placed(p) ==
    \A h \in Hypotheses :
        LET placed == h \in Held \/ p.flights[h].key # NoKey IN
        /\ p.working[h].id # 0 => placed
        /\ p.records[h] # <<>> => p.working[h].id # 0
        /\ p.versions[h] # <<>> => placed

(* The steps, as far as evaluations are concerned.                          *)

\* o is the plan with something noted in it, but nothing evaluated.
Remarked(o) ==
    /\ o \in PlanType
    /\ Frame(o) = Frame(plan) /\ Evaluations(o) = Evaluations(plan)

Bears(o, h, kind) ==
    o.bearings = Append(plan.bearings, [hyp |-> h, kind |-> kind])

\* One hypothesis gained the observation under appraisal as a supporter.
SupportsBy(q, o, h, r, what) ==
    /\ h \in Hypotheses /\ what \in {"hypothesize", "strengthen"}
    /\ Remarked(o) /\ o.anomalies = plan.anomalies
    /\ o.bearings = plan.bearings \/ Bears(o, h, "supports")
    /\ Recorded(q, o, h, r, what, FALSE, "supports")
    /\ Ev \notin plan.working[h].pro \cup plan.working[h].con
    /\ r.pro = plan.working[h].pro \cup {Ev}
    /\ r.con = plan.working[h].con
    /\ h \in Held \/ q.flights[h].key # NoKey
    /\ h =< q.ids.hyp
Supported(q) == \E o, h, r, what : SupportsBy(q, o, h, r, what)

\* One held hypothesis gained it as a contradictor.
ContradictsBy(q, o, h, r, what, anomalous, kind) ==
    /\ h \in Held /\ what \in {"weaken", "contradict"}
    /\ anomalous \in BOOLEAN /\ kind \in {"weakens", "contradicts"}
    /\ Remarked(o) /\ Bears(o, h, kind)
    /\ o.anomalies = IF anomalous
                     THEN plan.anomalies \cup
                            {[by |-> Ev, hyp |-> h, disposition |-> "revise"]}
                     ELSE plan.anomalies
    /\ Recorded(q, o, h, r, what, anomalous, "contradicts")
    /\ Ev \notin plan.working[h].pro
    /\ r.pro = plan.working[h].pro
    /\ r.con = plan.working[h].con \cup {Ev}
Contradicts(q) ==
    \E o, h, r, what, anomalous, kind :
        ContradictsBy(q, o, h, r, what, anomalous, kind)

\* Nothing was evaluated; perhaps an anomaly was recorded and stays one.
Noted(q) ==
    /\ Remarked(q)
    /\ \/ q.bearings = plan.bearings /\ q.anomalies = plan.anomalies
       \/ \E h \in Held : Bears(q, h, "supports") /\ q.anomalies = plan.anomalies
       \/ \E h \in Held, d \in {"escalate", "reject"} :
             /\ Bears(q, h, "contradicts")
             /\ q.anomalies = plan.anomalies \cup
                                {[by |-> Ev, hyp |-> h, disposition |-> d]}

\* A match, refinement or merge supports its hypothesis, or repeats itself.
LEMMA StrengthenedTurn ==
    ASSUME NEW o, Remarked(o), NEW h \in Hypotheses,
           plan \in PlanType, Ev \in Nat, Reliability \in 0..Unit,
           Placed(plan), Beyond(plan), Identity(o) = Identity(plan)
              \/ (o.flights = plan.flights /\ o.ids.hyp = plan.ids.hyp),
           o.anomalies = plan.anomalies, Ev \notin plan.working[h].con,
           \/ o.bearings = plan.bearings
           \/ Bears(o, h, "supports") /\ h \in Held
    PROVE  Supported(Strengthened(o, h)) \/ Noted(Strengthened(o, h))
  <1> DEFINE q == Strengthened(o, h)
  <1>1. o \in PlanType /\ o.working = plan.working
    BY DEF Remarked, Evaluations
  <1>2. o.flights = plan.flights /\ o.ids.hyp = plan.ids.hyp
    BY DEF Identity
  <1>a. \/ q = o
        \/ /\ o.working[h].id # 0 /\ Ev \notin o.working[h].pro
           /\ \E r : /\ Recorded(q, o, h, r, "strengthen", FALSE, "supports")
                     /\ r.pro = o.working[h].pro \cup {Ev}
                     /\ r.con = o.working[h].con
    BY <1>1, StrengthenedRecords
  <1> HIDE DEF q
  <1>3. ASSUME q = o PROVE Noted(q)
    BY <1>3 DEF Noted
  <1>4. ASSUME q # o PROVE Supported(q)
    <2>1. o.working[h].id # 0 /\ Ev \notin o.working[h].pro
      BY <1>4, <1>a
    <2>2. PICK r : /\ Recorded(q, o, h, r, "strengthen", FALSE, "supports")
                   /\ r.pro = o.working[h].pro \cup {Ev}
                   /\ r.con = o.working[h].con
      BY <1>4, <1>a
    <2>3. q.flights = plan.flights /\ q.ids.hyp = plan.ids.hyp
      BY <1>2, <2>2 DEF Recorded, Identity
    <2>4. h \in Held \/ q.flights[h].key # NoKey
      BY <1>1, <2>1, <2>3 DEF Placed
    <2>5. h =< q.ids.hyp
      <3>1. h \in Int /\ plan.ids.hyp \in Int
        BY DEF Hypotheses, PlanType, IdsType
      <3>2. ~(h > plan.ids.hyp)
        BY <1>1, <2>1 DEF Beyond, NoRecord
      <3> QED BY <2>3, <3>1, <3>2
    <2>6. SupportsBy(q, o, h, r, "strengthen")
      BY <1>1, <2>1, <2>2, <2>4, <2>5 DEF SupportsBy
    <2> QED BY <2>6 DEF Supported
  <1> QED BY <1>3, <1>4 DEF q

\* Adjudication supports one hypothesis or evaluates nothing.
LEMMA AdjudicateTurns ==
    ASSUME IInv, Placed(plan), Beyond(plan), Adjudicate
    PROVE  Supported(plan') \/ Noted(plan')
  <1>1. phase = "appraising" /\ plan.bearings = <<>>
    BY DEF Adjudicate, Adjudicating, MatchCommitted, ParkOpposedMatch,
           MatchInFlight, FoundDistinct, ParkAmbiguous, ResolverMatch,
           ResolverRefine, ParkOpposedMerge
  <1>2. /\ Ev \in Nat /\ Reliability \in 0..Unit /\ plan \in PlanType
        /\ \A h \in Hypotheses : Ev \notin plan.working[h].con
        /\ \A h \in Hypotheses : h \in 0..MaxHypotheses
        /\ 0 \in 0..MaxHypotheses
    BY <1>1, UnderAppraisal, BoundAssumption
       DEF IInv, TypeOK, CandidatesComeFirst, Untouched, Hypotheses
  <1>3. ASSUME NEW c \in Candidates, NEW m \in 0..MaxHypotheses,
               NEW h \in Hypotheses, plan' = Strengthened(Proposed(plan, c, m), h)
        PROVE  Supported(plan') \/ Noted(plan')
    <2> DEFINE o == Proposed(plan, c, m)
    <2>1. /\ Remarked(o) /\ Identity(o) = Identity(plan)
          /\ o.bearings = plan.bearings /\ o.anomalies = plan.anomalies
      BY <1>2, ProposedFields DEF Remarked
    <2>2. plan' = Strengthened(o, h)
      BY <1>3
    <2> HIDE DEF o
    <2> QED BY <1>2, <2>1, <2>2, StrengthenedTurn
  <1>4. ASSUME NEW c \in Candidates, NEW h \in Hypotheses,
               plan' = Strengthened(Versioned(Proposed(plan, c, 0), h, c), h)
        PROVE  Supported(plan') \/ Noted(plan')
    <2> DEFINE b == Proposed(plan, c, 0)
               o == Versioned(b, h, c)
    <2>1. /\ Remarked(b) /\ Identity(b) = Identity(plan)
          /\ b.bearings = plan.bearings /\ b.anomalies = plan.anomalies
      BY <1>2, ProposedFields DEF Remarked
    <2>2. plan' = Strengthened(o, h)
      BY <1>4
    <2> HIDE DEF b
    <2>3. /\ o \in PlanType /\ Frame(o) = Frame(b)
          /\ Evaluations(o) = Evaluations(b) /\ Remarks(o) = Remarks(b)
          /\ o.flights = b.flights /\ o.ids.hyp = b.ids.hyp
      BY <2>1, VersionedFields DEF Remarked
    <2> HIDE DEF o
    <2>4. /\ Remarked(o) /\ o.flights = plan.flights
          /\ o.ids.hyp = plan.ids.hyp /\ o.bearings = plan.bearings
          /\ o.anomalies = plan.anomalies
      BY <2>1, <2>3 DEF Remarked, Identity, Remarks
    <2> QED BY <1>2, <2>2, <2>4, StrengthenedTurn
  <1>5. ASSUME NEW c \in Candidates, plan' = Parked(Proposed(plan, c, 0), c)
        PROVE  Noted(plan')
    <2> DEFINE o == Proposed(plan, c, 0)
    <2>1. /\ Remarked(o)
          /\ o.bearings = plan.bearings /\ o.anomalies = plan.anomalies
      BY <1>2, ProposedFields DEF Remarked
    <2>2. plan' = Parked(o, c)
      BY <1>5
    <2> HIDE DEF o
    <2> QED BY <1>2, <2>1, <2>2, ParkedFields DEF Remarked, Noted
  <1>6. ASSUME NEW c \in Candidates, plan.ids.hyp < MaxHypotheses,
               plan' = Founded(Proposed(plan, c, 0), c)
        PROVE  Supported(plan')
    <2> DEFINE b == Proposed(plan, c, 0)
               h == b.ids.hyp + 1
               f == InFlight(b, h, c)
               o == Versioned(f, h, c)
               s == SupportAfterSupport(0, Reliability)
               pro == {Ev}
               con == {}
               what == "hypothesize"
               anomalous == FALSE
               rel == "supports"
    <2>1. /\ Remarked(b) /\ Identity(b) = Identity(plan)
          /\ b.bearings = plan.bearings /\ b.anomalies = plan.anomalies
      BY <1>2, ProposedFields DEF Remarked
    <2>2. plan' = Revised(o, h, s, pro, con, what, anomalous, rel)
      BY <1>6 DEF Founded, InFlight
    <2> HIDE DEF b
    <2>3. b.ids.hyp = plan.ids.hyp /\ b.ids.hyp < MaxHypotheses
      BY <1>6, <2>1 DEF Identity
    <2>4. /\ h \in Hypotheses
          /\ f \in PlanType /\ Frame(f) = Frame(b)
          /\ Evaluations(f) = Evaluations(b) /\ Remarks(f) = Remarks(b)
          /\ f.flights = [b.flights EXCEPT ![h] = c] /\ f.ids.hyp = h
      BY <2>1, <2>3, FlightFields DEF Remarked
    <2>5. h > plan.ids.hyp /\ h =< h
      <3>1. plan.ids.hyp \in Nat
        <4>1. plan.ids \in IdsType
          BY <1>2 DEF PlanType
        <4> QED BY <4>1 DEF IdsType
      <3>2. h = plan.ids.hyp + 1
        BY <2>3
      <3> HIDE DEF h
      <3> QED BY <3>1, <3>2
    <2> HIDE DEF h, f
    <2>6. /\ o \in PlanType /\ Frame(o) = Frame(f)
          /\ Evaluations(o) = Evaluations(f) /\ Remarks(o) = Remarks(f)
          /\ o.flights = f.flights /\ o.ids.hyp = f.ids.hyp
      <3>1. f \in PlanType /\ h \in Hypotheses
        BY <2>4
      <3> QED BY <3>1, VersionedFields
    <2> HIDE DEF o
    <2>7. /\ Remarked(o) /\ o.anomalies = plan.anomalies
          /\ o.bearings = plan.bearings
      BY <2>1, <2>4, <2>6 DEF Remarked, Remarks
    <2>8. s \in 0..Unit /\ pro \in SUBSET Nat /\ con \in SUBSET Nat
          /\ what \in Outcomes /\ anomalous \in BOOLEAN
          /\ rel \in {"supports", "contradicts"}
      <3>1. 0 \in 0..Unit /\ Reliability \in 0..Unit
        BY <1>2, ScaleAssumption
      <3>2. s \in 0..Unit
        BY <3>1, SupportUpdates
      <3>3. what \in Outcomes /\ rel \in {"supports", "contradicts"}
        BY DEF Outcomes
      <3>4. anomalous \in BOOLEAN
        BY Zenon
      <3>5. pro \in SUBSET Nat /\ con \in SUBSET Nat
        BY <1>2
      <3> HIDE DEF s, pro, con, what, anomalous, rel
      <3> QED BY <3>2, <3>3, <3>4, <3>5
    <2> HIDE DEF s, pro, con, what, anomalous, rel
    <2>9. PICK r : /\ Recorded(plan', o, h, r, what, anomalous, rel)
                   /\ r.pro = pro /\ r.con = con
      BY <1>2, <2>2, <2>4, <2>6, <2>8, RevisedRecords
    <2>10. plan.working[h] = NoRecord
      BY <2>4, <2>5 DEF Beyond
    <2>11. plan'.flights[h] = c /\ plan'.ids.hyp = h
      <3>1. b.flights \in [Hypotheses -> Candidates \cup {NoFlight}]
        BY <2>1 DEF Remarked, PlanType
      <3>2. f.flights[h] = c
        BY <2>4, <3>1
      <3> QED BY <2>4, <2>6, <2>9, <3>2 DEF Recorded, Identity
    <2>12. plan'.flights[h].key # NoKey
      BY <2>11, VocabularyAssumption DEF Candidates
    <2>13. Ev \notin {} \cup {} /\ NoRecord.pro = {} /\ NoRecord.con = {}
      BY DEF NoRecord
    <2>14. SupportsBy(plan', o, h, r, "hypothesize")
      BY <2>4, <2>5, <2>7, <2>9, <2>10, <2>11, <2>12, <2>13
         DEF SupportsBy, pro, con, what, anomalous, rel
    <2> QED BY <2>14 DEF Supported
  <1>7. CASE MatchCommitted \/ MatchInFlight
    BY <1>2, <1>3, <1>7 DEF MatchCommitted, MatchInFlight
  <1>8. CASE ResolverMatch
    <2>1. PICK c \in Candidates, h \in Hypotheses : plan' = Strengthened(Proposed(plan, c, h), h)
      BY <1>8 DEF ResolverMatch, Plausible, CommittedUnder, FlightsUnder
    <2> QED BY <1>2, <1>3, <2>1
  <1>9. CASE ResolverRefine
    <2>1. PICK c \in Candidates, h \in Hypotheses : plan' = Strengthened(Versioned(Proposed(plan, c, 0), h, c), h)
      BY <1>9 DEF ResolverRefine, Plausible, CommittedUnder, FlightsUnder
    <2> QED BY <1>4, <2>1
  <1>10. CASE ParkOpposedMatch \/ ParkAmbiguous \/ ParkOpposedMerge
    BY <1>5, <1>10 DEF ParkOpposedMatch, ParkAmbiguous, ParkOpposedMerge
  <1>11. CASE FoundDistinct
    BY <1>6, <1>11 DEF FoundDistinct
  <1> QED BY <1>7, <1>8, <1>9, <1>10, <1>11 DEF Adjudicate

\* A bearing supports or contradicts its hypothesis, or evaluates nothing.
LEMMA BearTurns ==
    ASSUME IInv, Placed(plan), Beyond(plan), Bear
    PROVE  Supported(plan') \/ Contradicts(plan') \/ Noted(plan')
  <1>1. phase = "appraising"
    BY DEF Bear, BearSupports, BearWeakens, BearContradictsTentative,
           BearContradictsEstablished, Bearing
  <1>2. Ev \in Nat /\ Reliability \in 0..Unit /\ plan \in PlanType
    BY <1>1, UnderAppraisal DEF IInv, TypeOK
  <1>3. \A h : h \in Held => h \in Hypotheses
    BY DEF Held
  <1>4. ASSUME NEW h \in Held, NEW kind \in BearingKinds
        PROVE  /\ Remarked(Bore(h, kind)) /\ Bears(Bore(h, kind), h, kind)
               /\ Identity(Bore(h, kind)) = Identity(plan)
               /\ Bore(h, kind).anomalies = plan.anomalies
    BY <1>2, <1>3, BoreFields DEF Remarked, Bears
  <1>5. ASSUME NEW h \in Held, NEW kind \in BearingKinds
        PROVE  /\ Remarked(Anomalous(Bore(h, kind), h))
               /\ Bears(Anomalous(Bore(h, kind), h), h, kind)
               /\ Anomalous(Bore(h, kind), h).anomalies = plan.anomalies \cup
                     {[by |-> Ev, hyp |-> h,
                       disposition |-> Disposition(Reliability)]}
    <2> DEFINE o == Bore(h, kind)
    <2>1. Remarked(o) /\ Bears(o, h, kind) /\ o.anomalies = plan.anomalies
      BY <1>4
    <2> HIDE DEF o
    <2>2. o \in PlanType /\ h \in Hypotheses
      BY <1>3, <2>1 DEF Remarked
    <2>3. LET q == Anomalous(o, h) IN
            /\ q \in PlanType /\ Frame(q) = Frame(o)
            /\ Evaluations(q) = Evaluations(o) /\ q.bearings = o.bearings
            /\ q.anomalies = o.anomalies \cup
                 {[by |-> Ev, hyp |-> h,
                   disposition |-> Disposition(Reliability)]}
      BY <1>2, <2>2, AnomalousFields
    <2>4. LET q == Anomalous(o, h) IN
            /\ Remarked(q) /\ Bears(q, h, kind)
            /\ q.anomalies = plan.anomalies \cup
                 {[by |-> Ev, hyp |-> h,
                   disposition |-> Disposition(Reliability)]}
      BY <2>1, <2>3 DEF Remarked, Bears
    <2> QED BY <2>4 DEF o
  <1>6. ASSUME NEW o, Remarked(o), NEW h \in Held,
               NEW kind \in {"weakens", "contradicts"}, Bears(o, h, kind),
               NEW anomalous \in BOOLEAN,
               o.anomalies = IF anomalous
                             THEN plan.anomalies \cup
                                    {[by |-> Ev, hyp |-> h,
                                      disposition |-> "revise"]}
                             ELSE plan.anomalies,
               Ev \notin plan.working[h].pro
        PROVE  Contradicts(Weakened(o, h, anomalous))
    <2> DEFINE q == Weakened(o, h, anomalous)
    <2>1. o \in PlanType /\ o.working = plan.working /\ h \in Hypotheses
      BY <1>3, <1>6 DEF Remarked, Evaluations
    <2>2. \E r, what :
              /\ what \in {"weaken", "contradict"}
              /\ Recorded(q, o, h, r, what, anomalous, "contradicts")
              /\ r.pro = o.working[h].pro
              /\ r.con = o.working[h].con \cup {Ev}
      BY <1>2, <2>1, WeakenedRecords
    <2> HIDE DEF q
    <2>3. PICK r, what :
              /\ what \in {"weaken", "contradict"}
              /\ Recorded(q, o, h, r, what, anomalous, "contradicts")
              /\ r.pro = o.working[h].pro
              /\ r.con = o.working[h].con \cup {Ev}
      BY <2>2
    <2>4. ContradictsBy(q, o, h, r, what, anomalous, kind)
      BY <1>6, <2>1, <2>3 DEF ContradictsBy
    <2>5. Contradicts(q)
      BY <2>4 DEF Contradicts
    <2> QED BY <2>5 DEF q
  <1>7. CASE BearSupports
    <2>1. PICK h \in Held :
              /\ "supports" \in BearingKinds /\ Ev \notin plan.working[h].con
              /\ plan' = Strengthened(Bore(h, "supports"), h)
      BY <1>7 DEF BearSupports, Bearing
    <2> DEFINE o == Bore(h, "supports")
    <2>2. /\ Remarked(o) /\ Bears(o, h, "supports")
          /\ Identity(o) = Identity(plan) /\ o.anomalies = plan.anomalies
      BY <1>4, <2>1
    <2>3. plan' = Strengthened(o, h)
      BY <2>1
    <2> HIDE DEF o
    <2> QED BY <1>2, <1>3, <2>1, <2>2, <2>3, StrengthenedTurn
  <1>8. CASE BearWeakens
    <2>1. PICK h \in Held :
              /\ "weakens" \in BearingKinds /\ Ev \notin plan.working[h].pro
              /\ plan' = Weakened(Bore(h, "weakens"), h, FALSE)
      BY <1>8 DEF BearWeakens, Bearing
    <2> DEFINE o == Bore(h, "weakens")
               anomalous == FALSE
    <2>2. /\ Remarked(o) /\ Bears(o, h, "weakens")
          /\ o.anomalies = plan.anomalies
      BY <1>4, <2>1
    <2>3. plan' = Weakened(o, h, FALSE)
      BY <2>1
    <2> HIDE DEF o
    <2> QED BY <1>6, <2>1, <2>2, <2>3
  <1>9. CASE BearContradictsTentative
    <2>1. PICK h \in Held :
              /\ "contradicts" \in BearingKinds /\ Ev \notin plan.working[h].pro
              /\ plan' = Weakened(Bore(h, "contradicts"), h, FALSE)
      BY <1>9 DEF BearContradictsTentative, Bearing
    <2> DEFINE o == Bore(h, "contradicts")
    <2>2. /\ Remarked(o) /\ Bears(o, h, "contradicts")
          /\ o.anomalies = plan.anomalies
      BY <1>4, <2>1
    <2>3. plan' = Weakened(o, h, FALSE)
      BY <2>1
    <2> HIDE DEF o
    <2> QED BY <1>6, <2>1, <2>2, <2>3
  <1>10. CASE BearContradictsEstablished
    <2> DEFINE p(h) == Anomalous(Bore(h, "contradicts"), h)
               revising == Disposition(Reliability) = "revise"
    <2>1. PICK h \in Held :
              /\ "contradicts" \in BearingKinds
              /\ ~(revising /\ Ev \in plan.working[h].pro)
              /\ plan' = IF revising THEN Weakened(p(h), h, TRUE) ELSE p(h)
      BY <1>10 DEF BearContradictsEstablished, Bearing
    <2>2. /\ Remarked(p(h)) /\ Bears(p(h), h, "contradicts")
          /\ p(h).anomalies = plan.anomalies \cup
                {[by |-> Ev, hyp |-> h,
                  disposition |-> Disposition(Reliability)]}
      BY <1>5, <2>1
    <2>3. Disposition(Reliability) \in {"revise", "escalate", "reject"}
      BY DEF Disposition
    <2>4. CASE revising
      <3>1. plan' = Weakened(p(h), h, TRUE) /\ Ev \notin plan.working[h].pro
        BY <2>1, <2>4
      <3>2. p(h).anomalies = plan.anomalies \cup
                {[by |-> Ev, hyp |-> h, disposition |-> "revise"]}
        BY <2>2, <2>4
      <3> HIDE DEF p
      <3> QED BY <1>6, <2>2, <3>1, <3>2
    <2>5. CASE ~revising
      <3>1. plan' = p(h) /\ Disposition(Reliability) \in {"escalate", "reject"}
        BY <2>1, <2>3, <2>5
      <3> HIDE DEF p
      <3> QED BY <2>2, <3>1 DEF Noted
    <2> QED BY <2>4, <2>5
  <1> QED BY <1>7, <1>8, <1>9, <1>10 DEF Bear

(* The steps, as far as lineages and the words of a response are concerned. *)

ProposalOf(c, m) == [key |-> c.key, text |-> c.text, stance |-> c.stance,
                     matched |-> m]
VersionOf(c) == [text |-> c.text, stance |-> c.stance, at |-> plan.wm]

\* A refinement words a lineage that is held or in flight anew.
Refines(q, c, h) ==
    /\ Inexact(c) /\ h \in Plausible(c) /\ h \in Hypotheses
    /\ ~Inverts(ViewedStance(h), c.stance)
    /\ q.versions = [plan.versions EXCEPT ![h] = Append(@, VersionOf(c))]
    /\ q.flights = plan.flights /\ q.ids.hyp = plan.ids.hyp

\* A founding gives a new lineage its first words.
Founds(q, c, h) ==
    /\ Inexact(c) /\ h \in Hypotheses /\ h = plan.ids.hyp + 1
    /\ q.versions = [plan.versions EXCEPT ![h] = Append(@, VersionOf(c))]
    /\ q.flights = [plan.flights EXCEPT ![h] = c] /\ q.ids.hyp = h

\* Everything else leaves lineages alone, and may park the candidate.
Leaves(q, c) ==
    /\ Identity(q) = Identity(plan)
    /\ \/ q.parked = plan.parked
       \/ q.parked = plan.parked \cup
            {[by |-> Ev, key |-> c.key, text |-> c.text, stance |-> c.stance]}

Adjudged(q, c, m) ==
    /\ q.proposals = Append(plan.proposals, ProposalOf(c, m))
    /\ q.bearings = plan.bearings /\ q.anomalies = plan.anomalies
    /\ \/ Leaves(q, c)
       \/ q.parked = plan.parked /\ \E h : Refines(q, c, h) \/ Founds(q, c, h)

LEMMA StrengthenedWords ==
    ASSUME NEW o \in PlanType, NEW h \in Hypotheses,
           Ev \in Nat, Reliability \in 0..Unit
    PROVE  /\ Identity(Strengthened(o, h)) = Identity(o)
           /\ Remarks(Strengthened(o, h)) = Remarks(o)
           /\ Frame(Strengthened(o, h)) = Frame(o)
           /\ Strengthened(o, h) \in PlanType
  <1> DEFINE q == Strengthened(o, h)
  <1>1. \/ q = o
        \/ \E r : Recorded(q, o, h, r, "strengthen", FALSE, "supports")
    BY StrengthenedRecords
  <1> HIDE DEF q
  <1>2. /\ Identity(q) = Identity(o) /\ Remarks(q) = Remarks(o)
        /\ Frame(q) = Frame(o) /\ q \in PlanType
    BY <1>1 DEF Recorded
  <1> QED BY <1>2 DEF q

LEMMA AdjudicateWords ==
    ASSUME IInv, Adjudicate
    PROVE  \E c \in Candidates, m \in 0..MaxHypotheses : Adjudged(plan', c, m)
  <1>1. phase = "appraising" /\ plan.bearings = <<>>
    BY DEF Adjudicate, Adjudicating, MatchCommitted, ParkOpposedMatch,
           MatchInFlight, FoundDistinct, ParkAmbiguous, ResolverMatch,
           ResolverRefine, ParkOpposedMerge
  <1>2. /\ Ev \in Nat /\ Reliability \in 0..Unit /\ plan \in PlanType
        /\ \A h \in Hypotheses : h \in 0..MaxHypotheses
        /\ 0 \in 0..MaxHypotheses
    BY <1>1, UnderAppraisal, BoundAssumption DEF IInv, TypeOK, Hypotheses
  <1>3. ASSUME NEW c \in Candidates, NEW m \in 0..MaxHypotheses
        PROVE  LET o == Proposed(plan, c, m) IN
               /\ o \in PlanType /\ Frame(o) = Frame(plan)
               /\ Identity(o) = Identity(plan)
               /\ o.bearings = plan.bearings /\ o.anomalies = plan.anomalies
               /\ o.parked = plan.parked
               /\ o.proposals = Append(plan.proposals, ProposalOf(c, m))
    BY <1>2, ProposedFields DEF ProposalOf
  <1>4. ASSUME NEW c \in Candidates, NEW m \in 0..MaxHypotheses,
               NEW h \in Hypotheses, plan' = Strengthened(Proposed(plan, c, m), h)
        PROVE  Adjudged(plan', c, m)
    <2> DEFINE o == Proposed(plan, c, m)
    <2>1. /\ o \in PlanType /\ Identity(o) = Identity(plan)
          /\ o.bearings = plan.bearings /\ o.anomalies = plan.anomalies
          /\ o.parked = plan.parked
          /\ o.proposals = Append(plan.proposals, ProposalOf(c, m))
      BY <1>3
    <2>2. plan' = Strengthened(o, h)
      BY <1>4
    <2> HIDE DEF o
    <2>3. Identity(plan') = Identity(o) /\ Remarks(plan') = Remarks(o)
      BY <1>2, <2>1, <2>2, StrengthenedWords
    <2> QED BY <2>1, <2>3 DEF Adjudged, Leaves, Remarks
  <1>5. ASSUME NEW c \in Candidates, NEW h \in Hypotheses,
               Inexact(c), h \in Plausible(c),
               ~Inverts(ViewedStance(h), c.stance),
               plan' = Strengthened(Versioned(Proposed(plan, c, 0), h, c), h)
        PROVE  Adjudged(plan', c, 0)
    <2> DEFINE b == Proposed(plan, c, 0)
               o == Versioned(b, h, c)
    <2>1. /\ b \in PlanType /\ Identity(b) = Identity(plan)
          /\ b.bearings = plan.bearings /\ b.anomalies = plan.anomalies
          /\ b.parked = plan.parked /\ Frame(b) = Frame(plan)
          /\ b.proposals = Append(plan.proposals, ProposalOf(c, 0))
      BY <1>2, <1>3
    <2>2. plan' = Strengthened(o, h)
      BY <1>5
    <2> HIDE DEF b
    <2>3. /\ o \in PlanType /\ Remarks(o) = Remarks(b)
          /\ o.flights = b.flights /\ o.ids.hyp = b.ids.hyp
          /\ o.versions = [b.versions EXCEPT ![h] = Append(@,
                 [text |-> c.text, stance |-> c.stance, at |-> b.wm])]
      BY <2>1, VersionedFields
    <2> HIDE DEF o
    <2>4. Identity(plan') = Identity(o) /\ Remarks(plan') = Remarks(o)
      BY <1>2, <2>2, <2>3, StrengthenedWords
    <2>5. b.wm = plan.wm /\ b.versions = plan.versions
      BY <2>1 DEF Identity, Frame
    <2>6. o.versions = [plan.versions EXCEPT ![h] = Append(@, VersionOf(c))]
      BY <2>3, <2>5 DEF VersionOf
    <2>7. Refines(plan', c, h)
      BY <1>5, <2>1, <2>3, <2>4, <2>6 DEF Refines, Identity
    <2> QED BY <2>1, <2>3, <2>4, <2>7 DEF Adjudged, Remarks
  <1>6. ASSUME NEW c \in Candidates, plan' = Parked(Proposed(plan, c, 0), c)
        PROVE  Adjudged(plan', c, 0)
    <2> DEFINE o == Proposed(plan, c, 0)
    <2>1. /\ o \in PlanType /\ Identity(o) = Identity(plan)
          /\ o.bearings = plan.bearings /\ o.anomalies = plan.anomalies
          /\ o.parked = plan.parked
          /\ o.proposals = Append(plan.proposals, ProposalOf(c, 0))
      BY <1>2, <1>3
    <2>2. plan' = Parked(o, c)
      BY <1>6
    <2> HIDE DEF o
    <2> QED BY <1>2, <2>1, <2>2, ParkedFields DEF Adjudged, Leaves
  <1>7. ASSUME NEW c \in Candidates, plan.ids.hyp < MaxHypotheses, Inexact(c),
               plan' = Founded(Proposed(plan, c, 0), c)
        PROVE  Adjudged(plan', c, 0)
    <2> DEFINE b == Proposed(plan, c, 0)
               h == b.ids.hyp + 1
               f == InFlight(b, h, c)
               o == Versioned(f, h, c)
               s == SupportAfterSupport(0, Reliability)
               pro == {Ev}
               con == {}
               what == "hypothesize"
               anomalous == FALSE
               rel == "supports"
    <2>1. /\ b \in PlanType /\ Identity(b) = Identity(plan)
          /\ b.bearings = plan.bearings /\ b.anomalies = plan.anomalies
          /\ b.parked = plan.parked /\ Frame(b) = Frame(plan)
          /\ b.proposals = Append(plan.proposals, ProposalOf(c, 0))
      BY <1>2, <1>3
    <2>2. plan' = Revised(o, h, s, pro, con, what, anomalous, rel)
      BY <1>7 DEF Founded, InFlight
    <2> HIDE DEF b
    <2>3. b.ids.hyp = plan.ids.hyp /\ b.ids.hyp < MaxHypotheses
      BY <1>7, <2>1 DEF Identity
    <2>4. /\ h \in Hypotheses
          /\ f \in PlanType /\ Frame(f) = Frame(b) /\ Remarks(f) = Remarks(b)
          /\ f.flights = [b.flights EXCEPT ![h] = c] /\ f.ids.hyp = h
          /\ f.versions = b.versions
      BY <2>1, <2>3, FlightFields
    <2>5. h = plan.ids.hyp + 1
      BY <2>3
    <2> HIDE DEF h, f
    <2>6. /\ o \in PlanType /\ Remarks(o) = Remarks(f)
          /\ o.flights = f.flights /\ o.ids.hyp = f.ids.hyp
          /\ o.versions = [f.versions EXCEPT ![h] = Append(@,
                 [text |-> c.text, stance |-> c.stance, at |-> f.wm])]
      <3>1. f \in PlanType /\ h \in Hypotheses
        BY <2>4
      <3> QED BY <3>1, VersionedFields
    <2> HIDE DEF o
    <2>7. what \in Outcomes /\ anomalous \in BOOLEAN
          /\ rel \in {"supports", "contradicts"}
      BY DEF Outcomes
    <2>a. s \in 0..Unit
      <3>1. 0 \in 0..Unit
        BY ScaleAssumption
      <3> QED BY <1>2, <3>1, SupportUpdates
    <2>b. pro \in SUBSET Nat /\ con \in SUBSET Nat
      BY <1>2
    <2> HIDE DEF s, pro, con, what, anomalous, rel
    <2>8. PICK r : Recorded(plan', o, h, r, what, anomalous, rel)
      BY <1>2, <2>2, <2>4, <2>6, <2>7, <2>a, <2>b, RevisedRecords
    <2>9. f.wm = plan.wm /\ b.versions = plan.versions /\ b.flights = plan.flights
      BY <2>1, <2>4 DEF Identity, Frame
    <2>10. o.versions = [plan.versions EXCEPT ![h] = Append(@, VersionOf(c))]
      BY <2>4, <2>6, <2>9 DEF VersionOf
    <2>11. Founds(plan', c, h)
      BY <1>7, <2>4, <2>5, <2>6, <2>8, <2>9, <2>10 DEF Founds, Recorded, Identity
    <2> QED BY <2>1, <2>4, <2>6, <2>8, <2>11 DEF Adjudged, Remarks, Recorded
  <1>8. CASE MatchCommitted \/ MatchInFlight
    BY <1>2, <1>4, <1>8 DEF MatchCommitted, MatchInFlight
  <1>9. CASE ResolverMatch
    <2>1. PICK c \in Candidates, h \in Hypotheses : plan' = Strengthened(Proposed(plan, c, h), h)
      BY <1>9 DEF ResolverMatch, Plausible, CommittedUnder, FlightsUnder
    <2> QED BY <1>2, <1>4, <2>1
  <1>10. CASE ResolverRefine
    <2>1. PICK c \in Candidates, h \in Hypotheses :
              /\ Inexact(c) /\ h \in Plausible(c)
              /\ ~Inverts(ViewedStance(h), c.stance)
              /\ plan' = Strengthened(Versioned(Proposed(plan, c, 0), h, c), h)
      BY <1>10 DEF ResolverRefine, Plausible, CommittedUnder, FlightsUnder
    <2> QED BY <1>2, <1>5, <2>1
  <1>11. CASE ParkOpposedMatch \/ ParkAmbiguous \/ ParkOpposedMerge
    BY <1>2, <1>6, <1>11 DEF ParkOpposedMatch, ParkAmbiguous, ParkOpposedMerge
  <1>12. CASE FoundDistinct
    BY <1>2, <1>7, <1>12 DEF FoundDistinct
  <1> QED BY <1>8, <1>9, <1>10, <1>11, <1>12 DEF Adjudicate

\* A bearing words nothing.
LEMMA BearWords ==
    ASSUME IInv, Bear
    PROVE  /\ Identity(plan') = Identity(plan)
           /\ plan'.proposals = plan.proposals /\ plan'.parked = plan.parked
  <1>1. phase = "appraising"
    BY DEF Bear, BearSupports, BearWeakens, BearContradictsTentative,
           BearContradictsEstablished, Bearing
  <1>2. Ev \in Nat /\ Reliability \in 0..Unit /\ plan \in PlanType
    BY <1>1, UnderAppraisal DEF IInv, TypeOK
  <1> DEFINE Same(o) == /\ o \in PlanType /\ Identity(o) = Identity(plan)
                        /\ o.proposals = plan.proposals
                        /\ o.parked = plan.parked
  <1>3. ASSUME NEW h \in Hypotheses, NEW kind \in BearingKinds
        PROVE  Same(Bore(h, kind))
    BY <1>2, BoreFields
  <1>4. ASSUME NEW o, Same(o), NEW h \in Hypotheses
        PROVE  Same(Anomalous(o, h)) /\ Same(Strengthened(o, h))
    BY <1>2, <1>4, AnomalousFields, StrengthenedWords DEF Remarks
  <1>5. ASSUME NEW o, Same(o), NEW h \in Hypotheses, NEW anomalous \in BOOLEAN
        PROVE  Same(Weakened(o, h, anomalous))
    <2> DEFINE q == Weakened(o, h, anomalous)
    <2>1. \E r, what : Recorded(q, o, h, r, what, anomalous, "contradicts")
      BY <1>2, <1>5, WeakenedRecords
    <2> HIDE DEF q
    <2>2. Same(q)
      BY <1>5, <2>1 DEF Recorded, Remarks
    <2> QED BY <2>2 DEF q
  <1> HIDE DEF Same
  <1>6. Same(plan')
    <2>1. CASE BearSupports
      BY <1>3, <1>4, <2>1 DEF BearSupports, Bearing
    <2>2. CASE BearWeakens
      BY <1>3, <1>5, <2>2 DEF BearWeakens, Bearing
    <2>3. CASE BearContradictsTentative
      BY <1>3, <1>5, <2>3 DEF BearContradictsTentative, Bearing
    <2>4. CASE BearContradictsEstablished
      BY <1>3, <1>4, <1>5, <2>4 DEF BearContradictsEstablished, Bearing
    <2> QED BY <2>1, <2>2, <2>3, <2>4 DEF Bear
  <1> QED BY <1>6 DEF Same
=============================================================================
