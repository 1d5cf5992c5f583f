---------------------- MODULE EvidenceAdmission_proofs ----------------------
(* What EvidenceAdmission's run checks on a small instance, for every      *)
(* value of its constants.                                                 *)
EXTENDS EvidenceAdmission, FiniteSetTheorems, WellFoundedInduction, TLAPS

\* A set of naturals that is not empty has a least element.
LEMMA LeastOfNaturals ==
    ASSUME NEW S \in SUBSET Nat, S # {}
    PROVE  \E m \in S : \A x \in S : m =< x
  <1> DEFINE R == OpToRel(<, Nat)
  <1>1. \A x, y \in Nat : <<y, x>> \in R <=> y < x
    <2>1. \A x, y \in Nat : <<y, x>> \in Nat \X Nat
      OBVIOUS
    <2> QED BY <2>1, Zenon DEF OpToRel
  <1>2. IsWellFoundedOn(R, Nat)
    BY NatLessThanWellFounded
  <1> HIDE DEF R
  <1>3. PICK m \in S : \A y \in S : ~(<<y, m>> \in R)
    BY <1>2, WFMin
  <1>4. \A x \in S : ~(x < m)
    BY <1>1, <1>3, Zenon
  <1> QED BY <1>4

\* A set of naturals with an upper bound has a greatest one.
LEMMA GreatestOfBounded ==
    ASSUME NEW S \in SUBSET Nat, S # {}, NEW n \in Nat, \A x \in S : x =< n
    PROVE  \E m \in S : \A x \in S : x =< m
  <1> DEFINE T == {n - x : x \in S}
  <1>1. T \in SUBSET Nat /\ T # {}
    <2>1. \A x \in S : n - x \in Nat
      OBVIOUS
    <2> QED BY <2>1
  <1>2. PICK t \in T : \A y \in T : t =< y
    <2> HIDE DEF T
    <2> QED BY <1>1, LeastOfNaturals
  <1>3. PICK m \in S : t = n - m
    OBVIOUS
  <1>4. \A x \in S : n - m =< n - x
    BY <1>2, <1>3
  <1> QED BY <1>4

PlanType ==
    [scope : Scopes \cup {""}, batch : Seq(RecordType), next : Nat \ {0},
     appraised : SUBSET Nat, pairs : SUBSET SUBSET Nat, repeated : BOOLEAN]

\* The batch is numbered on from the evidence of closed interactions, and is
\* all of one scope.
BatchOfScope ==
    \A i \in DOMAIN plan.batch : /\ plan.batch[i].id = lastId + i
                                 /\ plan.batch[i].scope = plan.scope

\* The index points at admitted records, and forgets no reference.
IndexCoversStore ==
    /\ \A r \in Refs : index[r] \in 0..lastId
    /\ \A i \in DOMAIN store : index[store[i].ref] # 0

\* Two records whose accounts diverge.
Diverge(x, y) ==
    /\ x.scope = y.scope /\ x.scope \in SharedScopes
    /\ x.standing.role = "account" /\ y.standing.role = "account"
    /\ {x.standing.source, y.standing.source} \subseteq Participants
    /\ x.standing.source # y.standing.source
    /\ x.standing.about = y.standing.about /\ x.standing.about # Dyad

Joins(pair, records) ==
    \E a, b \in DOMAIN records : /\ pair = {records[a].id, records[b].id}
                                 /\ Diverge(records[a], records[b])

\* What the plan proposes joins records it may name.
PlanPairsJoin == \A pair \in plan.pairs : Joins(pair, Pool)

IInv ==
    /\ TypeOK
    /\ plan \in PlanType
    /\ BatchOfScope
    /\ IndexCoversStore
    /\ PlanPairsJoin
    /\ DivergencesJoinSharedAccounts

\* No interaction under way.
LEMMA NoPlanTyped ==
    NoPlan \in PlanType /\ NoPlan.batch = <<>> /\ NoPlan.pairs = {}
  <1>1. /\ 1 \in Nat \ {0} /\ {} \in SUBSET Nat /\ {} \in SUBSET SUBSET Nat
        /\ <<>> \in Seq(RecordType) /\ FALSE \in BOOLEAN
    OBVIOUS
  <1> QED BY <1>1 DEF NoPlan, PlanType

\* The index after an admission: references of the batch point into it.
LEMMA IndexOfAdmission ==
    ASSUME IInv, Admit
    PROVE  /\ index' \in [Refs -> Nat]
           /\ \A r \in Refs : index'[r] \in 0..lastId'
           /\ \A r \in Refs : index[r] # 0 => index'[r] # 0
           /\ \A i \in DOMAIN plan.batch : index'[plan.batch[i].ref] # 0
  <1>1. /\ plan.batch \in Seq(RecordType) /\ index \in [Refs -> Nat]
        /\ lastId \in Nat
        /\ \A i \in DOMAIN plan.batch : plan.batch[i].id = lastId + i
        /\ \A r \in Refs : index[r] \in 0..lastId
    BY DEF IInv, TypeOK, PlanType, BatchOfScope, IndexCoversStore
  <1>2. /\ lastId' = lastId + Len(plan.batch)
        /\ index' = [r \in Refs |->
                       IF \E i \in DOMAIN plan.batch : plan.batch[i].ref = r
                       THEN plan.batch[LastWith(r)].id ELSE index[r]]
    BY DEF Admit
  <1>3. ASSUME NEW r \in Refs,
               \E i \in DOMAIN plan.batch : plan.batch[i].ref = r
        PROVE  LastWith(r) \in DOMAIN plan.batch
    <2> DEFINE last(i) == /\ plan.batch[i].ref = r
                          /\ \A j \in DOMAIN plan.batch :
                               plan.batch[j].ref = r => j =< i
               P == {i \in DOMAIN plan.batch : plan.batch[i].ref = r}
    <2>1. PICK i \in P : \A j \in P : j =< i
      <3>1. P # {} /\ P \in SUBSET Nat /\ \A x \in P : x =< Len(plan.batch)
        BY <1>1, <1>3
      <3>2. Len(plan.batch) \in Nat
        BY <1>1
      <3> HIDE DEF P
      <3> QED BY <3>1, <3>2, GreatestOfBounded
    <2> QED BY <2>1 DEF LastWith
  <1>4. \A i \in DOMAIN plan.batch :
          /\ plan.batch[i].id \in 0..lastId' /\ plan.batch[i].id # 0
          /\ plan.batch[i].ref \in Refs
    <2>1. \A i \in DOMAIN plan.batch : plan.batch[i] \in RecordType
      BY <1>1
    <2>2. \A i \in DOMAIN plan.batch : plan.batch[i].ref \in Refs
      BY <2>1 DEF RecordType
    <2>3. \A i \in DOMAIN plan.batch :
            lastId + i \in 0..lastId' /\ lastId + i # 0
      BY <1>1, <1>2
    <2> QED BY <1>1, <2>2, <2>3
  <1>5. lastId =< lastId' /\ lastId' \in Nat
    BY <1>1, <1>2
  <1>6. \A r \in Refs :
          IF \E i \in DOMAIN plan.batch : plan.batch[i].ref = r
          THEN index'[r] \in 0..lastId' /\ index'[r] # 0
          ELSE index'[r] = index[r]
    BY <1>2, <1>3, <1>4
  <1>7. \A r \in Refs : index'[r] \in 0..lastId'
    BY <1>1, <1>5, <1>6
  <1>8. \A r \in Refs : index[r] # 0 => index'[r] # 0
    BY <1>6
  <1>9. \A i \in DOMAIN plan.batch : index'[plan.batch[i].ref] # 0
    BY <1>4, <1>6
  <1>10. index' \in [Refs -> Nat]
    <2>1. \A r \in Refs : index'[r] \in Nat
      BY <1>5, <1>7
    <2> HIDE <1>6
    <2> QED BY <1>2, <2>1
  <1> QED BY <1>7, <1>8, <1>9, <1>10

\* The invariant states DivergencesJoinSharedAccounts of the store alone.
LEMMA JoinsInStore ==
    DivergencesJoinSharedAccounts <=> \A pair \in divergences : Joins(pair, store)
  BY DEF DivergencesJoinSharedAccounts, Joins, Diverge

\* What joins two records of a sequence joins them in any longer one.
LEMMA JoinsInLonger ==
    ASSUME NEW s \in Seq(RecordType), NEW t \in Seq(RecordType), NEW pair,
           Joins(pair, s)
    PROVE  Joins(pair, s \o t)
  <1>1. \A i \in DOMAIN s : i \in DOMAIN (s \o t) /\ (s \o t)[i] = s[i]
    OBVIOUS
  <1> QED BY <1>1 DEF Joins

----------------------------------------------------------------------------
\* A partner the engine offers is an account that diverges from the one under
\* appraisal; both are records of the pool.
LEMMA CandidatesDiverge ==
    ASSUME IInv, Pending, NEW p \in DivergenceCandidates(Current)
    PROVE  /\ Joins({Current.id, p}, Pool)
           /\ Current.id \in Nat /\ p \in Nat
  <1>1. /\ store \in Seq(RecordType) /\ plan.batch \in Seq(RecordType)
        /\ plan.next \in Nat \ {0} /\ lastId \in Nat
    BY DEF IInv, TypeOK, PlanType
  <1>2. Pool \in Seq(RecordType)
    BY <1>1 DEF Pool
  <1>3. PICK i \in DOMAIN Pool : /\ p = Pool[i].id /\ Pool[i].scope = plan.scope
                                 /\ Eligible(Current, Pool[i])
                                 /\ plan.scope \in SharedScopes
    BY DEF DivergenceCandidates
  <1>4. plan.next \in DOMAIN plan.batch
    BY <1>1 DEF Pending
  <1> DEFINE n == Len(store) + plan.next
  <1>5. n \in DOMAIN Pool /\ Pool[n] = Current
    <2>1. \A j \in DOMAIN plan.batch :
            /\ Len(store) + j \in DOMAIN (store \o plan.batch)
            /\ (store \o plan.batch)[Len(store) + j] = plan.batch[j]
      BY <1>1
    <2> QED BY <1>4, <2>1 DEF Pool, Current
  <1>6. Current.scope = plan.scope
    BY <1>4 DEF Current, IInv, BatchOfScope
  <1>7. Current \in RecordType /\ Pool[i] \in RecordType
    BY <1>2, <1>3, <1>5
  <1> HIDE DEF n
  <1>8. Diverge(Current, Pool[i])
    BY <1>3, <1>6, <1>7
       DEF Eligible, IsParticipantAccount, Diverge, RecordType, Standings
  <1> QED BY <1>3, <1>5, <1>7, <1>8 DEF Joins, RecordType

\* Opening: the batch takes the next identifiers.
LEMMA OpeningKeepsIInv ==
    ASSUME IInv, OpenInteraction
    PROVE  IInv'
  <1>0. PICK scope \in Scopes, n \in 1..MaxBatch :
          \E inputs \in [1..n -> Inputs] :
            plan' = [NoPlan EXCEPT
                       !.scope = scope,
                       !.batch = [i \in 1..n |->
                                    Record(scope, inputs[i], lastId + i)]]
    BY DEF OpenInteraction
  <1>1. PICK inputs \in [1..n -> Inputs] :
            plan' = [NoPlan EXCEPT
                       !.scope = scope,
                       !.batch = [i \in 1..n |->
                                    Record(scope, inputs[i], lastId + i)]]
    BY <1>0
  <1> DEFINE batch == [i \in 1..n |-> Record(scope, inputs[i], lastId + i)]
  <1>2. /\ store \in Seq(RecordType) /\ lastId \in Nat /\ n \in Nat
        /\ phase' = "planning"
        /\ UNCHANGED <<store, index, divergences, lastId>>
    BY AdmissionAssumption DEF IInv, TypeOK, OpenInteraction
  <1>3. \A i \in 1..n : batch[i] \in RecordType
    BY <1>1, <1>2 DEF Record, RecordType, Inputs
  <1>4. batch \in Seq(RecordType) /\ DOMAIN batch = 1..n
    BY <1>2, <1>3
  <1>5. \A i \in DOMAIN batch : batch[i].id = lastId + i /\ batch[i].scope = scope
    BY <1>4 DEF Record
  <1>6. plan' = [NoPlan EXCEPT !.scope = scope, !.batch = batch]
    BY <1>1
  <1> HIDE DEF batch
  <1>7. /\ plan' \in PlanType /\ plan'.batch = batch /\ plan'.scope = scope
        /\ plan'.pairs = {}
    <2>1. plan' = [scope |-> scope, batch |-> batch, next |-> 1,
                   appraised |-> {}, pairs |-> {}, repeated |-> FALSE]
      BY <1>6 DEF NoPlan
    <2>2. 1 \in Nat \ {0} /\ {} \in SUBSET Nat /\ {} \in SUBSET SUBSET Nat
      OBVIOUS
    <2> QED BY <1>4, <2>1, <2>2 DEF PlanType
  <1>8. TypeOK'
    BY <1>2, <1>7 DEF IInv, TypeOK, PlanType
  <1> QED BY <1>2, <1>5, <1>7, <1>8
          DEF IInv, BatchOfScope, IndexCoversStore, PlanPairsJoin,
              DivergencesJoinSharedAccounts

\* Planning changes neither batch nor stores; what it proposes must join.
LEMMA PlanningKeepsIInv ==
    ASSUME IInv, UNCHANGED <<store, index, divergences, lastId, phase>>,
           plan' \in PlanType, plan'.batch = plan.batch,
           plan'.scope = plan.scope,
           \A pair \in plan'.pairs : Joins(pair, Pool)
    PROVE  IInv'
  <1>1. TypeOK'
    BY DEF IInv, TypeOK, PlanType
  <1>2. Pool' = Pool
    BY DEF Pool
  <1>3. PlanPairsJoin'
    BY <1>2 DEF PlanPairsJoin, Joins
  <1>4. BatchOfScope' /\ IndexCoversStore'
    BY DEF IInv, BatchOfScope, IndexCoversStore
  <1>5. DivergencesJoinSharedAccounts'
    BY DEF IInv, DivergencesJoinSharedAccounts
  <1> QED BY <1>1, <1>3, <1>4, <1>5 DEF IInv

\* A skip proposes nothing; an appraisal proposes offered partners only.
LEMMA AppraisingKeepsIInv ==
    ASSUME IInv, SkipObservation \/ AppraiseDivergences
    PROVE  IInv'
  <1>0. /\ plan \in PlanType /\ plan.next \in Nat \ {0}
        /\ plan.batch \in Seq(RecordType)
    BY DEF IInv, PlanType
  <1>1. /\ plan \in PlanType /\ plan.next \in Nat \ {0}
        /\ plan.next + 1 \in Nat \ {0} /\ plan.batch \in Seq(RecordType)
    BY <1>0
  <1>2. CASE SkipObservation
    <2>1. /\ plan' = [plan EXCEPT !.next = @ + 1]
          /\ UNCHANGED <<store, index, divergences, lastId, phase>>
      BY <1>2 DEF SkipObservation
    <2>2. /\ plan' \in PlanType /\ plan'.batch = plan.batch
          /\ plan'.scope = plan.scope /\ plan'.pairs = plan.pairs
      BY <1>1, <2>1 DEF PlanType
    <2>3. \A pair \in plan'.pairs : Joins(pair, Pool)
      BY <2>2 DEF IInv, PlanPairsJoin
    <2> QED BY <2>1, <2>2, <2>3, PlanningKeepsIInv
  <1>3. CASE AppraiseDivergences
    <2>1. Pending /\ UNCHANGED <<store, index, divergences, lastId, phase>>
      BY <1>3 DEF AppraiseDivergences
    <2>2. PICK partners \in SUBSET DivergenceCandidates(Current),
               twice \in BOOLEAN :
            plan' = [plan EXCEPT
                      !.next = @ + 1,
                      !.appraised = @ \cup {Current.id},
                      !.pairs = @ \cup {{Current.id, p} : p \in partners},
                      !.repeated = @ \/ twice]
      BY <1>3 DEF AppraiseDivergences
    <2> DEFINE new == {{Current.id, p} : p \in partners}
    <2>3. \A pair \in new : Joins(pair, Pool) /\ pair \in SUBSET Nat
      BY <2>1, CandidatesDiverge
    <2>4. Current.id \in Nat
      <3>1. plan.next \in DOMAIN plan.batch
        BY <1>1, <2>1 DEF Pending
      <3>2. Current \in RecordType
        BY <1>1, <3>1 DEF Current
      <3> QED BY <3>2 DEF RecordType
    <2> HIDE DEF new
    <2>5. /\ plan' \in PlanType /\ plan'.batch = plan.batch
          /\ plan'.scope = plan.scope /\ plan'.pairs = plan.pairs \cup new
      BY <1>1, <2>2, <2>3, <2>4 DEF PlanType, new
    <2>6. \A pair \in plan'.pairs : Joins(pair, Pool)
      BY <2>3, <2>5 DEF IInv, PlanPairsJoin
    <2> QED BY <2>1, <2>5, <2>6, PlanningKeepsIInv
  <1> QED BY <1>2, <1>3

\* Nothing is kept of an abandoned plan.
LEMMA AbandoningKeepsIInv ==
    ASSUME IInv, RejectPlan \/ Interrupt
    PROVE  IInv'
  <1>1. plan' = NoPlan /\ phase' = "idle"
        /\ UNCHANGED <<store, index, divergences, lastId>>
    BY DEF RejectPlan, Interrupt, Abandon
  <1>2. NoPlan \in PlanType /\ NoPlan.batch = <<>> /\ NoPlan.pairs = {}
    BY NoPlanTyped
  <1>3. TypeOK'
    BY <1>1, <1>2 DEF IInv, TypeOK, PlanType
  <1>4. BatchOfScope' /\ IndexCoversStore' /\ PlanPairsJoin'
    BY <1>1, <1>2 DEF IInv, BatchOfScope, IndexCoversStore, PlanPairsJoin
  <1>5. DivergencesJoinSharedAccounts'
    BY <1>1 DEF IInv, DivergencesJoinSharedAccounts
  <1> QED BY <1>1, <1>2, <1>3, <1>4, <1>5 DEF IInv

\* Admission appends the batch, points the index at it and records what the
\* plan proposed.
LEMMA AdmittingKeepsIInv ==
    ASSUME IInv, Admit
    PROVE  IInv'
  <1>1. /\ store \in Seq(RecordType) /\ plan.batch \in Seq(RecordType)
        /\ index \in [Refs -> Nat] /\ lastId \in Nat /\ lastId = Len(store)
        /\ \A i \in DOMAIN store : store[i].id = i
        /\ \A i \in DOMAIN plan.batch : plan.batch[i].id = lastId + i
        /\ plan.pairs \in SUBSET SUBSET Nat
        /\ \A pair \in divergences : pair \subseteq Nat
    BY DEF IInv, TypeOK, PlanType, BatchOfScope
  <1>2. /\ store' = store \o plan.batch /\ phase' = "idle" /\ plan' = NoPlan
        /\ divergences' = divergences \cup plan.pairs
        /\ lastId' = lastId + Len(plan.batch)
        /\ index' = [r \in Refs |->
                       IF \E i \in DOMAIN plan.batch : plan.batch[i].ref = r
                       THEN plan.batch[LastWith(r)].id ELSE index[r]]
    BY DEF Admit
  <1>3. NoPlan \in PlanType /\ NoPlan.batch = <<>> /\ NoPlan.pairs = {}
    BY NoPlanTyped
  <1>4. /\ store' \in Seq(RecordType) /\ Len(store') = lastId'
        /\ lastId' \in Nat /\ lastId =< lastId'
    BY <1>1, <1>2
  <1>5. \A i \in DOMAIN store' :
          \/ i \in DOMAIN store /\ store'[i] = store[i]
          \/ /\ i - lastId \in DOMAIN plan.batch
             /\ store'[i] = plan.batch[i - lastId]
    BY <1>1, <1>2
  <1>6. \A i \in DOMAIN store' : store'[i].id = i
    <2> TAKE i \in DOMAIN store'
    <2>1. i \in Nat /\ lastId + (i - lastId) = i
      BY <1>1, <1>4
    <2> QED BY <1>1, <1>5, <2>1
  <1>7. /\ index' \in [Refs -> Nat]
        /\ \A r \in Refs : index'[r] \in 0..lastId'
        /\ \A r \in Refs : index[r] # 0 => index'[r] # 0
        /\ \A i \in DOMAIN plan.batch : index'[plan.batch[i].ref] # 0
    BY IndexOfAdmission
  <1>8. IndexCoversStore'
    <2>1. ASSUME NEW i \in DOMAIN store' PROVE index'[store'[i].ref] # 0
      <3>1. CASE i \in DOMAIN store /\ store'[i] = store[i]
        <4>1. store[i].ref \in Refs /\ index[store[i].ref] # 0
          <5>1. store[i] \in RecordType
            BY <1>1, <3>1
          <5> QED BY <3>1, <5>1 DEF IInv, IndexCoversStore, RecordType
        <4> QED BY <1>7, <3>1, <4>1
      <3>2. CASE i \notin DOMAIN store \/ store'[i] # store[i]
        BY <1>5, <1>7, <2>1, <3>2
      <3> QED BY <3>1, <3>2
    <2> QED BY <1>7, <2>1 DEF IndexCoversStore
  <1>9. \A pair \in divergences' : Joins(pair, store') /\ pair \subseteq Nat
    <2>1. \A pair \in divergences : Joins(pair, store)
      BY JoinsInStore DEF IInv
    <2>2. \A pair \in divergences : Joins(pair, store \o plan.batch)
      BY <1>1, <2>1, JoinsInLonger
    <2>3. \A pair \in plan.pairs : Joins(pair, store \o plan.batch)
      BY DEF IInv, PlanPairsJoin, Pool
    <2> QED BY <1>1, <1>2, <2>2, <2>3
  <1>10. DivergencesJoinSharedAccounts'
    BY <1>9 DEF DivergencesJoinSharedAccounts, Joins, Diverge
  <1>11. TypeOK'
    BY <1>2, <1>3, <1>4, <1>6, <1>7, <1>9 DEF TypeOK, PlanType
  <1> QED BY <1>2, <1>3, <1>8, <1>10, <1>11
          DEF IInv, BatchOfScope, PlanPairsJoin

----------------------------------------------------------------------------
LEMMA InitIInv == Init => IInv
  <1> SUFFICES ASSUME Init PROVE IInv
    OBVIOUS
  <1>1. NoPlan \in PlanType /\ NoPlan.batch = <<>> /\ NoPlan.pairs = {}
    BY NoPlanTyped
  <1>2. TypeOK
    <2>1. <<>> \in Seq(RecordType) /\ Len(<<>>) = 0
      OBVIOUS
    <2>2. DOMAIN store = {} /\ store = <<>> /\ lastId = 0
      BY DEF Init
    <2>3. index \in [Refs -> Nat]
      BY DEF Init
    <2>4. divergences = {} /\ phase = "idle"
      BY DEF Init
    <2>5. /\ plan.batch \in Seq(RecordType) /\ plan.appraised \subseteq Nat
          /\ plan.repeated \in BOOLEAN
      BY <1>1 DEF Init, PlanType
    <2> QED BY <2>1, <2>2, <2>3, <2>4, <2>5 DEF TypeOK
  <1>3. BatchOfScope /\ IndexCoversStore /\ PlanPairsJoin
    BY <1>1 DEF Init, BatchOfScope, IndexCoversStore, PlanPairsJoin
  <1>4. DivergencesJoinSharedAccounts
    BY DEF Init, DivergencesJoinSharedAccounts
  <1> QED BY <1>1, <1>2, <1>3, <1>4 DEF Init, IInv

LEMMA StutterKeepsIInv ==
    ASSUME IInv, UNCHANGED vars
    PROVE  IInv'
  BY DEF vars, IInv, TypeOK, BatchOfScope, IndexCoversStore, PlanPairsJoin,
         Pool, Joins, DivergencesJoinSharedAccounts

LEMMA NextIInv == IInv /\ [Next]_vars => IInv'
  <1> SUFFICES ASSUME IInv, [Next]_vars PROVE IInv'
    OBVIOUS
  <1>1. CASE OpenInteraction
    BY <1>1, OpeningKeepsIInv
  <1>2. CASE SkipObservation \/ AppraiseDivergences
    BY <1>2, AppraisingKeepsIInv
  <1>3. CASE RejectPlan \/ Interrupt
    BY <1>3, AbandoningKeepsIInv
  <1>4. CASE Admit
    BY <1>4, AdmittingKeepsIInv
  <1>5. CASE NoMoreCalls \/ UNCHANGED vars
    BY <1>5, StutterKeepsIInv DEF NoMoreCalls
  <1> QED BY <1>1, <1>2, <1>3, <1>4, <1>5 DEF Next

\* The batch under way is of its scope and has pairs only of its own candidates,
\* and the index covers every admitted record.
THEOREM Inductive == Spec => []IInv
  BY InitIInv, NextIInv, PTL DEF Spec

\* Every reachable state is well typed: the evidence log is numbered without
\* gaps, in admission order.
THEOREM TypeCorrect == Spec => []TypeOK
  <1>1. IInv => TypeOK
    BY DEF IInv
  <1> QED BY <1>1, Inductive, PTL

\* A recorded divergence joins accounts of two participants about the same one
\* in one shared scope, whatever the scopes sharing the store.
THEOREM DivergencesJoin == Spec => []DivergencesJoinSharedAccounts
  <1>1. IInv => DivergencesJoinSharedAccounts
    BY DEF IInv
  <1> QED BY <1>1, Inductive, PTL

\* A reference admitted before is refused in every later interaction (check
\* 7): the index holds a closed interaction's number, the batch newer ones.
LEMMA AdmissionReusesNoRef ==
    ASSUME IInv, Admit,
           NEW i \in DOMAIN store, NEW j \in DOMAIN store' \ DOMAIN store
    PROVE  store[i].ref # store'[j].ref
  <1>1. /\ store \in Seq(RecordType) /\ plan.batch \in Seq(RecordType)
        /\ lastId \in Nat /\ lastId = Len(store)
        /\ \A k \in DOMAIN plan.batch : plan.batch[k].id = lastId + k
    BY DEF IInv, TypeOK, PlanType, BatchOfScope
  <1>2. store' = store \o plan.batch /\ SourceRefsMap
    BY DEF Admit, Valid
  <1>3. PICK k \in DOMAIN plan.batch : store'[j] = plan.batch[k]
    <2>1. j - lastId \in DOMAIN plan.batch /\ store'[j] = plan.batch[j - lastId]
      BY <1>1, <1>2
    <2> QED BY <2>1
  <1>4. index[plan.batch[k].ref] \in {0, lastId + k}
    BY <1>1, <1>2 DEF SourceRefsMap
  <1>5. k \in Nat \ {0}
    BY <1>1
  <1>6. /\ store[i].ref \in Refs
        /\ index[store[i].ref] # 0 /\ index[store[i].ref] \in 0..lastId
    <2>1. store[i] \in RecordType
      BY <1>1
    <2> QED BY <2>1 DEF IInv, IndexCoversStore, RecordType
  <1> QED BY <1>1, <1>3, <1>4, <1>5, <1>6

\* A source reference is never given to a record of a later batch, in whatever
\* scope: checks 7 and the index of the store see to it (plan_validation.py).
THEOREM RefsNotReused == Spec => RefsReusedOnlyInOneBatch
  <1>1. ASSUME IInv, [Next]_vars
        PROVE  [\A i \in DOMAIN store, j \in DOMAIN store' \ DOMAIN store :
                  store[i].ref # store'[j].ref]_vars
    <2>1. CASE Admit
      BY <1>1, <2>1, AdmissionReusesNoRef
    <2>2. CASE ~Admit
      <3>1. store' = store
        BY <1>1, <2>2
           DEF Next, vars, OpenInteraction, SkipObservation,
               AppraiseDivergences, RejectPlan, Interrupt, Abandon, NoMoreCalls
      <3> QED BY <3>1
    <2> QED BY <2>1, <2>2
  <1> QED BY <1>1, Inductive, PTL DEF Spec, RefsReusedOnlyInOneBatch
=============================================================================
