---------------------- MODULE InteractionCommit_proofs ----------------------
(* What InteractionCommit's runs check on small instances, for every value *)
(* of its constants.                                                       *)
EXTENDS InteractionCommit, TLAPS

\* The thirteen positions of the write order name thirteen different stores.
LEMMA OrderFacts ==
    /\ Len(WriteOrder) = 13
    /\ DOMAIN WriteOrder = 1..13
    /\ \A i \in 1..13 : WriteOrder[i] \in Stores
    /\ \A s \in Stores : \E i \in 1..13 : WriteOrder[i] = s
    /\ \A i, j \in 1..13 : WriteOrder[i] = WriteOrder[j] => i = j
  BY DEF WriteOrder, Stores

\* A store whose rows name another's is written after it, except ahead of
\* predictions and model versions, and nothing is named that comes after those.
LEMMA ReferencesFollowOrder ==
    ASSUME NEW s \in Stores, NEW t \in Stores, <<s, t>> \in References,
           NEW i \in 1..13, NEW j \in 1..13,
           WriteOrder[j] = s, WriteOrder[i] = t, j < i
    PROVE  <<s, t>> \in WrittenAhead /\ i =< 12
  BY SMTT(60) DEF WriteOrder, References, WrittenAhead
----------------------------------------------------------------------------
(* The inductive invariant: while an interaction is under way, every store *)
(* is its snapshot up to what the cursor has written or restored.          *)

DanglesIn(f, row, s, t) ==
    /\ row \in f[s] /\ row \notin f[t]
    /\ t \in row.plan /\ <<s, t>> \in References

\* In f, only rows of interactions without a version dangle.
Consistent(f) ==
    \A s, t \in Stores : \A row \in f[s] :
        DanglesIn(f, row, s, t) =>
            <<s, t>> \in WrittenAhead /\ row \notin f["world_models"]

\* No row of f was written under an identifier above n.
Issued(f, n) == \A s \in Stores : \A row \in f[s] : row.id =< n

SnapshotWhileOpen == phase = "open" => live = tokens

WrittenUpToCursor ==
    phase = "writing" =>
        \A i \in 1..13 :
            live[WriteOrder[i]] =
                IF i < cursor /\ WriteOrder[i] \in planned
                THEN tokens[WriteOrder[i]] \cup {Row} ELSE tokens[WriteOrder[i]]

RestoredUpToCursor ==
    phase = "restoring" =>
        \A i \in 1..13 : i < cursor => live[WriteOrder[i]] = tokens[WriteOrder[i]]

PlanInForce == phase = "writing" => planned \in Plans

FreshTag ==
    /\ phase = "open" => tag = 0 \/ (idsToken < tag /\ tag =< ids)
    /\ phase = "writing" => idsToken < tag /\ tag =< ids
    /\ phase # "idle" => idsToken =< ids

IInv ==
    /\ TypeOK
    /\ SnapshotWhileOpen
    /\ WrittenUpToCursor
    /\ RestoredUpToCursor
    /\ PlanInForce
    /\ FreshTag
    /\ phase = "idle" => Consistent(live) /\ Issued(live, ids)
    /\ phase # "idle" => Consistent(tokens) /\ Issued(tokens, idsToken)
    /\ phase = "restoring" => snapshotable

USE BoundAssumption, OrderFacts

\* The initial state satisfies the invariant.
LEMMA InitIInv == Init => IInv
  <1>1. ASSUME Init PROVE TypeOK
    BY <1>1 DEF Init, TypeOK
  <1>2. ASSUME Init PROVE Consistent(live) /\ Issued(live, ids)
    BY <1>2 DEF Init, Consistent, Issued
  <1> QED BY <1>1, <1>2 DEF Init, IInv, SnapshotWhileOpen, WrittenUpToCursor,
                          RestoredUpToCursor, PlanInForce, FreshTag

\* While a plan is written, the stores are the snapshot plus the row of this
\* interaction, which the snapshot has nowhere.
LEMMA WritingAddsRow ==
    ASSUME IInv, phase = "writing", NEW s \in Stores
    PROVE  /\ tokens[s] \subseteq live[s] /\ live[s] \subseteq tokens[s] \cup {Row}
           /\ Row \notin tokens[s] /\ Row.plan = planned /\ Row.id = tag
  <1>1. PICK i \in 1..13 : WriteOrder[i] = s
    OBVIOUS
  <1>2. tokens[s] \subseteq live[s] /\ live[s] \subseteq tokens[s] \cup {Row}
    BY <1>1 DEF IInv, WrittenUpToCursor
  <1>3. Row.plan = planned /\ Row.id = tag
    BY DEF Row
  <1>4. \A row \in tokens[s] : row.id =< idsToken
    BY DEF IInv, Issued
  <1>5. idsToken < tag /\ idsToken \in Nat /\ tag \in Nat
    BY DEF IInv, FreshTag, TypeOK
  <1>6. Row \notin tokens[s]
    BY <1>3, <1>4, <1>5
  <1> QED BY <1>2, <1>3, <1>6

\* In the middle of writing, a row lacks what it names only ahead of the
\* predictions or of the version, and only as long as the version is not there.
LEMMA WritingIsConsistent ==
    ASSUME IInv, phase = "writing"
    PROVE  Consistent(live)
  <1> SUFFICES ASSUME NEW s \in Stores, NEW t \in Stores, NEW row \in live[s],
                      DanglesIn(live, row, s, t)
               PROVE  <<s, t>> \in WrittenAhead /\ row \notin live["world_models"]
    BY DEF Consistent
  <1> DEFINE wm == "world_models"
  <1>1. wm \in Stores /\ WriteOrder[12] = wm
    BY DEF Stores, WriteOrder
  <1>2. CASE row # Row
    <2>1. row \in tokens[s] /\ row \notin tokens[t]
      BY <1>2, WritingAddsRow DEF DanglesIn
    <2>2. DanglesIn(tokens, row, s, t)
      BY <2>1 DEF DanglesIn
    <2>3. <<s, t>> \in WrittenAhead /\ row \notin tokens[wm]
      BY <2>1, <2>2 DEF IInv, Consistent
    <2>4. live[wm] \subseteq tokens[wm] \cup {Row}
      BY <1>1, WritingAddsRow
    <2> QED BY <1>2, <2>3, <2>4
  <1>3. CASE row = Row
    <2>1. PICK i \in 1..13, j \in 1..13 : WriteOrder[i] = t /\ WriteOrder[j] = s
      OBVIOUS
    <2>2. cursor \in Nat
      BY DEF IInv, TypeOK
    <2>3. Row \notin tokens[s] /\ Row \notin tokens[t] /\ Row \notin tokens[wm]
      BY <1>1, WritingAddsRow
    <2>4. t \in planned
      BY <1>3, WritingAddsRow DEF DanglesIn
    <2>5. j < cursor
      BY <1>3, <2>1, <2>3 DEF IInv, WrittenUpToCursor
    <2>6. ~(i < cursor)
      BY <1>3, <2>1, <2>4 DEF IInv, WrittenUpToCursor, DanglesIn
    <2>7. j < i
      BY <2>2, <2>5, <2>6
    <2>8. <<s, t>> \in WrittenAhead /\ i =< 12
      BY <2>1, <2>7, ReferencesFollowOrder DEF DanglesIn
    <2>9. live[wm] = tokens[wm]
      BY <1>1, <2>2, <2>6, <2>8 DEF IInv, WrittenUpToCursor
    <2> QED BY <1>3, <2>3, <2>8, <2>9
  <1> QED BY <1>2, <1>3

\* Nor is anything in the stores under an identifier not issued.
LEMMA WritingIsIssued ==
    ASSUME IInv, phase = "writing"
    PROVE  Issued(live, ids)
  <1> SUFFICES ASSUME NEW s \in Stores, NEW row \in live[s] PROVE row.id =< ids
    BY DEF Issued
  <1>1. idsToken \in Nat /\ ids \in Nat /\ tag =< ids /\ idsToken =< ids
    BY DEF IInv, TypeOK, FreshTag
  <1>2. CASE row = Row
    BY <1>1, <1>2, WritingAddsRow
  <1>3. CASE row # Row
    <2>1. row \in tokens[s]
      BY <1>3, WritingAddsRow
    <2>2. row.id =< idsToken /\ row.id \in Nat
      BY <2>1 DEF IInv, Issued, TypeOK, Rows
    <2> QED BY <1>1, <2>2
  <1> QED BY <1>2, <1>3

\* A restore that has come to the end has restored every store.
LEMMA RestoreIsComplete ==
    ASSUME IInv, phase = "restoring", cursor > Len(WriteOrder)
    PROVE  live = tokens
  <1>1. \A i \in 1..13 : live[WriteOrder[i]] = tokens[WriteOrder[i]]
    BY DEF IInv, RestoredUpToCursor, TypeOK
  <1>2. live \in [Stores -> SUBSET Rows] /\ tokens \in [Stores -> SUBSET Rows]
    BY DEF IInv, TypeOK
  <1> QED BY <1>1, <1>2

\* Every step preserves the invariant.
LEMMA NextIInv == IInv /\ [Next]_vars => IInv'
  <1> SUFFICES ASSUME IInv, [Next]_vars PROVE IInv'
    OBVIOUS
  <1> USE DEF IInv
  <1>0. snapshotable' = snapshotable /\ semanticState' = semanticState
    BY DEF Next, vars, bundle
  <1>1. CASE Begin
    BY <1>0, <1>1 DEF Begin, TypeOK, SnapshotWhileOpen, WrittenUpToCursor,
        RestoredUpToCursor, PlanInForce, FreshTag, Consistent, Issued
  <1>2. CASE Mint
    BY <1>0, <1>2 DEF Mint, TypeOK, SnapshotWhileOpen, WrittenUpToCursor,
        RestoredUpToCursor, PlanInForce, FreshTag, Consistent, Issued
  <1>3. CASE Validated
    <2>1. Plans \subseteq SUBSET Stores
      BY DEF Plans, HoldPlans, CommitPlans, HoldWrites, Stores, WriteOrder
    <2>2. TypeOK'
      BY <1>0, <1>3, <2>1 DEF Validated, TypeOK
    <2>3. WrittenUpToCursor'
      BY <1>3 DEF Validated, WrittenUpToCursor, SnapshotWhileOpen
    <2> QED BY <1>0, <1>3, <2>2, <2>3 DEF Validated, SnapshotWhileOpen,
              RestoredUpToCursor, PlanInForce, FreshTag, Consistent, Issued
  <1>4. CASE WriteStore
    <2> DEFINE s == WriteOrder[cursor]
    <2>1. cursor \in 1..13 /\ s \in Stores
      BY <1>4 DEF WriteStore, TypeOK
    <2>2. TypeOK'
      <3>1. Row \in Rows
        BY DEF Row, Rows, TypeOK
      <3> QED BY <1>0, <1>4, <2>1, <3>1 DEF WriteStore, TypeOK
    <2>3. ASSUME NEW i \in 1..13
          PROVE  live'[WriteOrder[i]] =
                    IF i < cursor' /\ WriteOrder[i] \in planned'
                    THEN tokens'[WriteOrder[i]] \cup {Row'}
                    ELSE tokens'[WriteOrder[i]]
      <3>1. CASE i = cursor
        <4>1. live[s] = tokens[s]
          BY <1>4, <2>1 DEF WriteStore, WrittenUpToCursor
        <4>2. live'[s] = IF s \in planned THEN live[s] \cup {Row} ELSE live[s]
          BY <1>4, <2>1 DEF WriteStore, TypeOK
        <4>3. i < cursor'
          BY <1>4, <2>1, <3>1 DEF WriteStore
        <4> QED BY <1>4, <3>1, <4>1, <4>2, <4>3 DEF WriteStore, Row
      <3>2. CASE i # cursor
        <4>1. live'[WriteOrder[i]] = live[WriteOrder[i]]
          BY <1>4, <2>1, <3>2 DEF WriteStore, TypeOK
        <4>2. i < cursor' <=> i < cursor
          BY <1>4, <2>1, <3>2 DEF WriteStore
        <4> QED BY <1>4, <4>1, <4>2 DEF WriteStore, WrittenUpToCursor, Row
      <3> QED BY <3>1, <3>2
    <2>4. WrittenUpToCursor'
      BY <2>3 DEF WrittenUpToCursor
    <2> QED BY <1>0, <1>4, <2>2, <2>4 DEF WriteStore, SnapshotWhileOpen,
              RestoredUpToCursor, PlanInForce, FreshTag, Consistent, Issued
  <1>5. CASE CommitUnit
    <2>1. Consistent(live) /\ Issued(live, ids)
      BY <1>5, WritingIsConsistent, WritingIsIssued DEF CommitUnit
    <2> QED BY <1>0, <1>5, <2>1 DEF CommitUnit, transaction, TypeOK,
              SnapshotWhileOpen, WrittenUpToCursor, RestoredUpToCursor,
              PlanInForce, FreshTag, Consistent, Issued
  <1>6. CASE Raise
    <2>1. Consistent(live) /\ Issued(live, ids)
      <3>1. CASE phase = "open"
        <4>1. live = tokens /\ idsToken =< ids
          BY <3>1 DEF SnapshotWhileOpen, FreshTag
        <4>2. Issued(tokens, ids)
          BY <3>1, <4>1 DEF Issued, TypeOK, Rows
        <4> QED BY <3>1, <4>1, <4>2
      <3>2. CASE phase = "writing"
        BY <3>2, WritingIsConsistent, WritingIsIssued
      <3> QED BY <1>6, <3>1, <3>2 DEF Raise
    <2> QED BY <1>0, <1>6, <2>1 DEF Raise, TypeOK, SnapshotWhileOpen,
              WrittenUpToCursor, RestoredUpToCursor, PlanInForce, FreshTag,
              Consistent, Issued
  <1>7. CASE RestoreStore
    <2> DEFINE s == WriteOrder[cursor]
    <2>1. cursor \in 1..13 /\ s \in Stores
      BY <1>7 DEF RestoreStore, TypeOK
    <2>2. TypeOK'
      BY <1>0, <1>7, <2>1 DEF RestoreStore, TypeOK
    <2>3. ASSUME NEW i \in 1..13, i < cursor'
          PROVE  live'[WriteOrder[i]] = tokens'[WriteOrder[i]]
      <3>1. CASE i = cursor
        BY <1>7, <2>1, <3>1 DEF RestoreStore, TypeOK
      <3>2. CASE i # cursor
        BY <1>7, <2>1, <2>3, <3>2 DEF RestoreStore, RestoredUpToCursor, TypeOK
      <3> QED BY <3>1, <3>2
    <2>4. RestoredUpToCursor'
      BY <2>3 DEF RestoredUpToCursor
    <2> QED BY <1>0, <1>7, <2>2, <2>4 DEF RestoreStore, SnapshotWhileOpen,
              WrittenUpToCursor, PlanInForce, FreshTag, Consistent, Issued
  <1>8. CASE RestoreIds
    <2>1. live = tokens
      BY <1>8, RestoreIsComplete DEF RestoreIds
    <2> QED BY <1>0, <1>8, <2>1 DEF RestoreIds, transaction, TypeOK,
              SnapshotWhileOpen, WrittenUpToCursor, RestoredUpToCursor,
              PlanInForce, FreshTag, Consistent, Issued
  <1>9. CASE UNCHANGED vars
    BY <1>9 DEF vars, bundle, transaction, TypeOK, SnapshotWhileOpen,
        WrittenUpToCursor, RestoredUpToCursor, PlanInForce, FreshTag,
        Consistent, Issued, Row
  <1> QED BY <1>1, <1>2, <1>3, <1>4, <1>5, <1>6, <1>7, <1>8, <1>9
          DEF Next, Quiet

\* The invariant holds in every reachable state.
THEOREM Inductive == Spec => []IInv
  BY InitIInv, NextIInv, PTL DEF Spec

\* Type correctness: in particular no interaction under way writes under an
\* identifier the generator has not issued.
THEOREM TypeCorrect == Spec => []TypeOK
  <1>1. IInv => TypeOK
    BY DEF IInv
  <1> QED BY Inductive, <1>1, PTL

\* Whether or not the bundle has a rollback boundary, and wherever commit_plan
\* is cut short: what dangles names a prediction or a version that commit_plan
\* had still to write, and belongs to an interaction without a version.
THEOREM OnlyAbandonedDangle == Spec => []OnlyUnversionedDangle
  <1>1. IInv => OnlyUnversionedDangle
    <2> SUFFICES ASSUME IInv, phase # "restoring" PROVE Consistent(live)
      BY DEF OnlyUnversionedDangle, Consistent, Dangles, DanglesIn
    <2>1. CASE phase = "idle"
      BY <2>1 DEF IInv
    <2>2. CASE phase = "open"
      BY <2>2 DEF IInv, SnapshotWhileOpen
    <2>3. CASE phase = "writing"
      BY <2>3, WritingIsConsistent
    <2> QED BY <2>1, <2>2, <2>3 DEF IInv, TypeOK
  <1> QED BY Inductive, <1>1, PTL
----------------------------------------------------------------------------
(* Atomicity: the service implements AtomicInteractions, whichever bundle  *)
(* it has.                                                                 *)

\* Closing a unit of work whose plan is written performs the interaction.
LEMMA CommitPerforms ==
    ASSUME IInv, CommitUnit
    PROVE  \E n \in VisibleIds + 1 .. VisibleIds' : \E S \in Plans :
               Atomic!Perform(n, S)
  <1>1. /\ phase = "writing" /\ phase' = "idle"
        /\ cursor \in Nat /\ cursor > 13
        /\ live' = live /\ ids' = ids
    BY DEF IInv, TypeOK, CommitUnit
  <1>2. live = [s \in Stores |-> IF s \in planned THEN tokens[s] \cup {Row}
                                 ELSE tokens[s]]
    <2>1. ASSUME NEW s \in Stores
          PROVE  live[s] = IF s \in planned THEN tokens[s] \cup {Row}
                           ELSE tokens[s]
      <3>1. PICK i \in 1..13 : WriteOrder[i] = s
        OBVIOUS
      <3>2. i < cursor
        BY <1>1
      <3> QED BY <1>1, <3>1, <3>2 DEF IInv, WrittenUpToCursor
    <2> QED BY <2>1 DEF IInv, TypeOK
  <1>3. Atomic!Perform(tag, planned)
    BY <1>1, <1>2 DEF Atomic!Perform, Visible, Row
  <1>4. tag \in VisibleIds + 1 .. VisibleIds'
    BY <1>1 DEF IInv, TypeOK, FreshTag, VisibleIds
  <1>5. planned \in Plans
    BY <1>1 DEF IInv, PlanInForce
  <1> QED BY <1>3, <1>4, <1>5

\* An exception out of a bundle without a rollback boundary leaves an identifier
\* spent and rows in some of the stores of the plan, or nothing.
LEMMA RaisePerformsPartly ==
    ASSUME IInv, Raise, ~snapshotable
    PROVE  \/ Visible' = Visible /\ VisibleIds' = VisibleIds
           \/ \E n \in VisibleIds + 1 .. VisibleIds' : \E S \in Plans :
                Atomic!PerformPartly(n, S)
  <1>1. /\ phase \in {"open", "writing"} /\ phase' = "idle"
        /\ live' = live /\ ids' = ids
        /\ Visible = tokens /\ Visible' = live
        /\ VisibleIds = idsToken /\ VisibleIds' = ids
    BY DEF Raise, Visible, VisibleIds
  <1>2. ids \in Nat /\ idsToken \in Nat /\ tag \in Nat /\ idsToken =< ids
    BY <1>1 DEF IInv, TypeOK, FreshTag
  <1>3. DOMAIN live = Stores
    BY DEF IInv, TypeOK
  <1>4. CASE phase = "open"
    <2>1. live = tokens
      BY <1>4 DEF IInv, SnapshotWhileOpen
    <2>2. CASE ids = idsToken
      BY <1>1, <2>1, <2>2
    <2>3. CASE ids # idsToken
      <3>1. {} \in Plans
        BY DEF Plans, HoldPlans
      <3>2. ids \in VisibleIds + 1 .. VisibleIds'
        BY <1>1, <1>2, <2>3
      <3>3. Atomic!PerformPartly(ids, {})
        BY <1>1, <1>3, <2>1 DEF Atomic!PerformPartly
      <3> QED BY <3>1, <3>2, <3>3
    <2> QED BY <2>2, <2>3
  <1>5. CASE phase = "writing"
    <2>1. tag \in VisibleIds + 1 .. VisibleIds' /\ planned \in Plans
      BY <1>1, <1>2, <1>5 DEF IInv, FreshTag, PlanInForce
    <2>2. ASSUME NEW s \in Stores
          PROVE  \/ live[s] = tokens[s]
                 \/ s \in planned
                    /\ live[s] = tokens[s] \cup {[id |-> tag, plan |-> planned]}
      BY <1>5 DEF IInv, WrittenUpToCursor, Row
    <2>3. Atomic!PerformPartly(tag, planned)
      BY <1>1, <1>3, <2>2 DEF Atomic!PerformPartly
    <2> QED BY <2>1, <2>3
  <1> QED BY <1>1, <1>4, <1>5

\* Every step either performs an interaction or is invisible to callers.
LEMMA StepSimulates ==
    ASSUME IInv, [Next]_vars
    PROVE  [Atomic!Next]_(Atomic!vars)
  <1>0. snapshotable' = snapshotable
    BY DEF Next, vars, bundle
  <1> SUFFICES ASSUME ~CommitUnit, ~(Raise /\ ~snapshotable)
               PROVE  Visible' = Visible /\ VisibleIds' = VisibleIds
    BY <1>0, CommitPerforms, RaisePerformsPartly DEF Atomic!Next, Atomic!vars
  <1>1. CASE Begin
    BY <1>1 DEF Begin, Visible, VisibleIds
  <1>2. CASE Mint
    BY <1>2 DEF Mint, Visible, VisibleIds
  <1>3. CASE Validated
    BY <1>3 DEF Validated, Visible, VisibleIds
  <1>4. CASE WriteStore
    BY <1>4 DEF WriteStore, Visible, VisibleIds
  <1>5. CASE Raise
    BY <1>5 DEF Raise, Visible, VisibleIds
  <1>6. CASE RestoreStore
    BY <1>6 DEF RestoreStore, Visible, VisibleIds
  <1>7. CASE RestoreIds
    <2>1. live = tokens
      BY <1>7, RestoreIsComplete DEF RestoreIds
    <2> QED BY <1>7, <2>1 DEF RestoreIds, transaction, Visible, VisibleIds
  <1>8. CASE UNCHANGED vars
    BY <1>8 DEF vars, bundle, transaction, Visible, VisibleIds
  <1> QED BY <1>1, <1>2, <1>3, <1>4, <1>5, <1>6, <1>7, <1>8 DEF Next, Quiet

\* Every interaction of a service with a rollback boundary is atomic, however
\* many stores its plan names and wherever it is interrupted; of one without, an
\* abandoned interaction leaves at most its own rows, in stores of its plan.
THEOREM InteractionsAreAtomic == Spec => ImplementsAtomicInteractions
  <1>1. Init => Atomic!Init
    BY DEF Init, Atomic!Init, Visible, VisibleIds
  <1>2. IInv /\ [Next]_vars => [Atomic!Next]_(Atomic!vars)
    BY StepSimulates
  <1> QED BY <1>1, <1>2, Inductive, PTL
          DEF Spec, ImplementsAtomicInteractions, Atomic!Spec
=============================================================================
