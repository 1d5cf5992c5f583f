---------------------------- MODULE Review_proofs ----------------------------
(* That what the review harness shows and saves is what its own operations  *)
(* made, for any number of clients and cases, any definitions and any       *)
(* engine: what an interaction returns is left open, its evidence excepted. *)
EXTENDS ReviewProperties, FiniteSetTheorems, SequenceTheorems, WellFoundedInduction, TLAPS

(* Least and greatest elements of sets of numbers, and induction over them: *)
(* what every argument by a first or last index rests on.                   *)

\* A set of naturals that is not empty has a least element.
LEMMA LeastOfNaturals ==
    ASSUME NEW S \in SUBSET Nat, S # {}
    PROVE  \E m \in S : \A x \in S : m =< x
  <1> DEFINE R == OpToRel(<, Nat)
  <1>1. \A x, y \in Nat : <<y, x>> \in R <=> y < x
    <2>1. \A x, y \in Nat : <<y, x>> \in Nat \X Nat
      OBVIOUS
    <2> QED BY <2>1, Zenon DEF OpToRel
  <1>2. IsWellFoundedOn(R, Nat)
    BY NatLessThanWellFounded
  <1> HIDE DEF R
  <1>3. PICK m \in S : \A y \in S : ~(<<y, m>> \in R)
    BY <1>2, WFMin
  <1>4. \A x \in S : ~(x < m)
    BY <1>1, <1>3, Zenon
  <1> QED BY <1>4

\* A set of naturals with an upper bound has a greatest one.
LEMMA GreatestOfBounded ==
    ASSUME NEW S \in SUBSET Nat, S # {}, NEW n \in Nat, \A x \in S : x =< n
    PROVE  \E m \in S : \A x \in S : x =< m
  <1> DEFINE T == {n - x : x \in S}
  <1>1. T \in SUBSET Nat /\ T # {}
    <2>1. \A x \in S : n - x \in Nat
      OBVIOUS
    <2> QED BY <2>1
  <1>2. PICK t \in T : \A y \in T : t =< y
    <2> HIDE DEF T
    <2> QED BY <1>1, LeastOfNaturals
  <1>3. PICK m \in S : t = n - m
    OBVIOUS
  <1>4. \A x \in S : n - m =< n - x
    BY <1>2, <1>3
  <1> QED BY <1>4

\* Induction, for a set of numbers.
LEMMA SetInduction ==
    ASSUME NEW S, 0 \in S, \A k \in Nat : k \in S => k + 1 \in S
    PROVE  Nat \subseteq S
  <1> DEFINE T == Nat \ S
  <1> SUFFICES ASSUME T # {} PROVE FALSE
    OBVIOUS
  <1>1. PICK m \in T : \A x \in T : m =< x
    <2>1. T \in SUBSET Nat
      OBVIOUS
    <2> HIDE DEF T
    <2> QED BY <2>1, LeastOfNaturals
  <1>2. m # 0 /\ m - 1 \in Nat /\ m - 1 \notin T
    BY <1>1
  <1> QED BY <1>1, <1>2

\* Finitely many natural numbers, if there are any, have a greatest one.
LEMMA GreatestOfFinite ==
    ASSUME NEW S \in SUBSET Nat, S # {}, IsFiniteSet(S)
    PROVE  \E m \in S : \A x \in S : x =< m
  <1>1. PICK n \in Nat : ExistsSurjection(1..n, S)
    BY FS_NatSurjection
  <1>2. PICK f \in Surjection(1..n, S) : TRUE
    BY <1>1 DEF ExistsSurjection
  <1>3. f \in [1..n -> S] /\ \A x \in S : \E i \in 1..n : f[i] = x
    BY <1>2 DEF Surjection
  <1> DEFINE B == {k \in Nat : k =< n => \E b \in Nat : \A i \in 1..k : f[i] =< b}
  <1>4. 0 \in B
    OBVIOUS
  <1>5. ASSUME NEW k \in Nat, k \in B PROVE k + 1 \in B
    <2> SUFFICES ASSUME k + 1 =< n
                 PROVE  \E b \in Nat : \A i \in 1..k + 1 : f[i] =< b
      OBVIOUS
    <2>1. PICK b \in Nat : \A i \in 1..k : f[i] =< b
      BY <1>5
    <2>2. \A i \in 1..k + 1 : f[i] \in Nat
      <3>1. \A i \in 1..k + 1 : i \in 1..n
        OBVIOUS
      <3>2. \A i \in 1..n : f[i] \in Nat
        BY <1>3
      <3> QED BY <3>1, <3>2
    <2>3. \A i \in 1..k + 1 : i \in 1..k \/ i = k + 1
      OBVIOUS
    <2>4. f[k + 1] \in Nat /\ b + f[k + 1] \in Nat
      BY <2>2
    <2>5. \A i \in 1..k + 1 : f[i] =< b + f[k + 1]
      BY <2>1, <2>2, <2>3, <2>4
    <2> QED BY <2>4, <2>5
  <1>6. n \in B
    <2> HIDE DEF B
    <2> QED BY <1>4, <1>5, SetInduction
  <1>7. PICK b \in Nat : \A i \in 1..n : f[i] =< b
    BY <1>6
  <1>8. \A x \in S : x =< b
    BY <1>3, <1>7
  <1> QED BY <1>8, GreatestOfBounded

----------------------------------------------------------------------------
IsSequence(s) == s \in Seq(ToSet(s))

----------------------------------------------------------------------------
(* A case by itself.                                                        *)

CaseRecord(c) ==
    c = [born |-> c.born, sequence |-> c.sequence,
         expectations |-> c.expectations, noted |-> c.noted,
         history |-> c.history, snapshots |-> c.snapshots, ran |-> c.ran,
         ids |-> c.ids, exit |-> c.exit, partial |-> c.partial,
         missed |-> c.missed]

CaseShape(c) ==
    /\ CaseRecord(c)
    /\ IsSequence(c.sequence) /\ IsSequence(c.history) /\ IsSequence(c.snapshots)
    /\ c.ran \in 0..Len(c.sequence) /\ c.ids \in Nat
    /\ c.partial \in BOOLEAN /\ c.missed \in BOOLEAN
    /\ c.ran = Len(c.history)

\* A trail is what the stores held after each step, shown or not; these are the
\* stores as step k found them.
Before(trail, k) == IF k = 1 THEN EmptyWorld ELSE trail[k - 1]

\* Step k is what the engine makes of spec k under evidence id k.
Explained(c, trail, k) ==
    LET out == Outcome(Before(trail, k), c.sequence[k], k)
    IN  /\ c.sequence[k].refused \notin {"before", "within"}
        /\ c.history[k] = out.result /\ trail[k] = out.world

\* Evidence ids are positions in the sequence: the next one is free.
Numbered(trail, k) ==
    /\ IsSequence(Before(trail, k).evidence)
    /\ ToSet(Before(trail, k).evidence) \subseteq 1..k - 1

\* The counter of evidence ids is ahead of the steps only where a refusal on
\* SQLite has used some up, and then the next step is refused again.
Counted(c) ==
    c.ids = c.ran \/ /\ c.ran < Len(c.sequence)
                     /\ c.sequence[c.ran + 1].refused = "within"

\* Snapshot i shows the trail at the step it names.
Pictured(c, trail, i) ==
    /\ c.snapshots[i].step \in 1..c.ran
    /\ c.snapshots[i] = Shown(c.snapshots[i].step, trail[c.snapshots[i].step])

InOrder(c) ==
    \A i, j \in 1..Len(c.snapshots) :
        i < j => c.snapshots[i].step < c.snapshots[j].step

\* Where no read has failed they are those of the first steps, and of all steps
\* unless there is an expectation that cannot be read.
Complete(c) ==
    ~c.missed => /\ \A i \in 1..Len(c.snapshots) : c.snapshots[i].step = i
                 /\ Len(c.snapshots) = c.ran \/ Unreadable(c)

Traced(c, trail, world) ==
    /\ IsSequence(trail) /\ Len(trail) = c.ran
    /\ world = Before(trail, c.ran + 1)
    /\ \A k \in 1..c.ran : Explained(c, trail, k)
    /\ \A k \in 1..c.ran + 1 : Numbered(trail, k)
    /\ Counted(c)
    /\ \A i \in 1..Len(c.snapshots) : Pictured(c, trail, i)
    /\ InOrder(c) /\ Complete(c)

Stands(c, world) == ~c.partial => \E trail : Traced(c, trail, world)

GoodCase(c, world) == CaseShape(c) /\ Stands(c, world)

----------------------------------------------------------------------------
(* The process.                                                             *)

Shapes ==
    /\ mem = [cases |-> mem.cases, counter |-> mem.counter, current |-> mem.current]
    /\ mem.cases = [id \in Cases |-> mem.cases[id]]
    /\ mem.counter \in Nat /\ Cases \subseteq 1..mem.counter
    /\ up = "up" => mem.current \in Cases
    /\ worlds = [id \in DOMAIN worlds |-> worlds[id]] /\ Cases \subseteq DOMAIN worlds
    /\ pc = [t \in Clients |-> pc[t]]
    /\ reply = [t \in Clients |-> reply[t]]
    /\ applied = [t \in Clients |-> applied[t]]

Files ==
    /\ files = [id \in DOMAIN files |-> files[id]]
    /\ DOMAIN files \subseteq Nat \ {0} /\ IsFiniteSet(DOMAIN files)
    /\ \A id \in DOMAIN files :
         /\ files[id] = [whole |-> files[id].whole, definition |-> files[id].definition]
         /\ IsSequence(files[id].definition.sequence)

\* Whoever is past the lock and not yet answered has it.
Holding == {"locked", "saving", "applied", "responding"}
Locks ==
    /\ \A t \in Clients : pc[t] \in Holding => lock = t
    /\ up # "up" => \A t \in Clients : pc[t] = "idle"

Replies ==
    \A t \in Clients : /\ pc[t] = "applied" => applied[t] = State(mem, worlds)
                       /\ pc[t] = "responding" => reply[t] = applied[t]

\* What is saved is saved of a case the manager has.
Filed ==
    up = "up" /\ config.writable =>
      \A id \in DOMAIN files : /\ id \in Cases
                               /\ mem.cases[id].born = files[id].definition.born

Standing == \A id \in Cases : GoodCase(mem.cases[id], worlds[id])

ReviewInv == Shapes /\ Files /\ Locks /\ Replies /\ Filed /\ Standing
----------------------------------------------------------------------------
(* Sequences of whatever elements.                                          *)

LEMMA Sequenced ==
    ASSUME NEW s, IsSequence(s)
    PROVE  /\ Len(s) \in Nat /\ DOMAIN s = 1..Len(s)
           /\ s = [i \in 1..Len(s) |-> s[i]]
  BY DEF IsSequence, ToSet

LEMMA Appended ==
    ASSUME NEW s, NEW x, IsSequence(s)
    PROVE  /\ IsSequence(Append(s, x))
           /\ Len(Append(s, x)) = Len(s) + 1
           /\ \A i \in 1..Len(s) : Append(s, x)[i] = s[i]
           /\ Append(s, x)[Len(s) + 1] = x
           /\ ToSet(Append(s, x)) = ToSet(s) \cup {x}
  <1> DEFINE S == ToSet(s) \cup {x}
  <1>1. s \in Seq(S) /\ x \in S
    <2>1. s \in Seq(ToSet(s)) /\ ToSet(s) \subseteq S
      BY DEF IsSequence
    <2> HIDE DEF S
    <2>2. s \in Seq(S)
      BY <2>1, SeqMonotonic
    <2> QED BY <2>2 DEF S
  <1>2. /\ Append(s, x) \in Seq(S) /\ Len(Append(s, x)) = Len(s) + 1
        /\ \A i \in 1..Len(s) : Append(s, x)[i] = s[i]
        /\ Append(s, x)[Len(s) + 1] = x
    <2> HIDE DEF S
    <2> QED BY <1>1, AppendProperties
  <1>3. DOMAIN Append(s, x) = 1..Len(s) + 1 /\ Len(s) \in Nat
    <2> HIDE DEF S
    <2> QED BY <1>1, <1>2, LenProperties
  <1>4. ToSet(Append(s, x)) = S
    <2>1. DOMAIN s = 1..Len(s)
      BY Sequenced
    <2>2. 1..Len(s) + 1 = 1..Len(s) \cup {Len(s) + 1}
      BY <1>3
    <2>3. \A y : y \in ToSet(Append(s, x)) <=>
                   \E i \in 1..Len(s) \cup {Len(s) + 1} : y = Append(s, x)[i]
      BY <1>3, <2>2 DEF ToSet
    <2>4. \A y : y \in ToSet(s) <=> \E i \in 1..Len(s) : y = s[i]
      BY <2>1 DEF ToSet
    <2> QED BY <1>2, <2>3, <2>4
  <1>5. IsSequence(Append(s, x))
    BY <1>2, <1>4 DEF IsSequence
  <1> QED BY <1>2, <1>4, <1>5

LEMMA EmptySequence == IsSequence(<<>>) /\ Len(<<>>) = 0 /\ ToSet(<<>>) = {}
  BY DEF IsSequence, ToSet

LEMMA FirstOnes ==
    ASSUME NEW s, IsSequence(s), NEW n \in 0..Len(s)
    PROVE  /\ IsSequence(SubSeq(s, 1, n)) /\ Len(SubSeq(s, 1, n)) = n
           /\ \A i \in 1..n : SubSeq(s, 1, n)[i] = s[i]
           /\ n = Len(s) => SubSeq(s, 1, n) = s
           /\ n < Len(s) => Append(SubSeq(s, 1, n), s[n + 1]) = SubSeq(s, 1, n + 1)
  <1>1. /\ Len(s) \in Nat /\ DOMAIN s = 1..Len(s)
        /\ s \in Seq(ToSet(s)) /\ \A i \in 1..Len(s) : s[i] \in ToSet(s)
    BY Sequenced DEF IsSequence, ToSet
  <1>2. /\ SubSeq(s, 1, n) \in Seq(ToSet(s)) /\ Len(SubSeq(s, 1, n)) = n
        /\ \A i \in 1..n : SubSeq(s, 1, n)[i] = s[i]
    BY <1>1
  <1>3. IsSequence(SubSeq(s, 1, n))
    <2> DEFINE t == SubSeq(s, 1, n)
    <2>1. t \in Seq(ToSet(s))
      BY <1>2
    <2> HIDE DEF t
    <2>2. t \in Seq(Range(t))
      BY <2>1, SeqOfRange
    <2>3. Range(t) = ToSet(t)
      BY DEF Range, ToSet
    <2> QED BY <2>2, <2>3 DEF IsSequence, t
  <1>4. n < Len(s) => Append(SubSeq(s, 1, n), s[n + 1]) = SubSeq(s, 1, n + 1)
    BY <1>1
  <1>5. n = Len(s) => SubSeq(s, 1, n) = s
    BY <1>1, SubSeqFull
  <1> QED BY <1>2, <1>3, <1>4, <1>5
----------------------------------------------------------------------------
(* One case: rebuilding it, a step of it, all of its steps.                 *)

LEMMA RebuiltFields ==
    ASSUME NEW d, NEW x
    PROVE  /\ CaseRecord(Rebuilt(d, x))
           /\ Rebuilt(d, x).born = d.born /\ Rebuilt(d, x).sequence = d.sequence
           /\ Rebuilt(d, x).history = <<>> /\ Rebuilt(d, x).snapshots = <<>>
           /\ Rebuilt(d, x).ran = 0 /\ Rebuilt(d, x).ids = 0
           /\ Rebuilt(d, x).partial = FALSE /\ Rebuilt(d, x).missed = FALSE
  BY DEF Rebuilt, CaseRecord

\* A rebuilt case has run nothing, on stores that hold nothing.
LEMMA RebuiltIsGood ==
    ASSUME NEW d, NEW x, IsSequence(d.sequence)
    PROVE  GoodCase(Rebuilt(d, x), EmptyWorld)
  <1> DEFINE c == Rebuilt(d, x)
  <1>1. /\ c.sequence = d.sequence
        /\ c.history = <<>> /\ c.snapshots = <<>> /\ c.ran = 0 /\ c.ids = 0
        /\ c.partial = FALSE /\ c.missed = FALSE /\ CaseRecord(c)
    BY RebuiltFields
  <1> HIDE DEF c
  <1>2. CaseShape(c)
    <2>1. Len(c.sequence) \in Nat
      BY <1>1, Sequenced
    <2>2. IsSequence(c.sequence) /\ IsSequence(c.history) /\ IsSequence(c.snapshots)
      BY <1>1, EmptySequence
    <2>3. Len(c.history) = 0 /\ Len(c.snapshots) = 0
      BY <1>1, EmptySequence
    <2>4. c.ran \in 0..Len(c.sequence) /\ c.ids \in Nat
      BY <1>1, <2>1
    <2>6. c.partial \in BOOLEAN /\ c.missed \in BOOLEAN
      BY <1>1, Zenon
    <2>5. c.ran = 0
      BY <1>1
    <2> QED BY <1>1, <2>2, <2>3, <2>4, <2>5, <2>6, Zenon DEF CaseShape
  <1>3. (\A k \in 1..c.ran : FALSE) /\ Len(c.snapshots) = c.ran
        /\ \A i \in 1..Len(c.snapshots) : FALSE
    BY <1>1, EmptySequence
  <1>4. \A k \in 1..c.ran + 1 : k = 1 /\ Before(<<>>, k) = EmptyWorld
    BY <1>1 DEF Before
  <1>5. IsSequence(EmptyWorld.evidence) /\ ToSet(EmptyWorld.evidence) = {}
    BY EmptySequence DEF EmptyWorld
  <1>6. Counted(c)
    BY <1>1 DEF Counted
  <1>7. \A k \in 1..c.ran + 1 : Numbered(<<>>, k)
    BY <1>4, <1>5 DEF Numbered
  <1>8. EmptyWorld = Before(<<>>, c.ran + 1)
    BY <1>1 DEF Before
  <1>9. InOrder(c) /\ Complete(c)
    BY <1>3 DEF InOrder, Complete
  <1>10. Traced(c, <<>>, EmptyWorld)
    BY <1>1, <1>3, <1>6, <1>7, <1>8, <1>9, EmptySequence DEF Traced
  <1>11. Stands(c, EmptyWorld)
    BY <1>10 DEF Stands
  <1> QED BY <1>2, <1>11 DEF GoodCase, c

LEMMA OutcomeEvidence ==
    ASSUME NEW w, NEW spec, NEW e
    PROVE  Outcome(w, spec, e).world.evidence = Append(w.evidence, e)
  <1>1. "evidence" \in DOMAIN EmptyWorld
    BY DEF EmptyWorld
  <1> QED BY <1>1 DEF Outcome

\* What no step of a case touches.
Kernel(c) == <<c.born, c.sequence, c.expectations, c.noted, c.exit>>
Progress(c) == <<c.history, c.snapshots, c.ran, c.missed>>

\* The ways a step of case c on world w may end, in the order they are tried.
Refused(s, c, w) ==
    s = [case |-> c, world |-> w, raised |-> TRUE]

UsedUp(s, c, w) ==
    LET spec == c.sequence[c.ran + 1]
    IN  /\ spec.refused # "before"
        /\ spec.refused = "within" \/ c.ids + 1 \in ToSet(w.evidence)
        /\ Kernel(s.case) = Kernel(c) /\ Progress(s.case) = Progress(c)
        /\ s.case.partial = c.partial /\ s.case.ids \in {c.ids, c.ids + 1}
        /\ s.world = w /\ s.raised = TRUE

Halved(s, c) ==
    /\ Kernel(s.case) = Kernel(c) /\ Progress(s.case) = Progress(c)
    /\ s.case.partial = TRUE /\ s.case.ids = c.ids + 1
    /\ s.raised = TRUE

Advanced(s, c, w) ==
    LET spec == c.sequence[c.ran + 1]
        out == Outcome(w, spec, c.ids + 1)
    IN  /\ spec.refused \notin {"before", "within"}
        /\ c.ids + 1 \notin ToSet(w.evidence)
        /\ Kernel(s.case) = Kernel(c)
        /\ s.case.history = Append(c.history, out.result)
        /\ s.case.ran = c.ran + 1 /\ s.case.ids = c.ids + 1
        /\ s.case.partial = c.partial
        /\ s.world = out.world

\* ... and with its snapshot, or without.
SnapshotTaken(s, c, world) ==
    /\ s.case.snapshots = Append(c.snapshots, Shown(c.ran + 1, world))
    /\ s.case.missed = c.missed /\ ~Unreadable(c) /\ s.raised = FALSE

SnapshotMissed(s, c) ==
    /\ s.case.snapshots = c.snapshots /\ s.case.missed \in BOOLEAN
    /\ c.missed => s.case.missed
    /\ s.case.missed \/ Unreadable(c)
    /\ s.raised = TRUE

LEMMA CaseRecounted ==
    ASSUME NEW c, CaseRecord(c), NEW i, NEW d, d = [c EXCEPT !.ids = i]
    PROVE  /\ CaseRecord(d) /\ Kernel(d) = Kernel(c) /\ Progress(d) = Progress(c)
           /\ d.partial = c.partial /\ d.ids = i
  BY DEF CaseRecord, Kernel, Progress

LEMMA StepEnds ==
    ASSUME NEW c, CaseRecord(c), c.missed \in BOOLEAN, NEW w, NEW fault,
           NEW s, s = Step(c, w, fault)
    PROVE  /\ CaseRecord(s.case)
           /\ \/ Refused(s, c, w) \/ UsedUp(s, c, w)
              \/ (fault = "write" /\ Halved(s, c))
              \/ /\ Advanced(s, c, w)
                 /\ SnapshotTaken(s, c, s.world) \/ SnapshotMissed(s, c)
           /\ /\ fault = "none" /\ ~Unreadable(c)
              /\ c.sequence[c.ran + 1].refused \notin {"before", "within"}
              /\ c.ids + 1 \notin ToSet(w.evidence)
              => Advanced(s, c, w) /\ SnapshotTaken(s, c, s.world)
  <1> DEFINE spec == c.sequence[c.ran + 1]
             e == c.ids + 1
             out == Outcome(w, spec, e)
             refused == spec.refused = "within" \/ e \in ToSet(w.evidence)
             shown == fault # "read" /\ ~Unreadable(c)
  <1>1. CASE spec.refused = "before"
    <2>1. s = [case |-> c, world |-> w, raised |-> TRUE]
      BY <1>1 DEF Step
    <2> QED BY <1>1, <2>1 DEF Refused
  <1>2. CASE spec.refused # "before" /\ refused
    <2>1. s = [case |-> [c EXCEPT !.ids = Kept(@)], world |-> w, raised |-> TRUE]
      BY <1>2 DEF Step
    <2>2. [c EXCEPT !.ids = Kept(@)] = [c EXCEPT !.ids = Kept(c.ids)]
      OBVIOUS
    <2>3. Kept(c.ids) \in {c.ids, c.ids + 1}
      BY DEF Kept
    <2>4. s.case = [c EXCEPT !.ids = Kept(c.ids)] /\ s.world = w /\ s.raised = TRUE
      BY <2>1, <2>2
    <2>5. UsedUp(s, c, w)
      BY <1>2, <2>3, <2>4, CaseRecounted DEF UsedUp
    <2>6. CaseRecord(s.case)
      BY <2>4, CaseRecounted
    <2> QED BY <1>2, <2>5, <2>6
  <1>3. CASE spec.refused # "before" /\ ~refused /\ fault = "write"
    <2>1. s.case = [c EXCEPT !.ids = e, !.partial = TRUE] /\ s.raised = TRUE
      BY <1>3 DEF Step
    <2>3. /\ CaseRecord(s.case) /\ Kernel(s.case) = Kernel(c)
          /\ Progress(s.case) = Progress(c)
          /\ s.case.partial = TRUE /\ s.case.ids = e
      <3> DEFINE d == s.case
      <3>1. d = [c EXCEPT !.ids = e, !.partial = TRUE]
        BY <2>1
      <3> HIDE DEF d, e
      <3>2. /\ CaseRecord(d) /\ Kernel(d) = Kernel(c) /\ Progress(d) = Progress(c)
            /\ d.partial = TRUE /\ d.ids = e
        BY <3>1 DEF CaseRecord, Kernel, Progress
      <3> QED BY <3>2 DEF d
    <2>2. Halved(s, c)
      BY <2>1, <2>3, Zenon DEF Halved
    <2> QED BY <1>3, <2>2, <2>3
  <1>4. CASE spec.refused # "before" /\ ~refused /\ fault # "write"
    <2> DEFINE b == [c EXCEPT !.ids = e, !.ran = c.ran + 1,
                              !.history = Append(c.history, out.result)]
               x == Append(c.snapshots, Shown(c.ran + 1, out.world))
               y == c.missed \/ fault = "read"
    <2>1. s = [case |-> IF shown
                        THEN [[c EXCEPT !.ids = e, !.ran = @ + 1,
                                        !.history = Append(@, out.result)]
                                EXCEPT !.snapshots =
                                         Append(@, Shown(c.ran + 1, out.world))]
                        ELSE [[c EXCEPT !.ids = e, !.ran = @ + 1,
                                        !.history = Append(@, out.result)]
                                EXCEPT !.missed = @ \/ fault = "read"],
               world |-> out.world, raised |-> ~shown]
      BY <1>4 DEF Step
    <2>2. [c EXCEPT !.ids = e, !.ran = @ + 1, !.history = Append(@, out.result)] = b
      OBVIOUS
    <2>3. b.snapshots = c.snapshots /\ b.missed = c.missed
      BY DEF CaseRecord
    <2>4. s.case = (IF shown THEN [b EXCEPT !.snapshots = x]
                    ELSE [b EXCEPT !.missed = y])
      <3>1. s.case = (IF shown
                      THEN [b EXCEPT !.snapshots = Append(@, Shown(c.ran + 1, out.world))]
                      ELSE [b EXCEPT !.missed = @ \/ fault = "read"])
        BY <2>1, <2>2
      <3> HIDE DEF b, out, shown
      <3> QED BY <2>3, <3>1
    <2>5. s.world = out.world /\ s.raised = ~shown
      BY <2>1
    <2>6. /\ CaseRecord(s.case) /\ Kernel(s.case) = Kernel(c)
          /\ s.case.history = Append(c.history, out.result)
          /\ s.case.ran = c.ran + 1 /\ s.case.ids = e /\ s.case.partial = c.partial
          /\ shown => s.case.snapshots = x /\ s.case.missed = c.missed
          /\ ~shown => s.case.snapshots = c.snapshots /\ s.case.missed = y
      <3> DEFINE h == Append(c.history, out.result)
                 n == c.ran + 1
      <3>1. /\ CaseRecord(b) /\ Kernel(b) = Kernel(c) /\ b.history = h /\ b.ran = n
            /\ b.ids = e /\ b.partial = c.partial /\ b.snapshots = c.snapshots
            /\ b.missed = c.missed
        <4>1. b = [c EXCEPT !.ids = e, !.ran = n, !.history = h]
          OBVIOUS
        <4> HIDE DEF b, h, n, e
        <4> QED BY <4>1 DEF CaseRecord, Kernel
      <3> HIDE DEF b, out, shown, x, y, h, n, e
      <3>2. CASE shown
        <4>1. s.case = [b EXCEPT !.snapshots = x]
          BY <2>4, <3>2
        <4>2. /\ CaseRecord(s.case) /\ Kernel(s.case) = Kernel(c)
              /\ s.case.history = h /\ s.case.ran = n /\ s.case.ids = e
              /\ s.case.partial = c.partial
              /\ s.case.snapshots = x /\ s.case.missed = c.missed
          BY <3>1, <4>1 DEF CaseRecord, Kernel
        <4> QED BY <3>2, <4>2 DEF h, n
      <3>3. CASE ~shown
        <4>1. s.case = [b EXCEPT !.missed = y]
          BY <2>4, <3>3
        <4>2. /\ CaseRecord(s.case) /\ Kernel(s.case) = Kernel(c)
              /\ s.case.history = h /\ s.case.ran = n /\ s.case.ids = e
              /\ s.case.partial = c.partial
              /\ s.case.snapshots = c.snapshots /\ s.case.missed = y
          BY <3>1, <4>1 DEF CaseRecord, Kernel
        <4> QED BY <3>3, <4>2 DEF h, n
      <3> QED BY <3>2, <3>3
    <2>7. Advanced(s, c, w)
      BY <1>4, <2>5, <2>6 DEF Advanced
    <2>8. CASE shown
      <3>1. s.raised = FALSE /\ ~Unreadable(c)
        BY <2>5, <2>8
      <3>2. SnapshotTaken(s, c, s.world)
        <4> HIDE DEF out, shown
        <4> QED BY <2>5, <2>6, <2>8, <3>1 DEF SnapshotTaken
      <3> QED BY <2>6, <2>7, <3>2
    <2>9. CASE ~shown
      <3>1. s.raised = TRUE /\ (fault = "read" \/ Unreadable(c))
        BY <2>5, <2>9
      <3>2. /\ s.case.snapshots = c.snapshots /\ s.case.missed \in BOOLEAN
            /\ c.missed => s.case.missed
            /\ fault = "read" => s.case.missed
        <4>1. s.case.snapshots = c.snapshots /\ s.case.missed = y
          <5> HIDE DEF y
          <5> QED BY <2>6, <2>9
        <4> QED BY <4>1, Zenon
      <3>3. s.case.missed \/ Unreadable(c)
        BY <3>1, <3>2, Zenon
      <3>4. SnapshotMissed(s, c)
        BY <3>1, <3>2, <3>3, Zenon DEF SnapshotMissed
      <3>5. ~(fault = "none" /\ ~Unreadable(c))
        BY <3>1
      <3> QED BY <2>6, <2>7, <3>4, <3>5
    <2> QED BY <2>8, <2>9
  <1> QED BY <1>1, <1>2, <1>3, <1>4

\* A longer trail that agrees with a shorter one explains what that explains.
LEMMA AgreeingTrails ==
    ASSUME NEW c, NEW d, NEW trail, NEW other, NEW n \in Nat,
           \A k \in 1..n : other[k] = trail[k]
    PROVE  /\ \A k \in 1..n + 1 : Before(other, k) = Before(trail, k)
           /\ \A k \in 1..n + 1 : Numbered(trail, k) => Numbered(other, k)
           /\ \A k \in 1..n : /\ Explained(c, trail, k)
                              /\ d.sequence[k] = c.sequence[k]
                              /\ d.history[k] = c.history[k]
                              => Explained(d, other, k)
  <1>1. \A k \in 1..n + 1 : Before(other, k) = Before(trail, k)
    BY DEF Before
  <1>2. \A k \in 1..n + 1 : Numbered(trail, k) => Numbered(other, k)
    BY <1>1 DEF Numbered
  <1>3. ASSUME NEW k \in 1..n, Explained(c, trail, k), d.sequence[k] = c.sequence[k],
               d.history[k] = c.history[k]
        PROVE  Explained(d, other, k)
    <2>1. Before(other, k) = Before(trail, k) /\ other[k] = trail[k]
      BY <1>1
    <2> QED BY <1>3, <2>1 DEF Explained
  <1> QED BY <1>1, <1>2, <1>3

\* Nor is a trail disturbed by what runs nothing.
LEMMA TrailKept ==
    ASSUME NEW c, NEW d, NEW trail, NEW w, Traced(c, trail, w), c.ran \in Nat,
           Progress(d) = Progress(c), d.expectations = c.expectations,
           \A k \in 1..c.ran : d.sequence[k] = c.sequence[k], Counted(d)
    PROVE  Traced(d, trail, w)
  <1>1. /\ d.history = c.history /\ d.snapshots = c.snapshots /\ d.ran = c.ran
        /\ d.missed = c.missed
    BY DEF Progress
  <1>2. \A k \in 1..c.ran : Explained(d, trail, k)
    <2>1. \A k \in 1..c.ran : Explained(c, trail, k)
      BY DEF Traced
    <2> QED BY <1>1, <2>1, AgreeingTrails
  <1>3. Unreadable(d) <=> Unreadable(c)
    BY <1>1 DEF Unreadable
  <1>4. \A i \in 1..Len(d.snapshots) : Pictured(d, trail, i)
    BY <1>1 DEF Traced, Pictured
  <1>5. InOrder(d) /\ Complete(d)
    BY <1>1, <1>3 DEF Traced, InOrder, Complete
  <1> QED BY <1>1, <1>2, <1>4, <1>5 DEF Traced

LEMMA ShapeFields ==
    ASSUME NEW c, CaseShape(c)
    PROVE  /\ CaseRecord(c)
           /\ IsSequence(c.sequence) /\ IsSequence(c.history)
           /\ IsSequence(c.snapshots) /\ Len(c.sequence) \in Nat
           /\ c.ran \in Nat /\ c.ran =< Len(c.sequence)
           /\ Len(c.snapshots) \in Nat
           /\ c.ids \in Nat /\ c.partial \in BOOLEAN /\ c.missed \in BOOLEAN
           /\ c.ran = Len(c.history)
  <1>1. Len(c.sequence) \in Nat /\ Len(c.snapshots) \in Nat
    BY Sequenced DEF CaseShape
  <1>2. c.ran \in Nat /\ c.ran =< Len(c.sequence)
    BY <1>1 DEF CaseShape
  <1> QED BY <1>1, <1>2 DEF CaseShape

\* A case that stands, is not spoilt and goes on: the next identifier is that of
\* the next step, and free.
LEMMA NextIsFree ==
    ASSUME NEW c, NEW w, CaseShape(c), NEW trail, Traced(c, trail, w)
    PROVE  /\ IsSequence(w.evidence) /\ ToSet(w.evidence) \subseteq 1..c.ran
           /\ c.ids = c.ran => c.ids + 1 \notin ToSet(w.evidence)
           /\ c.ids # c.ran => /\ c.ran < Len(c.sequence)
                               /\ c.sequence[c.ran + 1].refused = "within"
  <1>1. c.ran \in Nat /\ c.ran + 1 \in 1..c.ran + 1 /\ (c.ran + 1) - 1 = c.ran
    BY ShapeFields
  <1>2. w = Before(trail, c.ran + 1) /\ Numbered(trail, c.ran + 1) /\ Counted(c)
    BY <1>1 DEF Traced
  <1>3. IsSequence(w.evidence) /\ ToSet(w.evidence) \subseteq 1..c.ran
    BY <1>1, <1>2 DEF Numbered
  <1>4. c.ran + 1 \notin 1..c.ran
    BY <1>1
  <1> QED BY <1>2, <1>3, <1>4 DEF Counted

\* A step that counts lengthens the trail, and the snapshots or not.
LEMMA TrailGrows ==
    ASSUME NEW c, NEW d, NEW s, d = s.case, NEW w, NEW trail,
           CaseShape(c), CaseShape(d), Traced(c, trail, w), Advanced(s, c, w),
           SnapshotTaken(s, c, s.world) \/ SnapshotMissed(s, c)
    PROVE  \E other : Traced(d, other, s.world)
  <1> DEFINE n == c.ran
             new == s.world
             other == Append(trail, new)
  <1>1. /\ n \in Nat /\ c.ids \in Nat /\ d.ran = n + 1 /\ d.sequence = c.sequence
        /\ d.ids = c.ids + 1 /\ d.expectations = c.expectations
        /\ IsSequence(c.history) /\ Len(c.history) = n
        /\ IsSequence(c.snapshots) /\ Len(c.snapshots) \in Nat
        /\ IsSequence(trail) /\ Len(trail) = n
        /\ n + 1 \in 1..n + 1
    BY ShapeFields DEF Traced, Advanced, Kernel
  <1>2. /\ IsSequence(w.evidence) /\ ToSet(w.evidence) \subseteq 1..n /\ c.ids = n
        /\ w = Before(trail, n + 1)
    BY NextIsFree DEF Traced, Advanced
  <1> DEFINE out == Outcome(w, c.sequence[n + 1], n + 1)
  <1>3. /\ new = out.world /\ d.history = Append(c.history, out.result)
        /\ c.sequence[n + 1].refused \notin {"before", "within"}
    BY <1>2 DEF Advanced
  <1>4. /\ \A k \in 1..n : d.history[k] = c.history[k]
        /\ d.history[n + 1] = out.result
    <2> DEFINE x == out.result
               h == Append(c.history, x)
    <2>1. /\ \A k \in 1..Len(c.history) : h[k] = c.history[k]
          /\ h[Len(c.history) + 1] = x
      <3>1. IsSequence(c.history)
        BY <1>1
      <3> HIDE DEF x
      <3> QED BY <3>1, Appended
    <2>2. d.history = h
      BY <1>3
    <2> HIDE DEF h, x
    <2> QED BY <1>1, <2>1, <2>2 DEF x
  <1>5. /\ IsSequence(other) /\ Len(other) = n + 1
        /\ \A k \in 1..n : other[k] = trail[k]
        /\ other[n + 1] = new
    <2> HIDE DEF out, new
    <2> QED BY <1>1, Appended
  <1> HIDE DEF other
  <1>6. /\ \A k \in 1..n + 1 : Before(other, k) = Before(trail, k)
        /\ \A k \in 1..n + 1 : Numbered(other, k)
        /\ \A k \in 1..n : Explained(d, other, k)
    <2>1. /\ \A k \in 1..n + 1 : Numbered(trail, k)
          /\ \A k \in 1..n : Explained(c, trail, k)
      BY DEF Traced
    <2> QED BY <1>1, <1>4, <1>5, <2>1, AgreeingTrails
  <1>7. Explained(d, other, n + 1)
    <2>1. Before(other, n + 1) = w /\ other[n + 1] = out.world
      BY <1>1, <1>2, <1>3, <1>5, <1>6
    <2> QED BY <1>1, <1>3, <1>4, <2>1 DEF Explained
  <1>8. Before(other, d.ran + 1) = new
    BY <1>1, <1>5 DEF Before
  <1>9. Numbered(other, d.ran + 1)
    <2>1. new.evidence = Append(w.evidence, n + 1)
      BY <1>3, OutcomeEvidence
    <2>2. /\ IsSequence(Append(w.evidence, n + 1))
          /\ ToSet(Append(w.evidence, n + 1)) = ToSet(w.evidence) \cup {n + 1}
      BY <1>2, Appended
    <2>3. 1..(d.ran + 1) - 1 = 1..n \cup {n + 1}
      BY <1>1
    <2> HIDE DEF new, out
    <2> QED BY <1>2, <1>8, <2>1, <2>2, <2>3 DEF Numbered
  <1>10. Counted(d)
    BY <1>1, <1>2 DEF Counted
  <1>11. /\ \A i \in 1..Len(d.snapshots) : Pictured(d, other, i)
         /\ InOrder(d) /\ Complete(d)
    <2>1. /\ \A i \in 1..Len(c.snapshots) :
               /\ c.snapshots[i].step \in 1..n
               /\ c.snapshots[i] = Shown(c.snapshots[i].step, trail[c.snapshots[i].step])
          /\ InOrder(c) /\ Complete(c)
      BY DEF Traced, Pictured
    <2>2. \A i \in 1..Len(c.snapshots) :
            /\ c.snapshots[i].step \in 1..n + 1
            /\ c.snapshots[i] = Shown(c.snapshots[i].step, other[c.snapshots[i].step])
      <3> TAKE i \in 1..Len(c.snapshots)
      <3> DEFINE k == c.snapshots[i].step
      <3>1. k \in 1..n /\ c.snapshots[i] = Shown(k, trail[k])
        BY <2>1
      <3> HIDE DEF k
      <3>2. k \in 1..n + 1 /\ other[k] = trail[k]
        BY <1>1, <1>5, <3>1
      <3>3. k \in 1..n + 1 /\ c.snapshots[i] = Shown(k, other[k])
        BY <3>1, <3>2
      <3> QED BY <3>3 DEF k
    <2>3. CASE SnapshotMissed(s, c)
      <3>1. /\ d.snapshots = c.snapshots /\ d.missed \in BOOLEAN
            /\ c.missed => d.missed
            /\ d.missed \/ Unreadable(c)
        BY <2>3 DEF SnapshotMissed
      <3>2. Unreadable(c) => Unreadable(d)
        BY <1>1, <3>1 DEF Unreadable
      <3>3. \A i \in 1..Len(d.snapshots) : Pictured(d, other, i)
        BY <1>1, <2>2, <3>1 DEF Pictured
      <3>4. InOrder(d)
        BY <2>1, <3>1 DEF InOrder
      <3>5. Complete(d)
        BY <2>1, <3>1, <3>2 DEF Complete
      <3> QED BY <3>3, <3>4, <3>5
    <2>4. CASE SnapshotTaken(s, c, s.world)
      <3> DEFINE m == Len(c.snapshots)
                 x == Shown(n + 1, new)
      <3>1. d.snapshots = Append(c.snapshots, x) /\ d.missed = c.missed /\ ~Unreadable(c)
        BY <2>4 DEF SnapshotTaken
      <3>2. /\ Len(d.snapshots) = m + 1
            /\ \A i \in 1..m : d.snapshots[i] = c.snapshots[i]
            /\ d.snapshots[m + 1] = x
        <4> HIDE DEF x
        <4> QED BY <1>1, <3>1, Appended
      <3>3. x.step = n + 1 /\ x = Shown(n + 1, other[n + 1])
        BY <1>5 DEF Shown
      <3>4. \A i \in 1..m + 1 : i \in 1..m \/ i = m + 1
        BY <1>1
      <3> HIDE DEF x, new
      <3>5. \A i \in 1..Len(d.snapshots) : Pictured(d, other, i)
        BY <1>1, <2>2, <3>2, <3>3, <3>4 DEF Pictured
      <3>6. InOrder(d)
        <4>1. ASSUME NEW i \in 1..m + 1, NEW j \in 1..m + 1, i < j
              PROVE  d.snapshots[i].step < d.snapshots[j].step
          <5>1. i \in 1..m /\ d.snapshots[i] = c.snapshots[i]
                /\ c.snapshots[i].step \in 1..n
            BY <1>1, <2>1, <3>2, <4>1
          <5>2. CASE j \in 1..m
            BY <2>1, <3>2, <4>1, <5>1, <5>2 DEF InOrder
          <5>3. CASE j = m + 1
            <6>1. d.snapshots[j].step = n + 1
              BY <3>2, <3>3, <5>3
            <6>2. d.snapshots[i].step \in 1..n /\ n \in Nat
              BY <1>1, <5>1
            <6> HIDE DEF n
            <6> QED BY <6>1, <6>2
          <5> QED BY <3>4, <5>2, <5>3
        <4> QED BY <3>2, <4>1 DEF InOrder
      <3>7. Complete(d)
        <4>1. SUFFICES ASSUME ~d.missed
                       PROVE  /\ \A i \in 1..m + 1 : d.snapshots[i].step = i
                              /\ m + 1 = d.ran
          BY <3>2 DEF Complete
        <4>2. m = n /\ \A i \in 1..m : c.snapshots[i].step = i
          BY <2>1, <3>1, <4>1 DEF Complete
        <4> QED BY <1>1, <3>2, <3>3, <3>4, <4>2
      <3> QED BY <3>5, <3>6, <3>7
    <2> QED BY <2>3, <2>4
  <1>12. Traced(d, other, new)
    <2>1. \A k \in 1..d.ran : k \in 1..n \/ k = n + 1
      BY <1>1
    <2>2. \A k \in 1..d.ran + 1 : k \in 1..n + 1 \/ k = d.ran + 1
      BY <1>1
    <2> HIDE DEF new
    <2> QED BY <1>1, <1>5, <1>6, <1>7, <1>8, <1>9, <1>10, <1>11, <2>1, <2>2 DEF Traced
  <1> QED BY <1>12

\* A step, whatever becomes of it, leaves a case that stands.
LEMMA StepKeepsGood ==
    ASSUME NEW c, NEW w, GoodCase(c, w), c.ran < Len(c.sequence),
           NEW fault, NEW s, s = Step(c, w, fault)
    PROVE  /\ GoodCase(s.case, s.world) /\ Kernel(s.case) = Kernel(c)
           /\ s.raised \in BOOLEAN
           /\ ~s.raised => s.case.ran = c.ran + 1
  <1> DEFINE spec == c.sequence[c.ran + 1]
             d == s.case
  <1>1. /\ CaseRecord(c) /\ CaseShape(c) /\ Stands(c, w) /\ c.missed \in BOOLEAN
        /\ c.ran \in Nat /\ c.ids \in Nat /\ Len(c.sequence) \in Nat
    BY ShapeFields DEF GoodCase
  <1>2. /\ CaseRecord(d)
        /\ \/ Refused(s, c, w) \/ UsedUp(s, c, w) \/ Halved(s, c)
           \/ /\ Advanced(s, c, w)
              /\ SnapshotTaken(s, c, s.world) \/ SnapshotMissed(s, c)
    BY <1>1, StepEnds
  <1>3. CASE Refused(s, c, w)
    BY <1>3 DEF Refused
  <1>4. CASE UsedUp(s, c, w)
    <2>1. /\ Kernel(d) = Kernel(c) /\ Progress(d) = Progress(c)
          /\ d.partial = c.partial /\ d.ids \in Nat /\ s.world = w /\ s.raised = TRUE
          /\ spec.refused = "within" \/ c.ids + 1 \in ToSet(w.evidence)
      BY <1>1, <1>4 DEF UsedUp
    <2>2. /\ d.sequence = c.sequence /\ d.history = c.history
          /\ d.snapshots = c.snapshots /\ d.ran = c.ran /\ d.missed = c.missed
          /\ d.expectations = c.expectations
      BY <2>1 DEF Kernel, Progress
    <2>3. CaseShape(d)
      BY <1>1, <1>2, <2>1, <2>2 DEF CaseShape
    <2>4. ASSUME ~d.partial PROVE \E trail : Traced(d, trail, w)
      <3>1. PICK trail : Traced(c, trail, w)
        BY <1>1, <2>1, <2>4 DEF Stands
      <3>2. spec.refused = "within"
        BY <1>1, <2>1, <3>1, NextIsFree
      <3>3. Counted(d)
        BY <2>2, <3>2 DEF Counted
      <3>4. Traced(d, trail, w)
        BY <1>1, <2>1, <2>2, <3>1, <3>3, TrailKept
      <3> QED BY <3>4
    <2>5. Stands(d, s.world)
      BY <2>1, <2>4 DEF Stands
    <2> QED BY <2>1, <2>3, <2>5 DEF GoodCase
  <1>5. CASE Halved(s, c)
    <2>1. /\ Kernel(d) = Kernel(c) /\ Progress(d) = Progress(c)
          /\ d.partial = TRUE /\ d.ids \in Nat /\ s.raised = TRUE
      BY <1>1, <1>5 DEF Halved
    <2>2. /\ d.sequence = c.sequence /\ d.history = c.history
          /\ d.snapshots = c.snapshots /\ d.ran = c.ran /\ d.missed = c.missed
      BY <2>1 DEF Kernel, Progress
    <2>3. CaseShape(d)
      BY <1>1, <1>2, <2>1, <2>2 DEF CaseShape
    <2>4. Stands(d, s.world)
      BY <2>1 DEF Stands
    <2> QED BY <2>1, <2>3, <2>4 DEF GoodCase
  <1>6. CASE /\ Advanced(s, c, w)
             /\ SnapshotTaken(s, c, s.world) \/ SnapshotMissed(s, c)
    <2> DEFINE x == Outcome(w, spec, c.ids + 1).result
               y == Shown(c.ran + 1, s.world)
    <2>1. /\ Kernel(d) = Kernel(c) /\ d.history = Append(c.history, x)
          /\ d.ran = c.ran + 1 /\ d.ids = c.ids + 1 /\ d.partial = c.partial
      BY <1>6 DEF Advanced
    <2> HIDE DEF x
    <2>2. /\ \/ d.snapshots = Append(c.snapshots, y) /\ d.missed = c.missed
             \/ d.snapshots = c.snapshots /\ d.missed \in BOOLEAN
          /\ s.raised = FALSE \/ s.raised = TRUE
      BY <1>6 DEF SnapshotTaken, SnapshotMissed
    <2> HIDE DEF y
    <2>3. /\ d.sequence = c.sequence /\ IsSequence(c.history) /\ IsSequence(c.snapshots)
          /\ IsSequence(c.sequence) /\ c.ran = Len(c.history) /\ c.partial \in BOOLEAN
      BY <1>1, <2>1, ShapeFields DEF Kernel
    <2>4. IsSequence(d.history) /\ Len(d.history) = c.ran + 1
      BY <2>1, <2>3, Appended
    <2>5. IsSequence(d.snapshots)
      <3>1. IsSequence(Append(c.snapshots, y))
        BY <2>3, Appended
      <3> QED BY <2>2, <2>3, <3>1
    <2>6. d.missed \in BOOLEAN /\ d.partial \in BOOLEAN
      BY <1>1, <2>1, <2>2, <2>3, Zenon
    <2>7. CaseShape(d)
      <3>1. d.ran \in 0..Len(d.sequence) /\ d.ids \in Nat
        BY <1>1, <2>1, <2>3
      <3> QED BY <1>2, <2>1, <2>3, <2>4, <2>5, <2>6, <3>1 DEF CaseShape
    <2>8. ASSUME ~d.partial PROVE \E trail : Traced(d, trail, s.world)
      <3>1. PICK trail : Traced(c, trail, w)
        BY <1>1, <2>1, <2>8 DEF Stands
      <3> QED BY <1>1, <1>6, <2>7, <3>1, TrailGrows
    <2>9. Stands(d, s.world)
      BY <2>8 DEF Stands
    <2>10. s.raised \in BOOLEAN
      BY <2>2
    <2> QED BY <2>1, <2>7, <2>9, <2>10 DEF GoodCase
  <1> QED BY <1>2, <1>3, <1>4, <1>5, <1>6
----------------------------------------------------------------------------
(* All of a case, from the start: a chain of its steps.                     *)

Start(c, w) == [case |-> c, world |-> w, raised |-> FALSE]
Then(run, k, failing, fault) ==
    IF run.raised THEN run
    ELSE Step(run.case, run.world, IF k = failing THEN fault ELSE "none")

Chain(f, n, c, w, failing, fault) ==
    f = [k \in 0..n |-> IF k = 0 THEN Start(c, w)
                        ELSE Then(f[k - 1], k, failing, fault)]

LEMMA ChainLinks ==
    ASSUME NEW f, NEW n \in Nat, NEW c, NEW w, NEW failing, NEW fault,
           Chain(f, n, c, w, failing, fault)
    PROVE  /\ f[0] = Start(c, w)
           /\ \A k \in 0..n : k < n => f[k + 1] = Then(f[k], k + 1, failing, fault)
  <1> DEFINE link(k) == IF k = 0 THEN Start(c, w) ELSE Then(f[k - 1], k, failing, fault)
  <1>1. f = [k \in 0..n |-> link(k)]
    BY DEF Chain
  <1> HIDE DEF link
  <1>2. \A k \in 0..n : f[k] = link(k)
    BY <1>1
  <1>3. f[0] = Start(c, w)
    BY <1>2 DEF link
  <1>4. ASSUME NEW k \in 0..n, k < n PROVE f[k + 1] = Then(f[k], k + 1, failing, fault)
    <2>1. k + 1 \in 0..n /\ k + 1 # 0 /\ (k + 1) - 1 = k
      BY <1>4
    <2>2. f[k + 1] = link(k + 1)
      BY <1>2, <2>1
    <2> QED BY <2>1, <2>2 DEF link
  <1> QED BY <1>3, <1>4

\* There is a chain of any length: a recursive definition defines something.
LEMMA ChainExists ==
    ASSUME NEW c, NEW w, NEW failing, NEW fault
    PROVE  \A n \in Nat : \E f : Chain(f, n, c, w, failing, fault)
  <1> DEFINE S == {n \in Nat : \E f : Chain(f, n, c, w, failing, fault)}
  <1>1. 0 \in S
    <2> DEFINE f == [k \in 0..0 |-> Start(c, w)]
    <2>1. f = [k \in 0..0 |-> IF k = 0 THEN Start(c, w)
                              ELSE Then(f[k - 1], k, failing, fault)]
      OBVIOUS
    <2> HIDE DEF f
    <2>2. Chain(f, 0, c, w, failing, fault)
      BY <2>1 DEF Chain
    <2> QED BY <2>2
  <1>2. ASSUME NEW n \in Nat, n \in S PROVE n + 1 \in S
    <2>1. PICK f : Chain(f, n, c, w, failing, fault)
      BY <1>2
    <2> DEFINE g == [k \in 0..n + 1 |-> IF k = n + 1 THEN Then(f[n], n + 1, failing, fault)
                                        ELSE f[k]]
               link(h, k) == IF k = 0 THEN Start(c, w) ELSE Then(h[k - 1], k, failing, fault)
    <2>2. f = [k \in 0..n |-> link(f, k)]
      BY <2>1 DEF Chain
    <2>3. ASSUME NEW k \in 0..n + 1 PROVE g[k] = link(g, k)
      <3>1. CASE k = n + 1
        <4>1. k # 0 /\ k - 1 = n /\ n \in 0..n + 1 /\ n # n + 1
          BY <3>1
        <4>2. g[n] = f[n] /\ g[k] = Then(f[n], n + 1, failing, fault)
          BY <3>1, <4>1
        <4> QED BY <3>1, <4>1, <4>2
      <3>2. CASE k # n + 1
        <4>1. k \in 0..n /\ g[k] = f[k]
          BY <3>2
        <4>2. f[k] = link(f, k)
          <5> HIDE DEF link, g
          <5> QED BY <2>2, <4>1
        <4>3. CASE k = 0
          BY <4>1, <4>2, <4>3
        <4>4. CASE k # 0
          <5>1. k - 1 \in 0..n + 1 /\ k - 1 # n + 1
            BY <4>1, <4>4
          <5>2. g[k - 1] = f[k - 1]
            BY <5>1
          <5> QED BY <4>1, <4>2, <4>4, <5>2
        <4> QED BY <4>3, <4>4
      <3> QED BY <3>1, <3>2
    <2>4. g = [k \in 0..n + 1 |-> link(g, k)]
      <3>1. DOMAIN g = 0..n + 1 /\ g = [k \in 0..n + 1 |-> g[k]]
        OBVIOUS
      <3> HIDE DEF g, link
      <3> QED BY <2>3, <3>1
    <2> HIDE DEF g
    <2>5. Chain(g, n + 1, c, w, failing, fault)
      BY <2>4 DEF Chain
    <2> QED BY <2>5
  <1> HIDE DEF S
  <1>3. Nat \subseteq S
    BY <1>1, <1>2, SetInduction
  <1> QED BY <1>3 DEF S

LEMMA AllIsChain ==
    ASSUME NEW c, NEW w, NEW failing, NEW fault, Len(c.sequence) \in Nat
    PROVE  \E f : /\ Chain(f, Len(c.sequence), c, w, failing, fault)
                  /\ All(c, w, failing, fault) = f[Len(c.sequence)]
  <1> DEFINE n == Len(c.sequence)
             f == CHOOSE g : Chain(g, n, c, w, failing, fault)
  <1>1. Chain(f, n, c, w, failing, fault)
    BY ChainExists, Zenon
  <1>2. All(c, w, failing, fault) = f[n]
    BY Zenon DEF All, Chain, Start, Then
  <1> QED BY <1>1, <1>2

\* Running everything leaves a case that stands, whichever step raises.
LEMMA AllKeepsGood ==
    ASSUME NEW c, NEW w, GoodCase(c, w), c.ran = 0, NEW failing, NEW fault,
           NEW a, a = All(c, w, failing, fault)
    PROVE  GoodCase(a.case, a.world) /\ Kernel(a.case) = Kernel(c)
           /\ a.raised \in BOOLEAN
  <1> DEFINE n == Len(c.sequence)
  <1>1. n \in Nat
    BY ShapeFields DEF GoodCase
  <1>2. PICK f : Chain(f, n, c, w, failing, fault) /\ a = f[n]
    BY <1>1, AllIsChain
  <1>3. /\ f[0] = Start(c, w)
        /\ \A k \in 0..n : k < n => f[k + 1] = Then(f[k], k + 1, failing, fault)
    BY <1>1, <1>2, ChainLinks
  <1> DEFINE Fine(k) == /\ GoodCase(f[k].case, f[k].world)
                        /\ Kernel(f[k].case) = Kernel(c)
                        /\ f[k].raised \in BOOLEAN
                        /\ ~f[k].raised => f[k].case.ran = k
             S == {k \in Nat : k =< n => Fine(k)}
  <1>4. 0 \in S
    <2>1. f[0].case = c /\ f[0].world = w /\ f[0].raised = FALSE
      BY <1>3 DEF Start
    <2>2. GoodCase(f[0].case, f[0].world) /\ Kernel(f[0].case) = Kernel(c)
      BY <2>1
    <2>3. f[0].raised \in BOOLEAN
      BY <2>1
    <2>4. f[0].case.ran = 0
      BY <2>1
    <2> QED BY <2>2, <2>3, <2>4
  <1>5. ASSUME NEW k \in Nat, k \in S PROVE k + 1 \in S
    <2> SUFFICES ASSUME k + 1 =< n PROVE Fine(k + 1)
      OBVIOUS
    <2>1. Fine(k) /\ k < n /\ f[k + 1] = Then(f[k], k + 1, failing, fault)
      BY <1>1, <1>3, <1>5
    <2>2. CASE f[k].raised
      <3>1. f[k + 1] = f[k]
        BY <2>1, <2>2 DEF Then
      <3> QED BY <2>1, <2>2, <3>1
    <2>3. CASE ~f[k].raised
      <3> DEFINE d == f[k].case
                 s == f[k + 1]
                 x == IF k + 1 = failing THEN fault ELSE "none"
      <3>1. s = Step(d, f[k].world, x)
        BY <2>1, <2>3 DEF Then
      <3>2. d.ran = k /\ GoodCase(d, f[k].world) /\ Kernel(d) = Kernel(c)
        BY <2>1, <2>3
      <3>3. d.sequence = c.sequence /\ d.ran < Len(d.sequence)
        BY <2>1, <3>2 DEF Kernel
      <3>4. /\ GoodCase(s.case, s.world) /\ Kernel(s.case) = Kernel(d)
            /\ s.raised \in BOOLEAN
            /\ ~s.raised => s.case.ran = d.ran + 1
        <4> HIDE DEF d, s, x
        <4> QED BY <3>1, <3>2, <3>3, StepKeepsGood
      <3> QED BY <3>2, <3>4
    <2> QED BY <2>2, <2>3
  <1>6. n \in S
    <2> HIDE DEF S, n
    <2> QED BY <1>1, <1>4, <1>5, SetInduction
  <1>7. Fine(n)
    BY <1>1, <1>6
  <1> QED BY <1>2, <1>7

\* The snapshots of the first k steps, and the case after k of the steps of c on a
\* clean engine that expects nothing.
Pictures(trail, k) == [i \in 1..k |-> Shown(i, trail[i])]
Rerun(c, trail, k) ==
    [born |-> c.born, sequence |-> SubSeq(c.sequence, 1, c.ran),
     expectations |-> <<>>, noted |-> c.noted,
     history |-> SubSeq(c.history, 1, k), snapshots |-> Pictures(trail, k),
     ran |-> k, ids |-> k, exit |-> FALSE, partial |-> FALSE, missed |-> FALSE]

LEMMA PicturesGrow ==
    ASSUME NEW trail, NEW k \in Nat
    PROVE  /\ Pictures(trail, 0) = <<>>
           /\ Append(Pictures(trail, k), Shown(k + 1, trail[k + 1]))
                = Pictures(trail, k + 1)
  <1> DEFINE p == Pictures(trail, k)
             q == Pictures(trail, k + 1)
             x == Shown(k + 1, trail[k + 1])
  <1>1. /\ p = [i \in 1..k |-> p[i]] /\ q = [i \in 1..k + 1 |-> q[i]]
        /\ \A i \in 1..k : q[i] = p[i]
        /\ q[k + 1] = x
    BY DEF Pictures
  <1>2. p \in Seq(ToSet(p)) /\ Len(p) = k
    <2>1. \A i \in 1..k : p[i] \in ToSet(p)
      BY <1>1 DEF ToSet
    <2> HIDE DEF p
    <2> QED BY <1>1, <2>1
  <1> HIDE DEF p, q, x
  <1>3. IsSequence(p)
    BY <1>2 DEF IsSequence
  <1>4. /\ IsSequence(Append(p, x)) /\ Len(Append(p, x)) = k + 1
        /\ \A i \in 1..k : Append(p, x)[i] = p[i]
        /\ Append(p, x)[k + 1] = x
    BY <1>2, <1>3, Appended
  <1>5. Append(p, x) = [i \in 1..k + 1 |-> Append(p, x)[i]]
    <2> DEFINE a == Append(p, x)
    <2>1. IsSequence(a) /\ Len(a) = k + 1
      BY <1>4
    <2> HIDE DEF a
    <2>2. a = [i \in 1..k + 1 |-> a[i]]
      BY <2>1, Sequenced
    <2> QED BY <2>2 DEF a
  <1>6. \A i \in 1..k + 1 : Append(p, x)[i] = q[i]
    <2>1. \A i \in 1..k + 1 : i \in 1..k \/ i = k + 1
      OBVIOUS
    <2> QED BY <1>1, <1>4, <2>1
  <1>7. Append(p, x) = q
    BY <1>1, <1>5, <1>6
  <1>8. Pictures(trail, 0) = <<>>
    BY DEF Pictures
  <1> QED BY <1>7, <1>8 DEF p, q, x

LEMMA RerunBegins ==
    ASSUME NEW c, CaseShape(c), NEW trail
    PROVE  Rebuilt([Definition(c) EXCEPT !.sequence = SubSeq(@, 1, c.ran),
                                         !.expectations = <<>>], FALSE)
             = Rerun(c, trail, 0)
  <1> DEFINE d == [Definition(c) EXCEPT !.sequence = SubSeq(@, 1, c.ran),
                                        !.expectations = <<>>]
  <1>1. /\ d.born = c.born /\ d.expectations = <<>> /\ d.noted = c.noted
        /\ d.sequence = SubSeq(c.sequence, 1, c.ran)
    BY DEF Definition
  <1>2. SubSeq(c.history, 1, 0) = <<>> /\ Pictures(trail, 0) = <<>>
    BY SubSeqEmpty, PicturesGrow
  <1> HIDE DEF d
  <1>3. Rebuilt(d, FALSE) = Rerun(c, trail, 0)
    BY <1>1, <1>2 DEF Rebuilt, Rerun
  <1> QED BY <1>3 DEF d

LEMMA RerunAdvances ==
    ASSUME NEW c, NEW w, CaseShape(c), NEW trail, Traced(c, trail, w),
           NEW k \in Nat, k < c.ran,
           NEW s, s = Step(Rerun(c, trail, k), Before(trail, k + 1), "none")
    PROVE  /\ s.case = Rerun(c, trail, k + 1) /\ s.world = Before(trail, k + 2)
           /\ s.raised = FALSE
  <1> DEFINE d == Rerun(c, trail, k)
             v == Before(trail, k + 1)
             spec == d.sequence[d.ran + 1]
             out == Outcome(v, spec, d.ids + 1)
  <1>1. /\ c.ran \in Nat /\ c.ran =< Len(c.sequence)
        /\ IsSequence(c.sequence) /\ IsSequence(c.history)
        /\ c.ran = Len(c.history)
    BY ShapeFields
  <1>2. k + 1 \in 1..c.ran /\ k + 1 \in 1..c.ran + 1 /\ k + 1 \notin 1..k
    BY <1>1
  <1>3. Explained(c, trail, k + 1) /\ Numbered(trail, k + 1)
    BY <1>2 DEF Traced
  <1>4. /\ CaseRecord(d) /\ d.ids = k /\ d.ran = k /\ d.partial = FALSE
        /\ d.missed = FALSE /\ d.expectations = <<>>
    BY DEF Rerun, CaseRecord
  <1>5. spec = c.sequence[k + 1]
    <2>1. d.sequence = SubSeq(c.sequence, 1, c.ran)
      BY DEF Rerun
    <2>2. \A i \in 1..c.ran : SubSeq(c.sequence, 1, c.ran)[i] = c.sequence[i]
      BY <1>1, FirstOnes
    <2> QED BY <1>2, <1>4, <2>1, <2>2
  <1>6. /\ out = Outcome(v, c.sequence[k + 1], k + 1)
        /\ c.sequence[k + 1].refused \notin {"before", "within"}
        /\ c.history[k + 1] = out.result /\ trail[k + 1] = out.world
    BY <1>3, <1>4, <1>5 DEF Explained
  <1>7. d.ids + 1 \notin ToSet(v.evidence)
    <2>1. ToSet(v.evidence) \subseteq 1..k
      BY <1>3 DEF Numbered
    <2> QED BY <1>2, <1>4, <2>1
  <1>8. CaseRecord(s.case) /\ Advanced(s, d, v) /\ SnapshotTaken(s, d, s.world)
    <2>1. spec.refused \notin {"before", "within"}
      BY <1>5, <1>6
    <2>2. s = Step(d, v, "none")
      OBVIOUS
    <2>3. d.missed \in BOOLEAN /\ ~Unreadable(d)
      <3> HIDE DEF d
      <3>1. d.missed \in BOOLEAN
        BY <1>4
      <3>2. DOMAIN d.expectations = {}
        BY <1>4
      <3> QED BY <3>1, <3>2 DEF Unreadable
    <2> HIDE DEF d, v
    <2> QED BY <1>4, <1>7, <2>1, <2>2, <2>3, StepEnds
  <1>9. /\ Kernel(s.case) = Kernel(d)
        /\ s.case.history = Append(d.history, c.history[k + 1])
        /\ s.case.snapshots = Append(d.snapshots, Shown(k + 1, trail[k + 1]))
        /\ s.case.ran = k + 1 /\ s.case.ids = k + 1 /\ s.case.partial = FALSE
        /\ s.case.missed = FALSE
        /\ s.world = trail[k + 1] /\ s.raised = FALSE
    <2> HIDE DEF d, v
    <2> QED BY <1>4, <1>6, <1>8 DEF Advanced, SnapshotTaken
  <1>10. /\ Append(d.history, c.history[k + 1]) = SubSeq(c.history, 1, k + 1)
         /\ Append(d.snapshots, Shown(k + 1, trail[k + 1])) = Pictures(trail, k + 1)
    <2>1. /\ d.history = SubSeq(c.history, 1, k)
          /\ d.snapshots = Pictures(trail, k)
      BY DEF Rerun
    <2>2. k \in 0..Len(c.history)
      BY <1>1
    <2> HIDE DEF d
    <2>3. Append(d.snapshots, Shown(k + 1, trail[k + 1])) = Pictures(trail, k + 1)
      BY <2>1, PicturesGrow
    <2>4. k < Len(c.history)
      BY <1>1
    <2>5. Append(SubSeq(c.history, 1, k), c.history[k + 1]) = SubSeq(c.history, 1, k + 1)
      BY <1>1, <2>2, <2>4, FirstOnes
    <2> QED BY <2>1, <2>3, <2>5
  <1>11. s.case = Rerun(c, trail, k + 1)
    <2>1. /\ s.case.born = c.born /\ s.case.sequence = SubSeq(c.sequence, 1, c.ran)
          /\ s.case.expectations = <<>> /\ s.case.noted = c.noted
          /\ s.case.exit = FALSE
      BY <1>9 DEF Kernel, Rerun
    <2> HIDE DEF d
    <2> QED BY <1>8, <1>9, <1>10, <2>1 DEF CaseRecord, Rerun
  <1>12. Before(trail, k + 2) = trail[k + 1]
    BY DEF Before
  <1> QED BY <1>9, <1>11, <1>12

\* A case that stands and is not spoilt is what rerunning its steps gives.
LEMMA ReplayGivesTheCase ==
    ASSUME NEW c, NEW w, CaseShape(c), NEW trail, Traced(c, trail, w)
    PROVE  /\ Replayed(c).case.history = c.history
           /\ Replayed(c).case.snapshots = Pictures(trail, c.ran)
           /\ Replayed(c).world = w
  <1> DEFINE d == Rerun(c, trail, 0)
             n == c.ran
  <1>1. /\ n \in Nat /\ n =< Len(c.sequence)
        /\ IsSequence(c.sequence) /\ IsSequence(c.history) /\ n = Len(c.history)
    BY ShapeFields
  <1>2. Replayed(c) = All(d, EmptyWorld, 0, "none")
    BY RerunBegins DEF Replayed
  <1>3. Len(d.sequence) = n
    <2>1. d.sequence = SubSeq(c.sequence, 1, n)
      BY DEF Rerun
    <2> QED BY <1>1, <2>1, FirstOnes
  <1>4. PICK f : Chain(f, n, d, EmptyWorld, 0, "none") /\ Replayed(c) = f[n]
    <2> HIDE DEF d
    <2> QED BY <1>1, <1>2, <1>3, AllIsChain
  <1>5. /\ f[0] = Start(d, EmptyWorld)
        /\ \A k \in 0..n : k < n => f[k + 1] = Then(f[k], k + 1, 0, "none")
    <2> HIDE DEF d
    <2> QED BY <1>1, <1>4, ChainLinks
  <1> DEFINE Same(k) == /\ f[k].case = Rerun(c, trail, k)
                        /\ f[k].world = Before(trail, k + 1)
                        /\ f[k].raised = FALSE
             S == {k \in Nat : k =< n => Same(k)}
  <1>6. 0 \in S
    BY <1>5 DEF Start, Before
  <1>7. ASSUME NEW k \in Nat, k \in S PROVE k + 1 \in S
    <2> SUFFICES ASSUME k + 1 =< n PROVE Same(k + 1)
      <3> HIDE DEF Same
      <3> QED OBVIOUS
    <2>1. Same(k) /\ k < n /\ f[k + 1] = Then(f[k], k + 1, 0, "none") /\ (k + 1) + 1 = k + 2
      BY <1>1, <1>5, <1>7
    <2>2. f[k + 1] = Step(Rerun(c, trail, k), Before(trail, k + 1), "none")
      BY <2>1 DEF Then
    <2>3. /\ f[k + 1].case = Rerun(c, trail, k + 1) /\ f[k + 1].world = Before(trail, k + 2)
          /\ f[k + 1].raised = FALSE
      <3> DEFINE s == f[k + 1]
      <3>1. s = Step(Rerun(c, trail, k), Before(trail, k + 1), "none") /\ k < c.ran
        BY <2>1, <2>2
      <3> HIDE DEF s
      <3>2. /\ s.case = Rerun(c, trail, k + 1) /\ s.world = Before(trail, k + 2)
            /\ s.raised = FALSE
        BY <3>1, RerunAdvances
      <3> QED BY <3>2 DEF s
    <2> QED BY <2>1, <2>3
  <1>8. n \in S
    <2> HIDE DEF S, n
    <2> QED BY <1>1, <1>6, <1>7, SetInduction
  <1>9. Replayed(c).case = Rerun(c, trail, n) /\ Replayed(c).world = Before(trail, n + 1)
    BY <1>1, <1>4, <1>8
  <1>10. /\ Rerun(c, trail, n).history = SubSeq(c.history, 1, n)
         /\ Rerun(c, trail, n).snapshots = Pictures(trail, n)
    BY DEF Rerun
  <1>11. SubSeq(c.history, 1, n) = c.history
    <2>1. n \in 0..Len(c.history)
      BY <1>1
    <2> QED BY <1>1, <2>1, FirstOnes
  <1>12. w = Before(trail, n + 1)
    BY DEF Traced
  <1> QED BY <1>9, <1>10, <1>11, <1>12

\* ... and its snapshots are of the steps they name.
LEMMA SnapshotsAreOfTheReplay ==
    ASSUME NEW c, NEW w, CaseShape(c), NEW trail, Traced(c, trail, w)
    PROVE  SnapshotsShow(c, Pictures(trail, c.ran))
  <1> DEFINE all == Pictures(trail, c.ran)
  <1>1. DOMAIN all = 1..c.ran /\ \A k \in 1..c.ran : all[k] = Shown(k, trail[k])
    BY DEF Pictures
  <1>2. DOMAIN c.snapshots = 1..Len(c.snapshots)
    BY ShapeFields, Sequenced
  <1> HIDE DEF all
  <1>3. /\ \A i \in 1..Len(c.snapshots) : Pictured(c, trail, i)
        /\ InOrder(c) /\ Complete(c)
    BY DEF Traced
  <1>4. SnapshotsShow(c, all)
    BY <1>1, <1>2, <1>3 DEF SnapshotsShow, Pictured, InOrder, Complete
  <1> QED BY <1>4 DEF all
----------------------------------------------------------------------------
(* Edits of a case and of the manager.                                      *)

\* More evidence at the end, a note or a verdict: what has run is untouched.
LEMMA EditedCaseStands ==
    ASSUME NEW c, NEW w, GoodCase(c, w), NEW d, CaseRecord(d),
           Progress(d) = Progress(c), d.ids = c.ids, d.partial = c.partial,
           d.expectations = c.expectations, IsSequence(d.sequence),
           Len(c.sequence) =< Len(d.sequence),
           \A k \in 1..Len(c.sequence) : d.sequence[k] = c.sequence[k]
    PROVE  GoodCase(d, w)
  <1>1. /\ CaseShape(c) /\ Stands(c, w)
        /\ c.ran \in Nat /\ c.ran =< Len(c.sequence) /\ Len(c.sequence) \in Nat
        /\ c.partial \in BOOLEAN
    BY ShapeFields DEF GoodCase
  <1>2. /\ d.history = c.history /\ d.snapshots = c.snapshots /\ d.ran = c.ran
        /\ d.missed = c.missed /\ Len(d.sequence) \in Nat
    BY Sequenced DEF Progress
  <1>3. CaseShape(d)
    <2>1. d.ran \in 0..Len(d.sequence)
      BY <1>1, <1>2
    <2> QED BY <1>1, <1>2, <2>1 DEF CaseShape
  <1>4. ASSUME ~d.partial PROVE \E trail : Traced(d, trail, w)
    <2>1. PICK trail : Traced(c, trail, w)
      BY <1>1, <1>4 DEF Stands
    <2>2. Counted(d)
      <3>1. CASE c.ids = c.ran
        BY <1>2, <3>1 DEF Counted
      <3>2. CASE c.ids # c.ran
        <4>1. c.ran < Len(c.sequence) /\ c.sequence[c.ran + 1].refused = "within"
          BY <2>1, <3>2 DEF Traced, Counted
        <4>2. c.ran < Len(d.sequence) /\ d.sequence[c.ran + 1] = c.sequence[c.ran + 1]
          BY <1>1, <1>2, <4>1
        <4> QED BY <1>2, <4>1, <4>2 DEF Counted
      <3> QED BY <3>1, <3>2
    <2>3. \A k \in 1..c.ran : d.sequence[k] = c.sequence[k]
      BY <1>1
    <2>4. Traced(d, trail, w)
      BY <1>1, <2>1, <2>2, <2>3, TrailKept
    <2> QED BY <2>4
  <1>5. Stands(d, w)
    BY <1>4 DEF Stands
  <1> QED BY <1>3, <1>5 DEF GoodCase

LEMMA LongerCaseStands ==
    ASSUME NEW c, NEW w, GoodCase(c, w), NEW spec
    PROVE  /\ GoodCase([c EXCEPT !.sequence = Append(@, spec)], w)
           /\ [c EXCEPT !.sequence = Append(@, spec)].born = c.born
  <1> DEFINE d == [c EXCEPT !.sequence = Append(@, spec)]
  <1>1. CaseRecord(c) /\ IsSequence(c.sequence) /\ Len(c.sequence) \in Nat
    BY ShapeFields DEF GoodCase
  <1>2. /\ CaseRecord(d) /\ Progress(d) = Progress(c) /\ d.ids = c.ids
        /\ d.partial = c.partial /\ d.born = c.born
        /\ d.expectations = c.expectations
        /\ d.sequence = Append(c.sequence, spec)
    <2> DEFINE q == Append(c.sequence, spec)
    <2>1. d = [c EXCEPT !.sequence = q]
      OBVIOUS
    <2> HIDE DEF d, q
    <2>2. CaseRecord(d) /\ d.sequence = q
      BY <1>1, <2>1 DEF CaseRecord
    <2>3. d.history = c.history /\ d.snapshots = c.snapshots
      BY <1>1, <2>1 DEF CaseRecord
    <2>4. d.ran = c.ran /\ d.missed = c.missed /\ d.ids = c.ids
      BY <1>1, <2>1 DEF CaseRecord
    <2>5. d.partial = c.partial /\ d.born = c.born /\ d.expectations = c.expectations
      BY <1>1, <2>1 DEF CaseRecord
    <2>6. Progress(d) = Progress(c)
      BY <2>3, <2>4, Zenon DEF Progress
    <2> QED BY <2>2, <2>4, <2>5, <2>6 DEF q
  <1>3. /\ IsSequence(d.sequence) /\ Len(d.sequence) = Len(c.sequence) + 1
        /\ \A k \in 1..Len(c.sequence) : d.sequence[k] = c.sequence[k]
    <2> HIDE DEF d
    <2> QED BY <1>1, <1>2, Appended
  <1>4. Len(c.sequence) =< Len(d.sequence)
    BY <1>1, <1>3
  <1> HIDE DEF d
  <1>5. GoodCase(d, w) /\ d.born = c.born
    BY <1>2, <1>3, <1>4, EditedCaseStands
  <1> QED BY <1>5 DEF d

LEMMA MarkedCaseStands ==
    ASSUME NEW c, NEW w, GoodCase(c, w)
    PROVE  /\ GoodCase([c EXCEPT !.noted = TRUE], w)
           /\ GoodCase([c EXCEPT !.exit = TRUE], w)
           /\ [c EXCEPT !.noted = TRUE].born = c.born
           /\ [c EXCEPT !.exit = TRUE].born = c.born
  <1>1. CaseRecord(c) /\ IsSequence(c.sequence) /\ Len(c.sequence) \in Nat
    BY ShapeFields DEF GoodCase
  <1>2. ASSUME NEW d, d = [c EXCEPT !.noted = TRUE] \/ d = [c EXCEPT !.exit = TRUE]
        PROVE  GoodCase(d, w) /\ d.born = c.born
    <2>1. /\ CaseRecord(d) /\ Progress(d) = Progress(c) /\ d.ids = c.ids
          /\ d.partial = c.partial /\ d.born = c.born /\ d.sequence = c.sequence
          /\ d.expectations = c.expectations
      BY <1>1, <1>2 DEF CaseRecord, Progress
    <2>2. Len(c.sequence) =< Len(d.sequence)
      BY <1>1, <2>1
    <2> QED BY <1>1, <2>1, <2>2, EditedCaseStands
  <1> QED BY <1>2

\* Manager m over worlds ws is as it should be.
GoodManager(m, ws) ==
    /\ m = [cases |-> m.cases, counter |-> m.counter, current |-> m.current]
    /\ m.cases = [id \in DOMAIN m.cases |-> m.cases[id]]
    /\ m.counter \in Nat /\ DOMAIN m.cases \subseteq 1..m.counter
    /\ m.current \in DOMAIN m.cases
    /\ ws = [id \in DOMAIN ws |-> ws[id]] /\ DOMAIN m.cases \subseteq DOMAIN ws
    /\ \A id \in DOMAIN m.cases : GoodCase(m.cases[id], ws[id])

\* It has every case there was, by the same birth.
Retains(m) ==
    \A id \in Cases : id \in DOMAIN m.cases /\ m.cases[id].born = mem.cases[id].born

LEMMA UpIsGood ==
    ASSUME ReviewInv, up = "up"
    PROVE  GoodManager(mem, worlds) /\ Retains(mem) /\ mem.current \in Cases
           /\ GoodCase(Current, worlds[mem.current])
  <1>1. mem.current \in Cases
    BY DEF ReviewInv, Shapes
  <1> QED BY <1>1 DEF ReviewInv, Shapes, Standing, GoodManager, Retains, Cases, Current

\* A case of its own put in the place of the current one.
LEMMA EditIsGood ==
    ASSUME ReviewInv, up = "up", NEW c, NEW w, GoodCase(c, w), c.born = Current.born
    PROVE  /\ GoodManager(Edit(c), [worlds EXCEPT ![mem.current] = w])
           /\ w = worlds[mem.current] => GoodManager(Edit(c), worlds)
           /\ Retains(Edit(c))
  <1> DEFINE cur == mem.current
             m == Edit(c)
             ws == [worlds EXCEPT ![cur] = w]
  <1>1. /\ GoodManager(mem, worlds) /\ cur \in Cases /\ Cases = DOMAIN mem.cases
    BY UpIsGood DEF Cases
  <1>2. /\ m = [cases |-> [mem.cases EXCEPT ![cur] = c], counter |-> mem.counter,
                current |-> cur]
    BY <1>1 DEF Edit, GoodManager
  <1>3. /\ m.cases = [mem.cases EXCEPT ![cur] = c] /\ m.counter = mem.counter
        /\ m.current = cur
        /\ m = [cases |-> m.cases, counter |-> m.counter, current |-> m.current]
    BY <1>2
  <1> HIDE DEF m
  <1>4. /\ DOMAIN m.cases = Cases /\ m.cases[cur] = c
        /\ m.cases = [id \in DOMAIN m.cases |-> m.cases[id]]
        /\ \A id \in Cases : id # cur => m.cases[id] = mem.cases[id]
    BY <1>1, <1>3 DEF GoodManager
  <1>5. Retains(m)
    BY <1>1, <1>4 DEF Retains, Current
  <1>6. /\ DOMAIN ws = DOMAIN worlds /\ ws[cur] = w
        /\ ws = [id \in DOMAIN ws |-> ws[id]]
        /\ \A id \in DOMAIN worlds : id # cur => ws[id] = worlds[id]
    BY <1>1 DEF GoodManager
  <1> HIDE DEF ws
  <1>7. /\ mem.counter \in Nat /\ Cases \subseteq 1..mem.counter
        /\ Cases \subseteq DOMAIN worlds
        /\ worlds = [id \in DOMAIN worlds |-> worlds[id]]
        /\ \A id \in Cases : GoodCase(mem.cases[id], worlds[id])
    BY <1>1 DEF GoodManager
  <1>8. GoodManager(m, ws)
    <2>1. \A id \in Cases : GoodCase(m.cases[id], ws[id])
      BY <1>4, <1>6, <1>7
    <2> QED BY <1>1, <1>3, <1>4, <1>6, <1>7, <2>1 DEF GoodManager
  <1>9. ASSUME w = worlds[cur] PROVE GoodManager(m, worlds)
    <2>1. \A id \in Cases : GoodCase(m.cases[id], worlds[id])
      BY <1>4, <1>7, <1>9
    <2> QED BY <1>1, <1>3, <1>4, <1>7, <2>1 DEF GoodManager
  <1> QED BY <1>5, <1>8, <1>9 DEF m, ws

\* A definition becomes a case under an id nobody has.
LEMMA RegisterIsGood ==
    ASSUME ReviewInv, up = "up", NEW d, IsSequence(d.sequence),
           NEW e, e = [d EXCEPT !.born = <<spent.crashes, NextId>>]
    PROVE  /\ GoodManager(Register(d), With(worlds, NextId, BuiltWorld(NextId)))
           /\ Retains(Register(d))
  <1> DEFINE new == Rebuilt(e, FALSE)
             m == Register(d)
             ws == With(worlds, NextId, BuiltWorld(NextId))
  <1>1. /\ mem.counter \in Nat /\ Cases \subseteq 1..mem.counter
        /\ Cases = DOMAIN mem.cases /\ Cases \subseteq DOMAIN worlds
        /\ \A id \in Cases : GoodCase(mem.cases[id], worlds[id])
    BY UpIsGood DEF GoodManager, Cases
  <1>2. NextId \in Nat /\ NextId = mem.counter + 1 /\ NextId \notin Cases
    BY <1>1 DEF NextId
  <1>3. GoodCase(new, EmptyWorld)
    <2>1. e.sequence = d.sequence
      OBVIOUS
    <2> QED BY <2>1, RebuiltIsGood
  <1>4. m = [cases |-> With(mem.cases, NextId, new), counter |-> NextId,
             current |-> NextId]
    BY DEF Register
  <1> HIDE DEF new
  <1>5. /\ m.cases = With(mem.cases, NextId, new) /\ m.counter = NextId
        /\ m.current = NextId
        /\ m = [cases |-> m.cases, counter |-> m.counter, current |-> m.current]
    BY <1>4
  <1> HIDE DEF m
  <1>6. /\ DOMAIN m.cases = Cases \cup {NextId} /\ m.cases[NextId] = new
        /\ m.cases = [id \in DOMAIN m.cases |-> m.cases[id]]
        /\ \A id \in Cases : m.cases[id] = mem.cases[id]
    BY <1>1, <1>2, <1>5 DEF With
  <1>7. /\ DOMAIN ws = DOMAIN worlds \cup {NextId} /\ ws[NextId] = EmptyWorld
        /\ ws = [id \in DOMAIN ws |-> ws[id]]
        /\ \A id \in Cases : ws[id] = worlds[id]
    BY <1>1, <1>2 DEF With, BuiltWorld
  <1> HIDE DEF ws
  <1>8. \A id \in DOMAIN m.cases : GoodCase(m.cases[id], ws[id])
    BY <1>1, <1>3, <1>6, <1>7
  <1>9. DOMAIN m.cases \subseteq 1..m.counter /\ DOMAIN m.cases \subseteq DOMAIN ws
    BY <1>1, <1>2, <1>5, <1>6, <1>7
  <1>10. GoodManager(m, ws)
    BY <1>2, <1>5, <1>6, <1>7, <1>8, <1>9 DEF GoodManager
  <1>11. Retains(m)
    BY <1>6 DEF Retains
  <1> QED BY <1>10, <1>11 DEF m, ws

LEMMA SelectIsGood ==
    ASSUME ReviewInv, up = "up", NEW id \in Cases
    PROVE  /\ GoodManager([mem EXCEPT !.current = id], worlds)
           /\ Retains([mem EXCEPT !.current = id])
  <1> DEFINE m == [mem EXCEPT !.current = id]
  <1>1. GoodManager(mem, worlds) /\ Retains(mem) /\ Cases = DOMAIN mem.cases
    BY UpIsGood DEF Cases
  <1>2. /\ m.cases = mem.cases /\ m.counter = mem.counter /\ m.current = id
        /\ m = [cases |-> m.cases, counter |-> m.counter, current |-> m.current]
    BY <1>1 DEF GoodManager
  <1> HIDE DEF m
  <1>3. GoodManager(m, worlds) /\ Retains(m)
    BY <1>1, <1>2 DEF GoodManager, Retains
  <1> QED BY <1>3 DEF m

LEMMA CountingIsGood ==
    ASSUME ReviewInv, up = "up", NEW n \in {mem.counter, NextId}
    PROVE  /\ GoodManager([mem EXCEPT !.counter = n], worlds)
           /\ Retains([mem EXCEPT !.counter = n])
  <1> DEFINE m == [mem EXCEPT !.counter = n]
  <1>1. GoodManager(mem, worlds) /\ Retains(mem) /\ Cases = DOMAIN mem.cases
    BY UpIsGood DEF Cases
  <1>2. /\ m.cases = mem.cases /\ m.counter = n /\ m.current = mem.current
        /\ m = [cases |-> m.cases, counter |-> m.counter, current |-> m.current]
    BY <1>1 DEF GoodManager
  <1> HIDE DEF m
  <1>3. mem.counter \in Nat /\ n \in Nat /\ mem.counter =< n
    BY <1>1 DEF GoodManager, NextId
  <1>4. Cases \subseteq 1..n
    BY <1>1, <1>3 DEF GoodManager
  <1>5. GoodManager(m, worlds) /\ Retains(m)
    BY <1>1, <1>2, <1>3, <1>4 DEF GoodManager, Retains
  <1> QED BY <1>5 DEF m

\* What is made of the saved definitions at start-up.
LEMMA LoadingIsGood ==
    ASSUME ReviewInv, NEW ids \in SUBSET DOMAIN files, ids # {}
    PROVE  /\ Manager(ids) = [cases |-> [id \in ids |->
                                           Rebuilt(files[id].definition, FALSE)],
                              counter |-> CounterAfter(ids),
                              current |-> LastByName(ids)]
           /\ CounterAfter(ids) \in Nat /\ ids \subseteq 1..CounterAfter(ids)
           /\ LastByName(ids) \in ids
  <1>1. ids \in SUBSET Nat /\ IsFiniteSet(ids) /\ \A id \in ids : id \in Nat \ {0}
    BY FS_Subset DEF ReviewInv, Files
  <1>2. /\ CounterAfter(ids) \in ids
        /\ \A id \in ids : id =< CounterAfter(ids)
    <2>1. \E n \in ids : \A m \in ids : m =< n
      BY <1>1, GreatestOfFinite
    <2> QED BY <2>1 DEF CounterAfter
  <1>3. LastByName(ids) \in ids
    <2> DEFINE names == {NameOrder(id) : id \in ids}
    <2>1. \A id \in Nat : NameOrder(id) \in Nat
      BY DEF NameOrder
    <2>2. names \in SUBSET Nat /\ names # {}
      BY <1>1, <2>1
    <2>3. IsFiniteSet(names)
      <3> DEFINE f == [id \in ids |-> NameOrder(id)]
      <3>1. f \in [ids -> names] /\ \A n \in names : \E id \in ids : f[id] = n
        OBVIOUS
      <3> HIDE DEF f, names
      <3>2. f \in Surjection(ids, names)
        BY <3>1 DEF Surjection
      <3> QED BY <1>1, <3>2, FS_Surjection DEF ExistsSurjection
    <2>4. PICK n \in names : \A m \in names : m =< n
      <3> HIDE DEF names
      <3> QED BY <2>2, <2>3, GreatestOfFinite
    <2>5. \E id \in ids : \A other \in ids : NameOrder(other) =< NameOrder(id)
      BY <2>4
    <2> QED BY <2>5 DEF LastByName
  <1>4. CounterAfter(ids) \in Nat /\ ids \subseteq 1..CounterAfter(ids)
    BY <1>1, <1>2
  <1> QED BY <1>3, <1>4 DEF Manager
----------------------------------------------------------------------------
(* The process: every action keeps the invariant.                           *)

\* Whoever is past the lock is alone there, and the process is up.
LEMMA HolderIsAlone ==
    ASSUME ReviewInv, NEW t \in Clients, pc[t] \in Holding
    PROVE  /\ up = "up" /\ lock = t
           /\ \A u \in Clients : u # t => pc[u] \notin Holding
  BY DEF ReviewInv, Locks, Holding

\* The files are as good as they were, and of the same cases.
SavedAsBefore ==
    /\ Files'
    /\ \A id \in DOMAIN files' :
         /\ id \in DOMAIN files
         /\ files'[id].definition.born = files[id].definition.born

LEMMA UntouchedFiles == ReviewInv /\ UNCHANGED files => SavedAsBefore
  BY DEF ReviewInv, Files, SavedAsBefore

\* An operation ends, with its response or an error.
LEMMA EndingKeepsInv ==
    ASSUME ReviewInv, NEW t \in Clients, pc[t] \in Holding, NEW m, NEW ws,
           GoodManager(m, ws), Retains(m), SavedAsBefore,
           Done(t, m, ws) \/ Answered(t, m, ws) \/ Raised(t, m, ws)
    PROVE  ReviewInv'
  <1>1. /\ up = "up" /\ lock = t
        /\ \A u \in Clients : u # t => pc[u] \notin Holding
    BY HolderIsAlone
  <1>2. mem' = m /\ worlds' = ws /\ config' = config /\ up' = up
    BY DEF Done, Answered, Raised
  <1>3. /\ pc = [u \in Clients |-> pc[u]] /\ reply = [u \in Clients |-> reply[u]]
        /\ applied = [u \in Clients |-> applied[u]]
    BY DEF ReviewInv, Shapes
  <1>4. /\ pc' = [u \in Clients |-> pc'[u]]
        /\ reply' = [u \in Clients |-> reply'[u]]
        /\ applied' = [u \in Clients |-> applied'[u]]
        /\ \A u \in Clients : u # t => pc'[u] = pc[u]
    BY <1>3 DEF Done, Answered, Raised
  <1>5. \/ pc'[t] = "applied" /\ applied'[t] = State(m, ws) /\ lock' = t
        \/ pc'[t] = "responding" /\ reply'[t] = applied'[t] /\ lock' = t
        \/ pc'[t] = "error"
    BY <1>1, <1>3 DEF Done, Answered, Raised
  <1>6. Shapes'
    BY <1>2, <1>3, <1>4 DEF GoodManager, Shapes, Cases
  <1>7. Standing'
    BY <1>2 DEF GoodManager, Standing, Cases
  <1>8. Locks'
    BY <1>1, <1>2, <1>4, <1>5 DEF Locks, Holding
  <1>9. Replies'
    BY <1>1, <1>2, <1>4, <1>5 DEF Replies, Holding
  <1>10. Filed'
    <2>1. SUFFICES ASSUME config.writable, NEW id \in DOMAIN files'
                   PROVE  id \in Cases' /\ mem'.cases[id].born = files'[id].definition.born
      BY <1>2 DEF Filed
    <2>2. id \in Cases /\ mem.cases[id].born = files[id].definition.born
      BY <1>1, <2>1 DEF ReviewInv, Filed, SavedAsBefore
    <2> QED BY <1>2, <2>1, <2>2 DEF Retains, SavedAsBefore, Cases
  <1> QED BY <1>6, <1>7, <1>8, <1>9, <1>10 DEF ReviewInv, SavedAsBefore

\* Every definition the harness is given or makes has a sequence.
LEMMA DefinitionsHaveSequences ==
    ASSUME ReviewInv, up = "up"
    PROVE  /\ IsSequence(Definition(Current).sequence)
           /\ IsSequence(Blank.sequence) /\ IsSequence(Sample.sequence)
           /\ IsSequence(Imported.sequence)
  <1>1. IsSequence(Current.sequence)
    BY UpIsGood, ShapeFields DEF GoodCase
  <1>2. Definition(Current).sequence = Current.sequence
    BY DEF Definition
  <1>3. IsSequence(Sample.sequence) /\ IsSequence(Imported.sequence)
    BY HarnessAssumption DEF IsSequence
  <1>4. Blank.sequence = <<>>
    BY DEF Blank
  <1> QED BY <1>1, <1>2, <1>3, <1>4, EmptySequence

LEMMA RunningKeepsInv ==
    ASSUME ReviewInv, NEW t \in Clients, Locked(t), NEW run, NEW fault,
           GoodCase(run.case, run.world), run.case.born = Current.born,
           Ran(t, run, fault)
    PROVE  ReviewInv'
  <1>1. pc[t] \in Holding /\ up = "up"
    BY HolderIsAlone DEF Locked, Holding
  <1>2. /\ GoodManager(Edit(run.case), [worlds EXCEPT ![mem.current] = run.world])
        /\ Retains(Edit(run.case))
    BY <1>1, EditIsGood
  <1>3. /\ \/ Done(t, Edit(run.case), [worlds EXCEPT ![mem.current] = run.world])
           \/ Raised(t, Edit(run.case), [worlds EXCEPT ![mem.current] = run.world])
        /\ UNCHANGED files
    BY DEF Ran
  <1> QED BY <1>1, <1>2, <1>3, UntouchedFiles, EndingKeepsInv

LEMMA CaseOperationKeepsInv ==
    ASSUME ReviewInv, NEW t \in Clients,
           \/ AddEvidence(t) \/ RunNext(t) \/ RunAll(t) \/ Reset(t)
           \/ Annotate(t) \/ ExitTest(t) \/ Review(t)
    PROVE  ReviewInv'
  <1> DEFINE cur == mem.current
  <1>1. Locked(t)
    BY DEF AddEvidence, RunNext, RunAll, Reset, Annotate, ExitTest, Review
  <1>2. pc[t] \in Holding /\ up = "up"
    BY <1>1, HolderIsAlone DEF Locked, Holding
  <1>3. /\ GoodManager(mem, worlds) /\ Retains(mem) /\ cur \in Cases
        /\ GoodCase(Current, worlds[cur])
    BY <1>2, UpIsGood
  <1>4. IsSequence(Definition(Current).sequence) /\ Definition(Current).born = Current.born
    BY <1>2, DefinitionsHaveSequences DEF Definition
  <1>5. CASE AddEvidence(t)
    <2>1. PICK spec \in Evidence :
            Done(t, Edit([Current EXCEPT !.sequence = Append(@, spec)]), worlds)
      BY <1>5 DEF AddEvidence
    <2> DEFINE c == [Current EXCEPT !.sequence = Append(@, spec)]
    <2>2. GoodCase(c, worlds[cur]) /\ c.born = Current.born
      BY <1>3, LongerCaseStands
    <2>3. Done(t, Edit(c), worlds)
      BY <2>1
    <2> HIDE DEF c
    <2>4. GoodManager(Edit(c), worlds) /\ Retains(Edit(c))
      BY <1>2, <2>2, EditIsGood
    <2>5. SavedAsBefore
      BY <1>5, UntouchedFiles DEF AddEvidence
    <2> QED BY <1>2, <2>3, <2>4, <2>5, EndingKeepsInv
  <1>6. CASE RunNext(t)
    <2>1. CASE Current.ran < Len(Current.sequence)
      <3>1. PICK fault \in Faults : Ran(t, Step(Current, worlds[cur], fault), fault)
        BY <1>6, <2>1 DEF RunNext
      <3> DEFINE s == Step(Current, worlds[cur], fault)
      <3>3. GoodCase(s.case, s.world) /\ Kernel(s.case) = Kernel(Current)
        BY <1>3, <2>1, StepKeepsGood
      <3>4. s.case.born = Current.born
        <4> HIDE DEF s
        <4> QED BY <3>3 DEF Kernel
      <3>5. Ran(t, s, fault)
        BY <3>1
      <3> HIDE DEF s
      <3> QED BY <1>1, <3>3, <3>4, <3>5, RunningKeepsInv
    <2>2. CASE ~(Current.ran < Len(Current.sequence))
      <3>1. Done(t, mem, worlds) /\ UNCHANGED files
        BY <1>6, <2>2 DEF RunNext
      <3> QED BY <1>2, <1>3, <3>1, UntouchedFiles, EndingKeepsInv
    <2> QED BY <2>1, <2>2
  <1>7. CASE RunAll(t)
    <2> DEFINE c == Rebuilt(Definition(Current), Current.exit)
    <2>1. PICK fault \in Faults, failing \in {0} \cup DOMAIN Current.sequence :
            Ran(t, All(c, BuiltWorld(cur), failing, fault), fault)
      BY <1>7 DEF RunAll
    <2>3. GoodCase(c, EmptyWorld) /\ c.ran = 0 /\ c.born = Current.born
      BY <1>4, RebuiltIsGood, RebuiltFields
    <2> DEFINE a == All(c, EmptyWorld, failing, fault)
    <2>4. Ran(t, a, fault)
      BY <2>1 DEF BuiltWorld
    <2> HIDE DEF c
    <2>5. GoodCase(a.case, a.world) /\ Kernel(a.case) = Kernel(c)
      BY <2>3, AllKeepsGood
    <2> HIDE DEF a
    <2>6. a.case.born = Current.born
      BY <2>3, <2>5 DEF Kernel
    <2> QED BY <1>1, <2>4, <2>5, <2>6, RunningKeepsInv
  <1>8. CASE Reset(t)
    <2> DEFINE c == Rebuilt(Definition(Current), FALSE)
    <2>1. Done(t, Edit(c), [worlds EXCEPT ![cur] = EmptyWorld]) /\ UNCHANGED files
      BY <1>8 DEF Reset, BuiltWorld
    <2>2. GoodCase(c, EmptyWorld) /\ c.born = Current.born
      BY <1>4, RebuiltIsGood, RebuiltFields
    <2> HIDE DEF c
    <2>3. /\ GoodManager(Edit(c), [worlds EXCEPT ![cur] = EmptyWorld])
          /\ Retains(Edit(c))
      BY <1>2, <2>2, EditIsGood
    <2> QED BY <1>2, <2>1, <2>3, UntouchedFiles, EndingKeepsInv
  <1>9. ASSUME NEW c, GoodCase(c, worlds[cur]), c.born = Current.born,
               UNCHANGED files,
               \/ Done(t, Edit(c), worlds) \/ Answered(t, Edit(c), worlds)
               \/ Raised(t, Edit(c), worlds)
        PROVE  ReviewInv'
    <2>1. GoodManager(Edit(c), worlds) /\ Retains(Edit(c))
      BY <1>2, <1>9, EditIsGood
    <2> QED BY <1>2, <1>9, <2>1, UntouchedFiles, EndingKeepsInv
  <1>10. CASE Annotate(t)
    <2>1. Done(t, Edit([Current EXCEPT !.noted = TRUE]), worlds) /\ UNCHANGED files
      BY <1>10 DEF Annotate
    <2>2. /\ GoodCase([Current EXCEPT !.noted = TRUE], worlds[cur])
          /\ [Current EXCEPT !.noted = TRUE].born = Current.born
      BY <1>3, MarkedCaseStands
    <2> QED BY <1>9, <2>1, <2>2
  <1>11. CASE ExitTest(t) \/ Review(t)
    <2>1. /\ \/ Answered(t, Edit([Current EXCEPT !.exit = TRUE]), worlds)
             \/ Raised(t, Edit([Current EXCEPT !.exit = TRUE]), worlds)
             \/ Raised(t, mem, worlds)
          /\ UNCHANGED files
      BY <1>11 DEF ExitTest, Review
    <2>3. CASE Raised(t, mem, worlds)
      BY <1>2, <1>3, <2>1, <2>3, UntouchedFiles, EndingKeepsInv
    <2>2. /\ GoodCase([Current EXCEPT !.exit = TRUE], worlds[cur])
          /\ [Current EXCEPT !.exit = TRUE].born = Current.born
      BY <1>3, MarkedCaseStands
    <2> QED BY <1>9, <2>1, <2>2, <2>3
  <1> QED BY <1>5, <1>6, <1>7, <1>8, <1>10, <1>11

LEMMA ManagerOperationKeepsInv ==
    ASSUME ReviewInv, NEW t \in Clients,
           \/ Read(t) \/ Export(t) \/ ShowFails(t) \/ Select(t) \/ NewCase(t)
           \/ Duplicate(t) \/ LoadSample(t) \/ Import(t) \/ ImportFails(t)
    PROVE  ReviewInv'
  <1>1. Locked(t)
    BY DEF Read, Export, ShowFails, Select, NewCase, Duplicate,
           LoadSample, Import, ImportFails, Opened
  <1>2. pc[t] \in Holding /\ up = "up"
    BY <1>1, HolderIsAlone DEF Locked, Holding
  <1>3. GoodManager(mem, worlds) /\ Retains(mem) /\ Cases = DOMAIN mem.cases
    BY <1>2, UpIsGood DEF Cases
  <1>4. ASSUME NEW d, IsSequence(d.sequence), Opened(t, d)
        PROVE  ReviewInv'
    <2>1. /\ Done(t, Register(d), With(worlds, NextId, BuiltWorld(NextId)))
          /\ UNCHANGED files
      BY <1>4 DEF Opened
    <2>2. /\ GoodManager(Register(d), With(worlds, NextId, BuiltWorld(NextId)))
          /\ Retains(Register(d))
      BY <1>2, <1>4, RegisterIsGood
    <2> QED BY <1>2, <2>1, <2>2, UntouchedFiles, EndingKeepsInv
  <1>5. /\ IsSequence(Definition(Current).sequence)
        /\ IsSequence(Blank.sequence) /\ IsSequence(Sample.sequence)
        /\ IsSequence(Imported.sequence)
    BY <1>2, DefinitionsHaveSequences
  <1>6. CASE NewCase(t) \/ Duplicate(t) \/ LoadSample(t) \/ Import(t)
    BY <1>4, <1>5, <1>6 DEF NewCase, Duplicate, LoadSample, Import
  <1>7. CASE Read(t) \/ Export(t) \/ ShowFails(t)
    <2>1. /\ \/ Done(t, mem, worlds) \/ Answered(t, mem, worlds)
             \/ Raised(t, mem, worlds)
          /\ UNCHANGED files
      BY <1>7 DEF Read, Export, ShowFails
    <2> QED BY <1>2, <1>3, <2>1, UntouchedFiles, EndingKeepsInv
  <1>8. CASE Select(t)
    <2>1. PICK id \in Cases : Done(t, [mem EXCEPT !.current = id], worlds)
      BY <1>3, <1>8 DEF Select
    <2>2. UNCHANGED files
      BY <1>8 DEF Select
    <2>3. /\ GoodManager([mem EXCEPT !.current = id], worlds)
          /\ Retains([mem EXCEPT !.current = id])
      BY <1>2, SelectIsGood
    <2> QED BY <1>2, <2>1, <2>2, <2>3, UntouchedFiles, EndingKeepsInv
  <1>9. CASE ImportFails(t)
    <2>1. PICK n \in {mem.counter, NextId} :
            Raised(t, [mem EXCEPT !.counter = n], worlds)
      BY <1>9 DEF ImportFails
    <2>2. UNCHANGED files
      BY <1>9 DEF ImportFails
    <2>3. /\ GoodManager([mem EXCEPT !.counter = n], worlds)
          /\ Retains([mem EXCEPT !.counter = n])
      BY <1>2, <2>1, CountingIsGood
    <2> QED BY <1>2, <2>1, <2>2, <2>3, UntouchedFiles, EndingKeepsInv
  <1> QED BY <1>6, <1>7, <1>8, <1>9

\* Saving: the file is that of the current case, before and after.
LEMMA OpenFileKeepsInv ==
    ASSUME ReviewInv, NEW t \in Clients, OpenFile(t)
    PROVE  ReviewInv'
  <1> DEFINE cur == mem.current
             entry == [whole |-> FALSE, definition |-> Definition(Current)]
  <1>1. pc[t] \in Holding /\ up = "up" /\ lock = t
    BY HolderIsAlone DEF OpenFile, Locked, Holding
  <1>2. GoodManager(mem, worlds) /\ cur \in Cases /\ Cases = DOMAIN mem.cases
    BY <1>1, UpIsGood DEF Cases
  <1>3. cur \in Nat \ {0}
    BY <1>2 DEF GoodManager
  <1>4. /\ entry.definition.born = mem.cases[cur].born
        /\ IsSequence(entry.definition.sequence)
        /\ entry = [whole |-> entry.whole, definition |-> entry.definition]
    BY <1>1, DefinitionsHaveSequences DEF Definition, Current
  <1>5. /\ config' = config /\ up' = up /\ mem' = mem /\ worlds' = worlds
        /\ lock' = lock /\ reply' = reply /\ applied' = applied
        /\ pc' = [pc EXCEPT ![t] = "saving"]
    BY DEF OpenFile
  <1>6. /\ Files /\ Shapes /\ Locks /\ Replies /\ Filed /\ Standing
    BY DEF ReviewInv
  <1>7. /\ pc' = [u \in Clients |-> pc'[u]] /\ pc'[t] = "saving"
        /\ \A u \in Clients : u # t => pc'[u] = pc[u]
    BY <1>5, <1>6 DEF Shapes
  <1>8. Shapes' /\ Standing'
    BY <1>5, <1>6, <1>7 DEF Shapes, Standing, Cases
  <1>9. Locks' /\ Replies'
    BY <1>1, <1>5, <1>6, <1>7 DEF Locks, Replies, Holding
  <1>10. CASE ~config.writable
    <2>1. files' = files
      BY <1>10 DEF OpenFile
    <2>2. Files' /\ Filed'
      BY <1>5, <1>6, <2>1 DEF Files, Filed, Cases
    <2> QED BY <1>8, <1>9, <2>2 DEF ReviewInv
  <1>11. CASE config.writable
    <2> HIDE DEF entry
    <2>1. files' = With(files, cur, entry)
      BY <1>11 DEF OpenFile, entry
    <2>2. /\ DOMAIN files' = DOMAIN files \cup {cur} /\ files'[cur] = entry
          /\ files' = [id \in DOMAIN files' |-> files'[id]]
          /\ \A id \in DOMAIN files : id # cur => files'[id] = files[id]
      BY <2>1 DEF With
    <2>3. IsFiniteSet(DOMAIN files')
      BY <1>6, <2>2, FS_AddElement DEF Files
    <2>4. DOMAIN files' \subseteq Nat \ {0}
      BY <1>3, <1>6, <2>2 DEF Files
    <2>5. Files'
      <3>1. \A id \in DOMAIN files' :
              /\ files'[id] = [whole |-> files'[id].whole,
                               definition |-> files'[id].definition]
              /\ IsSequence(files'[id].definition.sequence)
        BY <1>4, <1>6, <2>2 DEF Files
      <3> QED BY <2>2, <2>3, <2>4, <3>1 DEF Files
    <2>6. Filed'
      BY <1>1, <1>2, <1>4, <1>5, <1>6, <1>11, <2>2 DEF Filed, Cases
    <2> QED BY <1>8, <1>9, <2>5, <2>6 DEF ReviewInv
  <1> QED BY <1>10, <1>11

\* ... and completing it changes nothing but that it is whole.  An error, here or
\* in rendering, changes nothing at all.
LEMMA WriteKeepsInv ==
    ASSUME ReviewInv, NEW t \in Clients,
           WriteFile(t) \/ WriteFails(t) \/ RenderFails(t)
    PROVE  ReviewInv'
  <1>1. pc[t] \in Holding /\ up = "up"
    BY HolderIsAlone DEF WriteFile, WriteFails, RenderFails, Holding
  <1>2. GoodManager(mem, worlds) /\ Retains(mem)
    BY <1>1, UpIsGood
  <1>3. CASE WriteFails(t) \/ RenderFails(t)
    <2>1. Raised(t, mem, worlds) /\ UNCHANGED files
      BY <1>3 DEF WriteFails, RenderFails
    <2> QED BY <1>1, <1>2, <2>1, UntouchedFiles, EndingKeepsInv
  <1>4. CASE WriteFile(t)
    <2>1. SavedAsBefore
      <3>1. CASE ~config.writable
        BY <1>4, <3>1, UntouchedFiles DEF WriteFile
      <3>2. CASE config.writable
        <4>1. files' = [files EXCEPT ![mem.current].whole = TRUE]
          BY <1>4, <3>2 DEF WriteFile
        <4>2. /\ files = [id \in DOMAIN files |-> files[id]]
              /\ DOMAIN files \subseteq Nat \ {0} /\ IsFiniteSet(DOMAIN files)
              /\ \A id \in DOMAIN files :
                   /\ files[id] = [whole |-> files[id].whole,
                                   definition |-> files[id].definition]
                   /\ IsSequence(files[id].definition.sequence)
          BY DEF ReviewInv, Files
        <4>3. /\ DOMAIN files' = DOMAIN files
              /\ files' = [id \in DOMAIN files' |-> files'[id]]
              /\ \A id \in DOMAIN files : id # mem.current => files'[id] = files[id]
              /\ mem.current \in DOMAIN files =>
                   files'[mem.current] = [files[mem.current] EXCEPT !.whole = TRUE]
          BY <4>1, <4>2
        <4>4. \A id \in DOMAIN files' :
                /\ files'[id].definition = files[id].definition
                /\ files'[id] = [whole |-> files'[id].whole,
                                 definition |-> files'[id].definition]
          BY <4>2, <4>3
        <4> QED BY <4>2, <4>3, <4>4 DEF SavedAsBefore, Files
      <3> QED BY <3>1, <3>2
    <2>2. Done(t, mem, worlds)
      BY <1>4 DEF WriteFile
    <2> QED BY <1>1, <1>2, <2>1, <2>2, EndingKeepsInv
  <1> QED BY <1>3, <1>4
----------------------------------------------------------------------------
(* Requests, responses, start-up and crashes.                               *)

\* What moves one client and neither the cases nor the files.
LEMMA ServingKeepsInv ==
    ASSUME ReviewInv, NEW t \in Clients,
           \/ Request(t) \/ RefuseBody(t) \/ Acquire(t) \/ Render(t) \/ Sent(t)
           \/ Stall(t)
    PROVE  ReviewInv'
  <1>1. /\ config' = config /\ files' = files /\ up' = up /\ mem' = mem
        /\ worlds' = worlds
    BY DEF Request, RefuseBody, Acquire, Render, Sent, Stall, durable
  <1>2. Shapes /\ Files /\ Locks /\ Replies /\ Filed /\ Standing
    BY DEF ReviewInv
  <1>3. /\ pc = [u \in Clients |-> pc[u]] /\ reply = [u \in Clients |-> reply[u]]
        /\ applied = [u \in Clients |-> applied[u]]
    BY <1>2 DEF Shapes
  <1>4. Files' /\ Filed' /\ Standing'
    BY <1>1, <1>2 DEF Files, Filed, Standing, Cases
  <1>5. /\ pc' = [u \in Clients |-> pc'[u]] /\ reply' = [u \in Clients |-> reply'[u]]
        /\ applied' = [u \in Clients |-> applied'[u]]
    BY <1>3 DEF Request, RefuseBody, Acquire, Render, Sent, Stall
  <1>6. Shapes'
    BY <1>1, <1>2, <1>5 DEF Shapes, Cases
  <1>7. CASE Request(t)
    <2>1. /\ up = "up" /\ pc'[t] \notin Holding /\ lock' = lock
          /\ reply' = reply /\ applied' = applied
          /\ \A u \in Clients : u # t => pc'[u] = pc[u]
      BY <1>3, <1>7 DEF Request, Holding
    <2>2. Locks' /\ Replies'
      BY <1>1, <1>2, <2>1 DEF Locks, Replies, Holding
    <2> QED BY <1>4, <1>6, <2>2 DEF ReviewInv
  <1>8. CASE RefuseBody(t)
    <2>1. /\ pc[t] = "garbled" /\ pc'[t] = "error" /\ lock' = lock
          /\ reply' = reply /\ applied' = applied
          /\ \A u \in Clients : u # t => pc'[u] = pc[u]
      BY <1>3, <1>8 DEF RefuseBody
    <2>2. Locks' /\ Replies'
      BY <1>1, <1>2, <2>1 DEF Locks, Replies, Holding
    <2> QED BY <1>4, <1>6, <2>2 DEF ReviewInv
  <1>9. CASE Acquire(t)
    <2>1. /\ pc[t] = "waiting" /\ pc'[t] = "locked" /\ lock = Nobody /\ lock' = t
          /\ reply' = reply /\ applied' = applied
          /\ \A u \in Clients : u # t => pc'[u] = pc[u]
      BY <1>3, <1>9 DEF Acquire
    <2>2. \A u \in Clients : pc[u] \notin Holding
      BY <1>2, <2>1, HarnessAssumption DEF Locks
    <2>3. Locks' /\ Replies'
      BY <1>1, <1>2, <2>1, <2>2 DEF Locks, Replies, Holding
    <2> QED BY <1>4, <1>6, <2>3 DEF ReviewInv
  <1>10. CASE Render(t)
    <2>1. /\ pc[t] = "applied" /\ pc'[t] = "responding" /\ lock' = lock
          /\ applied' = applied /\ reply'[t] = State(mem, worlds)
          /\ \A u \in Clients : u # t => pc'[u] = pc[u] /\ reply'[u] = reply[u]
      BY <1>3, <1>10 DEF Render
    <2>2. pc[t] \in Holding
      BY <2>1 DEF Holding
    <2>3. \A u \in Clients : u # t => pc[u] \notin Holding
      BY <2>2, HolderIsAlone
    <2>4. applied[t] = State(mem, worlds)
      BY <1>2, <2>1 DEF Replies
    <2>5. Locks' /\ Replies'
      BY <1>1, <1>2, <2>1, <2>2, <2>3, <2>4 DEF Locks, Replies, Holding
    <2> QED BY <1>4, <1>6, <2>5 DEF ReviewInv
  <1>11. CASE Sent(t)
    <2>1. /\ pc[t] # "idle" /\ pc'[t] = "idle"
          /\ lock' = IF lock = t THEN Nobody ELSE lock
          /\ \A u \in Clients : u # t => /\ pc'[u] = pc[u] /\ reply'[u] = reply[u]
                                         /\ applied'[u] = applied[u]
      BY <1>3, <1>11 DEF Sent
    <2>2. Locks' /\ Replies'
      BY <1>1, <1>2, <2>1 DEF Locks, Replies, Holding
    <2> QED BY <1>4, <1>6, <2>2 DEF ReviewInv
  <1>12. CASE Stall(t)
    <2>1. Locks' /\ Replies'
      BY <1>1, <1>2, <1>12 DEF Stall, Locks, Replies
    <2> QED BY <1>4, <1>6, <2>1 DEF ReviewInv
  <1> QED BY <1>7, <1>8, <1>9, <1>10, <1>11, <1>12

\* A start makes good cases of what is on disk, and takes the place of none.
LEMMA BootKeepsInv ==
    ASSUME ReviewInv, Boot
    PROVE  ReviewInv'
  <1> DEFINE ids == IF config.writable THEN DOMAIN files ELSE {}
  <1>1. Shapes /\ Files /\ Locks /\ Replies /\ Filed /\ Standing
    BY DEF ReviewInv
  <1>2. /\ config' = config /\ files' = files /\ lock' = lock /\ pc' = pc
        /\ reply' = reply /\ applied' = applied /\ up = "down"
    BY DEF Boot, durable
  <1>3. \A t \in Clients : pc[t] = "idle"
    BY <1>1, <1>2 DEF Locks
  <1>4. Files' /\ Locks' /\ Replies'
    BY <1>1, <1>2, <1>3 DEF Files, Locks, Replies, Holding
  <1>5. CASE \E id \in ids : ~files[id].whole
    <2>1. up' = "refused" /\ mem' = mem /\ worlds' = worlds
      BY <1>5 DEF Boot
    <2>2. Shapes' /\ Filed' /\ Standing'
      BY <1>1, <1>2, <2>1 DEF Shapes, Filed, Standing, Cases
    <2> QED BY <1>4, <2>2 DEF ReviewInv
  <1>6. CASE ~\E id \in ids : ~files[id].whole
    <2>1. /\ up' = "up" /\ mem' = Manager(ids)
          /\ worlds' = [id \in DOMAIN worlds \cup DOMAIN mem'.cases |->
                          IF id \in DOMAIN mem'.cases THEN BuiltWorld(id)
                          ELSE worlds[id]]
      BY <1>6 DEF Boot
    <2>2. ids \in SUBSET DOMAIN files
      OBVIOUS
    <2>3. /\ mem' = [cases |-> mem'.cases, counter |-> mem'.counter,
                     current |-> mem'.current]
          /\ mem'.cases = [id \in Cases' |-> mem'.cases[id]]
          /\ mem'.counter \in Nat /\ Cases' \subseteq 1..mem'.counter
          /\ mem'.current \in Cases'
          /\ \A id \in Cases' : GoodCase(mem'.cases[id], EmptyWorld)
          /\ \A id \in ids : /\ id \in Cases'
                             /\ mem'.cases[id].born = files[id].definition.born
      <3>1. CASE ids = {}
        <4> DEFINE d == [Blank EXCEPT !.born = <<spent.crashes, 1>>]
                   c == Rebuilt(d, FALSE)
        <4>1. IsSequence(d.sequence)
          BY EmptySequence DEF Blank
        <4>2. GoodCase(c, EmptyWorld)
          <5> HIDE DEF d
          <5> QED BY <4>1, RebuiltIsGood
        <4>3. Manager(ids) = [cases |-> [id \in {1} |-> c], counter |-> 1,
                              current |-> 1]
          BY <3>1 DEF Manager
        <4> HIDE DEF c
        <4>4. /\ mem'.cases = [id \in {1} |-> c] /\ mem'.counter = 1
              /\ mem'.current = 1 /\ Cases' = {1}
          BY <2>1, <4>3 DEF Cases
        <4>5. Cases' \subseteq 1..mem'.counter
          BY <4>4
        <4> HIDE DEF ids
        <4> QED BY <2>1, <3>1, <4>2, <4>3, <4>4, <4>5
      <3>2. CASE ids # {}
        <4> HIDE DEF ids
        <4>1. /\ mem' = [cases |-> [id \in ids |->
                                      Rebuilt(files[id].definition, FALSE)],
                         counter |-> CounterAfter(ids),
                         current |-> LastByName(ids)]
              /\ CounterAfter(ids) \in Nat /\ ids \subseteq 1..CounterAfter(ids)
              /\ LastByName(ids) \in ids
          BY <2>1, <2>2, <3>2, LoadingIsGood
        <4>2. /\ mem'.cases = [id \in ids |-> Rebuilt(files[id].definition, FALSE)]
              /\ mem'.counter = CounterAfter(ids) /\ mem'.current = LastByName(ids)
              /\ Cases' = ids
          BY <4>1 DEF Cases
        <4>3. \A id \in ids :
                /\ GoodCase(Rebuilt(files[id].definition, FALSE), EmptyWorld)
                /\ Rebuilt(files[id].definition, FALSE).born
                     = files[id].definition.born
          BY <1>1, <2>2, RebuiltIsGood, RebuiltFields DEF Files
        <4>4. \A id \in ids : mem'.cases[id] = Rebuilt(files[id].definition, FALSE)
          BY <4>2
        <4>5. mem' = [cases |-> mem'.cases, counter |-> mem'.counter,
                      current |-> mem'.current]
          BY <4>1
        <4>6. mem'.cases = [id \in Cases' |-> mem'.cases[id]]
          BY <4>2
        <4> QED BY <4>1, <4>2, <4>3, <4>4, <4>5, <4>6
      <3> QED BY <3>1, <3>2
    <2> HIDE DEF ids
    <2>4. /\ worlds' = [id \in DOMAIN worlds' |-> worlds'[id]]
          /\ Cases' \subseteq DOMAIN worlds'
          /\ \A id \in Cases' : worlds'[id] = EmptyWorld
      BY <2>1 DEF Cases, BuiltWorld
    <2>5. Shapes'
      BY <1>1, <1>2, <2>3, <2>4 DEF Shapes
    <2>6. Standing'
      BY <2>3, <2>4 DEF Standing
    <2>7. Filed'
      BY <1>2, <2>3 DEF Filed, ids
    <2> QED BY <1>4, <2>5, <2>6, <2>7 DEF ReviewInv
  <1> QED BY <1>5, <1>6

LEMMA NoManagerFields ==
    /\ NoManager = [cases |-> NoManager.cases, counter |-> NoManager.counter,
                    current |-> NoManager.current]
    /\ NoManager.cases = [id \in {} |-> Blank] /\ NoManager.counter = 0
    /\ DOMAIN NoManager.cases = {}
  BY DEF NoManager

LEMMA CrashKeepsInv ==
    ASSUME ReviewInv, Crash
    PROVE  ReviewInv'
  <1>1. Shapes /\ Files
    BY DEF ReviewInv
  <1>2. /\ config' = config /\ files' = files /\ up' = "down" /\ mem' = NoManager
        /\ pc' = [t \in Clients |-> "idle"] /\ reply' = [t \in Clients |-> Nothing]
        /\ applied' = [t \in Clients |-> Nothing]
    BY DEF Crash, durable
  <1>3. worlds' = worlds \/ worlds' = [id \in {} |-> EmptyWorld]
    BY DEF Crash
  <1>4. Cases' = {}
    BY <1>2, NoManagerFields DEF Cases
  <1>5. worlds' = [id \in DOMAIN worlds' |-> worlds'[id]]
    BY <1>1, <1>3 DEF Shapes
  <1>6. mem'.cases = [id \in Cases' |-> mem'.cases[id]]
    BY <1>2, <1>4, NoManagerFields
  <1>7. Shapes'
    BY <1>2, <1>4, <1>5, <1>6, NoManagerFields DEF Shapes
  <1>8. Files' /\ Locks' /\ Replies' /\ Filed' /\ Standing'
    BY <1>1, <1>2, <1>4 DEF Files, Locks, Replies, Filed, Standing, Holding
  <1> QED BY <1>7, <1>8 DEF ReviewInv

LEMMA StutterKeepsInv == ReviewInv /\ UNCHANGED vars => ReviewInv'
  BY DEF ReviewInv, Shapes, Files, Locks, Replies, Filed, Standing, Cases, State,
         vars, Holding

LEMMA InitReviewInv == Init => ReviewInv
  <1> SUFFICES ASSUME Init PROVE ReviewInv
    OBVIOUS
  <1>1. Cases = {} /\ up = "down" /\ mem = NoManager
    BY NoManagerFields DEF Init, Cases
  <1>2. mem.cases = [id \in Cases |-> mem.cases[id]]
    BY <1>1, NoManagerFields
  <1>3. Shapes
    BY <1>1, <1>2, NoManagerFields DEF Init, Shapes
  <1>4. Files
    <2>1. files = [id \in DOMAIN Saved |-> [whole |-> TRUE, definition |-> Saved[id]]]
      BY DEF Init
    <2>2. \A id \in DOMAIN Saved :
            Saved[id].sequence \in Seq(ToSet(Saved[id].sequence))
      BY HarnessAssumption
    <2>3. DOMAIN Saved \subseteq Nat \ {0} /\ IsFiniteSet(DOMAIN Saved)
      BY HarnessAssumption
    <2> QED BY <2>1, <2>2, <2>3 DEF Files, IsSequence
  <1>5. Locks /\ Replies /\ Filed /\ Standing
    BY <1>1 DEF Init, Locks, Replies, Filed, Standing, Holding
  <1> QED BY <1>3, <1>4, <1>5 DEF ReviewInv

LEMMA NextReviewInv ==
    ASSUME ReviewInv, [Next]_vars
    PROVE  ReviewInv'
  <1>1. CASE UNCHANGED vars
    BY <1>1, StutterKeepsInv
  <1>2. CASE Boot
    BY <1>2, BootKeepsInv
  <1>3. CASE Crash
    BY <1>3, CrashKeepsInv
  <1>4. ASSUME NEW t \in Clients, Request(t) \/ Serve(t) \/ Stall(t)
        PROVE  ReviewInv'
    <2>1. CASE Request(t) \/ RefuseBody(t) \/ Acquire(t) \/ Render(t) \/ Sent(t)
               \/ Stall(t)
      BY <2>1, ServingKeepsInv
    <2>2. CASE Operation(t)
      BY <2>2, CaseOperationKeepsInv, ManagerOperationKeepsInv, OpenFileKeepsInv
         DEF Operation
    <2>3. CASE WriteFile(t) \/ WriteFails(t) \/ RenderFails(t)
      BY <2>3, WriteKeepsInv
    <2> QED BY <1>4, <2>1, <2>2, <2>3 DEF Serve
  <1> QED BY <1>1, <1>2, <1>3, <1>4 DEF Next

----------------------------------------------------------------------------
(* What follows for a reviewer.                                             *)

\* A file is opened only for the case it was saved of, and no other step touches
\* what it is a definition of.
LEMMA StepKeepsFiles ==
    ASSUME ReviewInv, [Next]_vars
    PROVE  \A id \in DOMAIN files :
             files'[id].definition.born = files[id].definition.born
  <1>1. CASE UNCHANGED files
    BY <1>1
  <1>2. ASSUME NEW t \in Clients, OpenFile(t)
        PROVE  \A id \in DOMAIN files :
                 files'[id].definition.born = files[id].definition.born
    <2> DEFINE cur == mem.current
               entry == [whole |-> FALSE, definition |-> Definition(Current)]
    <2>1. up = "up"
      BY <1>2, HolderIsAlone DEF OpenFile, Locked, Holding
    <2>2. config.writable => files' = With(files, cur, entry)
      BY <1>2 DEF OpenFile
    <2>3. ~config.writable => files' = files
      BY <1>2 DEF OpenFile
    <2>4. entry.definition.born = mem.cases[cur].born
      BY DEF Definition, Current
    <2> HIDE DEF entry
    <2>5. config.writable =>
            /\ files'[cur] = entry
            /\ \A id \in DOMAIN files : id # cur => files'[id] = files[id]
      BY <2>2 DEF With
    <2>6. config.writable /\ cur \in DOMAIN files =>
            mem.cases[cur].born = files[cur].definition.born
      BY <2>1 DEF ReviewInv, Filed
    <2> QED BY <2>3, <2>4, <2>5, <2>6
  <1>3. ASSUME NEW t \in Clients, WriteFile(t)
        PROVE  \A id \in DOMAIN files :
                 files'[id].definition.born = files[id].definition.born
    <2>1. CASE ~config.writable
      BY <1>1, <1>3, <2>1 DEF WriteFile
    <2>2. CASE config.writable
      <3>1. files' = [files EXCEPT ![mem.current].whole = TRUE]
        BY <1>3, <2>2 DEF WriteFile
      <3>2. \A id \in DOMAIN files :
              files[id] = [whole |-> files[id].whole,
                           definition |-> files[id].definition]
        BY DEF ReviewInv, Files
      <3> QED BY <3>1, <3>2
    <2> QED BY <2>1, <2>2
  <1>4. ASSUME NEW t \in Clients,
               \/ AddEvidence(t) \/ RunNext(t) \/ RunAll(t) \/ Reset(t) \/ Annotate(t)
               \/ ExitTest(t) \/ Read(t) \/ Export(t) \/ Review(t) \/ ShowFails(t)
               \/ Select(t) \/ NewCase(t) \/ Duplicate(t)
               \/ LoadSample(t) \/ Import(t) \/ ImportFails(t)
        PROVE  UNCHANGED files
    BY <1>4 DEF AddEvidence, RunNext, RunAll, Ran, Reset, Annotate, ExitTest, Read,
                Export, Review, ShowFails, Select, NewCase, Duplicate,
                LoadSample, Import, Opened, ImportFails
  <1>5. ASSUME NEW t \in Clients,
               \/ Request(t) \/ RefuseBody(t) \/ Acquire(t) \/ WriteFails(t)
               \/ Render(t) \/ RenderFails(t) \/ Sent(t) \/ Stall(t)
        PROVE  UNCHANGED files
    BY <1>5 DEF Request, RefuseBody, Acquire, WriteFails, Render, RenderFails, Sent,
                Stall, durable
  <1>6. CASE Boot \/ Crash \/ UNCHANGED vars
    <2>1. UNCHANGED files
      BY <1>6 DEF Boot, Crash, durable, vars
    <2> QED BY <1>1, <2>1
  <1>7. ASSUME NEW t \in Clients, Operation(t)
        PROVE  UNCHANGED files \/ OpenFile(t)
    BY <1>4, <1>7 DEF Operation
  <1>8. ASSUME NEW t \in Clients, Request(t) \/ Serve(t) \/ Stall(t)
        PROVE  UNCHANGED files \/ OpenFile(t) \/ WriteFile(t)
    BY <1>5, <1>7, <1>8 DEF Serve
  <1> QED BY <1>1, <1>2, <1>3, <1>6, <1>8 DEF Next

\* What holds of every case, file, lock and reply of the harness at all times:
\* unless an interaction of it has failed halfway on SQLite, each case has a trail
\* of what its stores held after each step, which the engine explains step by
\* step and its snapshots show where they were taken; evidence ids are the
\* positions of the steps, whoever is past the lock is alone there, and each
\* saved file belongs to a case the manager has (testcase.py, manager.py and the
\* lock of the server's do_GET and do_POST).
THEOREM ReviewInductive == Spec => []ReviewInv
  <1>1. Init => ReviewInv
    BY InitReviewInv
  <1>2. ReviewInv /\ [Next]_vars => ReviewInv'
    BY NextReviewInv
  <1> QED BY <1>1, <1>2, PTL DEF Spec

\* However a case got where it is -- stepping, rerunning, resetting, steps that
\* raise before they count or after, a restart over rows left in its database --
\* its results and stores are those of running its first ran specs on a clean
\* engine, unless an interaction has failed halfway on SQLite since it was last
\* rebuilt; and its snapshots, which may be fewer, show the steps they name, in
\* order, the first ones where no read has failed, and then all unless an
\* expectation cannot be read (_build, _run_spec, _advance, run_all, reset and
\* expected_vs_actual of testcase.py).
THEOREM HistoryIsReplayAlways == Spec => []HistoryIsReplay
  <1>1. ReviewInv => HistoryIsReplay
    <2> SUFFICES ASSUME ReviewInv, NEW id \in Cases
                 PROVE  /\ mem.cases[id].ran = Len(mem.cases[id].history)
                        /\ ~mem.cases[id].partial =>
                             /\ mem.cases[id].history
                                  = Replayed(mem.cases[id]).case.history
                             /\ worlds[id] = Replayed(mem.cases[id]).world
                             /\ SnapshotsShow(mem.cases[id],
                                  Replayed(mem.cases[id]).case.snapshots)
      BY DEF HistoryIsReplay
    <2>1. GoodCase(mem.cases[id], worlds[id])
      BY DEF ReviewInv, Standing
    <2>2. CaseShape(mem.cases[id]) /\ Stands(mem.cases[id], worlds[id])
      BY <2>1 DEF GoodCase
    <2>3. mem.cases[id].ran = Len(mem.cases[id].history)
      BY <2>2 DEF CaseShape
    <2>4. ASSUME ~mem.cases[id].partial
          PROVE  /\ mem.cases[id].history = Replayed(mem.cases[id]).case.history
                 /\ worlds[id] = Replayed(mem.cases[id]).world
                 /\ SnapshotsShow(mem.cases[id],
                                  Replayed(mem.cases[id]).case.snapshots)
      <3>1. PICK trail : Traced(mem.cases[id], trail, worlds[id])
        BY <2>2, <2>4 DEF Stands
      <3> QED BY <2>2, <3>1, ReplayGivesTheCase, SnapshotsAreOfTheReplay
    <2> QED BY <2>3, <2>4
  <1> QED BY <1>1, ReviewInductive, PTL

\* A response carries the state its own operation left: no other client's
\* request moves it on between the operation and the response, however many wait
\* or stall (one lock around both, in do_GET and do_POST).
THEOREM OwnReplyAlways == Spec => []OwnReply
  <1>1. ReviewInv => OwnReply
    BY DEF ReviewInv, Replies, OwnReply
  <1> QED BY <1>1, ReviewInductive, PTL

\* No file is ever overwritten by the save of another case: a restart counts on
\* from the greatest saved id, and every id the running process gives out is new
\* (_load_saved and _next_id of manager.py, FileTestCaseSpecStore.save).
THEOREM FilesKeepTheirCaseAlways == Spec => FilesKeepTheirCase
  <1>1. ReviewInv /\ [Next]_vars
        => [\A id \in DOMAIN files :
              files'[id].definition.born = files[id].definition.born]_files
    BY StepKeepsFiles
  <1> QED BY <1>1, ReviewInductive, PTL DEF Spec, FilesKeepTheirCase
=============================================================================
