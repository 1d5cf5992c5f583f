--------------------------- MODULE StageOne_proofs ---------------------------
(***************************************************************************)
(* Proofs about StageOneRun and StageOneProperties, for any number of      *)
(* processes, any transcript, roster and replies of the model.             *)
(***************************************************************************)
EXTENDS StageOneProperties, FiniteSetTheorems, SequenceTheorems, WellFoundedInduction, TLAPS

\* A set of naturals that is not empty has a least element.
LEMMA LeastOfNaturals ==
    ASSUME NEW S \in SUBSET Nat, S # {}
    PROVE  \E m \in S : \A x \in S : m =< x
  <1> DEFINE R == OpToRel(<, Nat)
  <1>1. \A x, y \in Nat : <<y, x>> \in R <=> y < x
    <2>1. \A x, y \in Nat : <<y, x>> \in Nat \X Nat
      OBVIOUS
    <2> QED BY <2>1, Zenon DEF OpToRel
  <1>2. IsWellFoundedOn(R, Nat)
    BY NatLessThanWellFounded
  <1> HIDE DEF R
  <1>3. PICK m \in S : \A y \in S : ~(<<y, m>> \in R)
    BY <1>2, WFMin
  <1>4. \A x \in S : ~(x < m)
    BY <1>1, <1>3, Zenon
  <1> QED BY <1>4

----------------------------------------------------------------------------
(* The inductive invariant.                                                *)

\* The order of the run, and the phase a boundary is called in.
Stage == [setup |-> 0, configure |-> 1, extract |-> 2, sanuvia_persistent |-> 3,
          fm_stateless |-> 4, fm_transcript |-> 5, compare |-> 6, evidence |-> 7,
          report |-> 8]
CalledAt == [evidence_extraction |-> 2, evidence_appraisal |-> 3,
             identity_resolution |-> 3, stateless_baseline |-> 4,
             transcript_baseline |-> 5]
Phases == {"setup", "configure", "extract", "sanuvia_persistent", "fm_stateless",
           "fm_transcript", "compare", "evidence", "report"}
Boundaries == {"evidence_extraction", "evidence_appraisal", "identity_resolution",
               "stateless_baseline", "transcript_baseline"}
Statuses == {"timeout", "malformed_output", "model_error", "success"}

\* Types.  What an audit entry holds comes from the model, so only its being a
\* sequence is stated.
RunFields == {"phase", "turn", "item", "pending", "roster", "call", "audit", "calls",
              "asked", "records", "steps", "completed", "error"}
IsSeq(s) == s \in Seq({s[i] : i \in DOMAIN s})
CallRecords == [boundary : Boundaries, turn : Turns, item : Nat, status : Statuses]
Outcomes == {"no_evidence_hold", "committed", "held", "rejected_plan", "answered"}
StepRecords == [turn : Nat, outcome : Outcomes, context : SUBSET Nat]
Lines == [condition : Conditions, turn : Nat, whole : BOOLEAN]

RunTypes(r) ==
    /\ DOMAIN r = RunFields
    /\ r.phase \in Phases
    /\ r.turn \in Nat \ {0} /\ r.item \in Nat \ {0} /\ r.asked \in Nat
    /\ DOMAIN r.call = {"boundary", "turn", "item", "answer"}
    /\ r.roster \in Seq(Nat \ {0})
    /\ IsSeq(r.audit)
    /\ r.calls \in Seq(CallRecords)
    /\ r.records \in [Conditions -> Seq(StepRecords)]
    /\ r.steps \in [Conditions -> Nat]
    /\ r.completed \in Seq(Conditions)

\* What is kept of the turns and calls; it holds wherever a run stops.
Labelled(item, t, roster) ==
    /\ item.source # 0 => item.source \in ToSet(roster)
    /\ \/ item.label = <<0, 0>>
       \/ /\ item.label[1] = t
          /\ item.label[2] \in 1..Cardinality(ToSet(roster))

Called(r, t) == \E k \in DOMAIN r.calls : r.calls[k].turn = t

AuditKept(r) ==
    \A i \in DOMAIN r.audit :
      /\ r.audit[i].turn = i
      /\ r.audit[i].rejected => r.audit[i].items = <<>>
      /\ \A k \in DOMAIN r.audit[i].items : Labelled(r.audit[i].items[k], i, r.roster)
      /\ i \notin HoldTurns => Called(r, i)

CallsKept(r) ==
    /\ \A i, j \in DOMAIN r.calls :
         /\ r.calls[i].boundary # "identity_resolution"
         /\ r.calls[i].boundary = r.calls[j].boundary
         /\ r.calls[i].turn = r.calls[j].turn /\ r.calls[i].item = r.calls[j].item
         => i = j
    /\ \A i \in DOMAIN r.calls :
         r.calls[i].boundary = "evidence_appraisal" =>
           ~r.audit[r.calls[i].turn].rejected

RecordsKept(r) ==
    /\ \A c \in Conditions : \A i \in DOMAIN r.records[c] :
         /\ r.records[c][i].turn = i
         /\ c = "fm_transcript" => r.records[c][i].context = (1..i) \ HoldTurns
    /\ \A i \in DOMAIN r.records["sanuvia_persistent"] :
         r.audit[i].rejected =>
           r.records["sanuvia_persistent"][i].outcome = "rejected_plan"
    /\ r.records["fm_stateless"] # <<>> =>
         Len(r.records["sanuvia_persistent"]) = NumTurns
    /\ r.records["fm_transcript"] # <<>> => Len(r.records["fm_stateless"]) = NumTurns
    /\ r.completed \in {<<>>, <<"sanuvia_persistent">>,
                        <<"sanuvia_persistent", "fm_stateless">>, ConditionOrder}
    /\ \A c \in ToSet(r.completed) :
         r.steps[c] = NumTurns /\ Len(r.records[c]) = NumTurns

StepsKept(r, error) ==
    \A c \in Conditions :
      \/ r.steps[c] = Len(r.records[c])
      \/ /\ r.steps[c] = Len(r.records[c]) + 1
         /\ error \in {"OSError", "KeyboardInterrupt"}

Kept(r) == RunTypes(r) /\ AuditKept(r) /\ CallsKept(r) /\ RecordsKept(r)

\* Where a run stands that has not been stopped.
Past(r, k) ==
    LET call == r.calls[k]
    IN  \/ CalledAt[call.boundary] < Stage[r.phase]
        \/ /\ CalledAt[call.boundary] = Stage[r.phase]
           /\ \/ call.turn < r.turn
              \/ /\ call.turn = r.turn
                 /\ \/ call.boundary = "identity_resolution"
                    \/ call.boundary = "evidence_appraisal" /\ call.item < r.item

Placed(r) ==
    LET stage == Stage[r.phase] IN
    /\ r.error = "none"
    /\ r.phase = "setup" => r = EmptyRun
    /\ stage =< 1 => r = [EmptyRun EXCEPT !.phase = r.phase, !.roster = r.roster]
    /\ stage =< 2 => /\ \A c \in Conditions : r.records[c] = <<>> /\ r.steps[c] = 0
                     /\ r.item = 1
    /\ stage = 2 => r.turn \in Turns /\ Len(r.audit) = r.turn - 1
    /\ stage \in 3..6 => Len(r.audit) = NumTurns /\ r.turn \in 1..NumTurns + 1
    /\ \A c \in Conditions :
         /\ stage < Stage[c] => Len(r.records[c]) = 0
         /\ stage = Stage[c] => Len(r.records[c]) = r.turn - 1
         /\ stage > Stage[c] => Len(r.records[c]) = NumTurns
         /\ r.steps[c] = Len(r.records[c])
    /\ stage =< 3 => r.completed = <<>>
    /\ stage = 4 => r.completed = <<"sanuvia_persistent">>
    /\ stage = 5 => r.completed = <<"sanuvia_persistent", "fm_stateless">>
    /\ stage = 6 => r.completed = ConditionOrder
    /\ \A k \in DOMAIN r.calls : r.calls[k].status = "success"
    /\ stage = 4 => \A t \in 1..r.turn - 1 : Called(r, t)
    /\ stage \in 5..6 => \A t \in Turns : Called(r, t)

\* The call in progress is the one the place of the run asks for.
CallPlaced(r) ==
    \/ r.call = NoCall /\ Len(r.calls) = r.asked
    \/ /\ r.call.boundary \in Boundaries /\ r.call.answer # "none"
       /\ CalledAt[r.call.boundary] = Stage[r.phase]
       /\ r.turn \in Turns
       /\ r.call.boundary = "evidence_extraction" => r.turn \notin HoldTurns
       /\ r.call.boundary = "evidence_appraisal" => ~r.audit[r.turn].rejected
       /\ Len(r.calls) + 1 = r.asked

AllPast(r) == \A k \in DOMAIN r.calls : Past(r, k)
Underway(r) == Placed(r) /\ AllPast(r) /\ CallPlaced(r)

Stopped(r) ==
    /\ r.call = NoCall /\ r.error # "ValueError"
    /\ \/ Len(r.calls) = r.asked
       \/ Len(r.calls) + 1 = r.asked /\ r.error = "KeyboardInterrupt"
    /\ r.error = "none" =>
         /\ r.completed = ConditionOrder
         /\ \A k \in DOMAIN r.calls : r.calls[k].status = "success"
         /\ \A t \in Turns : Called(r, t)

RunInv(r) ==
    /\ Kept(r) /\ StepsKept(r, r.error)
    /\ Stage[r.phase] < 7 => Underway(r)
    /\ Stage[r.phase] >= 7 => Stopped(r)

\* The disk follows the run of the owner.
WholeLinesAre(lines, r) ==
    \A c \in Conditions :
      Cardinality({i \in DOMAIN lines : lines[i].condition = c /\ lines[i].whole})
        = Len(r.records[c])

Pristine(d) ==
    /\ d.logged = 0 /\ d.lines = <<>> /\ d.written = "none" /\ d.trajectories = "none"
    /\ \A c \in Conditions : d.files[c] = "none"

DiskTypes(d) ==
    /\ DOMAIN d = {"claimed", "logged", "lines", "files", "evidence", "written",
                   "trajectories", "setupFailures"}
    /\ d.claimed \in BOOLEAN /\ d.logged \in Nat /\ d.lines \in Seq(Lines)
    /\ d.files \in [Conditions -> {"none", "torn", "whole"}]

\* Evidence, of any run.
EvidenceOf(r) ==
    [status |-> IF r.error = "none" THEN "completed" ELSE "aborted",
     error |-> r.error, audit |-> r.audit, completed |-> r.completed,
     steps |-> r.steps, calls |-> r.calls,
     perTurn |-> [t \in Turns |-> TurnStatus(r.calls, t)]]

Logged(r) == Len(r.calls) + IF r.call.answer \in {"none", "awaited"} \cup Unlogged
                            THEN 0 ELSE 1

Follows(d, r) ==
    /\ Stage[r.phase] =< 1 => Pristine(d)
    /\ WholeLinesAre(d.lines, r)
    /\ \A c \in Conditions : d.files[c] = "whole" <=> c \in ToSet(r.completed)
    /\ Stage[r.phase] < 7 => d.logged = Logged(r)
    /\ Stage[r.phase] >= 7 /\ r.error = "none" => d.logged = Len(r.calls)
    /\ Stage[r.phase] < 8 => d.written # "whole" /\ d.trajectories = "none"
    /\ r.phase = "report" =>
         /\ d.written = "whole" /\ d.evidence = EvidenceOf(r)
         /\ d.trajectories # "none" <=> r.error = "none"

Owned ==
    /\ DOMAIN pc = Procs
    /\ disk.claimed => owner \in Procs
    /\ ~disk.claimed => owner = Nobody /\ run = EmptyRun
    /\ \A p \in Procs : pc[p] = "running" =>
         owner = p /\ (run.phase = "report" => run.error = "none")

StageInv == RunInv(run) /\ DiskTypes(disk) /\ Follows(disk, run) /\ Owned
----------------------------------------------------------------------------
(* Sequences and stages.                                                   *)

LEMMA Appending ==
    ASSUME NEW S, NEW s \in Seq(S), NEW e
    PROVE  /\ Len(s) \in Nat /\ DOMAIN s = 1..Len(s)
           /\ Len(Append(s, e)) = Len(s) + 1
           /\ DOMAIN Append(s, e) = 1..Len(s) + 1
           /\ \A i \in 1..Len(s) : Append(s, e)[i] = s[i]
           /\ Append(s, e)[Len(s) + 1] = e
           /\ e \in S => Append(s, e) \in Seq(S)
<1>1. s \in Seq(S \cup {e}) /\ e \in S \cup {e}
  OBVIOUS
<1>2. /\ Len(s) \in Nat /\ DOMAIN s = 1..Len(s)
      /\ Append(s, e) \in Seq(S \cup {e}) /\ Len(Append(s, e)) = Len(s) + 1
  BY <1>1
<1> QED
  BY <1>1, <1>2

\* A sequence one longer than another that it extends.
Extends(t, s, e) ==
    /\ Len(s) \in Nat /\ DOMAIN s = 1..Len(s)
    /\ Len(t) = Len(s) + 1 /\ DOMAIN t = 1..Len(s) + 1
    /\ \A i \in 1..Len(s) : t[i] = s[i]
    /\ t[Len(s) + 1] = e

LEMMA AppendExtends ==
    ASSUME NEW S, NEW s \in Seq(S), NEW e
    PROVE  Extends(Append(s, e), s, e)
  BY Appending DEF Extends

LEMMA ExtendedSet ==
    ASSUME NEW t, NEW s, NEW e, Extends(t, s, e)
    PROVE  ToSet(t) = ToSet(s) \cup {e}
<1>1. ASSUME NEW x \in ToSet(t) PROVE x \in ToSet(s) \cup {e}
  <2>1. PICK i \in 1..Len(s) + 1 : x = t[i]
    BY DEF Extends, ToSet
  <2>2. CASE i = Len(s) + 1
    BY <2>1, <2>2 DEF Extends
  <2>3. CASE i \in 1..Len(s)
    BY <2>1, <2>3 DEF Extends, ToSet
  <2> QED BY <2>1, <2>2, <2>3 DEF Extends
<1>2. ASSUME NEW x \in ToSet(s) PROVE x \in ToSet(t)
  <2>1. PICK i \in 1..Len(s) : x = s[i]
    BY DEF Extends, ToSet
  <2>2. t[i] = x /\ i \in 1..Len(s) + 1
    BY <2>1 DEF Extends
  <2> QED BY <2>2 DEF Extends, ToSet
<1>3. e \in ToSet(t)
  <2>1. Len(s) + 1 \in 1..Len(s) + 1
    BY DEF Extends
  <2> QED BY <2>1 DEF Extends, ToSet
<1> QED BY <1>1, <1>2, <1>3

LEMMA AppendIsSeq ==
    ASSUME NEW s, NEW e, IsSeq(s)
    PROVE  IsSeq(Append(s, e)) /\ Extends(Append(s, e), s, e)
<1> DEFINE S == {s[i] : i \in DOMAIN s}
           t == Append(s, e)
           T == {t[i] : i \in DOMAIN t}
<1>1. s \in Seq(S)
  BY DEF IsSeq
<1>2. Extends(t, s, e)
  BY <1>1, AppendExtends
<1>3. S \subseteq T /\ e \in T
  <2> HIDE DEF t
  <2>1. \A i \in DOMAIN s : i \in DOMAIN t /\ t[i] = s[i]
    BY <1>2 DEF Extends
  <2>2. Len(s) + 1 \in DOMAIN t /\ t[Len(s) + 1] = e
    BY <1>2 DEF Extends
  <2> QED
    BY <2>1, <2>2
<1>4. s \in Seq(T)
  BY <1>1, <1>3
<1>5. t \in Seq(T)
  <2> HIDE DEF T
  <2> QED
    BY <1>3, <1>4
<1> QED
  BY <1>2, <1>5 DEF IsSeq

\* Tuples of the order of the conditions, one appended after the other.
LEMMA Two == ASSUME NEW a, NEW b PROVE Append(<<a>>, b) = <<a, b>>
<1> DEFINE s == Append(<<a>>, b)
           t == <<a, b>>
<1>1. s \in Seq({a, b}) /\ t \in Seq({a, b}) /\ Len(s) = 2 /\ Len(t) = 2
  OBVIOUS
<1>2. s[1] = a /\ s[2] = b /\ t[1] = a /\ t[2] = b
  OBVIOUS
<1> HIDE DEF s, t
<1>3. \A i \in 1..2 : s[i] = t[i]
  BY <1>2
<1> QED
  BY <1>1, <1>3, SeqEqual DEF s, t

LEMMA Three == ASSUME NEW a, NEW b, NEW c PROVE Append(<<a, b>>, c) = <<a, b, c>>
<1> DEFINE s == Append(<<a, b>>, c)
           t == <<a, b, c>>
<1>1. s \in Seq({a, b, c}) /\ t \in Seq({a, b, c}) /\ Len(s) = 3 /\ Len(t) = 3
  OBVIOUS
<1>2. s[1] = a /\ s[2] = b /\ s[3] = c /\ t[1] = a /\ t[2] = b /\ t[3] = c
  OBVIOUS
<1> HIDE DEF s, t
<1>3. \A i \in 1..3 : s[i] = t[i]
  BY <1>2
<1>4. s = t
  BY <1>1, <1>3, SeqEqual
<1> QED
  BY <1>4 DEF s, t

LEMMA Orders ==
    /\ Append(<<>>, "sanuvia_persistent") = <<"sanuvia_persistent">>
    /\ Append(<<"sanuvia_persistent">>, "fm_stateless")
         = <<"sanuvia_persistent", "fm_stateless">>
    /\ Append(<<"sanuvia_persistent", "fm_stateless">>, "fm_transcript") = ConditionOrder
<1>1. Append(<<>>, "sanuvia_persistent") = <<"sanuvia_persistent">>
  OBVIOUS
<1> QED
  BY <1>1, Two, Three DEF ConditionOrder

LEMMA SeqFacts ==
    ASSUME NEW s, IsSeq(s)
    PROVE  Len(s) \in Nat /\ DOMAIN s = 1..Len(s)
  BY DEF IsSeq

LEMMA Stages ==
    /\ Stage["setup"] = 0 /\ Stage["configure"] = 1 /\ Stage["extract"] = 2
    /\ Stage["sanuvia_persistent"] = 3 /\ Stage["fm_stateless"] = 4
    /\ Stage["fm_transcript"] = 5 /\ Stage["compare"] = 6
    /\ Stage["evidence"] = 7 /\ Stage["report"] = 8
    /\ CalledAt["evidence_extraction"] = 2 /\ CalledAt["evidence_appraisal"] = 3
    /\ CalledAt["identity_resolution"] = 3 /\ CalledAt["stateless_baseline"] = 4
    /\ CalledAt["transcript_baseline"] = 5
  BY DEF Stage, CalledAt

LEMMA StageRange ==
    /\ \A phase \in Phases : Stage[phase] \in 0..8
    /\ \A b \in Boundaries : CalledAt[b] \in 2..5
    /\ Conditions \subseteq Phases
  BY Stages DEF Phases, Boundaries, Conditions

\* A type says of each field what it is.
LEMMA RunFieldTypes ==
    ASSUME NEW r, RunTypes(r)
    PROVE  /\ r.turn \in Nat /\ r.turn > 0 /\ r.item \in Nat /\ r.item > 0
           /\ r.asked \in Nat
           /\ Len(r.audit) \in Nat /\ DOMAIN r.audit = 1..Len(r.audit)
           /\ Len(r.calls) \in Nat /\ DOMAIN r.calls = 1..Len(r.calls)
           /\ \A k \in DOMAIN r.calls :
                /\ r.calls[k].boundary \in Boundaries /\ r.calls[k].turn \in Turns
                /\ r.calls[k].item \in Nat /\ r.calls[k].status \in Statuses
           /\ \A c \in Conditions :
                /\ r.records[c] \in Seq(StepRecords) /\ Len(r.records[c]) \in Nat
                /\ DOMAIN r.records[c] = 1..Len(r.records[c])
                /\ r.steps[c] \in Nat
           /\ DOMAIN r.records = Conditions /\ DOMAIN r.steps = Conditions
<1>1. /\ r.turn \in Nat /\ r.turn > 0 /\ r.item \in Nat /\ r.item > 0 /\ r.asked \in Nat
  BY DEF RunTypes
<1>2. Len(r.audit) \in Nat /\ DOMAIN r.audit = 1..Len(r.audit)
  BY SeqFacts DEF RunTypes
<1>3. Len(r.calls) \in Nat /\ DOMAIN r.calls = 1..Len(r.calls)
  BY DEF RunTypes
<1>4. \A k \in DOMAIN r.calls : r.calls[k] \in CallRecords
  BY DEF RunTypes
<1>5. \A x \in CallRecords : /\ x.boundary \in Boundaries /\ x.turn \in Turns
                             /\ x.item \in Nat /\ x.status \in Statuses
  BY DEF CallRecords
<1>6. \A c \in Conditions : r.records[c] \in Seq(StepRecords) /\ r.steps[c] \in Nat
  BY DEF RunTypes
<1>7. \A c \in Conditions : /\ Len(r.records[c]) \in Nat
                            /\ DOMAIN r.records[c] = 1..Len(r.records[c])
  BY <1>6
<1> QED
  BY <1>1, <1>2, <1>3, <1>4, <1>5, <1>6, <1>7 DEF RunTypes
----------------------------------------------------------------------------
(* What each change of the run leaves of its fields.                       *)

\* n is r but for the fields changed.
Differs(n, r, changed) ==
    DOMAIN n = RunFields /\ \A f \in RunFields \ changed : n[f] = r[f]

CallOf(r) == [boundary |-> r.call.boundary, turn |-> r.turn, item |-> r.item,
              status |-> CallStatus(r.call.answer)]

LEMMA RecordedFields ==
    ASSUME NEW r, DOMAIN r = RunFields
    PROVE  /\ Differs(Recorded(r), r, {"call", "calls"})
           /\ Recorded(r).call = NoCall
           /\ Recorded(r).calls = Append(r.calls, CallOf(r))
  BY DEF Recorded, Differs, CallOf, RunFields

LEMMA AbortedFields ==
    ASSUME NEW r, NEW error, DOMAIN r = RunFields
    PROVE  /\ Differs(Aborted(r, error), r, {"phase", "error", "call"})
           /\ Aborted(r, error).phase = "evidence" /\ Aborted(r, error).error = error
           /\ Aborted(r, error).call = NoCall
  BY DEF Aborted, Differs, RunFields

LEMMA ExtractedFields ==
    ASSUME NEW r, NEW rejected, NEW items, DOMAIN r = RunFields
    PROVE  /\ Differs(Extracted(r, rejected, items), r, {"audit", "phase", "turn"})
           /\ Extracted(r, rejected, items).audit
                = Append(r.audit, [turn |-> r.turn, rejected |-> rejected, items |-> items])
           /\ r.turn = NumTurns =>
                /\ Extracted(r, rejected, items).phase = "sanuvia_persistent"
                /\ Extracted(r, rejected, items).turn = 1
           /\ r.turn # NumTurns =>
                /\ Extracted(r, rejected, items).phase = r.phase
                /\ Extracted(r, rejected, items).turn = r.turn + 1
  BY DEF Extracted, Differs, RunFields

\* The three runs a step of a condition makes of r.
Counted(c, r) == [r EXCEPT !.steps[c] = r.turn, !.item = 1, !.pending = 0]
StepOf(r, outcome, context) == [turn |-> r.turn, outcome |-> outcome, context |-> context]
Stepped(c, r, outcome, context) ==
    [Counted(c, r) EXCEPT !.records[c] = Append(@, StepOf(r, outcome, context)),
                          !.turn = @ + 1]

LEMMA CountedFields ==
    ASSUME NEW r, NEW c \in Conditions, DOMAIN r = RunFields, DOMAIN r.steps = Conditions
    PROVE  /\ Differs(Counted(c, r), r, {"steps", "item", "pending"})
           /\ DOMAIN Counted(c, r).steps = Conditions
           /\ Counted(c, r).steps = [r.steps EXCEPT ![c] = r.turn]
           /\ Counted(c, r).steps[c] = r.turn /\ Counted(c, r).item = 1
           /\ \A d \in Conditions : d # c => Counted(c, r).steps[d] = r.steps[d]
<1> DEFINE steps == [r.steps EXCEPT ![c] = r.turn]
<1>1. Counted(c, r) = [r EXCEPT !.steps = steps, !.item = 1, !.pending = 0]
  BY DEF Counted
<1>2. /\ DOMAIN steps = Conditions /\ steps[c] = r.turn
      /\ \A d \in Conditions : d # c => steps[d] = r.steps[d]
  OBVIOUS
<1> HIDE DEF steps
<1>3. /\ Differs([r EXCEPT !.steps = steps, !.item = 1, !.pending = 0], r,
                 {"steps", "item", "pending"})
      /\ [r EXCEPT !.steps = steps, !.item = 1, !.pending = 0].steps = steps
      /\ [r EXCEPT !.steps = steps, !.item = 1, !.pending = 0].item = 1
  BY DEF Differs, RunFields
<1> QED
  BY <1>1, <1>2, <1>3 DEF steps

LEMMA SteppedFields ==
    ASSUME NEW r, NEW c \in Conditions, NEW outcome, NEW context, DOMAIN r = RunFields,
           DOMAIN r.steps = Conditions, DOMAIN r.records = Conditions
    PROVE  LET n == Stepped(c, r, outcome, context) IN
           /\ Differs(n, r, {"steps", "item", "pending", "records", "turn"})
           /\ DOMAIN n.steps = Conditions /\ n.steps[c] = r.turn /\ n.item = 1
           /\ \A d \in Conditions : d # c => n.steps[d] = r.steps[d]
           /\ DOMAIN n.records = Conditions
           /\ n.records[c] = Append(r.records[c], StepOf(r, outcome, context))
           /\ \A d \in Conditions : d # c => n.records[d] = r.records[d]
           /\ n.turn = r.turn + 1
<1> DEFINE m == Counted(c, r)
           records == [m.records EXCEPT ![c] = Append(@, StepOf(r, outcome, context))]
           n == Stepped(c, r, outcome, context)
<1>1. /\ Differs(m, r, {"steps", "item", "pending"})
      /\ DOMAIN m.steps = Conditions /\ m.steps[c] = r.turn /\ m.item = 1
      /\ \A d \in Conditions : d # c => m.steps[d] = r.steps[d]
  BY CountedFields
<1>2. DOMAIN m = RunFields /\ m.records = r.records /\ m.turn = r.turn
  BY <1>1 DEF Differs, RunFields
<1>3. n = [m EXCEPT !.records = records, !.turn = @ + 1]
  BY DEF Stepped
<1> HIDE DEF m
<1>4. /\ DOMAIN records = Conditions
      /\ records[c] = Append(r.records[c], StepOf(r, outcome, context))
      /\ \A d \in Conditions : d # c => records[d] = r.records[d]
  BY <1>2
<1> HIDE DEF records, n
<1>5. Differs(n, m, {"records", "turn"}) /\ n.records = records /\ n.turn = m.turn + 1
  BY <1>2, <1>3 DEF Differs, RunFields
<1>6. /\ Differs(n, r, {"steps", "item", "pending", "records", "turn"})
      /\ n.steps = m.steps /\ n.item = m.item
  BY <1>1, <1>5 DEF Differs, RunFields
<1> QED
  BY <1>1, <1>2, <1>4, <1>5, <1>6 DEF n

LEMMA SteppedTypes ==
    ASSUME NEW r, NEW c \in Conditions, NEW outcome \in Outcomes, NEW context \in SUBSET Nat,
           RunTypes(r)
    PROVE  LET n == Stepped(c, r, outcome, context) IN
           /\ n.steps \in [Conditions -> Nat]
           /\ n.records \in [Conditions -> Seq(StepRecords)]
<1> DEFINE e == StepOf(r, outcome, context)
           steps == [r.steps EXCEPT ![c] = r.turn]
           m == [r EXCEPT !.steps = steps, !.item = 1, !.pending = 0]
           records == [m.records EXCEPT ![c] = Append(@, e)]
           n == [m EXCEPT !.records = records, !.turn = @ + 1]
<1>1. Stepped(c, r, outcome, context) = n
  BY DEF Stepped, Counted
<1>2. /\ r.turn \in Nat /\ r.steps \in [Conditions -> Nat] /\ DOMAIN r = RunFields
      /\ r.records \in [Conditions -> Seq(StepRecords)]
  BY DEF RunTypes
<1>3. e \in StepRecords
  BY <1>2 DEF StepOf, StepRecords
<1>4. steps \in [Conditions -> Nat]
  BY <1>2
<1> HIDE DEF steps, e
<1>5. m.records = r.records /\ m.steps = steps /\ DOMAIN m = RunFields
  BY <1>2 DEF RunFields
<1> HIDE DEF m
<1>6. Append(m.records[c], e) \in Seq(StepRecords)
  BY <1>2, <1>3, <1>5
<1>7. records \in [Conditions -> Seq(StepRecords)]
  BY <1>2, <1>5, <1>6
<1> HIDE DEF records
<1>8. n.steps = m.steps /\ n.records = records
  BY <1>5 DEF RunFields
<1> QED
  BY <1>1, <1>4, <1>5, <1>7, <1>8
----------------------------------------------------------------------------
(* The invariant of the run, change by change.                             *)

\* What only looks at fields that stay is kept.
LEMMA KeptSame ==
    ASSUME NEW r, NEW n, Kept(r), Differs(n, r, {"phase", "turn", "item", "pending", "error",
                                                 "call", "asked", "steps"}),
           n.phase \in Phases, n.turn \in Nat \ {0}, n.item \in Nat \ {0}, n.asked \in Nat,
           DOMAIN n.call = {"boundary", "turn", "item", "answer"},
           n.steps \in [Conditions -> Nat],
           \A c \in ToSet(r.completed) : n.steps[c] = r.steps[c]
    PROVE  Kept(n)
<1>1. /\ DOMAIN n = RunFields /\ n.roster = r.roster /\ n.audit = r.audit
      /\ n.calls = r.calls /\ n.records = r.records /\ n.completed = r.completed
  BY DEF Differs, RunFields
<1>2. RunTypes(n)
  BY <1>1 DEF Kept, RunTypes
<1>3. AuditKept(n)
  BY <1>1 DEF Kept, AuditKept, Called
<1>4. CallsKept(n)
  BY <1>1 DEF Kept, CallsKept
<1>5. RecordsKept(n)
  BY <1>1 DEF Kept, RecordsKept
<1> QED
  BY <1>2, <1>3, <1>4, <1>5 DEF Kept

LEMMA AbortedInv ==
    ASSUME NEW r, NEW error, Kept(r), StepsKept(r, error), error \notin {"none", "ValueError"},
           \/ Len(r.calls) = r.asked
           \/ Len(r.calls) + 1 = r.asked /\ error = "KeyboardInterrupt"
    PROVE  RunInv(Aborted(r, error))
<1> DEFINE n == Aborted(r, error)
<1>1. RunTypes(r)
  BY DEF Kept
<1>2. /\ Differs(n, r, {"phase", "error", "call"})
      /\ n.phase = "evidence" /\ n.error = error /\ n.call = NoCall
  BY <1>1, AbortedFields DEF RunTypes
<1> HIDE DEF n
<1>3. /\ DOMAIN n = RunFields /\ n.turn = r.turn /\ n.item = r.item /\ n.asked = r.asked
      /\ n.steps = r.steps /\ n.calls = r.calls /\ n.records = r.records
  BY <1>2 DEF Differs, RunFields
<1>4. Kept(n)
  <2>1. DOMAIN n.call = {"boundary", "turn", "item", "answer"} /\ n.phase \in Phases
    BY <1>2 DEF NoCall, Phases
  <2>2. /\ n.turn \in Nat \ {0} /\ n.item \in Nat \ {0} /\ n.asked \in Nat
        /\ n.steps \in [Conditions -> Nat]
    BY <1>1, <1>3 DEF RunTypes
  <2>3. Differs(n, r, {"phase", "turn", "item", "pending", "error", "call", "asked", "steps"})
    BY <1>2 DEF Differs
  <2> QED
    BY <1>3, <2>1, <2>2, <2>3, KeptSame
<1>5. StepsKept(n, n.error)
  BY <1>2, <1>3 DEF StepsKept
<1>6. Stage[n.phase] = 7
  BY <1>2, Stages
<1>7. Stopped(n)
  BY <1>2, <1>3 DEF Stopped
<1> QED
  BY <1>4, <1>5, <1>6, <1>7 DEF RunInv, n

\* A call that was answered goes into the manifest.
LEMMA RecordedKept ==
    ASSUME NEW r, RunInv(r), Stage[r.phase] < 7,
           r.call.boundary \in Boundaries, r.call # NoCall
    PROVE  LET n == Recorded(r) IN
           /\ Kept(n) /\ Differs(n, r, {"call", "calls"}) /\ n.call = NoCall
           /\ Extends(n.calls, r.calls, CallOf(r)) /\ Len(n.calls) = n.asked
           /\ StepsKept(n, "none") /\ Called(n, r.turn)
<1> DEFINE n == Recorded(r)
           x == CallOf(r)
<1>1. /\ RunTypes(r) /\ AuditKept(r) /\ CallsKept(r) /\ RecordsKept(r)
      /\ Placed(r) /\ AllPast(r) /\ CallPlaced(r)
  BY DEF RunInv, Kept, Underway
<1>2. /\ r.turn \in Turns
      /\ CalledAt[r.call.boundary] = Stage[r.phase]
      /\ r.call.boundary = "evidence_appraisal" => ~r.audit[r.turn].rejected
      /\ Len(r.calls) + 1 = r.asked
  BY <1>1 DEF CallPlaced
<1>3. /\ x.boundary = r.call.boundary /\ x.turn = r.turn /\ x.item = r.item
      /\ x \in CallRecords
  <2>1. CallStatus(r.call.answer) \in Statuses
    BY DEF CallStatus, Statuses
  <2>2. r.item \in Nat
    BY <1>1 DEF RunTypes
  <2> QED
    BY <1>2, <2>1, <2>2 DEF CallOf, CallRecords
<1>4. /\ Differs(n, r, {"call", "calls"}) /\ n.call = NoCall /\ n.calls = Append(r.calls, x)
  BY <1>1, RecordedFields DEF RunTypes
<1> HIDE DEF n, x
<1>5. r.calls \in Seq(CallRecords)
  BY <1>1 DEF RunTypes
<1>6. Extends(n.calls, r.calls, x) /\ n.calls \in Seq(CallRecords)
  BY <1>3, <1>4, <1>5, AppendExtends, Appending
<1>7. /\ DOMAIN n = RunFields /\ n.phase = r.phase /\ n.turn = r.turn /\ n.item = r.item
      /\ n.asked = r.asked /\ n.roster = r.roster /\ n.audit = r.audit
      /\ n.records = r.records /\ n.steps = r.steps /\ n.completed = r.completed
      /\ n.error = r.error
  BY <1>4 DEF Differs, RunFields
<1>8. Len(n.calls) = n.asked
  BY <1>2, <1>6, <1>7 DEF Extends
<1>9. RunTypes(n)
  <2>1. DOMAIN n.call = {"boundary", "turn", "item", "answer"}
    BY <1>4 DEF NoCall
  <2> QED
    BY <1>1, <1>6, <1>7, <2>1 DEF RunTypes
<1>10. \A t : Called(r, t) => Called(n, t)
  BY <1>6 DEF Called, Extends
<1>11. AuditKept(n)
  BY <1>1, <1>7, <1>10 DEF AuditKept
<1>12. CallsKept(n)
  <2>1. \A k \in DOMAIN r.calls :
          /\ x.boundary # "identity_resolution" /\ x.boundary = r.calls[k].boundary
          /\ x.turn = r.calls[k].turn /\ x.item = r.calls[k].item
          => FALSE
    <3> SUFFICES ASSUME NEW k \in DOMAIN r.calls,
                        x.boundary # "identity_resolution", x.boundary = r.calls[k].boundary,
                        x.turn = r.calls[k].turn, x.item = r.calls[k].item
                 PROVE  FALSE
      OBVIOUS
    <3>1. Past(r, k)
      BY <1>1 DEF AllPast
    <3>2. CalledAt[r.calls[k].boundary] = Stage[r.phase]
      BY <1>2, <1>3
    <3>3. Stage[r.phase] \in 0..8 /\ r.turn \in Nat /\ r.item \in Nat
      BY <1>1, StageRange, RunFieldTypes DEF RunTypes
    <3> QED
      BY <1>3, <3>1, <3>2, <3>3 DEF Past
  <2>2. \A k \in DOMAIN n.calls : \/ k \in DOMAIN r.calls /\ n.calls[k] = r.calls[k]
                                  \/ k = Len(r.calls) + 1 /\ n.calls[k] = x
    BY <1>6 DEF Extends
  <2>3. \A i \in DOMAIN n.calls :
          n.calls[i].boundary = "evidence_appraisal" => ~n.audit[n.calls[i].turn].rejected
    BY <1>1, <1>2, <1>3, <1>7, <2>2 DEF CallsKept
  <2>4. ASSUME NEW i \in DOMAIN n.calls, NEW j \in DOMAIN n.calls,
               n.calls[i].boundary # "identity_resolution",
               n.calls[i].boundary = n.calls[j].boundary,
               n.calls[i].turn = n.calls[j].turn, n.calls[i].item = n.calls[j].item
        PROVE  i = j
    BY <1>1, <2>1, <2>2, <2>4 DEF CallsKept
  <2> QED
    BY <2>3, <2>4 DEF CallsKept
<1>13. RecordsKept(n)
  BY <1>1, <1>7 DEF RecordsKept
<1>14. Called(n, r.turn)
  BY <1>3, <1>6 DEF Called, Extends
<1>15. StepsKept(n, "none")
  BY <1>1, <1>7 DEF Placed, StepsKept
<1> QED
  BY <1>4, <1>6, <1>8, <1>9, <1>11, <1>12, <1>13, <1>14, <1>15 DEF Kept, n, x

\* Between two calls: the last one, if any, may be for the place the run is at.
Here(r, k) ==
    /\ CalledAt[r.calls[k].boundary] = Stage[r.phase]
    /\ r.calls[k].turn = r.turn /\ r.calls[k].item = r.item

Ready(r) ==
    /\ Kept(r) /\ Placed(r) /\ Stage[r.phase] < 7
    /\ \A k \in DOMAIN r.calls : Past(r, k) \/ Here(r, k)
    /\ r.call = NoCall /\ Len(r.calls) = r.asked

LEMMA ReadyIdle ==
    ASSUME NEW r, RunInv(r), Stage[r.phase] < 7, r.call = NoCall
    PROVE  Ready(r)
<1>1. NoCall.boundary \notin Boundaries
  BY DEF NoCall, Boundaries
<1> QED
  BY <1>1 DEF RunInv, Underway, AllPast, CallPlaced, Ready

LEMMA ReadyReply ==
    ASSUME NEW r, RunInv(r), Stage[r.phase] < 7, r.call.boundary \in Boundaries,
           r.call.answer \notin Failures
    PROVE  Ready(Recorded(r)) /\ Called(Recorded(r), r.turn)
<1> DEFINE n == Recorded(r)
           x == CallOf(r)
<1>1. r.call # NoCall
  BY DEF NoCall, Boundaries
<1>2. /\ Kept(n) /\ Differs(n, r, {"call", "calls"}) /\ n.call = NoCall
      /\ Extends(n.calls, r.calls, x) /\ Len(n.calls) = n.asked
      /\ Called(n, r.turn)
  BY <1>1, RecordedKept
<1>3. /\ x.boundary = r.call.boundary /\ x.turn = r.turn /\ x.item = r.item
      /\ x.status = "success"
  <2>1. CallStatus(r.call.answer) = "success"
    BY DEF CallStatus, Failures
  <2> QED
    BY <2>1 DEF CallOf
<1> HIDE DEF n, x
<1>4. /\ n.phase = r.phase /\ n.turn = r.turn /\ n.item = r.item
      /\ n.asked = r.asked /\ n.roster = r.roster /\ n.audit = r.audit
      /\ n.records = r.records /\ n.steps = r.steps /\ n.completed = r.completed
      /\ n.error = r.error
  BY <1>2 DEF Differs, RunFields
<1>5. Placed(r) /\ AllPast(r) /\ CalledAt[r.call.boundary] = Stage[r.phase]
  BY <1>1 DEF RunInv, Underway, CallPlaced
<1>6. \A t : Called(r, t) => Called(n, t)
  BY <1>2 DEF Called, Extends
<1>7. \A k \in DOMAIN n.calls : \/ k \in DOMAIN r.calls /\ n.calls[k] = r.calls[k]
                                \/ k = Len(r.calls) + 1 /\ n.calls[k] = x
  BY <1>2 DEF Extends
<1>8. Stage[n.phase] \in 2..5
  BY <1>4, <1>5, StageRange
<1>9. Placed(n)
  <2>1. Stage[n.phase] # 0 /\ ~(Stage[n.phase] =< 1) /\ n.phase # "setup"
    BY <1>8, Stages
  <2>2. \A k \in DOMAIN n.calls : n.calls[k].status = "success"
    BY <1>3, <1>5, <1>7 DEF Placed
  <2> QED
    BY <1>4, <1>5, <1>6, <2>1, <2>2 DEF Placed
<1>10. \A k \in DOMAIN n.calls : Past(n, k) \/ Here(n, k)
  BY <1>3, <1>4, <1>5, <1>7 DEF AllPast, Past, Here
<1> QED
  BY <1>2, <1>4, <1>9, <1>10 DEF Ready, n

LEMMA ReadyFacts ==
    ASSUME NEW r, Ready(r)
    PROVE  /\ Kept(r) /\ Placed(r) /\ RunTypes(r) /\ AuditKept(r) /\ CallsKept(r)
           /\ RecordsKept(r) /\ r.call = NoCall /\ Len(r.calls) = r.asked
           /\ r.phase \in Phases /\ Stage[r.phase] \in 0..6
           /\ DOMAIN r = RunFields /\ r.error = "none"
           /\ \A c \in Conditions : r.steps[c] = Len(r.records[c])
<1>1. r.phase \in Phases
  BY DEF Ready, Kept, RunTypes
<1>2. Stage[r.phase] \in 0..6
  BY <1>1, StageRange DEF Ready
<1> QED
  BY <1>1, <1>2 DEF Ready, Kept, RunTypes, Placed

LEMMA NumTurnsFacts ==
    /\ NumTurns \in Nat /\ NumTurns > 0 /\ Turns = 1..NumTurns
    /\ \A t \in Turns : t \in Nat
  BY StageOneAssumption DEF Turns

\* Extraction of a turn.
LEMMA ExtractedInv ==
    ASSUME NEW r, NEW rejected, NEW items, Ready(r), r.phase = "extract",
           rejected => items = <<>>,
           \A k \in DOMAIN items : Labelled(items[k], r.turn, r.roster),
           r.turn \notin HoldTurns => Called(r, r.turn)
    PROVE  RunInv(Extracted(r, rejected, items))
<1> DEFINE n == Extracted(r, rejected, items)
           e == [turn |-> r.turn, rejected |-> rejected, items |-> items]
<1>1. /\ Kept(r) /\ Placed(r) /\ RunTypes(r) /\ AuditKept(r) /\ CallsKept(r)
      /\ RecordsKept(r) /\ r.call = NoCall /\ Len(r.calls) = r.asked
      /\ DOMAIN r = RunFields /\ r.error = "none" /\ Stage[r.phase] = 2
  BY ReadyFacts, Stages
<1>2. /\ Differs(n, r, {"audit", "phase", "turn"}) /\ n.audit = Append(r.audit, e)
      /\ r.turn = NumTurns => n.phase = "sanuvia_persistent" /\ n.turn = 1
      /\ r.turn # NumTurns => n.phase = "extract" /\ n.turn = r.turn + 1
  BY <1>1, ExtractedFields
<1>3. e.turn = r.turn /\ e.rejected = rejected /\ e.items = items
  OBVIOUS
<1> HIDE DEF n, e
<1>4. /\ DOMAIN n = RunFields /\ n.item = r.item /\ n.asked = r.asked
      /\ n.roster = r.roster /\ n.calls = r.calls /\ n.call = r.call
      /\ n.records = r.records /\ n.steps = r.steps /\ n.completed = r.completed
      /\ n.error = r.error
  BY <1>2 DEF Differs, RunFields
<1>5. IsSeq(n.audit) /\ Extends(n.audit, r.audit, e)
  BY <1>1, <1>2, AppendIsSeq DEF RunTypes
<1>6. /\ r.turn \in 1..NumTurns /\ Len(r.audit) = r.turn - 1 /\ r.item = 1
      /\ r.completed = <<>>
      /\ \A c \in Conditions : r.records[c] = <<>> /\ r.steps[c] = 0
  BY <1>1 DEF Placed, Turns
<1>7. /\ n.phase \in Phases /\ n.turn \in Nat \ {0}
      /\ Stage[n.phase] \in 2..3
  BY <1>2, <1>6, NumTurnsFacts, Stages DEF Phases
<1>8. RunTypes(n)
  BY <1>1, <1>4, <1>5, <1>7 DEF RunTypes
<1>9. AuditKept(n)
  <2> SUFFICES ASSUME NEW i \in DOMAIN n.audit
               PROVE  /\ n.audit[i].turn = i
                      /\ n.audit[i].rejected => n.audit[i].items = <<>>
                      /\ \A k \in DOMAIN n.audit[i].items :
                           Labelled(n.audit[i].items[k], i, n.roster)
                      /\ i \notin HoldTurns => Called(n, i)
    BY DEF AuditKept
  <2>1. CASE i \in DOMAIN r.audit
    <3>1. n.audit[i] = r.audit[i]
      BY <1>5, <2>1 DEF Extends
    <3> QED
      BY <1>1, <1>4, <2>1, <3>1 DEF AuditKept, Called
  <2>2. CASE i \notin DOMAIN r.audit
    <3>1. i = r.turn /\ n.audit[i] = e
      BY <1>5, <1>6, <2>2 DEF Extends
    <3> QED
      BY <1>3, <1>4, <3>1 DEF Called
  <2> QED
    BY <2>1, <2>2
<1>10. \A k \in DOMAIN n.calls : CalledAt[n.calls[k].boundary] =< 2
  <2> SUFFICES ASSUME NEW k \in DOMAIN r.calls PROVE CalledAt[r.calls[k].boundary] =< 2
    BY <1>4
  <2>1. Past(r, k) \/ Here(r, k)
    BY DEF Ready
  <2>2. CalledAt[r.calls[k].boundary] \in 2..5
    BY <1>1, RunFieldTypes, StageRange
  <2> QED
    BY <1>1, <2>1, <2>2 DEF Past, Here
<1>11. CallsKept(n)
  <2>1. \A k \in DOMAIN n.calls : n.calls[k].boundary # "evidence_appraisal"
    BY <1>10, Stages
  <2> QED
    BY <1>1, <1>4, <2>1 DEF CallsKept
<1>12. RecordsKept(n)
  <2>1. n.records["sanuvia_persistent"] = <<>>
    BY <1>4, <1>6 DEF Conditions
  <2>2. DOMAIN n.records["sanuvia_persistent"] = {}
    BY <2>1
  <2> QED
    BY <1>1, <1>4, <2>2 DEF RecordsKept
<1>13. StepsKept(n, n.error)
  BY <1>1, <1>4, ReadyFacts DEF StepsKept
<1>14. Placed(n)
  <2>1. Stage[n.phase] = 2 => n.turn = r.turn + 1 /\ n.turn \in Turns
    <3>1. Stage[n.phase] = 2 => r.turn # NumTurns
      BY <1>2, Stages
    <3> QED
      BY <1>2, <1>6, <3>1, NumTurnsFacts
  <2>2. Stage[n.phase] = 3 => n.turn = 1 /\ r.turn = NumTurns
    BY <1>2, <1>7, Stages
  <2>3. Len(n.audit) = r.turn
    BY <1>5, <1>6 DEF Extends
  <2>4. \A c \in Conditions : /\ n.records[c] = <<>> /\ n.steps[c] = 0
                              /\ Len(n.records[c]) = 0 /\ Stage[c] \in 3..5
    BY <1>4, <1>6, Stages DEF Conditions
  <2>5. n.item = 1 /\ n.error = "none" /\ n.completed = <<>> /\ n.phase # "setup"
    BY <1>1, <1>4, <1>6, <1>7, Stages
  <2>6. \A k \in DOMAIN n.calls : n.calls[k].status = "success"
    BY <1>1, <1>4 DEF Placed
  <2>7. Stage[n.phase] = 3 => Len(n.audit) = NumTurns /\ n.turn \in 1..NumTurns + 1
    BY <2>2, <2>3, NumTurnsFacts
  <2>8. Stage[n.phase] = 2 => n.turn \in Turns /\ Len(n.audit) = n.turn - 1
    BY <2>1, <2>3, <1>6
  <2>9. \A c \in Conditions : Stage[n.phase] = Stage[c] => Len(n.records[c]) = n.turn - 1
    BY <2>2, <2>4, <1>7
  <2> HIDE DEF RunFields
  <2> QED
    BY <1>7, <2>4, <2>5, <2>6, <2>7, <2>8, <2>9 DEF Placed
<1>15. AllPast(n)
  <2> SUFFICES ASSUME NEW k \in DOMAIN n.calls PROVE Past(n, k)
    BY DEF AllPast
  <2>1. Past(r, k) \/ Here(r, k)
    BY <1>4 DEF Ready
  <2>2. /\ CalledAt[n.calls[k].boundary] =< 2 /\ CalledAt[n.calls[k].boundary] \in 2..5
        /\ n.calls[k] = r.calls[k] /\ r.calls[k].turn \in Nat
    BY <1>1, <1>4, <1>10, RunFieldTypes, StageRange, NumTurnsFacts
  <2>3. CASE Stage[n.phase] = 3
    BY <2>2, <2>3 DEF Past
  <2>4. CASE Stage[n.phase] = 2
    <3>1. n.turn = r.turn + 1
      BY <1>2, <2>4, Stages
    <3>2. r.calls[k].turn =< r.turn
      BY <1>1, <1>6, <2>1, <2>2 DEF Past, Here
    <3> QED
      BY <1>6, <2>2, <2>4, <3>1, <3>2 DEF Past
  <2> QED
    BY <1>7, <2>3, <2>4
<1>16. CallPlaced(n)
  BY <1>1, <1>4 DEF CallPlaced
<1> QED
  BY <1>7, <1>8, <1>9, <1>11, <1>12, <1>13, <1>14, <1>15, <1>16
     DEF RunInv, Kept, Underway, n

\* A condition in progress is not yet among the completed ones.
LEMMA InCondition ==
    ASSUME NEW r, NEW c \in Conditions, Ready(r), r.phase = c
    PROVE  /\ Stage[c] \in 3..5 /\ Len(r.records[c]) = r.turn - 1
           /\ r.turn \in 1..NumTurns + 1 /\ c \notin ToSet(r.completed)
           /\ c = "sanuvia_persistent" => /\ r.completed = <<>>
                                          /\ r.records["fm_stateless"] = <<>>
                                          /\ r.records["fm_transcript"] = <<>>
           /\ c = "fm_stateless" => /\ r.completed = <<"sanuvia_persistent">>
                                    /\ Len(r.records["sanuvia_persistent"]) = NumTurns
                                    /\ r.records["fm_transcript"] = <<>>
           /\ c = "fm_transcript" =>
                /\ r.completed = <<"sanuvia_persistent", "fm_stateless">>
                /\ Len(r.records["sanuvia_persistent"]) = NumTurns
                /\ Len(r.records["fm_stateless"]) = NumTurns
<1>1. Placed(r) /\ RunTypes(r)
  BY ReadyFacts
<1>2. Stage[c] \in 3..5
  BY Stages DEF Conditions
<1>3. /\ Stage[r.phase] = Stage[c] /\ Len(r.records[c]) = r.turn - 1
      /\ r.turn \in 1..NumTurns + 1
  BY <1>1, <1>2 DEF Placed
<1>4. \A d \in Conditions : r.records[d] \in Seq(StepRecords)
  BY <1>1, RunFieldTypes
<1>5. \A d \in Conditions : Len(r.records[d]) = 0 => r.records[d] = <<>>
  BY <1>4
<1>6. c = "sanuvia_persistent" => /\ r.completed = <<>>
                                  /\ Len(r.records["fm_stateless"]) = 0
                                  /\ Len(r.records["fm_transcript"]) = 0
  BY <1>1, Stages DEF Placed, Conditions
<1>7. c = "fm_stateless" => /\ r.completed = <<"sanuvia_persistent">>
                            /\ Len(r.records["sanuvia_persistent"]) = NumTurns
                            /\ Len(r.records["fm_transcript"]) = 0
  BY <1>1, Stages DEF Placed, Conditions
<1>8. c = "fm_transcript" => /\ r.completed = <<"sanuvia_persistent", "fm_stateless">>
                             /\ Len(r.records["sanuvia_persistent"]) = NumTurns
                             /\ Len(r.records["fm_stateless"]) = NumTurns
  BY <1>1, Stages DEF Placed, Conditions
<1>9. c \notin ToSet(r.completed)
  BY <1>6, <1>7, <1>8 DEF ToSet, Conditions
<1> QED
  BY <1>2, <1>3, <1>5, <1>6, <1>7, <1>8, <1>9 DEF Conditions

\* The record is written ...
LEMMA SteppedInv ==
    ASSUME NEW r, NEW c \in Conditions, NEW outcome \in Outcomes, NEW context \in SUBSET Nat,
           Ready(r), r.phase = c, r.turn \in Turns,
           c = "fm_transcript" => context = (1..r.turn) \ HoldTurns,
           c = "sanuvia_persistent" /\ r.audit[r.turn].rejected
             => outcome = "rejected_plan",
           c = "fm_stateless" => Called(r, r.turn)
    PROVE  RunInv(Stepped(c, r, outcome, context))
<1> DEFINE n == Stepped(c, r, outcome, context)
           e == StepOf(r, outcome, context)
<1>1. /\ Kept(r) /\ Placed(r) /\ RunTypes(r) /\ AuditKept(r) /\ CallsKept(r)
      /\ RecordsKept(r) /\ r.call = NoCall /\ Len(r.calls) = r.asked
      /\ DOMAIN r = RunFields /\ r.error = "none"
      /\ \A d \in Conditions : r.steps[d] = Len(r.records[d])
  BY ReadyFacts
<1>2. /\ DOMAIN r.records = Conditions /\ DOMAIN r.steps = Conditions
      /\ r.turn \in Nat /\ r.turn > 0
      /\ \A d \in Conditions : /\ r.records[d] \in Seq(StepRecords)
                               /\ Len(r.records[d]) \in Nat /\ r.steps[d] \in Nat
      /\ \A k \in DOMAIN r.calls : r.calls[k].turn \in Turns
  BY <1>1, RunFieldTypes
<1>3. /\ Differs(n, r, {"steps", "item", "pending", "records", "turn"})
      /\ DOMAIN n.steps = Conditions /\ n.steps[c] = r.turn /\ n.item = 1
      /\ \A d \in Conditions : d # c => n.steps[d] = r.steps[d]
      /\ DOMAIN n.records = Conditions /\ n.records[c] = Append(r.records[c], e)
      /\ \A d \in Conditions : d # c => n.records[d] = r.records[d]
      /\ n.turn = r.turn + 1
  BY <1>1, <1>2, SteppedFields
<1>20. n.steps \in [Conditions -> Nat] /\ n.records \in [Conditions -> Seq(StepRecords)]
  BY <1>1, SteppedTypes
<1>4. /\ e.turn = r.turn /\ e.outcome = outcome /\ e.context = context /\ e \in StepRecords
  BY <1>2 DEF StepOf, StepRecords
<1> HIDE DEF n, e
<1>5. /\ DOMAIN n = RunFields /\ n.phase = r.phase /\ n.asked = r.asked
      /\ n.roster = r.roster /\ n.audit = r.audit /\ n.calls = r.calls
      /\ n.call = r.call /\ n.completed = r.completed /\ n.error = r.error
  BY <1>3 DEF Differs, RunFields
<1>6. Extends(n.records[c], r.records[c], e) /\ n.records[c] \in Seq(StepRecords)
  BY <1>2, <1>3, <1>4, AppendExtends, Appending
<1>7. /\ Stage[c] \in 3..5 /\ Len(r.records[c]) = r.turn - 1
      /\ r.turn \in 1..NumTurns + 1 /\ c \notin ToSet(r.completed)
  BY InCondition
<1>8. Len(n.records[c]) = r.turn
  BY <1>6, <1>7 DEF Extends
<1>9. RunTypes(n)
  <2>1. n.turn \in Nat \ {0} /\ n.item \in Nat \ {0}
    BY <1>2, <1>3
  <2> QED
    BY <1>1, <1>5, <1>20, <2>1 DEF RunTypes
<1>10. AuditKept(n)
  BY <1>1, <1>5 DEF AuditKept, Called
<1>11. CallsKept(n)
  BY <1>1, <1>5 DEF CallsKept
<1>12. \A d \in Conditions : \A i \in DOMAIN n.records[d] :
         /\ n.records[d][i].turn = i
         /\ d = "fm_transcript" => n.records[d][i].context = (1..i) \ HoldTurns
         /\ d = "sanuvia_persistent" /\ r.audit[i].rejected
              => n.records[d][i].outcome = "rejected_plan"
  <2> SUFFICES ASSUME NEW d \in Conditions, NEW i \in DOMAIN n.records[d]
               PROVE  /\ n.records[d][i].turn = i
                      /\ d = "fm_transcript" =>
                           n.records[d][i].context = (1..i) \ HoldTurns
                      /\ d = "sanuvia_persistent" /\ r.audit[i].rejected
                           => n.records[d][i].outcome = "rejected_plan"
    OBVIOUS
  <2>1. CASE i \in DOMAIN r.records[d] /\ n.records[d][i] = r.records[d][i]
    BY <1>1, <2>1 DEF RecordsKept
  <2>2. CASE d = c /\ i = r.turn /\ n.records[d][i] = e
    BY <1>4, <2>2
  <2>3. CASE d # c
    BY <1>3, <2>1, <2>3
  <2>4. CASE d = c
    <3>1. i \in DOMAIN r.records[c] => n.records[c][i] = r.records[c][i]
      BY <1>6 DEF Extends
    <3>2. i \notin DOMAIN r.records[c] => i = r.turn /\ n.records[c][i] = e
      BY <1>6, <1>7, <2>4 DEF Extends
    <3> QED
      BY <2>1, <2>2, <2>4, <3>1, <3>2
  <2> QED
    BY <2>3, <2>4
<1>13. RecordsKept(n)
  <2>1. n.records["fm_stateless"] # <<>> => Len(n.records["sanuvia_persistent"]) = NumTurns
    BY <1>1, <1>3, InCondition DEF RecordsKept, Conditions
  <2>2. n.records["fm_transcript"] # <<>> => Len(n.records["fm_stateless"]) = NumTurns
    BY <1>1, <1>3, InCondition DEF RecordsKept, Conditions
  <2>3. ToSet(n.completed) \subseteq Conditions \ {c}
    BY <1>1, <1>5, <1>7 DEF RecordsKept, ToSet, Conditions, ConditionOrder
  <2>4. \A d \in ToSet(n.completed) : n.steps[d] = NumTurns /\ Len(n.records[d]) = NumTurns
    BY <1>1, <1>3, <1>5, <2>3 DEF RecordsKept
  <2>5. n.completed \in {<<>>, <<"sanuvia_persistent">>,
                         <<"sanuvia_persistent", "fm_stateless">>, ConditionOrder}
    BY <1>1, <1>5 DEF RecordsKept
  <2>6. "sanuvia_persistent" \in Conditions
    BY DEF Conditions
  <2> QED
    BY <1>5, <1>12, <2>1, <2>2, <2>4, <2>5, <2>6 DEF RecordsKept
<1>14. \A d \in Conditions : n.steps[d] = Len(n.records[d])
  BY <1>1, <1>3, <1>8
<1>15. StepsKept(n, n.error)
  BY <1>14 DEF StepsKept
<1>16. Placed(n)
  <2>1. Stage[n.phase] = Stage[c] /\ n.turn \in 1..NumTurns + 1
    BY <1>2, <1>3, <1>5, NumTurnsFacts
  <2>2. \A d \in Conditions : Stage[d] = Stage[c] => d = c
    BY Stages DEF Conditions
  <2>3. \A d \in Conditions : /\ Stage[n.phase] < Stage[d] => Len(n.records[d]) = 0
                              /\ Stage[n.phase] = Stage[d] => Len(n.records[d]) = n.turn - 1
                              /\ Stage[n.phase] > Stage[d] => Len(n.records[d]) = NumTurns
    <3> SUFFICES ASSUME NEW d \in Conditions
                 PROVE  /\ Stage[n.phase] < Stage[d] => Len(n.records[d]) = 0
                        /\ Stage[n.phase] = Stage[d] => Len(n.records[d]) = n.turn - 1
                        /\ Stage[n.phase] > Stage[d] => Len(n.records[d]) = NumTurns
      OBVIOUS
    <3>1. CASE d = c
      <4>1. Stage[n.phase] = Stage[d] /\ Stage[d] \in 3..5
        BY <1>7, <2>1, <3>1
      <4>2. Len(n.records[d]) = n.turn - 1
        BY <1>2, <1>3, <1>8, <3>1
      <4> QED
        BY <4>1, <4>2
    <3>2. CASE d # c
      <4>1. /\ Stage[r.phase] < Stage[d] => Len(r.records[d]) = 0
            /\ Stage[r.phase] > Stage[d] => Len(r.records[d]) = NumTurns
        BY <1>1 DEF Placed
      <4>2. Stage[n.phase] # Stage[d]
        BY <2>1, <2>2, <3>2
      <4> QED
        BY <1>3, <1>5, <3>2, <4>1, <4>2
    <3> QED
      BY <3>1, <3>2
  <2>4. Stage[n.phase] = 4 => \A t \in 1..n.turn - 1 : Called(n, t)
    <3>1. Stage[n.phase] = 4 => c = "fm_stateless"
      <4>1. \A d \in Conditions : Stage[d] = 4 => d = "fm_stateless"
        BY Stages DEF Conditions
      <4> QED
        BY <2>1, <4>1
    <3>2. Stage[n.phase] = 4 => \A t \in 1..r.turn - 1 : Called(r, t)
      BY <1>1, <1>5 DEF Placed
    <3>3. \A t : Called(r, t) => Called(n, t)
      BY <1>5 DEF Called
    <3> QED
      BY <1>2, <1>3, <3>1, <3>2, <3>3
  <2>5. Stage[n.phase] \in 5..6 => \A t \in Turns : Called(n, t)
    BY <1>1, <1>5 DEF Placed, Called
  <2>6. Stage[n.phase] \in 3..5 /\ n.phase # "setup"
    BY <1>7, <2>1, Stages
  <2>10. /\ ~(Stage[n.phase] =< 1) /\ ~(Stage[n.phase] =< 2) /\ Stage[n.phase] # 2
         /\ Stage[n.phase] =< 3 => Stage[n.phase] = 3
         /\ Stage[n.phase] # 6
    BY <2>6
  <2>7. Len(n.audit) = NumTurns
    BY <1>1, <1>5, <2>6 DEF Placed
  <2>8. /\ Stage[n.phase] = 3 => n.completed = <<>>
        /\ Stage[n.phase] = 4 => n.completed = <<"sanuvia_persistent">>
        /\ Stage[n.phase] = 5 => n.completed = <<"sanuvia_persistent", "fm_stateless">>
    BY <1>1, <1>5 DEF Placed
  <2>9. n.error = "none" /\ \A k \in DOMAIN n.calls : n.calls[k].status = "success"
    BY <1>1, <1>5 DEF Placed
  <2> QED
    BY <1>3, <1>14, <2>1, <2>3, <2>4, <2>5, <2>6, <2>7, <2>8, <2>9, <2>10 DEF Placed
<1>17. AllPast(n)
  <2> SUFFICES ASSUME NEW k \in DOMAIN n.calls PROVE Past(n, k)
    BY DEF AllPast
  <2>1. Past(r, k) \/ Here(r, k)
    BY <1>5 DEF Ready
  <2>2. n.calls[k] = r.calls[k] /\ r.calls[k].turn \in Nat
    BY <1>2, <1>5, NumTurnsFacts
  <2> QED
    BY <1>2, <1>3, <1>5, <2>1, <2>2 DEF Past, Here
<1>18. CallPlaced(n)
  BY <1>1, <1>5 DEF CallPlaced
<1>19. Stage[n.phase] \in 3..5
  BY <1>5, <1>7
<1> QED
  BY <1>9, <1>10, <1>11, <1>13, <1>15, <1>16, <1>17, <1>18, <1>19
     DEF RunInv, Kept, Underway, n

\* ... or the write is what stops the run.
LEMMA UnwrittenInv ==
    ASSUME NEW r, NEW c \in Conditions, Ready(r), r.phase = c,
           NEW error \in {"OSError", "KeyboardInterrupt"}
    PROVE  RunInv(Aborted(Counted(c, r), error))
<1> DEFINE n == Counted(c, r)
<1>1. /\ Kept(r) /\ RunTypes(r) /\ r.call = NoCall /\ Len(r.calls) = r.asked
      /\ DOMAIN r = RunFields
      /\ \A d \in Conditions : r.steps[d] = Len(r.records[d])
  BY ReadyFacts
<1>2. /\ DOMAIN r.steps = Conditions /\ r.turn \in Nat /\ r.turn > 0 /\ r.asked \in Nat
      /\ \A d \in Conditions : r.steps[d] \in Nat /\ Len(r.records[d]) \in Nat
  BY <1>1, RunFieldTypes
<1>3. /\ Differs(n, r, {"steps", "item", "pending"})
      /\ DOMAIN n.steps = Conditions /\ n.steps[c] = r.turn /\ n.item = 1
      /\ \A d \in Conditions : d # c => n.steps[d] = r.steps[d]
      /\ n.steps = [r.steps EXCEPT ![c] = r.turn]
  BY <1>1, <1>2, CountedFields
<1>4. r.steps \in [Conditions -> Nat]
  BY <1>1 DEF RunTypes
<1> HIDE DEF n
<1>5. /\ DOMAIN n = RunFields /\ n.phase = r.phase /\ n.turn = r.turn
      /\ n.asked = r.asked /\ n.call = r.call /\ n.calls = r.calls
      /\ n.records = r.records
  BY <1>3 DEF Differs, RunFields
<1>6. Len(r.records[c]) = r.turn - 1 /\ c \notin ToSet(r.completed)
  BY InCondition
<1>7. Kept(n)
  <2>1. Differs(n, r, {"phase", "turn", "item", "pending", "error", "call", "asked", "steps"})
    BY <1>3 DEF Differs
  <2>2. n.phase \in Phases /\ DOMAIN n.call = {"boundary", "turn", "item", "answer"}
    BY <1>1, <1>5 DEF RunTypes
  <2>3. n.steps \in [Conditions -> Nat]
    BY <1>2, <1>3, <1>4
  <2>4. ToSet(r.completed) \subseteq Conditions
    BY <1>1 DEF Kept, RecordsKept, ToSet, Conditions, ConditionOrder
  <2>5. \A d \in ToSet(r.completed) : n.steps[d] = r.steps[d]
    BY <1>3, <1>6, <2>4
  <2>6. n.turn \in Nat \ {0} /\ n.item \in Nat \ {0} /\ n.asked \in Nat
    BY <1>2, <1>3, <1>5
  <2> QED
    BY <1>1, <2>1, <2>2, <2>3, <2>5, <2>6, KeptSame
<1>8. StepsKept(n, error)
  BY <1>1, <1>2, <1>3, <1>5, <1>6 DEF StepsKept
<1>9. Len(n.calls) = n.asked
  BY <1>1, <1>5
<1> QED
  BY <1>7, <1>8, <1>9, AbortedInv DEF n

\* The place of the run moves within the engine's turn.
LEMMA PlaceInv ==
    ASSUME NEW r, NEW n, Ready(r), r.phase = "sanuvia_persistent",
           Differs(n, r, {"item", "pending"}), n.item \in Nat \ {0}, AllPast(n)
    PROVE  RunInv(n)
<1>1. /\ Kept(r) /\ Placed(r) /\ RunTypes(r) /\ r.call = NoCall /\ Len(r.calls) = r.asked
      /\ DOMAIN r = RunFields /\ r.error = "none" /\ Stage[r.phase] = 3
  BY ReadyFacts, Stages
<1>2. /\ DOMAIN n = RunFields /\ n.phase = r.phase /\ n.turn = r.turn /\ n.asked = r.asked
      /\ n.roster = r.roster /\ n.audit = r.audit /\ n.calls = r.calls
      /\ n.call = r.call /\ n.completed = r.completed /\ n.error = r.error
      /\ n.records = r.records /\ n.steps = r.steps
  BY DEF Differs, RunFields
<1>3. Kept(n)
  <2>1. Differs(n, r, {"phase", "turn", "item", "pending", "error", "call", "asked", "steps"})
    BY DEF Differs
  <2>2. /\ n.phase \in Phases /\ DOMAIN n.call = {"boundary", "turn", "item", "answer"}
        /\ n.turn \in Nat \ {0} /\ n.asked \in Nat /\ n.steps \in [Conditions -> Nat]
    BY <1>1, <1>2 DEF RunTypes
  <2> QED
    BY <1>1, <1>2, <2>1, <2>2, KeptSame
<1>4. Placed(n)
  <2>1. Stage[n.phase] = 3 /\ n.phase # "setup"
    BY <1>1, <1>2, Stages
  <2> QED
    BY <1>1, <1>2, <2>1 DEF Placed
<1>5. StepsKept(n, n.error)
  BY <1>2, ReadyFacts DEF StepsKept
<1>6. CallPlaced(n)
  BY <1>1, <1>2 DEF CallPlaced
<1>7. Stage[n.phase] = 3
  BY <1>1, <1>2
<1> QED
  BY <1>3, <1>4, <1>5, <1>6, <1>7 DEF RunInv, Underway

LEMMA StageNames ==
    \A p \in Phases : \A q \in Phases : Stage[p] = Stage[q] => p = q
  BY Stages DEF Phases

\* The next observation.
LEMMA MovedInv ==
    ASSUME NEW r, NEW n, Ready(r), r.phase = "sanuvia_persistent",
           Differs(n, r, {"item", "pending"}), n.item = r.item + 1
    PROVE  RunInv(n)
<1>1. RunTypes(r) /\ Stage[r.phase] = 3
  BY ReadyFacts, Stages
<1>2. /\ n.phase = r.phase /\ n.turn = r.turn /\ n.calls = r.calls
      /\ r.item \in Nat /\ r.item > 0
  BY <1>1, RunFieldTypes DEF Differs, RunFields
<1>3. AllPast(n)
  <2> SUFFICES ASSUME NEW k \in DOMAIN r.calls PROVE Past(n, k)
    BY <1>2 DEF AllPast
  <2>1. Past(r, k) \/ Here(r, k)
    BY DEF Ready
  <2>2. r.calls[k].boundary \in Boundaries /\ r.calls[k].item \in Nat
    BY <1>1, RunFieldTypes
  <2>3. CalledAt[r.calls[k].boundary] = 3 =>
          r.calls[k].boundary \in {"evidence_appraisal", "identity_resolution"}
    BY <2>2, Stages DEF Boundaries
  <2> QED
    BY <1>1, <1>2, <2>1, <2>2, <2>3 DEF Past, Here
<1> QED
  BY <1>2, <1>3, PlaceInv

\* A resolved proposal; the resolver may be asked again for the same observation.
LEMMA ResolvedInv ==
    ASSUME NEW r, NEW n, RunInv(r), Stage[r.phase] < 7,
           r.call.boundary = "identity_resolution", r.call.answer \notin Failures,
           Differs(n, Recorded(r), {"pending"})
    PROVE  RunInv(n)
<1> DEFINE m == Recorded(r)
           x == CallOf(r)
<1>1. /\ r.call # NoCall /\ r.call.boundary \in Boundaries
      /\ x.boundary = "identity_resolution" /\ x.turn = r.turn
  BY DEF NoCall, Boundaries, CallOf
<1>2. /\ Ready(m) /\ Differs(m, r, {"call", "calls"})
      /\ Extends(m.calls, r.calls, x)
  BY <1>1, ReadyReply, RecordedKept
<1>3. /\ RunTypes(r) /\ AllPast(r) /\ CalledAt[r.call.boundary] = Stage[r.phase]
      /\ r.phase \in Phases
  BY <1>1 DEF RunInv, Kept, Underway, CallPlaced, RunTypes
<1>4. r.phase = "sanuvia_persistent" /\ Stage[r.phase] = 3
  BY <1>3, Stages, StageNames DEF Phases
<1> HIDE DEF m, x
<1>5. /\ n.phase = r.phase /\ n.turn = r.turn /\ n.item = r.item /\ n.calls = m.calls
      /\ m.phase = r.phase /\ DOMAIN n = RunFields
      /\ n.item \in Nat \ {0}
  BY <1>2, <1>3 DEF Differs, RunFields, RunTypes, m
<1>6. Differs(n, m, {"item", "pending"})
  BY <1>5 DEF Differs, m
<1>7. AllPast(n)
  <2> SUFFICES ASSUME NEW k \in DOMAIN m.calls PROVE Past(n, k)
    BY <1>5 DEF AllPast
  <2>1. CASE k \in DOMAIN r.calls /\ m.calls[k] = r.calls[k]
    <3>1. Past(r, k)
      BY <1>3, <2>1 DEF AllPast
    <3> QED
      BY <1>5, <2>1, <3>1 DEF Past
  <2>2. CASE m.calls[k] = x
    <3>1. CalledAt[x.boundary] = Stage[n.phase] /\ x.turn = n.turn
      BY <1>1, <1>3, <1>4, <1>5, Stages
    <3> QED
      BY <1>1, <1>5, <2>2, <3>1 DEF Past
  <2> QED
    BY <1>2, <2>1, <2>2 DEF Extends
<1> QED
  BY <1>2, <1>4, <1>5, <1>6, <1>7, PlaceInv

\* A finished condition.
LEMMA ClosedInv ==
    ASSUME NEW r, NEW n, NEW c \in Conditions, Ready(r), r.phase = c,
           r.turn = NumTurns + 1, Differs(n, r, {"completed", "turn", "phase"}),
           n.completed = Append(r.completed, c), n.turn = 1, n.phase = Following(c)
    PROVE  RunInv(n)
<1>1. /\ Kept(r) /\ Placed(r) /\ RunTypes(r) /\ AuditKept(r) /\ CallsKept(r)
      /\ RecordsKept(r) /\ r.call = NoCall /\ Len(r.calls) = r.asked
      /\ DOMAIN r = RunFields /\ r.error = "none"
      /\ \A d \in Conditions : r.steps[d] = Len(r.records[d])
  BY ReadyFacts
<1>2. /\ DOMAIN n = RunFields /\ n.item = r.item /\ n.asked = r.asked
      /\ n.roster = r.roster /\ n.audit = r.audit /\ n.calls = r.calls
      /\ n.call = r.call /\ n.error = r.error
      /\ n.records = r.records /\ n.steps = r.steps
  BY DEF Differs, RunFields
<1>3. /\ Stage[r.phase] = Stage[c] /\ Stage[c] \in 3..5
      /\ Stage[n.phase] = Stage[c] + 1 /\ n.phase \in Phases /\ n.phase # "setup"
  BY Stages DEF Conditions, Following, Phases
<1>4. Len(r.records[c]) = NumTurns
  BY InCondition, NumTurnsFacts
<1>5. /\ c = "sanuvia_persistent" => n.completed = <<"sanuvia_persistent">>
      /\ c = "fm_stateless" => n.completed = <<"sanuvia_persistent", "fm_stateless">>
      /\ c = "fm_transcript" => n.completed = ConditionOrder
  <2>1. /\ c = "sanuvia_persistent" => r.completed = <<>>
        /\ c = "fm_stateless" => r.completed = <<"sanuvia_persistent">>
        /\ c = "fm_transcript" => r.completed = <<"sanuvia_persistent", "fm_stateless">>
    BY InCondition
  <2> QED
    BY <2>1, Orders
<1>6. c \in {"sanuvia_persistent", "fm_stateless", "fm_transcript"}
  BY DEF Conditions
<1>7. RunTypes(n)
  <2>1. n.completed \in Seq(Conditions)
    BY <1>1 DEF RunTypes
  <2>2. n.turn \in Nat \ {0}
    OBVIOUS
  <2> QED
    BY <1>1, <1>2, <1>3, <2>1, <2>2 DEF RunTypes
<1>8. AuditKept(n)
  BY <1>1, <1>2 DEF AuditKept, Called
<1>9. CallsKept(n)
  BY <1>1, <1>2 DEF CallsKept
<1>10. RecordsKept(n)
  <2>1. n.completed \in {<<>>, <<"sanuvia_persistent">>,
                         <<"sanuvia_persistent", "fm_stateless">>, ConditionOrder}
    BY <1>5, <1>6
  <2>2. ToSet(n.completed) \subseteq ToSet(r.completed) \cup {c}
    <3>1. r.completed \in Seq(Conditions)
      BY <1>1 DEF RunTypes
    <3>2. Extends(n.completed, r.completed, c)
      BY <3>1, AppendExtends
    <3> QED
      BY <3>2, ExtendedSet
  <2>3. \A d \in ToSet(n.completed) : n.steps[d] = NumTurns /\ Len(n.records[d]) = NumTurns
    BY <1>1, <1>2, <1>4, <2>2 DEF RecordsKept
  <2> QED
    BY <1>1, <1>2, <2>1, <2>3 DEF RecordsKept
<1>11. StepsKept(n, n.error)
  BY <1>1, <1>2 DEF StepsKept
<1>12. Placed(n)
  <2>1. \A d \in Conditions : /\ Stage[n.phase] < Stage[d] => Len(n.records[d]) = 0
                              /\ Stage[n.phase] = Stage[d] => Len(n.records[d]) = n.turn - 1
                              /\ Stage[n.phase] > Stage[d] => Len(n.records[d]) = NumTurns
                              /\ n.steps[d] = Len(n.records[d])
    <3> SUFFICES ASSUME NEW d \in Conditions
                 PROVE  /\ Stage[n.phase] < Stage[d] => Len(n.records[d]) = 0
                        /\ Stage[n.phase] = Stage[d] => Len(n.records[d]) = n.turn - 1
                        /\ Stage[n.phase] > Stage[d] => Len(n.records[d]) = NumTurns
      BY <1>1, <1>2
    <3>1. /\ Stage[r.phase] < Stage[d] => Len(r.records[d]) = 0
          /\ Stage[r.phase] > Stage[d] => Len(r.records[d]) = NumTurns
      BY <1>1 DEF Placed
    <3>2. Stage[d] = Stage[c] => d = c
      BY Stages DEF Conditions
    <3>3. Stage[d] \in 3..5
      BY Stages DEF Conditions
    <3> QED
      BY <1>2, <1>3, <1>4, <3>1, <3>2, <3>3
  <2>2. Len(n.audit) = NumTurns /\ n.turn \in 1..NumTurns + 1
    BY <1>1, <1>2, <1>3, NumTurnsFacts DEF Placed
  <2>3. /\ Stage[n.phase] = 4 => c = "sanuvia_persistent"
        /\ Stage[n.phase] = 5 => c = "fm_stateless"
        /\ Stage[n.phase] = 6 => c = "fm_transcript"
    BY <1>3, <1>6, Stages
  <2>4. Stage[n.phase] \in 5..6 => \A t \in Turns : Called(n, t)
    <3>1. Stage[r.phase] = 4 => \A t \in 1..NumTurns : Called(r, t)
      <4>1. r.turn - 1 = NumTurns
        BY NumTurnsFacts
      <4> QED
        BY <1>1, <4>1 DEF Placed
    <3>2. Stage[r.phase] = 5 => \A t \in Turns : Called(r, t)
      BY <1>1 DEF Placed
    <3>3. \A t : Called(r, t) => Called(n, t)
      BY <1>2 DEF Called
    <3>4. Stage[n.phase] \in 5..6 => Stage[r.phase] = 4 \/ Stage[r.phase] = 5
      BY <1>3
    <3> QED
      BY <3>1, <3>2, <3>3, <3>4, NumTurnsFacts
  <2>5. Stage[n.phase] = 4 => \A t \in 1..n.turn - 1 : Called(n, t)
    OBVIOUS
  <2>6. \A k \in DOMAIN n.calls : n.calls[k].status = "success"
    BY <1>1, <1>2 DEF Placed
  <2>7. /\ Stage[n.phase] \in 4..6 /\ ~(Stage[n.phase] =< 1) /\ ~(Stage[n.phase] =< 2)
        /\ ~(Stage[n.phase] =< 3) /\ Stage[n.phase] # 2
    BY <1>3
  <2> QED
    BY <1>1, <1>2, <1>3, <1>5, <2>1, <2>2, <2>3, <2>4, <2>5, <2>6, <2>7 DEF Placed
<1>13. AllPast(n)
  <2> SUFFICES ASSUME NEW k \in DOMAIN r.calls PROVE Past(n, k)
    BY <1>2 DEF AllPast
  <2>1. Past(r, k) \/ Here(r, k)
    BY DEF Ready
  <2>2. CalledAt[r.calls[k].boundary] \in 2..5
    BY <1>1, RunFieldTypes, StageRange
  <2>3. CalledAt[r.calls[k].boundary] < Stage[n.phase]
    BY <1>3, <2>1, <2>2 DEF Past, Here
  <2> QED
    BY <1>2, <2>3 DEF Past
<1>14. CallPlaced(n)
  BY <1>1, <1>2 DEF CallPlaced
<1>15. Stage[n.phase] \in 4..6
  BY <1>3
<1> QED
  BY <1>7, <1>8, <1>9, <1>10, <1>11, <1>12, <1>13, <1>14, <1>15
     DEF RunInv, Kept, Underway

\* Before the first extraction nothing has happened.
LEMMA FreshInv ==
    ASSUME NEW phase \in {"setup", "configure", "extract"}, NEW roster \in Seq(Nat \ {0}),
           phase = "setup" => roster = <<>>
    PROVE  RunInv([EmptyRun EXCEPT !.phase = phase, !.roster = roster])
<1> DEFINE n == [EmptyRun EXCEPT !.phase = phase, !.roster = roster]
           none == [c \in Conditions |-> <<>>]
           zero == [c \in Conditions |-> 0]
<1>1. /\ DOMAIN n = RunFields /\ n.phase = phase /\ n.turn = 1 /\ n.item = 1
      /\ n.roster = roster /\ n.call = NoCall /\ n.audit = <<>> /\ n.calls = <<>>
      /\ n.asked = 0 /\ n.records = none /\ n.steps = zero /\ n.completed = <<>>
      /\ n.error = "none"
  BY DEF EmptyRun, RunFields
<1>2. phase = "setup" => n = EmptyRun
  <2> SUFFICES ASSUME phase = "setup" PROVE n = EmptyRun
    OBVIOUS
  <2>1. EmptyRun.phase = phase /\ EmptyRun.roster = roster
    BY DEF EmptyRun
  <2> QED
    BY <2>1 DEF EmptyRun
<1>3. n = [EmptyRun EXCEPT !.phase = n.phase, !.roster = n.roster]
  BY <1>1
<1>4. /\ \A c \in Conditions : none[c] = <<>> /\ zero[c] = 0
      /\ none \in [Conditions -> Seq(StepRecords)] /\ zero \in [Conditions -> Nat]
  OBVIOUS
<1> HIDE DEF n, none, zero
<1>5. \A c \in Conditions : /\ n.records[c] = <<>> /\ n.steps[c] = 0
                            /\ Len(n.records[c]) = 0 /\ Stage[c] \in 3..5
  BY <1>1, <1>4, Stages DEF Conditions
<1>6. Stage[n.phase] \in 0..2 /\ n.phase \in Phases
  BY <1>1, Stages DEF Phases
<1>7. /\ DOMAIN n.audit = {} /\ DOMAIN n.calls = {} /\ Len(n.audit) = 0 /\ Len(n.calls) = 0
      /\ IsSeq(n.audit) /\ n.calls \in Seq(CallRecords) /\ n.completed \in Seq(Conditions)
  BY <1>1 DEF IsSeq
<1>8. RunTypes(n)
  <2>1. DOMAIN n.call = {"boundary", "turn", "item", "answer"}
    BY <1>1 DEF NoCall
  <2> QED
    BY <1>1, <1>4, <1>6, <1>7, <2>1 DEF RunTypes
<1>9. AuditKept(n) /\ CallsKept(n)
  BY <1>7 DEF AuditKept, CallsKept
<1>10. RecordsKept(n)
  <2>1. \A c \in Conditions : DOMAIN n.records[c] = {}
    BY <1>5
  <2>2. {"sanuvia_persistent", "fm_stateless", "fm_transcript"} \subseteq Conditions
    BY DEF Conditions
  <2>3. ToSet(n.completed) = {}
    BY <1>1 DEF ToSet
  <2> QED
    BY <1>1, <1>5, <2>1, <2>2, <2>3 DEF RecordsKept
<1>11. StepsKept(n, n.error)
  BY <1>5 DEF StepsKept
<1>12. Placed(n)
  <2>1. /\ Stage[n.phase] \in 0..2 /\ Stage[n.phase] # 3 /\ Stage[n.phase] # 4
        /\ Stage[n.phase] # 5 /\ Stage[n.phase] # 6
        /\ Stage[n.phase] \notin 3..6 /\ Stage[n.phase] \notin 5..6
    BY <1>6
  <2>2. \A c \in Conditions : Stage[n.phase] < Stage[c] /\ ~(Stage[n.phase] > Stage[c])
                              /\ Stage[n.phase] # Stage[c]
    <3>1. \A a \in 0..2 : \A b \in 3..5 : a < b /\ ~(a > b) /\ a # b
      OBVIOUS
    <3>2. \A c \in Conditions : Stage[c] \in 3..5
      BY <1>5
    <3> QED
      BY <2>1, <3>1, <3>2
  <2>3. n.turn \in Turns /\ Len(n.audit) = n.turn - 1
    BY <1>1, <1>7, NumTurnsFacts
  <2>4. n.phase = "setup" => n = EmptyRun
    BY <1>1, <1>2
  <2> QED
    BY <1>1, <1>3, <1>5, <1>7, <2>1, <2>2, <2>3, <2>4 DEF Placed
<1>13. AllPast(n) /\ CallPlaced(n)
  BY <1>1, <1>7 DEF AllPast, CallPlaced
<1> QED
  BY <1>6, <1>8, <1>9, <1>10, <1>11, <1>12, <1>13 DEF RunInv, Kept, Underway, n

\* A call is sent ...
LEMMA CalledInv ==
    ASSUME NEW r, NEW n, RunInv(r), Stage[r.phase] < 7, r.call = NoCall,
           Differs(n, r, {"asked", "call"}), n.asked = r.asked + 1,
           n.call.boundary \in Boundaries, n.call.answer # "none",
           DOMAIN n.call = {"boundary", "turn", "item", "answer"},
           CalledAt[n.call.boundary] = Stage[r.phase], r.turn \in Turns,
           n.call.boundary = "evidence_extraction" => r.turn \notin HoldTurns,
           n.call.boundary = "evidence_appraisal" => ~r.audit[r.turn].rejected
    PROVE  RunInv(n)
<1>1. /\ Kept(r) /\ Placed(r) /\ AllPast(r) /\ CallPlaced(r) /\ RunTypes(r)
      /\ r.phase \in Phases
  BY DEF RunInv, Kept, Underway, RunTypes
<1>2. /\ DOMAIN n = RunFields /\ n.phase = r.phase /\ n.turn = r.turn /\ n.item = r.item
      /\ n.roster = r.roster /\ n.audit = r.audit /\ n.calls = r.calls
      /\ n.completed = r.completed /\ n.error = r.error
      /\ n.records = r.records /\ n.steps = r.steps
  BY DEF Differs, RunFields
<1>3. Kept(n)
  <2>1. Differs(n, r, {"phase", "turn", "item", "pending", "error", "call", "asked", "steps"})
    BY DEF Differs
  <2>2. /\ n.phase \in Phases /\ n.turn \in Nat \ {0} /\ n.asked \in Nat
        /\ n.steps \in [Conditions -> Nat] /\ n.item \in Nat \ {0}
    BY <1>1, <1>2 DEF RunTypes
  <2> QED
    BY <1>1, <1>2, <2>1, <2>2, KeptSame
<1>4. Stage[n.phase] \in 2..5 /\ n.phase # "setup"
  BY <1>1, <1>2, StageRange, Stages
<1>5. Placed(n)
  <2>1. ~(Stage[n.phase] =< 1)
    BY <1>4
  <2> QED
    BY <1>1, <1>2, <1>4, <2>1 DEF Placed, Called
<1>6. AllPast(n)
  BY <1>1, <1>2 DEF AllPast, Past
<1>7. CallPlaced(n)
  <2>1. NoCall.boundary \notin Boundaries
    BY DEF NoCall, Boundaries
  <2>2. Len(r.calls) = r.asked
    BY <1>1, <2>1 DEF CallPlaced
  <2>3. Len(n.calls) + 1 = n.asked
    BY <1>2, <2>2
  <2> QED
    BY <1>2, <2>3 DEF CallPlaced
<1>8. StepsKept(n, n.error)
  BY <1>1, <1>2 DEF Placed, StepsKept
<1> QED
  BY <1>3, <1>4, <1>5, <1>6, <1>7, <1>8 DEF RunInv, Underway

\* ... and answered.
LEMMA AnsweredInv ==
    ASSUME NEW r, NEW n, RunInv(r), Stage[r.phase] < 7, r.call.boundary \in Boundaries,
           Differs(n, r, {"call"}), n.call.boundary = r.call.boundary,
           DOMAIN n.call = {"boundary", "turn", "item", "answer"}, n.call.answer # "none"
    PROVE  RunInv(n)
<1>1. /\ Kept(r) /\ Placed(r) /\ AllPast(r) /\ CallPlaced(r) /\ RunTypes(r)
      /\ r.phase \in Phases
  BY DEF RunInv, Kept, Underway, RunTypes
<1>2. /\ DOMAIN n = RunFields /\ n.phase = r.phase /\ n.turn = r.turn /\ n.item = r.item
      /\ n.roster = r.roster /\ n.audit = r.audit /\ n.calls = r.calls
      /\ n.completed = r.completed /\ n.error = r.error /\ n.asked = r.asked
      /\ n.records = r.records /\ n.steps = r.steps
  BY DEF Differs, RunFields
<1>3. Kept(n)
  <2>1. Differs(n, r, {"phase", "turn", "item", "pending", "error", "call", "asked", "steps"})
    BY DEF Differs
  <2>2. /\ n.phase \in Phases /\ n.turn \in Nat \ {0} /\ n.asked \in Nat
        /\ n.steps \in [Conditions -> Nat] /\ n.item \in Nat \ {0}
    BY <1>1, <1>2 DEF RunTypes
  <2> QED
    BY <1>1, <1>2, <2>1, <2>2, KeptSame
<1>4. r.call # NoCall
  BY DEF NoCall, Boundaries
<1>5. Stage[n.phase] \in 2..5 /\ n.phase # "setup"
  BY <1>1, <1>2, <1>4, StageRange, Stages DEF CallPlaced
<1>6. Placed(n)
  <2>1. ~(Stage[n.phase] =< 1)
    BY <1>5
  <2> QED
    BY <1>1, <1>2, <1>5, <2>1 DEF Placed, Called
<1>7. AllPast(n)
  BY <1>1, <1>2 DEF AllPast, Past
<1>8. CallPlaced(n)
  BY <1>1, <1>2, <1>4 DEF CallPlaced
<1>9. StepsKept(n, n.error)
  BY <1>1, <1>2 DEF Placed, StepsKept
<1> QED
  BY <1>3, <1>5, <1>6, <1>7, <1>8, <1>9 DEF RunInv, Underway

\* A call that failed, or whose text no validator accepts, ends the run.
LEMMA FailedInv ==
    ASSUME NEW r, RunInv(r), Stage[r.phase] < 7, r.call.boundary \in Boundaries,
           NEW error \in Statuses \cup {"MalformedOutputError"}
    PROVE  RunInv(Aborted(Recorded(r), error))
<1> DEFINE n == Recorded(r)
<1>1. r.call # NoCall
  BY DEF NoCall, Boundaries
<1>2. Kept(n) /\ Len(n.calls) = n.asked /\ StepsKept(n, "none")
  BY <1>1, RecordedKept
<1> HIDE DEF n
<1>3. StepsKept(n, error)
  BY <1>2 DEF StepsKept
<1>4. error \notin {"none", "ValueError"}
  BY DEF Statuses
<1> QED
  BY <1>2, <1>3, <1>4, AbortedInv DEF n

\* An interrupt may cut a call short.
LEMMA InterruptedInv ==
    ASSUME NEW r, RunInv(r), Stage[r.phase] < 7
    PROVE  RunInv(Aborted(r, "KeyboardInterrupt"))
<1>1. Kept(r) /\ Placed(r) /\ CallPlaced(r)
  BY DEF RunInv, Underway
<1>2. StepsKept(r, "KeyboardInterrupt")
  BY <1>1 DEF Placed, StepsKept
<1>3. Len(r.calls) = r.asked \/ Len(r.calls) + 1 = r.asked
  BY <1>1 DEF CallPlaced
<1> QED
  BY <1>1, <1>2, <1>3, AbortedInv

\* The three conditions went through the same turns, and that is the end of it.
LEMMA ComparedInv ==
    ASSUME NEW r, RunInv(r), r.phase = "compare"
    PROVE  /\ \A c \in Conditions :
                Len(r.records[c]) = NumTurns /\ \A i \in 1..NumTurns : r.records[c][i].turn = i
           /\ RunInv([r EXCEPT !.phase = "evidence"])
<1> DEFINE n == [r EXCEPT !.phase = "evidence"]
<1>1. Stage[r.phase] = 6 /\ \A c \in Conditions : Stage[c] \in 3..5
  BY Stages DEF Conditions
<1>2. /\ Kept(r) /\ Placed(r) /\ AllPast(r) /\ CallPlaced(r) /\ RunTypes(r)
      /\ RecordsKept(r)
  BY <1>1 DEF RunInv, Kept, Underway
<1>3. \A c \in Conditions : Len(r.records[c]) = NumTurns /\ r.steps[c] = Len(r.records[c])
  <2> SUFFICES ASSUME NEW c \in Conditions PROVE Len(r.records[c]) = NumTurns
    BY <1>2 DEF Placed
  <2>1. Stage[r.phase] > Stage[c]
    BY <1>1
  <2> QED
    BY <1>2, <2>1 DEF Placed
<1>4. \A c \in Conditions : DOMAIN r.records[c] = 1..NumTurns
  BY <1>2, <1>3, RunFieldTypes
<1>5. /\ n.phase = "evidence"
      /\ Differs(n, r, {"phase"})
  BY <1>2 DEF Differs, RunTypes, RunFields
<1> HIDE DEF n
<1>6. /\ DOMAIN n = RunFields /\ n.turn = r.turn /\ n.item = r.item /\ n.call = r.call
      /\ n.roster = r.roster /\ n.audit = r.audit /\ n.calls = r.calls
      /\ n.completed = r.completed /\ n.error = r.error /\ n.asked = r.asked
      /\ n.records = r.records /\ n.steps = r.steps
  BY <1>5 DEF Differs, RunFields
<1>7. Kept(n)
  <2>1. Differs(n, r, {"phase", "turn", "item", "pending", "error", "call", "asked", "steps"})
    BY <1>5 DEF Differs
  <2>2. n.phase \in Phases
    BY <1>5 DEF Phases
  <2>3. /\ n.turn \in Nat \ {0} /\ n.asked \in Nat /\ n.item \in Nat \ {0}
        /\ n.steps \in [Conditions -> Nat]
        /\ DOMAIN n.call = {"boundary", "turn", "item", "answer"}
    BY <1>2, <1>6 DEF RunTypes
  <2> QED
    BY <1>2, <1>6, <2>1, <2>2, <2>3, KeptSame
<1>8. Stopped(n)
  <2>1. n.call = NoCall /\ Len(n.calls) = n.asked
    <3>1. \A b \in Boundaries : CalledAt[b] # 6
      BY StageRange
    <3> QED
      BY <1>1, <1>2, <1>6, <3>1 DEF CallPlaced
  <2>2. /\ n.error = "none" /\ n.completed = ConditionOrder
        /\ \A k \in DOMAIN n.calls : n.calls[k].status = "success"
        /\ \A t \in Turns : Called(r, t)
    BY <1>1, <1>2, <1>6 DEF Placed
  <2>3. \A t : Called(r, t) => Called(n, t)
    BY <1>6 DEF Called
  <2> QED
    BY <2>1, <2>2, <2>3 DEF Stopped
<1>9. StepsKept(n, n.error) /\ Stage[n.phase] = 7
  BY <1>3, <1>5, <1>6, Stages DEF StepsKept
<1>10. RunInv(n)
  BY <1>7, <1>8, <1>9 DEF RunInv
<1> QED
  BY <1>2, <1>3, <1>4, <1>10 DEF RecordsKept, n

\* The evidence is written.
LEMMA WrittenInv ==
    ASSUME NEW r, RunInv(r), r.phase = "evidence"
    PROVE  RunInv([r EXCEPT !.phase = "report"])
<1> DEFINE n == [r EXCEPT !.phase = "report"]
<1>1. Stage[r.phase] = 7
  BY Stages
<1>2. Kept(r) /\ Stopped(r) /\ RunTypes(r) /\ StepsKept(r, r.error)
  BY <1>1 DEF RunInv, Kept
<1>3. n.phase = "report" /\ Differs(n, r, {"phase"})
  BY <1>2 DEF Differs, RunTypes, RunFields
<1> HIDE DEF n
<1>4. /\ DOMAIN n = RunFields /\ n.turn = r.turn /\ n.item = r.item /\ n.call = r.call
      /\ n.calls = r.calls /\ n.completed = r.completed /\ n.error = r.error
      /\ n.asked = r.asked /\ n.records = r.records /\ n.steps = r.steps
  BY <1>3 DEF Differs, RunFields
<1>5. Kept(n)
  <2>1. Differs(n, r, {"phase", "turn", "item", "pending", "error", "call", "asked", "steps"})
    BY <1>3 DEF Differs
  <2>2. n.phase \in Phases
    BY <1>3 DEF Phases
  <2>3. /\ n.turn \in Nat \ {0} /\ n.asked \in Nat /\ n.item \in Nat \ {0}
        /\ n.steps \in [Conditions -> Nat]
        /\ DOMAIN n.call = {"boundary", "turn", "item", "answer"}
    BY <1>2, <1>4 DEF RunTypes
  <2> QED
    BY <1>2, <1>4, <2>1, <2>2, <2>3, KeptSame
<1>6. Stopped(n)
  BY <1>2, <1>4 DEF Stopped, Called
<1>7. StepsKept(n, n.error) /\ Stage[n.phase] = 8
  BY <1>2, <1>3, <1>4, Stages DEF StepsKept
<1> QED
  BY <1>5, <1>6, <1>7 DEF RunInv, n
----------------------------------------------------------------------------
(* The invariant of the run, action by action.                             *)

\* An accepted standing names who is in the room by the labels of its turn.
LEMMA AcceptedIsLabelled ==
    ASSUME NEW item, NEW speaker, NEW t, NEW roster \in Seq(Nat \ {0}),
           StandingAccepted(item, speaker, Vocabulary(t, roster))
    PROVE  Labelled(Standing(item, speaker), t, roster)
<1> DEFINE ids == ToSet(roster)
           s == Standing(item, speaker)
           subject == Get(item, "subject")
<1>1. ids \subseteq Nat /\ IsFiniteSet(ids)
  <2>1. IsFiniteSet(1..Len(roster)) /\ DOMAIN roster = 1..Len(roster)
    BY FS_Interval
  <2>2. ids = {roster[i] : i \in 1..Len(roster)}
    BY <2>1 DEF ToSet
  <2>3. IsFiniteSet(ids)
    <3>1. roster \in Surjection(1..Len(roster), ids)
      BY <2>2 DEF Surjection
    <3> QED
      BY <2>1, <3>1, FS_Surjection
  <2> QED
    BY <2>2, <2>3
<1> HIDE DEF ids
<1>2. \A id \in ids : Rank(id, ids) \in 1..Cardinality(ids)
  <2> SUFFICES ASSUME NEW id \in ids
               PROVE  Cardinality({other \in ids : other =< id}) \in 1..Cardinality(ids)
    BY DEF Rank
  <2> DEFINE below == {other \in ids : other =< id}
  <2>1. below \subseteq ids /\ id \in below
    BY <1>1
  <2> HIDE DEF below
  <2>2. IsFiniteSet(below) /\ Cardinality(below) =< Cardinality(ids)
    BY <1>1, <2>1, FS_Subset
  <2>3. Cardinality(below) \in Nat /\ Cardinality(ids) \in Nat /\ Cardinality(below) # 0
    BY <1>1, <2>1, <2>2, FS_CardinalityType, FS_EmptySet
  <2> QED
    BY <2>2, <2>3 DEF below
<1>3. \A e \in Vocabulary(t, roster) :
        /\ e.participant \in ids
        /\ e.label[1] = t /\ e.label[2] \in 1..Cardinality(ids)
  BY <1>2 DEF Vocabulary, ids
<1>4. ProposesStanding(item) /\ speaker # 0 => speaker \in ids
  BY <1>3 DEF StandingAccepted
<1>5. ProposesStanding(item) /\ subject.kind # "null" =>
        subject.is[1] = t /\ subject.is[2] \in 1..Cardinality(ids)
  BY <1>3 DEF StandingAccepted, Resolvable, Offered
<1>6. /\ s.source = IF ProposesStanding(item) THEN speaker ELSE 0
      /\ s.label = IF ProposesStanding(item) /\ subject.kind # "null"
                   THEN subject.is ELSE <<0, 0>>
  BY DEF Standing
<1> HIDE DEF s, subject
<1>7. Labelled(s, t, roster)
  BY <1>4, <1>5, <1>6 DEF Labelled, ids
<1> QED
  BY <1>7 DEF s

\* A call with an answer, or waiting for one, is in the pipeline.
LEMMA CallGoing ==
    ASSUME NEW r, RunInv(r), r.call.answer # "none"
    PROVE  /\ Stage[r.phase] \in 2..5 /\ r.call.boundary \in Boundaries
           /\ CalledAt[r.call.boundary] = Stage[r.phase] /\ r.turn \in Turns
           /\ r.phase \in Phases /\ DOMAIN r = RunFields /\ RunTypes(r)
           /\ r.call.boundary = "evidence_extraction" =>
                r.phase = "extract" /\ r.turn \notin HoldTurns
           /\ r.call.boundary \in {"evidence_appraisal", "identity_resolution"} =>
                r.phase = "sanuvia_persistent"
           /\ r.call.boundary = "evidence_appraisal" => ~r.audit[r.turn].rejected
           /\ r.call.boundary = "stateless_baseline" => r.phase = "fm_stateless"
           /\ r.call.boundary = "transcript_baseline" => r.phase = "fm_transcript"
<1>1. RunTypes(r) /\ r.phase \in Phases /\ DOMAIN r = RunFields /\ Stage[r.phase] \in 0..8
  BY StageRange DEF RunInv, Kept, RunTypes
<1>2. NoCall.answer = "none"
  BY DEF NoCall
<1>3. Stage[r.phase] < 7
  BY <1>1, <1>2 DEF RunInv, Stopped
<1>4. /\ r.call.boundary \in Boundaries /\ CalledAt[r.call.boundary] = Stage[r.phase]
      /\ r.turn \in Turns
      /\ r.call.boundary = "evidence_extraction" => r.turn \notin HoldTurns
      /\ r.call.boundary = "evidence_appraisal" => ~r.audit[r.turn].rejected
  BY <1>2, <1>3 DEF RunInv, Underway, CallPlaced
<1>5. Stage[r.phase] \in 2..5
  BY <1>4, StageRange
<1>6. /\ Stage[r.phase] = 2 => r.phase = "extract"
      /\ Stage[r.phase] = 3 => r.phase = "sanuvia_persistent"
      /\ Stage[r.phase] = 4 => r.phase = "fm_stateless"
      /\ Stage[r.phase] = 5 => r.phase = "fm_transcript"
  BY <1>1, Stages DEF Phases
<1> QED
  BY <1>1, <1>4, <1>5, <1>6, Stages

\* The text of an answer, handed to the caller.
LEMMA TextReady ==
    ASSUME RunInv(run), NEW p, NEW boundary \in Boundaries, Text(p, boundary)
    PROVE  /\ Ready(Recorded(run)) /\ Called(Recorded(run), run.turn)
           /\ Recorded(run).turn = run.turn /\ Recorded(run).phase = run.phase
           /\ Recorded(run).audit = run.audit /\ Recorded(run).roster = run.roster
           /\ DOMAIN Recorded(run) = RunFields
           /\ Recorded(run).item = run.item
<1>1. run.call.boundary = boundary /\ run.call.answer # "none" /\ run.call.answer \notin Failures
  BY DEF Text, Answered
<1>2. Stage[run.phase] < 7 /\ DOMAIN run = RunFields
  BY <1>1, CallGoing
<1>3. Ready(Recorded(run)) /\ Called(Recorded(run), run.turn)
  BY <1>1, <1>2, ReadyReply
<1>4. Differs(Recorded(run), run, {"call", "calls"})
  BY <1>2, RecordedFields
<1> QED
  BY <1>3, <1>4 DEF Differs, RunFields

\* What a step of a condition makes of r.
StepMade(n, c, r, outcome, context) ==
    \/ n = Stepped(c, r, outcome, context)
    \/ \E error \in {"OSError", "KeyboardInterrupt"} : n = Aborted(Counted(c, r), error)

ContextRead(c, context, t) ==
    context \in SUBSET Nat /\ (c = "fm_transcript" => context = (1..t) \ HoldTurns)

LEMMA ContextIs ==
    ASSUME run.turn \in Turns, NEW c \in Conditions
    PROVE  ContextRead(c, Context(c), run.turn)
<1>1. run.turn \in Nat
  BY NumTurnsFacts
<1> QED
  BY <1>1 DEF ContextRead, Context, StatelessContext, TranscriptContext, Conditions

LEMMA StepMadeInv ==
    ASSUME NEW r, NEW n, NEW c \in Conditions, NEW outcome \in Outcomes, NEW context,
           Ready(r), r.phase = c, r.turn \in Turns, ContextRead(c, context, r.turn),
           StepMade(n, c, r, outcome, context),
           c = "sanuvia_persistent" /\ r.audit[r.turn].rejected
             => outcome = "rejected_plan",
           c = "fm_stateless" => Called(r, r.turn)
    PROVE  RunInv(n)
<1>1. RunInv(Stepped(c, r, outcome, context))
  BY SteppedInv DEF ContextRead
<1> QED
  BY <1>1, UnwrittenInv DEF StepMade

\* The actions that make something of an answer.
LEMMA AnswerSteps ==
    ASSUME RunInv(run), NEW p,
           \/ CallFails(p)
           \/ Malformed(p, "evidence_extraction", ValidExtraction(Reply))
           \/ Malformed(p, "evidence_appraisal", ValidAppraisal(Reply))
           \/ Malformed(p, "stateless_baseline", ValidBaseline(Reply))
           \/ Malformed(p, "transcript_baseline", ValidBaseline(Reply))
           \/ Extract(p) \/ Appraise(p) \/ AppraisalRejected(p) \/ Resolve(p)
           \/ BaselineTurn(p, "fm_stateless", "stateless_baseline")
           \/ BaselineTurn(p, "fm_transcript", "transcript_baseline")
    PROVE  RunInv(run')
<1> DEFINE m == Recorded(run)
<1>1. run.call.answer # "none"
  BY DEF CallFails, Malformed, Extract, Appraise, AppraisalRejected, Resolve, BaselineTurn,
         Text, Answered, Failures
<1>2. /\ Stage[run.phase] \in 2..5 /\ run.call.boundary \in Boundaries
      /\ run.turn \in Turns /\ DOMAIN run = RunFields /\ RunTypes(run)
      /\ run.call.boundary = "evidence_extraction" =>
           run.phase = "extract" /\ run.turn \notin HoldTurns
      /\ run.call.boundary \in {"evidence_appraisal", "identity_resolution"} =>
           run.phase = "sanuvia_persistent"
      /\ run.call.boundary = "evidence_appraisal" => ~run.audit[run.turn].rejected
      /\ run.call.boundary = "stateless_baseline" => run.phase = "fm_stateless"
      /\ run.call.boundary = "transcript_baseline" => run.phase = "fm_transcript"
  BY <1>1, CallGoing
<1>3. Stage[run.phase] < 7
  BY <1>2
<1>4. Conditions = {"sanuvia_persistent", "fm_stateless", "fm_transcript"}
  BY DEF Conditions
<1>5. CASE CallFails(p)
  <2>1. CallStatus(run.call.answer) \in Statuses
    BY DEF CallStatus, Statuses
  <2> QED
    BY <1>2, <1>3, <1>5, <2>1, FailedInv DEF CallFails
<1>6. ASSUME NEW boundary, NEW valid, Malformed(p, boundary, valid)
      PROVE  RunInv(run')
  BY <1>2, <1>3, <1>6, FailedInv DEF Malformed
<1>7. CASE Extract(p)
  <2> DEFINE items == Items(Get(Reply, "evidence"))
             vocabulary == Vocabulary(run.turn, run.roster)
             accepted == \A item \in ToSet(items) :
                           StandingAccepted(item, Speaker[run.turn], vocabulary)
             kept == IF accepted
                     THEN [k \in DOMAIN items |-> Standing(items[k], Speaker[run.turn])]
                     ELSE <<>>
  <2>1. Text(p, "evidence_extraction") /\ ListShape(Get(Reply, "evidence"))
        /\ run' = Extracted(m, ~accepted, kept)
    BY <1>7 DEF Extract, ValidExtraction
  <2>2. /\ Ready(m) /\ Called(m, run.turn) /\ m.turn = run.turn /\ m.phase = run.phase
        /\ m.roster = run.roster
    BY <2>1, TextReady DEF Boundaries
  <2>3. run.phase = "extract"
    BY <1>2, <2>1 DEF Text, Answered
  <2>4. run.roster \in Seq(Nat \ {0})
    BY <1>2 DEF RunTypes
  <2>5. \A k \in DOMAIN kept : Labelled(kept[k], run.turn, run.roster)
    <3>1. CASE accepted
      <4>1. DOMAIN kept = DOMAIN items /\
            \A k \in DOMAIN items : kept[k] = Standing(items[k], Speaker[run.turn])
        BY <3>1
      <4>2. \A k \in DOMAIN items : StandingAccepted(items[k], Speaker[run.turn], vocabulary)
        BY <3>1 DEF ToSet
      <4>3. \A k \in DOMAIN items :
              Labelled(Standing(items[k], Speaker[run.turn]), run.turn, run.roster)
        BY <2>4, <4>2, AcceptedIsLabelled
      <4> QED
        BY <4>1, <4>3
    <3>2. CASE ~accepted
      BY <3>2
    <3> QED
      BY <3>1, <3>2
  <2>6. ~accepted => kept = <<>>
    OBVIOUS
  <2> HIDE DEF m, accepted, kept
  <2> QED
    BY <2>1, <2>2, <2>3, <2>5, <2>6, ExtractedInv
<1>8. CASE Appraise(p)
  <2>1. Text(p, "evidence_appraisal")
    BY <1>8 DEF Appraise
  <2>2. PICK n : run' = [m EXCEPT !.item = @ + 1, !.pending = n]
    BY <1>8 DEF Appraise
  <2>3. Ready(m) /\ DOMAIN m = RunFields /\ m.phase = run.phase
    BY <2>1, TextReady DEF Boundaries
  <2>4. run.phase = "sanuvia_persistent"
    BY <1>2, <2>1 DEF Text, Answered
  <2> HIDE DEF m
  <2>5. Differs(run', m, {"item", "pending"}) /\ run'.item = m.item + 1
    BY <2>2, <2>3 DEF Differs, RunFields
  <2> QED
    BY <2>3, <2>4, <2>5, MovedInv
<1>9. CASE AppraisalRejected(p)
  <2>1. /\ Text(p, "evidence_appraisal")
        /\ StepMade(run', "sanuvia_persistent", m, "rejected_plan",
                    Context("sanuvia_persistent"))
    BY <1>9 DEF AppraisalRejected, StepDone, StepMade, Stepped, Counted, StepOf
  <2>9. ContextRead("sanuvia_persistent", Context("sanuvia_persistent"), run.turn)
    BY <1>2, <1>4, ContextIs
  <2>2. Ready(m) /\ m.turn = run.turn /\ m.phase = run.phase
    BY <2>1, TextReady DEF Boundaries
  <2>3. run.phase = "sanuvia_persistent"
    BY <1>2, <2>1 DEF Text, Answered
  <2> HIDE DEF m
  <2> QED
    BY <1>2, <1>4, <2>1, <2>2, <2>3, <2>9, StepMadeInv DEF Outcomes
<1>10. CASE Resolve(p)
  <2>1. /\ Text(p, "identity_resolution")
        /\ \/ run' = [m EXCEPT !.pending = @ - 1]
           \/ StepMade(run', "sanuvia_persistent", m, "rejected_plan",
                       Context("sanuvia_persistent"))
    BY <1>10 DEF Resolve, StepDone, StepMade, Stepped, Counted, StepOf
  <2>9. ContextRead("sanuvia_persistent", Context("sanuvia_persistent"), run.turn)
    BY <1>2, <1>4, ContextIs
  <2>2. /\ Ready(m) /\ m.turn = run.turn /\ m.phase = run.phase /\ DOMAIN m = RunFields
    BY <2>1, TextReady DEF Boundaries
  <2>3. /\ run.phase = "sanuvia_persistent" /\ run.call.boundary = "identity_resolution"
        /\ run.call.answer \notin Failures
    BY <1>2, <2>1 DEF Text, Answered
  <2>4. CASE run' = [m EXCEPT !.pending = @ - 1]
    <3>1. Differs(run', m, {"pending"})
      <4> HIDE DEF m
      <4> QED
        BY <2>2, <2>4 DEF Differs, RunFields
    <3> QED
      BY <1>3, <2>3, <3>1, ResolvedInv
  <2>5. CASE StepMade(run', "sanuvia_persistent", m, "rejected_plan",
                      Context("sanuvia_persistent"))
    <3> HIDE DEF m
    <3> QED
      BY <1>2, <1>4, <2>2, <2>3, <2>5, <2>9, StepMadeInv DEF Outcomes
  <2> QED
    BY <2>1, <2>4, <2>5
<1>11. ASSUME NEW c \in {"fm_stateless", "fm_transcript"},
              NEW boundary \in {"stateless_baseline", "transcript_baseline"},
              c = "fm_stateless" <=> boundary = "stateless_baseline",
              BaselineTurn(p, c, boundary)
       PROVE  RunInv(run')
  <2>1. Text(p, boundary) /\ StepMade(run', c, m, "answered", Context(c))
    BY <1>11 DEF BaselineTurn, StepDone, StepMade, Stepped, Counted, StepOf
  <2>9. ContextRead(c, Context(c), run.turn)
    BY <1>2, <1>4, <1>11, ContextIs
  <2>2. /\ Ready(m) /\ Called(m, run.turn) /\ m.turn = run.turn /\ m.phase = run.phase
    BY <1>11, <2>1, TextReady DEF Boundaries
  <2>3. run.phase = c
    BY <1>2, <1>11, <2>1 DEF Text, Answered
  <2> HIDE DEF m
  <2> QED
    BY <1>2, <1>4, <2>1, <2>2, <2>3, <2>9, StepMadeInv DEF Outcomes
<1>12. /\ BaselineTurn(p, "fm_stateless", "stateless_baseline") => RunInv(run')
       /\ BaselineTurn(p, "fm_transcript", "transcript_baseline") => RunInv(run')
  BY <1>11
<1> QED
  BY <1>5, <1>6, <1>7, <1>8, <1>9, <1>10, <1>12

\* Between two calls.
LEMMA IdleReady ==
    ASSUME RunInv(run), run.call = NoCall, run.phase \in PipelinePhases
    PROVE  Ready(run) /\ DOMAIN run = RunFields /\ RunTypes(run)
<1>1. Stage[run.phase] < 7
  BY Stages DEF PipelinePhases, Conditions
<1> QED
  BY <1>1, ReadyIdle, ReadyFacts

\* The steps before and between calls.
LEMMA IdleSteps ==
    ASSUME RunInv(run), NEW p,
           \/ SetupDone(p) \/ Configure(p) \/ ExtractHold(p) \/ RejectedTurn(p)
           \/ SkipObservation(p) \/ EngineTurn(p)
    PROVE  RunInv(run')
<1>1. CASE SetupDone(p)
  <2>1. PICK roster \in Rosters :
          run.phase = "setup" /\ run' = [run EXCEPT !.phase = "configure", !.roster = roster]
    BY <1>1 DEF SetupDone, Running
  <2>2. run = EmptyRun /\ roster \in Seq(Nat \ {0})
    BY <2>1, Stages, StageOneAssumption DEF RunInv, Underway, Placed
  <2> QED
    BY <2>1, <2>2, FreshInv
<1>2. CASE Configure(p)
  <2>1. run.phase = "configure" /\ Stage[run.phase] = 1
    BY <1>2, Stages DEF Configure, Running
  <2>2. /\ Kept(run) /\ Placed(run) /\ CallPlaced(run) /\ RunTypes(run)
    BY <2>1 DEF RunInv, Underway, Kept
  <2>3. run = [EmptyRun EXCEPT !.phase = run.phase, !.roster = run.roster]
    BY <2>1, <2>2 DEF Placed
  <2>4. CASE run.roster = <<>>
    <3>1. run' = Aborted(run, "ConfigurationError")
      BY <1>2, <2>4 DEF Configure
    <3>2. run.call = NoCall
      BY <2>3 DEF EmptyRun
    <3>3. Len(run.calls) = run.asked
      <4>1. NoCall.boundary \notin Boundaries
        BY DEF NoCall, Boundaries
      <4> QED
        BY <2>2, <3>2, <4>1 DEF CallPlaced
    <3>4. StepsKept(run, "ConfigurationError")
      BY <2>2 DEF Placed, StepsKept
    <3> QED
      BY <2>2, <3>1, <3>3, <3>4, AbortedInv
  <2>5. CASE run.roster # <<>>
    <3>1. run' = [run EXCEPT !.phase = "extract"]
      BY <1>2, <2>5 DEF Configure
    <3>2. run.roster \in Seq(Nat \ {0})
      BY <2>2 DEF RunTypes
    <3> DEFINE roster == run.roster
    <3>3. run = [EmptyRun EXCEPT !.phase = "configure", !.roster = roster]
      BY <2>1, <2>3
    <3> HIDE DEF roster
    <3>4. run' = [EmptyRun EXCEPT !.phase = "extract", !.roster = roster]
      BY <3>1, <3>3 DEF EmptyRun
    <3>5. roster \in Seq(Nat \ {0})
      BY <3>2 DEF roster
    <3> QED
      BY <3>4, <3>5, FreshInv
  <2> QED
    BY <2>4, <2>5
<1>3. CASE ExtractHold(p)
  <2>1. /\ run.phase = "extract" /\ run.turn \in HoldTurns
        /\ run' = Extracted(run, FALSE, <<>>)
    BY <1>3 DEF ExtractHold, Running
  <2>2. run.call = NoCall
    <3>1. NoCall.answer = "none" /\ Stage[run.phase] = 2
      BY <2>1, Stages DEF NoCall
    <3>2. CallPlaced(run)
      BY <3>1 DEF RunInv, Underway
    <3>3. run.call.boundary \in Boundaries /\ CalledAt[run.call.boundary] = 2 =>
            run.call.boundary = "evidence_extraction"
      BY Stages DEF Boundaries
    <3> QED
      BY <2>1, <3>1, <3>2, <3>3 DEF CallPlaced
  <2>3. Ready(run)
    BY <2>1, <2>2, IdleReady DEF PipelinePhases
  <2> DEFINE items == <<>>
  <2>4. items = <<>> /\ \A k \in DOMAIN items : Labelled(items[k], run.turn, run.roster)
    OBVIOUS
  <2>5. run' = Extracted(run, FALSE, items)
    BY <2>1
  <2> HIDE DEF items
  <2> QED
    BY <2>1, <2>3, <2>4, <2>5, ExtractedInv
<1>4. "sanuvia_persistent" \in Conditions /\ "sanuvia_persistent" \in PipelinePhases
  BY DEF Conditions, PipelinePhases
<1>5. CASE RejectedTurn(p)
  <2>1. /\ run.phase = "sanuvia_persistent" /\ run.turn \in Turns /\ run.call = NoCall
        /\ StepMade(run', "sanuvia_persistent", run, "rejected_plan",
                    Context("sanuvia_persistent"))
    BY <1>5 DEF RejectedTurn, InSanuvia, Running, StepDone, StepMade, Stepped, Counted, StepOf
  <2>2. ContextRead("sanuvia_persistent", Context("sanuvia_persistent"), run.turn)
    BY <1>4, <2>1, ContextIs
  <2>3. Ready(run)
    BY <1>4, <2>1, IdleReady
  <2> QED
    BY <1>4, <2>1, <2>2, <2>3, StepMadeInv DEF Outcomes
<1>6. CASE SkipObservation(p)
  <2>1. /\ run.phase = "sanuvia_persistent" /\ run.call = NoCall
        /\ run' = [run EXCEPT !.item = @ + 1]
    BY <1>6 DEF SkipObservation, InSanuvia, Running
  <2>2. Ready(run) /\ DOMAIN run = RunFields
    BY <1>4, <2>1, IdleReady
  <2>3. Differs(run', run, {"item", "pending"}) /\ run'.item = run.item + 1
    BY <2>1, <2>2 DEF Differs, RunFields
  <2> QED
    BY <2>1, <2>2, <2>3, MovedInv
<1>7. CASE EngineTurn(p)
  <2>1. /\ run.phase = "sanuvia_persistent" /\ run.turn \in Turns /\ run.call = NoCall
        /\ ~run.audit[run.turn].rejected
    BY <1>7 DEF EngineTurn, InSanuvia, Running
  <2>2. PICK outcome \in Outcomes :
          StepMade(run', "sanuvia_persistent", run, outcome, Context("sanuvia_persistent"))
    BY <1>7 DEF EngineTurn, StepDone, StepMade, Stepped, Counted, StepOf, Outcomes
  <2>3. ContextRead("sanuvia_persistent", Context("sanuvia_persistent"), run.turn)
    BY <1>4, <2>1, ContextIs
  <2>4. Ready(run)
    BY <1>4, <2>1, IdleReady
  <2> QED
    BY <1>4, <2>1, <2>2, <2>3, <2>4, StepMadeInv
<1> QED
  BY <1>1, <1>2, <1>3, <1>5, <1>6, <1>7

\* A call sent, and its answer.
LEMMA CallSteps ==
    ASSUME RunInv(run), NEW p, Send(p) \/ Answer(p)
    PROVE  RunInv(run')
<1>1. CASE Send(p)
  <2> DEFINE call == [boundary |-> Wanted, turn |-> run.turn, item |-> run.item,
                      answer |-> "awaited"]
  <2>1. run.call = NoCall /\ Wanted # "none"
        /\ run' = [run EXCEPT !.asked = @ + 1, !.call = call]
    BY <1>1 DEF Send
  <2>2. /\ run.turn \in Turns
        /\ \/ run.phase = "extract" /\ run.turn \notin HoldTurns
              /\ Wanted = "evidence_extraction"
           \/ run.phase = "sanuvia_persistent" /\ Wanted = "identity_resolution"
           \/ run.phase = "sanuvia_persistent" /\ run.item =< Len(CurrentItems)
              /\ Wanted = "evidence_appraisal"
           \/ run.phase = "fm_stateless" /\ Wanted = "stateless_baseline"
           \/ run.phase = "fm_transcript" /\ Wanted = "transcript_baseline"
    <3> DEFINE a == run.turn \notin Turns
               b == run.phase = "extract" /\ run.turn \notin HoldTurns
               c == run.phase = "sanuvia_persistent" /\ run.pending > 0
               d == /\ run.phase = "sanuvia_persistent" /\ run.pending = 0
                    /\ run.item =< Len(CurrentItems)
                    /\ CurrentItems[run.item].appraisable
               e == run.phase = "fm_stateless"
               f == run.phase = "fm_transcript"
    <3>1. Wanted = IF a THEN "none" ELSE
                   CASE b -> "evidence_extraction"
                     [] c -> "identity_resolution"
                     [] d -> "evidence_appraisal"
                     [] e -> "stateless_baseline"
                     [] f -> "transcript_baseline"
                     [] OTHER -> "none"
      BY DEF Wanted
    <3>2. /\ ~(b /\ c) /\ ~(c /\ d) /\ ~(b /\ d) /\ ~(b /\ e) /\ ~(b /\ f) /\ ~(c /\ e)
          /\ ~(c /\ f) /\ ~(d /\ e) /\ ~(d /\ f) /\ ~(e /\ f)
      OBVIOUS
    <3> HIDE DEF a, b, c, d, e, f
    <3>3. /\ ~a
          /\ \/ b /\ Wanted = "evidence_extraction"
             \/ c /\ Wanted = "identity_resolution"
             \/ d /\ Wanted = "evidence_appraisal"
             \/ e /\ Wanted = "stateless_baseline"
             \/ f /\ Wanted = "transcript_baseline"
      BY <2>1, <3>1, <3>2
    <3> QED
      BY <3>3 DEF a, b, c, d, e, f
  <2>3. CalledAt[Wanted] = Stage[run.phase] /\ Wanted \in Boundaries /\ Stage[run.phase] < 7
    BY <2>2, Stages DEF Boundaries
  <2>4. DOMAIN run = RunFields /\ RunTypes(run) /\ AuditKept(run) /\ Placed(run)
    BY <2>3 DEF RunInv, Kept, RunTypes, Underway
  <2>5. Wanted = "evidence_appraisal" => ~run.audit[run.turn].rejected
    <3> SUFFICES ASSUME Wanted = "evidence_appraisal", run.audit[run.turn].rejected
                 PROVE  FALSE
      OBVIOUS
    <3>1. run.phase = "sanuvia_persistent" /\ run.item =< Len(CurrentItems)
      BY <2>2
    <3>2. Len(run.audit) = NumTurns
      BY <2>4, <3>1, Stages DEF Placed
    <3>3. run.turn \in DOMAIN run.audit
      BY <2>2, <2>4, <3>2, RunFieldTypes DEF Turns
    <3>4. CurrentItems = <<>>
      BY <2>4, <3>3 DEF AuditKept, CurrentItems
    <3>5. Len(CurrentItems) = 0 /\ run.item \in Nat /\ run.item > 0
      BY <2>4, <3>4, RunFieldTypes
    <3> QED
      BY <3>1, <3>5
  <2>6. Wanted = "evidence_extraction" => run.turn \notin HoldTurns
    BY <2>2
  <2>7. /\ call.boundary = Wanted /\ call.answer = "awaited"
        /\ DOMAIN call = {"boundary", "turn", "item", "answer"}
    OBVIOUS
  <2> HIDE DEF call
  <2>8. /\ Differs(run', run, {"asked", "call"}) /\ run'.asked = run.asked + 1
        /\ run'.call = call
    BY <2>1, <2>4 DEF Differs, RunFields
  <2> QED
    BY <2>1, <2>2, <2>3, <2>5, <2>6, <2>7, <2>8, CalledInv
<1>2. CASE Answer(p)
  <2>1. PICK answer \in Failures \cup DOMAIN Replies(run.call.boundary, run.turn) :
          run.call.answer = "awaited" /\ run' = [run EXCEPT !.call.answer = answer]
    BY <1>2 DEF Answer
  <2>2. /\ Stage[run.phase] \in 2..5 /\ run.call.boundary \in Boundaries
        /\ run.turn \in Turns /\ DOMAIN run = RunFields /\ RunTypes(run)
    BY <2>1, CallGoing
  <2>3. answer # "none"
    BY <2>1, <2>2, StageOneAssumption DEF Replies, Failures, Marks
  <2> DEFINE call == [run.call EXCEPT !.answer = answer]
  <2>4. run' = [run EXCEPT !.call = call]
    BY <2>1
  <2>5. /\ DOMAIN call = {"boundary", "turn", "item", "answer"}
        /\ call.boundary = run.call.boundary /\ call.answer = answer
    BY <2>2 DEF RunTypes
  <2> HIDE DEF call
  <2>6. Differs(run', run, {"call"}) /\ run'.call = call
    BY <2>2, <2>4 DEF Differs, RunFields
  <2>7. Stage[run.phase] < 7
    BY <2>2
  <2> QED
    BY <2>2, <2>3, <2>5, <2>6, <2>7, AnsweredInv
<1> QED
  BY <1>1, <1>2

\* The end of a condition, and of the run.
LEMMA ClosingSteps ==
    ASSUME RunInv(run), NEW p,
           \/ \E c \in Conditions : CloseFile(p, c) \/ FileFails(p, c)
           \/ Compare(p) \/ WriteEvidence(p) \/ Interrupt(p)
    PROVE  RunInv(run')
<1>1. ASSUME NEW c \in Conditions, Closing(p, c)
      PROVE  Ready(run) /\ DOMAIN run = RunFields /\ run.phase = c /\ run.turn = NumTurns + 1
  <2>1. run.phase = c /\ run.turn = NumTurns + 1 /\ run.phase \in PipelinePhases
    BY <1>1 DEF Closing, Running, PipelinePhases
  <2>2. run.turn \notin Turns
    BY <2>1, NumTurnsFacts
  <2>3. Stage[run.phase] < 7
    BY <2>1, Stages DEF Conditions
  <2>4. run.call = NoCall
    BY <2>2, <2>3 DEF RunInv, Underway, CallPlaced
  <2> QED
    BY <2>1, <2>4, IdleReady
<1>2. ASSUME NEW c \in Conditions, CloseFile(p, c)
      PROVE  RunInv(run')
  <2>1. Ready(run) /\ DOMAIN run = RunFields /\ run.phase = c /\ run.turn = NumTurns + 1
    BY <1>1, <1>2 DEF CloseFile
  <2>2. run' = [run EXCEPT !.completed = Append(@, c), !.turn = 1, !.phase = Following(c)]
    BY <1>2 DEF CloseFile
  <2>3. /\ Differs(run', run, {"completed", "turn", "phase"})
        /\ run'.completed = Append(run.completed, c) /\ run'.turn = 1
        /\ run'.phase = Following(c)
    BY <2>1, <2>2 DEF Differs, RunFields
  <2> QED
    BY <2>1, <2>3, ClosedInv
<1>3. ASSUME NEW c \in Conditions, FileFails(p, c)
      PROVE  RunInv(run')
  <2>1. Ready(run)
    BY <1>1, <1>3 DEF FileFails
  <2>2. Kept(run) /\ Len(run.calls) = run.asked /\ StepsKept(run, "OSError")
    BY <2>1, ReadyFacts DEF StepsKept
  <2>3. run' = Aborted(run, "OSError")
    BY <1>3 DEF FileFails
  <2> QED
    BY <2>2, <2>3, AbortedInv
<1>4. CASE Compare(p)
  <2>1. run.phase = "compare"
    BY <1>4 DEF Compare, Running
  <2>2. \A c \in Conditions : Sequence(c) = [t \in Turns |-> t]
    <3> SUFFICES ASSUME NEW c \in Conditions
                 PROVE  [i \in 1..Len(run.records[c]) |-> run.records[c][i].turn]
                          = [t \in 1..NumTurns |-> t]
      BY DEF Sequence, Turns
    <3>1. /\ Len(run.records[c]) = NumTurns
          /\ \A i \in 1..NumTurns : run.records[c][i].turn = i
      BY <2>1, ComparedInv
    <3> QED
      BY <3>1
  <2>3. run' = [run EXCEPT !.phase = "evidence"]
    BY <1>4, <2>2 DEF Compare
  <2> QED
    BY <2>1, <2>3, ComparedInv
<1>5. CASE WriteEvidence(p)
  BY <1>5, WrittenInv DEF WriteEvidence, Running
<1>6. CASE Interrupt(p)
  <2>1. Stage[run.phase] < 7
    BY <1>6, Stages DEF Interrupt, PipelinePhases, Conditions
  <2> QED
    BY <1>6, <2>1, InterruptedInv DEF Interrupt
<1> QED
  BY <1>2, <1>3, <1>4, <1>5, <1>6

LEMMA EmptyRunInv == RunInv(EmptyRun)
<1> DEFINE phase == "setup"
           roster == <<>>
<1>1. phase \in {"setup", "configure", "extract"} /\ roster \in Seq(Nat \ {0}) /\ roster = <<>>
  OBVIOUS
<1>2. EmptyRun.phase = phase /\ EmptyRun.roster = roster
  BY DEF EmptyRun
<1>3. EmptyRun = [EmptyRun EXCEPT !.phase = phase, !.roster = roster]
  BY <1>2 DEF EmptyRun
<1> HIDE DEF phase, roster
<1> QED
  BY <1>1, <1>3, FreshInv

\* Every step keeps the invariant of the run.
LEMMA RunStep ==
    ASSUME RunInv(run), [Next]_vars
    PROVE  RunInv(run')
<1>1. CASE UNCHANGED vars
  BY <1>1 DEF vars
<1>2. ASSUME NEW p \in Procs,
             \/ CheckExists(p) \/ SetupFails(p) \/ OpenEvidence(p) \/ WriteTrajectories(p)
             \/ ReportFails(p) \/ Kill(p) \/ \E c \in Conditions : OpenFile(p, c)
      PROVE  RunInv(run')
  <2>1. run' = run
    BY <1>2 DEF CheckExists, SetupFails, OpenEvidence, WriteTrajectories, ReportFails, Kill,
                OpenFile
  <2> QED
    BY <2>1
<1>3. ASSUME NEW p \in Procs, MakeDirectory(p)
      PROVE  RunInv(run')
  <2>1. run' = run \/ run' = EmptyRun
    BY <1>3 DEF MakeDirectory
  <2> QED
    BY <2>1, EmptyRunInv
<1>4. ASSUME NEW p \in Procs, CheckExists(p) \/ Advance(p) \/ Interrupt(p) \/ Kill(p)
      PROVE  RunInv(run')
  BY <1>2, <1>3, <1>4, AnswerSteps, IdleSteps, CallSteps, ClosingSteps DEF Advance
<1> QED
  BY <1>1, <1>4 DEF Next
----------------------------------------------------------------------------
(* The disk.                                                               *)

Whole(lines, c) == {i \in DOMAIN lines : lines[i].condition = c /\ lines[i].whole}

\* One more line is one more whole line of its condition, or none.
LEMMA WholeGrow ==
    ASSUME NEW lines \in Seq(Lines), NEW l \in Lines, NEW c
    PROVE  /\ l.whole /\ l.condition = c =>
                Cardinality(Whole(Append(lines, l), c)) = Cardinality(Whole(lines, c)) + 1
           /\ ~(l.whole /\ l.condition = c) =>
                Cardinality(Whole(Append(lines, l), c)) = Cardinality(Whole(lines, c))
<1> DEFINE more == Append(lines, l)
           W == Whole(lines, c)
           n == Len(lines) + 1
<1>1. Extends(more, lines, l)
  BY AppendExtends
<1>2. IsFiniteSet(W) /\ n \notin W
  <2>1. W \subseteq 1..Len(lines) /\ Len(lines) \in Nat
    BY <1>1 DEF Whole, Extends
  <2>2. IsFiniteSet(1..Len(lines))
    BY <2>1, FS_Interval
  <2>3. IsFiniteSet(W)
    BY <2>1, <2>2, FS_Subset
  <2> QED
    BY <2>1, <2>3
<1> HIDE DEF more
<1>3. l.whole /\ l.condition = c => Whole(more, c) = W \cup {n}
  BY <1>1 DEF Whole, Extends
<1>4. ~(l.whole /\ l.condition = c) => Whole(more, c) = W
  BY <1>1 DEF Whole, Extends
<1>5. Cardinality(W \cup {n}) = Cardinality(W) + 1
  BY <1>2, FS_AddElement
<1> QED
  BY <1>3, <1>4, <1>5 DEF more

LEMMA WholeIs ==
    ASSUME NEW lines, NEW r
    PROVE  WholeLinesAre(lines, r) <=>
             \A c \in Conditions : Cardinality(Whole(lines, c)) = Len(r.records[c])
  BY DEF WholeLinesAre, Whole

\* A step that leaves the disk alone.
LEMMA SameDisk ==
    ASSUME NEW d, NEW r, NEW n, Follows(d, r), r.phase \in Phases, Stage[r.phase] < 7,
           n.phase \in Phases, Stage[n.phase] =< 7,
           n.records = r.records, n.completed = r.completed,
           Stage[n.phase] =< 1 => Stage[r.phase] =< 1,
           Stage[n.phase] < 7 => Logged(n) = d.logged,
           Stage[n.phase] = 7 /\ n.error = "none" => Len(n.calls) = d.logged
    PROVE  Follows(d, n)
<1>1. Stage[r.phase] \in 0..6 /\ Stage[n.phase] \in 0..7
  BY StageRange
<1>2. n.phase # "report"
  BY <1>1, Stages
<1>3. WholeLinesAre(d.lines, n)
  BY DEF Follows, WholeLinesAre
<1>4. Stage[n.phase] >= 7 => Stage[n.phase] = 7
  BY <1>1
<1> QED
  BY <1>1, <1>2, <1>3, <1>4 DEF Follows

LEMMA AbortedFollows ==
    ASSUME NEW d, NEW r, Follows(d, r), r.phase \in Phases, Stage[r.phase] < 7, NEW x,
           DOMAIN x = RunFields, x.records = r.records, x.completed = r.completed,
           NEW error, error # "none"
    PROVE  Follows(d, Aborted(x, error))
<1> DEFINE n == Aborted(x, error)
<1>1. Differs(n, x, {"phase", "error", "call"}) /\ n.phase = "evidence" /\ n.error = error
  BY AbortedFields
<1> HIDE DEF n
<1>2. n.records = r.records /\ n.completed = r.completed
  BY <1>1 DEF Differs, RunFields
<1>3. Stage[n.phase] = 7 /\ n.phase \in Phases
  BY <1>1, Stages DEF Phases
<1>4. Follows(d, n)
  BY <1>1, <1>2, <1>3, SameDisk
<1> QED
  BY <1>4 DEF n

LEMMA LoggedIdle ==
    ASSUME NEW r, Len(r.calls) \in Nat, r.call = NoCall
    PROVE  Logged(r) = Len(r.calls)
<1>1. r.call.answer = "none"
  BY DEF NoCall
<1> QED
  BY <1>1 DEF Logged

LEMMA LoggedAnswered ==
    ASSUME NEW r, Len(r.calls) \in Nat, r.call.answer \notin {"none", "awaited"}
    PROVE  Logged(r) = IF r.call.answer \in Unlogged THEN Len(r.calls) ELSE Len(r.calls) + 1
<1>1. CASE r.call.answer \in Unlogged
  <2>1. r.call.answer \in {"none", "awaited"} \cup Unlogged
    BY <1>1
  <2> QED
    BY <1>1, <2>1 DEF Logged
<1>2. CASE r.call.answer \notin Unlogged
  <2>1. r.call.answer \notin {"none", "awaited"} \cup Unlogged
    BY <1>2
  <2> QED
    BY <1>2, <2>1 DEF Logged
<1> QED
  BY <1>1, <1>2

LEMMA IdleFollows ==
    ASSUME NEW d, NEW r, Follows(d, r), RunTypes(r), Stage[r.phase] < 7, r.call = NoCall,
           NEW n, Differs(n, r, {"item", "pending", "audit", "phase", "turn", "roster"}),
           n.phase \in Phases, Stage[n.phase] =< 7,
           Stage[n.phase] =< 1 => Stage[r.phase] =< 1
    PROVE  Follows(d, n)
<1>1. /\ n.records = r.records /\ n.completed = r.completed /\ n.calls = r.calls
      /\ n.call = r.call
  BY DEF Differs, RunFields
<1>2. Len(r.calls) \in Nat /\ r.phase \in Phases
  BY RunFieldTypes DEF RunTypes
<1>3. d.logged = Len(n.calls)
  BY <1>1, <1>2, LoggedIdle DEF Follows
<1>4. Logged(n) = Len(n.calls)
  BY <1>1, <1>2, LoggedIdle
<1> QED
  BY <1>1, <1>2, <1>3, <1>4, SameDisk

\* A text recorded was in the backend's log already.
LEMMA RecordedFollows ==
    ASSUME NEW d, NEW r, Follows(d, r), RunInv(r), Stage[r.phase] < 7,
           r.call.answer \notin {"none", "awaited"} \cup Failures
    PROVE  Follows(d, Recorded(r))
<1> DEFINE n == Recorded(r)
<1>1. /\ Differs(n, r, {"call", "calls"}) /\ n.call = NoCall
      /\ Extends(n.calls, r.calls, CallOf(r)) /\ RunTypes(r)
  <2>1. r.call.boundary \in Boundaries /\ r.call # NoCall /\ RunTypes(r)
    BY CallGoing DEF NoCall, Boundaries
  <2> QED
    BY <2>1, RecordedKept
<1> HIDE DEF n
<1>2. /\ n.records = r.records /\ n.completed = r.completed /\ n.phase = r.phase
      /\ n.phase \in Phases /\ Len(n.calls) = Len(r.calls) + 1 /\ Len(n.calls) \in Nat
  BY <1>1 DEF Differs, RunFields, RunTypes, Extends
<1>3. Logged(n) = Len(n.calls)
  BY <1>1, <1>2, LoggedIdle
<1>4. d.logged = Len(n.calls)
  <2>1. r.call.answer \notin {"none", "awaited"} \cup Unlogged
    BY DEF Unlogged, Failures
  <2>2. Logged(r) = Len(r.calls) + 1
    BY <2>1 DEF Logged
  <2> QED
    BY <1>2, <2>2 DEF Follows
<1>5. Follows(d, n)
  <2>1. Stage[n.phase] < 7 /\ Stage[n.phase] =< 7 /\ Stage[n.phase] # 7
    BY <1>2, StageRange
  <2> QED
    BY <1>2, <1>3, <1>4, <2>1, SameDisk
<1> QED
  BY <1>5 DEF n

\* The line of a step, written or torn.
LEMMA StepFollows ==
    ASSUME NEW d, NEW e, NEW r, NEW n, NEW c \in Conditions, NEW outcome \in Outcomes,
           NEW context \in SUBSET Nat, Ready(r), r.phase = c, Follows(d, r), DiskTypes(d),
           NEW whole \in BOOLEAN, NEW line,
           line = [condition |-> c, turn |-> r.turn, whole |-> whole],
           e = [d EXCEPT !.lines = Append(@, line)],
           whole => n = Stepped(c, r, outcome, context),
           ~whole => \E error \in {"OSError", "KeyboardInterrupt"} :
                       n = Aborted(Counted(c, r), error)
    PROVE  Follows(e, n) /\ DiskTypes(e)
<1>1. /\ RunTypes(r) /\ DOMAIN r = RunFields /\ r.call = NoCall /\ r.turn \in Nat
      /\ Len(r.calls) \in Nat /\ DOMAIN r.steps = Conditions /\ DOMAIN r.records = Conditions
      /\ \A a \in Conditions : Len(r.records[a]) \in Nat /\ r.records[a] \in Seq(StepRecords)
  <2>1. RunTypes(r) /\ DOMAIN r = RunFields /\ r.call = NoCall
    BY ReadyFacts
  <2> QED
    BY <2>1, RunFieldTypes
<1>2. Stage[c] \in 3..5 /\ c \in Phases
  BY Stages DEF Conditions, Phases
<1>3. line \in Lines /\ line.condition = c /\ line.whole = whole
  BY <1>1 DEF Lines
<1>4. /\ DOMAIN e = DOMAIN d /\ e.lines = Append(d.lines, line) /\ e.claimed = d.claimed
      /\ e.logged = d.logged /\ e.files = d.files /\ e.evidence = d.evidence
      /\ e.written = d.written /\ e.trajectories = d.trajectories
      /\ e.setupFailures = d.setupFailures
  BY DEF DiskTypes
<1>5. DiskTypes(e)
  BY <1>3, <1>4 DEF DiskTypes
<1>6. \A a \in Conditions :
        /\ whole /\ a = c =>
             Cardinality(Whole(e.lines, a)) = Cardinality(Whole(d.lines, a)) + 1
        /\ ~(whole /\ a = c) =>
             Cardinality(Whole(e.lines, a)) = Cardinality(Whole(d.lines, a))
  BY <1>3, <1>4, WholeGrow DEF DiskTypes
<1>7. \A a \in Conditions : Cardinality(Whole(d.lines, a)) = Len(r.records[a])
  BY WholeIs DEF Follows
<1>8. /\ d.logged = Len(r.calls) /\ d.written # "whole" /\ d.trajectories = "none"
      /\ \A a \in Conditions : d.files[a] = "whole" <=> a \in ToSet(r.completed)
  <2>1. d.logged = Logged(r) /\ Logged(r) = Len(r.calls)
    BY <1>1, <1>2, LoggedIdle DEF Follows
  <2> QED
    BY <1>2, <2>1 DEF Follows
<1>9. CASE whole
  <2>1. n = Stepped(c, r, outcome, context)
    BY <1>9
  <2>2. /\ Differs(n, r, {"steps", "item", "pending", "records", "turn"})
        /\ n.records[c] = Append(r.records[c], StepOf(r, outcome, context))
        /\ \A a \in Conditions : a # c => n.records[a] = r.records[a]
    BY <1>1, <2>1, SteppedFields
  <2>3. /\ n.phase = c /\ n.completed = r.completed /\ n.calls = r.calls /\ n.call = NoCall
    BY <1>1, <2>2 DEF Differs, RunFields
  <2>4. Len(n.records[c]) = Len(r.records[c]) + 1
    BY <1>1, <2>2, AppendExtends DEF Extends
  <2>5. \A a \in Conditions : Cardinality(Whole(e.lines, a)) = Len(n.records[a])
    BY <1>6, <1>7, <1>9, <2>2, <2>4
  <2>6. WholeLinesAre(e.lines, n)
    BY <2>5, WholeIs
  <2>7. Logged(n) = Len(n.calls)
    BY <1>1, <2>3, LoggedIdle
  <2>8. ~(Stage[n.phase] =< 1) /\ ~(Stage[n.phase] >= 7) /\ n.phase # "report"
    BY <1>2, <2>3, Stages
  <2>9. Follows(e, n)
    BY <1>4, <1>8, <2>3, <2>6, <2>7, <2>8 DEF Follows
  <2> QED
    BY <1>5, <2>9
<1>10. CASE ~whole
  <2> DEFINE x == Counted(c, r)
  <2>1. PICK error \in {"OSError", "KeyboardInterrupt"} : n = Aborted(x, error)
    BY <1>10
  <2>2. Differs(x, r, {"steps", "item", "pending"})
    BY <1>1, CountedFields
  <2> HIDE DEF x
  <2>3. DOMAIN x = RunFields /\ x.records = r.records /\ x.completed = r.completed
    BY <2>2 DEF Differs, RunFields
  <2>4. Differs(n, x, {"phase", "error", "call"}) /\ n.phase = "evidence" /\ n.error = error
    BY <2>1, <2>3, AbortedFields
  <2>5. n.records = r.records /\ n.completed = r.completed
    BY <2>3, <2>4 DEF Differs, RunFields
  <2>6. WholeLinesAre(e.lines, n)
    BY <1>6, <1>7, <1>10, <2>5, WholeIs
  <2>7. Stage[n.phase] = 7 /\ n.error # "none" /\ n.phase # "report"
    BY <2>4, Stages
  <2>8. Follows(e, n)
    BY <1>4, <1>8, <2>5, <2>6, <2>7 DEF Follows
  <2> QED
    BY <1>5, <2>8
<1> QED
  BY <1>9, <1>10

\* The steps that leave the disk alone.
LEMMA DiskLeft ==
    ASSUME RunInv(run), Follows(disk, run), NEW p,
           \/ SetupDone(p) \/ Configure(p) \/ ExtractHold(p) \/ SkipObservation(p)
           \/ Compare(p) \/ CallFails(p) \/ Extract(p) \/ Appraise(p) \/ Send(p)
           \/ Interrupt(p)
           \/ \E c \in Conditions : FileFails(p, c)
           \/ Malformed(p, "evidence_extraction", ValidExtraction(Reply))
           \/ Malformed(p, "evidence_appraisal", ValidAppraisal(Reply))
           \/ Malformed(p, "stateless_baseline", ValidBaseline(Reply))
           \/ Malformed(p, "transcript_baseline", ValidBaseline(Reply))
    PROVE  Follows(disk, run')
<1> DEFINE m == Recorded(run)
<1>1. RunTypes(run) /\ DOMAIN run = RunFields /\ run.phase \in Phases
  BY DEF RunInv, Kept, RunTypes
<1>2. ASSUME Stage[run.phase] < 7, run.call = NoCall, NEW n,
             Differs(n, run, {"item", "pending", "audit", "phase", "turn", "roster"}),
             n.phase \in Phases, Stage[n.phase] =< 7,
             Stage[n.phase] =< 1 => Stage[run.phase] =< 1
      PROVE  Follows(disk, n)
  BY <1>1, <1>2, IdleFollows
<1>3. CASE SetupDone(p)
  <2>1. /\ run.phase = "setup"
        /\ Differs(run', run, {"item", "pending", "audit", "phase", "turn", "roster"})
        /\ run'.phase = "configure"
    BY <1>1, <1>3 DEF SetupDone, Running, Differs, RunFields
  <2>2. Stage[run.phase] = 0 /\ Stage[run'.phase] = 1 /\ run'.phase \in Phases
    BY <2>1, Stages DEF Phases
  <2>3. run.call = NoCall
    <3>1. run = EmptyRun
      BY <2>1, <2>2 DEF RunInv, Underway, Placed
    <3> QED
      BY <3>1 DEF EmptyRun
  <2> QED
    BY <1>2, <2>1, <2>2, <2>3
<1>4. CASE Configure(p)
  <2>1. run.phase = "configure" /\ Stage[run.phase] = 1
    BY <1>4, Stages DEF Configure, Running
  <2>2. CASE run.roster = <<>>
    <3>1. run' = Aborted(run, "ConfigurationError")
      BY <1>4, <2>2 DEF Configure
    <3> QED
      BY <1>1, <2>1, <3>1, AbortedFollows
  <2>3. CASE run.roster # <<>>
    <3>1. /\ Differs(run', run, {"item", "pending", "audit", "phase", "turn", "roster"})
          /\ run'.phase = "extract"
      BY <1>1, <1>4, <2>3 DEF Configure, Differs, RunFields
    <3>2. Stage[run'.phase] = 2 /\ run'.phase \in Phases
      BY <3>1, Stages DEF Phases
    <3>3. run.call = NoCall
      <4>1. run = [EmptyRun EXCEPT !.phase = run.phase, !.roster = run.roster]
        BY <2>1 DEF RunInv, Underway, Placed
      <4> QED
        BY <4>1 DEF EmptyRun
    <3> QED
      BY <1>2, <2>1, <3>1, <3>2, <3>3
  <2> QED
    BY <2>2, <2>3
<1>5. ASSUME NEW r, DOMAIN r = RunFields, r.phase = "extract", NEW rejected, NEW items
      PROVE  /\ Differs(Extracted(r, rejected, items), r,
                        {"item", "pending", "audit", "phase", "turn", "roster"})
             /\ Extracted(r, rejected, items).phase \in Phases
             /\ Stage[Extracted(r, rejected, items).phase] \in 2..3
  <2> DEFINE n == Extracted(r, rejected, items)
  <2>1. /\ Differs(n, r, {"audit", "phase", "turn"})
        /\ n.phase = "sanuvia_persistent" \/ n.phase = r.phase
    BY <1>5, ExtractedFields
  <2> HIDE DEF n
  <2>2. /\ Differs(n, r, {"item", "pending", "audit", "phase", "turn", "roster"})
        /\ n.phase \in {"extract", "sanuvia_persistent"}
    BY <1>5, <2>1 DEF Differs
  <2>3. n.phase \in Phases /\ Stage[n.phase] \in 2..3
    BY <2>2, Stages DEF Phases
  <2> QED
    BY <2>2, <2>3 DEF n
<1>6. CASE ExtractHold(p)
  <2>1. /\ run.phase = "extract" /\ run.turn \in HoldTurns
        /\ run' = Extracted(run, FALSE, <<>>)
    BY <1>6 DEF ExtractHold, Running
  <2>2. Stage[run.phase] = 2
    BY <2>1, Stages
  <2>3. run.call = NoCall
    <3>1. run.call.boundary \in Boundaries /\ CalledAt[run.call.boundary] = 2 =>
            run.call.boundary = "evidence_extraction"
      BY Stages DEF Boundaries
    <3> QED
      BY <2>1, <2>2, <3>1 DEF RunInv, Underway, CallPlaced
  <2>4. /\ Differs(run', run, {"item", "pending", "audit", "phase", "turn", "roster"})
        /\ run'.phase \in Phases /\ Stage[run'.phase] \in 2..3
    BY <1>1, <1>5, <2>1
  <2>5. Stage[run'.phase] =< 7 /\ Stage[run.phase] < 7 /\ ~(Stage[run'.phase] =< 1)
    BY <2>2, <2>4
  <2> QED
    BY <1>2, <2>3, <2>4, <2>5
<1>7. CASE SkipObservation(p)
  <2>1. /\ run.phase = "sanuvia_persistent" /\ run.call = NoCall
        /\ run' = [run EXCEPT !.item = @ + 1]
    BY <1>7 DEF SkipObservation, InSanuvia, Running
  <2>2. /\ Differs(run', run, {"item", "pending", "audit", "phase", "turn", "roster"})
        /\ run'.phase = "sanuvia_persistent"
    BY <1>1, <2>1 DEF Differs, RunFields
  <2>3. Stage[run.phase] = 3 /\ Stage[run'.phase] = 3 /\ run'.phase \in Phases
    BY <2>1, <2>2, Stages DEF Phases
  <2>4. Stage[run'.phase] =< 7 /\ Stage[run.phase] < 7 /\ ~(Stage[run'.phase] =< 1)
    BY <2>3
  <2>5. run.call = NoCall
    BY <2>1
  <2> QED
    BY <1>2, <2>2, <2>3, <2>4, <2>5
<1>8. CASE Compare(p)
  <2>1. run.phase = "compare" /\ Stage[run.phase] = 6
    BY <1>8, Stages DEF Compare, Running
  <2>2. CASE run' = Aborted(run, "ValueError")
    BY <1>1, <2>1, <2>2, AbortedFollows
  <2>3. CASE run' = [run EXCEPT !.phase = "evidence"]
    <3>1. /\ Differs(run', run, {"item", "pending", "audit", "phase", "turn", "roster"})
          /\ run'.phase = "evidence"
      BY <1>1, <2>3 DEF Differs, RunFields
    <3>2. Stage[run'.phase] = 7 /\ run'.phase \in Phases
      BY <3>1, Stages DEF Phases
    <3>3. run.call = NoCall
      <4>1. \A b \in Boundaries : CalledAt[b] # 6
        BY StageRange
      <4> QED
        BY <2>1, <4>1 DEF RunInv, Underway, CallPlaced
    <3> QED
      BY <1>2, <2>1, <3>1, <3>2, <3>3
  <2> QED
    BY <1>8, <2>2, <2>3 DEF Compare
<1>9. ASSUME run.call.answer \notin {"none", "awaited"}
      PROVE  /\ Stage[run.phase] \in 2..5 /\ run.call.boundary \in Boundaries
             /\ m.records = run.records /\ m.completed = run.completed
             /\ DOMAIN m = RunFields /\ m.phase = run.phase /\ m.call = NoCall
  <2>1. /\ Stage[run.phase] \in 2..5 /\ run.call.boundary \in Boundaries
        /\ Differs(m, run, {"call", "calls"}) /\ m.call = NoCall
    BY <1>1, <1>9, CallGoing, RecordedFields
  <2> HIDE DEF m
  <2> QED
    BY <2>1 DEF Differs, RunFields
<1>10. ASSUME run.call.answer \notin {"none", "awaited"}, NEW error, error # "none"
       PROVE  Follows(disk, Aborted(m, error))
  <2>1. Stage[run.phase] < 7
    BY <1>9, <1>10
  <2> HIDE DEF m
  <2> QED
    BY <1>1, <1>9, <1>10, <2>1, AbortedFollows
<1>11. CASE CallFails(p)
  <2>1. CallStatus(run.call.answer) \in Statuses
    BY DEF CallStatus, Statuses
  <2>2. CallStatus(run.call.answer) # "none" /\ run.call.answer \notin {"none", "awaited"}
    BY <1>11, <2>1 DEF Statuses, CallFails, Failures
  <2> QED
    BY <1>10, <1>11, <2>2 DEF CallFails
<1>12. ASSUME NEW boundary, NEW valid, Malformed(p, boundary, valid)
       PROVE  Follows(disk, run')
  BY <1>10, <1>12 DEF Malformed, Text, Answered
<1>13. ASSUME NEW boundary \in Boundaries, Text(p, boundary)
       PROVE  /\ Ready(m) /\ Follows(disk, m) /\ RunTypes(m)
              /\ m.phase = run.phase /\ m.call = NoCall /\ DOMAIN m = RunFields
              /\ run.call.boundary = boundary
  <2>1. /\ run.call.boundary = boundary
        /\ run.call.answer \notin {"none", "awaited"} \cup Failures
    BY <1>13 DEF Text, Answered
  <2>2. Stage[run.phase] < 7
    BY <1>9, <2>1
  <2>3. Ready(m)
    BY <1>13, TextReady
  <2>4. Follows(disk, m)
    BY <2>1, <2>2, RecordedFollows
  <2> QED
    BY <1>9, <2>1, <2>3, <2>4, ReadyFacts
<1>14. CASE Extract(p)
  <2>1. /\ Text(p, "evidence_extraction")
        /\ \E rejected, items : run' = Extracted(m, rejected, items)
    BY <1>14 DEF Extract
  <2>2. /\ Follows(disk, m) /\ RunTypes(m) /\ m.phase = run.phase /\ m.call = NoCall
        /\ DOMAIN m = RunFields /\ run.call.boundary = "evidence_extraction"
    BY <1>13, <2>1 DEF Boundaries
  <2>3. run.phase = "extract" /\ Stage[run.phase] = 2
    <3>1. run.call.answer # "none"
      BY <2>1 DEF Text, Answered
    <3> QED
      BY <2>2, <3>1, CallGoing, Stages
  <2> HIDE DEF m
  <2>4. /\ Differs(run', m, {"item", "pending", "audit", "phase", "turn", "roster"})
        /\ run'.phase \in Phases /\ Stage[run'.phase] \in 2..3
    BY <1>5, <2>1, <2>2, <2>3
  <2>5. Stage[run'.phase] =< 7 /\ Stage[m.phase] < 7 /\ ~(Stage[run'.phase] =< 1)
    BY <2>2, <2>3, <2>4
  <2> QED
    BY <2>2, <2>4, <2>5, IdleFollows
<1>15. CASE Appraise(p)
  <2>1. /\ Text(p, "evidence_appraisal")
        /\ \E n : run' = [m EXCEPT !.item = @ + 1, !.pending = n]
    BY <1>15 DEF Appraise
  <2>2. /\ Follows(disk, m) /\ RunTypes(m) /\ m.phase = run.phase /\ m.call = NoCall
        /\ DOMAIN m = RunFields /\ run.call.boundary = "evidence_appraisal"
    BY <1>13, <2>1 DEF Boundaries
  <2>3. Stage[run.phase] \in 2..5
    BY <1>9, <2>1 DEF Text, Answered
  <2> HIDE DEF m
  <2>4. /\ Differs(run', m, {"item", "pending", "audit", "phase", "turn", "roster"})
        /\ run'.phase = m.phase
    BY <2>1, <2>2 DEF Differs, RunFields
  <2>5. Stage[run'.phase] =< 7 /\ Stage[m.phase] < 7 /\ ~(Stage[run'.phase] =< 1)
    BY <2>2, <2>3, <2>4
  <2> QED
    BY <1>1, <2>2, <2>4, <2>5, IdleFollows
<1>16. CASE Send(p)
  <2> DEFINE call == [boundary |-> Wanted, turn |-> run.turn, item |-> run.item,
                      answer |-> "awaited"]
  <2>1. run.call = NoCall /\ Wanted # "none"
        /\ run' = [run EXCEPT !.asked = @ + 1, !.call = call]
    BY <1>16 DEF Send
  <2>2. Stage[run.phase] \in 2..5
    BY <2>1, Stages DEF Wanted
  <2>3. call.answer = "awaited"
    OBVIOUS
  <2> HIDE DEF call
  <2>4. /\ run'.records = run.records /\ run'.completed = run.completed
        /\ run'.calls = run.calls /\ run'.phase = run.phase /\ run'.call = call
    BY <1>1, <2>1 DEF RunFields
  <2>5. Len(run.calls) \in Nat
    BY <1>1, RunFieldTypes
  <2>6. Logged(run) = Len(run.calls) /\ Logged(run') = Len(run.calls)
    <3>1. Logged(run) = Len(run.calls)
      BY <2>1, <2>5, LoggedIdle
    <3>2. run'.call.answer = "awaited" /\ Len(run'.calls) = Len(run.calls)
      BY <2>3, <2>4
    <3>3. Logged(run') = Len(run.calls)
      BY <2>5, <3>2 DEF Logged
    <3> QED
      BY <3>1, <3>3
  <2>7. disk.logged = Len(run.calls) /\ Stage[run.phase] < 7 /\ Stage[run.phase] # 7
        /\ Stage[run.phase] =< 7
    BY <2>2, <2>6 DEF Follows
  <2> QED
    BY <1>1, <2>4, <2>6, <2>7, SameDisk
<1>17. CASE Interrupt(p)
  <2>1. Stage[run.phase] < 7
    BY <1>17, Stages DEF Interrupt, PipelinePhases, Conditions
  <2> QED
    BY <1>1, <1>17, <2>1, AbortedFollows DEF Interrupt
<1>18. ASSUME NEW c \in Conditions, FileFails(p, c)
       PROVE  Follows(disk, run')
  <2>1. Stage[run.phase] < 7 /\ run' = Aborted(run, "OSError")
    BY <1>18, Stages DEF FileFails, Closing, Running, Conditions
  <2> QED
    BY <1>1, <2>1, AbortedFollows
<1> QED
  BY <1>3, <1>4, <1>6, <1>7, <1>8, <1>11, <1>12, <1>14, <1>15, <1>16, <1>17, <1>18

\* What a step of a condition makes of the run and of the disk.
LineOf(c, r, whole) == [condition |-> c, turn |-> r.turn, whole |-> whole]
LineMade(e, n, d, c, r, outcome, context) ==
    \E whole \in BOOLEAN :
      /\ e = [d EXCEPT !.lines = Append(@, LineOf(c, r, whole))]
      /\ IF whole THEN n = Stepped(c, r, outcome, context)
         ELSE \E error \in {"OSError", "KeyboardInterrupt"} :
                n = Aborted(Counted(c, r), error)

LEMMA LineMadeFollows ==
    ASSUME NEW d, NEW e, NEW r, NEW n, NEW c \in Conditions, NEW outcome \in Outcomes,
           NEW context, ContextRead(c, context, r.turn), Ready(r), r.phase = c,
           Follows(d, r), DiskTypes(d), LineMade(e, n, d, c, r, outcome, context)
    PROVE  Follows(e, n) /\ DiskTypes(e)
<1>1. PICK whole \in BOOLEAN :
        /\ e = [d EXCEPT !.lines = Append(@, LineOf(c, r, whole))]
        /\ IF whole THEN n = Stepped(c, r, outcome, context)
           ELSE \E error \in {"OSError", "KeyboardInterrupt"} :
                  n = Aborted(Counted(c, r), error)
  BY DEF LineMade
<1> DEFINE line == LineOf(c, r, whole)
<1>2. line = [condition |-> c, turn |-> r.turn, whole |-> whole]
  BY DEF LineOf
<1>3. e = [d EXCEPT !.lines = Append(@, line)]
  BY <1>1
<1>4. context \in SUBSET Nat
  BY DEF ContextRead
<1>5. /\ whole => n = Stepped(c, r, outcome, context)
      /\ ~whole => \E error \in {"OSError", "KeyboardInterrupt"} :
                     n = Aborted(Counted(c, r), error)
  BY <1>1
<1> HIDE DEF line
<1> QED
  BY <1>2, <1>3, <1>4, <1>5, StepFollows

\* The steps that write a line.
LEMMA LineSteps ==
    ASSUME RunInv(run), Follows(disk, run), DiskTypes(disk), NEW p,
           \/ RejectedTurn(p) \/ EngineTurn(p) \/ AppraisalRejected(p) \/ Resolve(p)
           \/ BaselineTurn(p, "fm_stateless", "stateless_baseline")
           \/ BaselineTurn(p, "fm_transcript", "transcript_baseline")
    PROVE  Follows(disk', run') /\ DiskTypes(disk')
<1> DEFINE m == Recorded(run)
           engine == "sanuvia_persistent"
<1>1. engine \in Conditions /\ engine \in PipelinePhases /\ run.phase \in Phases
  BY DEF Conditions, PipelinePhases, RunInv, Kept, RunTypes
<1>2. ASSUME run.phase = engine, run.turn \in Turns, run.call = NoCall,
             NEW outcome \in Outcomes,
             LineMade(disk', run', disk, engine, run, outcome, Context(engine))
      PROVE  Follows(disk', run') /\ DiskTypes(disk')
  <2>1. Ready(run) /\ ContextRead(engine, Context(engine), run.turn)
    BY <1>1, <1>2, IdleReady, ContextIs
  <2> QED
    BY <1>1, <1>2, <2>1, LineMadeFollows
<1>3. ASSUME NEW boundary \in Boundaries, Text(p, boundary)
      PROVE  /\ Ready(m) /\ m.turn = run.turn /\ m.phase = run.phase /\ run.turn \in Turns
             /\ Follows(disk, m) /\ run.call.boundary = boundary
             /\ boundary \in {"evidence_appraisal", "identity_resolution"} =>
                  run.phase = engine
             /\ boundary = "stateless_baseline" => run.phase = "fm_stateless"
             /\ boundary = "transcript_baseline" => run.phase = "fm_transcript"
             /\ RunTypes(m) /\ m.call = NoCall /\ DOMAIN m = RunFields
             /\ Stage[run.phase] \in 2..5
  <2>1. /\ run.call.boundary = boundary
        /\ run.call.answer \notin {"none", "awaited"} \cup Failures
    BY <1>3 DEF Text, Answered
  <2>2. /\ Stage[run.phase] \in 2..5 /\ run.turn \in Turns
        /\ boundary \in {"evidence_appraisal", "identity_resolution"} => run.phase = engine
        /\ boundary = "stateless_baseline" => run.phase = "fm_stateless"
        /\ boundary = "transcript_baseline" => run.phase = "fm_transcript"
    BY <2>1, CallGoing
  <2>3. Ready(m) /\ m.turn = run.turn /\ m.phase = run.phase
    BY <1>3, TextReady
  <2>4. Follows(disk, m)
    <3>1. Stage[run.phase] < 7
      BY <2>2
    <3> QED
      BY <2>1, <3>1, RecordedFollows
  <2> QED
    BY <2>1, <2>2, <2>3, <2>4, ReadyFacts
<1>4. ASSUME NEW boundary \in Boundaries, Text(p, boundary), NEW c \in Conditions,
             run.phase = c, NEW outcome \in Outcomes,
             LineMade(disk', run', disk, c, m, outcome, Context(c))
      PROVE  Follows(disk', run') /\ DiskTypes(disk')
  <2>1. Ready(m) /\ m.turn = run.turn /\ m.phase = c /\ run.turn \in Turns /\ Follows(disk, m)
    BY <1>3, <1>4
  <2>2. ContextRead(c, Context(c), m.turn)
    BY <2>1, ContextIs
  <2> HIDE DEF m
  <2> QED
    BY <1>4, <2>1, <2>2, LineMadeFollows
<1>5. CASE RejectedTurn(p)
  <2>1. /\ run.phase = engine /\ run.turn \in Turns /\ run.call = NoCall
        /\ LineMade(disk', run', disk, engine, run, "rejected_plan", Context(engine))
    BY <1>5 DEF RejectedTurn, InSanuvia, Running, StepDone, LineMade, LineOf, Stepped, Counted,
                StepOf
  <2> QED
    BY <1>2, <2>1 DEF Outcomes
<1>6. CASE EngineTurn(p)
  <2>1. run.phase = engine /\ run.turn \in Turns /\ run.call = NoCall
    BY <1>6 DEF EngineTurn, InSanuvia, Running
  <2>2. PICK outcome \in Outcomes :
          LineMade(disk', run', disk, engine, run, outcome, Context(engine))
    BY <1>6 DEF EngineTurn, StepDone, LineMade, LineOf, Stepped, Counted, StepOf, Outcomes
  <2> QED
    BY <1>2, <2>1, <2>2
<1>7. CASE AppraisalRejected(p)
  <2>1. /\ Text(p, "evidence_appraisal")
        /\ LineMade(disk', run', disk, engine, m, "rejected_plan", Context(engine))
    BY <1>7 DEF AppraisalRejected, StepDone, LineMade, LineOf, Stepped, Counted, StepOf
  <2>2. run.phase = engine
    BY <1>3, <2>1 DEF Boundaries
  <2> QED
    BY <1>1, <1>4, <2>1, <2>2 DEF Outcomes, Boundaries
<1>8. CASE Resolve(p)
  <2>1. /\ Text(p, "identity_resolution")
        /\ \/ run' = [m EXCEPT !.pending = @ - 1] /\ UNCHANGED disk
           \/ LineMade(disk', run', disk, engine, m, "rejected_plan", Context(engine))
    BY <1>8 DEF Resolve, StepDone, LineMade, LineOf, Stepped, Counted, StepOf
  <2>2. /\ run.phase = engine /\ m.phase = run.phase /\ Stage[run.phase] \in 2..5
        /\ Follows(disk, m) /\ RunTypes(m) /\ m.call = NoCall /\ DOMAIN m = RunFields
    BY <1>3, <2>1 DEF Boundaries
  <2>3. CASE LineMade(disk', run', disk, engine, m, "rejected_plan", Context(engine))
    BY <1>1, <1>4, <2>1, <2>2, <2>3 DEF Outcomes, Boundaries
  <2>4. CASE run' = [m EXCEPT !.pending = @ - 1] /\ UNCHANGED disk
    <3> HIDE DEF m
    <3>1. /\ Differs(run', m, {"item", "pending", "audit", "phase", "turn", "roster"})
          /\ run'.phase = m.phase
      BY <2>2, <2>4 DEF Differs, RunFields
    <3>2. Stage[run'.phase] =< 7 /\ Stage[m.phase] < 7 /\ ~(Stage[run'.phase] =< 1)
      BY <2>2, <3>1
    <3>3. Follows(disk, run')
      BY <1>1, <2>2, <3>1, <3>2, IdleFollows
    <3> QED
      BY <2>4, <3>3
  <2> QED
    BY <2>1, <2>3, <2>4
<1>9. CASE BaselineTurn(p, "fm_stateless", "stateless_baseline")
  <2>1. /\ Text(p, "stateless_baseline")
        /\ LineMade(disk', run', disk, "fm_stateless", m, "answered", Context("fm_stateless"))
    BY <1>9 DEF BaselineTurn, StepDone, LineMade, LineOf, Stepped, Counted, StepOf
  <2>2. run.phase = "fm_stateless"
    BY <1>3, <2>1 DEF Boundaries
  <2> QED
    BY <1>4, <2>1, <2>2 DEF Outcomes, Boundaries, Conditions
<1>10. CASE BaselineTurn(p, "fm_transcript", "transcript_baseline")
  <2>1. /\ Text(p, "transcript_baseline")
        /\ LineMade(disk', run', disk, "fm_transcript", m, "answered",
                    Context("fm_transcript"))
    BY <1>10 DEF BaselineTurn, StepDone, LineMade, LineOf, Stepped, Counted, StepOf
  <2>2. run.phase = "fm_transcript"
    BY <1>3, <2>1 DEF Boundaries
  <2> QED
    BY <1>4, <2>1, <2>2 DEF Outcomes, Boundaries, Conditions
<1> QED
  BY <1>5, <1>6, <1>7, <1>8, <1>9, <1>10

\* The other steps that write.
LEMMA DiskSteps ==
    ASSUME StageInv, NEW p \in Procs,
           \/ MakeDirectory(p) \/ SetupFails(p) \/ Answer(p)
           \/ \E c \in Conditions : OpenFile(p, c) \/ CloseFile(p, c)
           \/ OpenEvidence(p) \/ WriteEvidence(p) \/ WriteTrajectories(p)
    PROVE  Follows(disk', run') /\ DiskTypes(disk')
<1> DEFINE d == disk
           e == disk'
<1>1. /\ RunInv(run) /\ DiskTypes(d) /\ Follows(d, run) /\ Owned /\ RunTypes(run)
      /\ DOMAIN run = RunFields /\ run.phase \in Phases /\ Stage[run.phase] \in 0..8
      /\ Len(run.calls) \in Nat
  <2>1. RunInv(run) /\ RunTypes(run)
    BY DEF StageInv, RunInv, Kept
  <2>2. Len(run.calls) \in Nat
    BY <2>1, RunFieldTypes
  <2> QED
    BY <2>1, <2>2, StageRange DEF StageInv, RunTypes
<1>2. CASE MakeDirectory(p)
  <2>1. CASE disk.claimed
    BY <1>1, <1>2, <2>1 DEF MakeDirectory
  <2>2. CASE ~disk.claimed
    <3>1. run' = run /\ e = [d EXCEPT !.claimed = TRUE]
      BY <1>1, <1>2, <2>2 DEF MakeDirectory, Owned
    <3>2. /\ DOMAIN e = DOMAIN d /\ e.claimed = TRUE /\ e.logged = d.logged
          /\ e.lines = d.lines /\ e.files = d.files /\ e.evidence = d.evidence
          /\ e.written = d.written /\ e.trajectories = d.trajectories
      BY <1>1, <3>1 DEF DiskTypes
    <3> HIDE DEF d, e
    <3>3. Follows(e, run) /\ DiskTypes(e)
      BY <1>1, <3>2 DEF Follows, DiskTypes, Pristine
    <3> QED
      BY <3>1, <3>3 DEF e
  <2> QED
    BY <2>1, <2>2
<1>3. CASE SetupFails(p)
  <2>1. run' = run /\ run.phase = "setup" /\ Stage[run.phase] = 0
        /\ e = [d EXCEPT !.claimed = d.logged > 0, !.setupFailures = @ \cup {p}]
    BY <1>3, Stages DEF SetupFails, Running
  <2>2. /\ DOMAIN e = DOMAIN d /\ e.claimed \in BOOLEAN /\ e.logged = d.logged
        /\ e.lines = d.lines /\ e.files = d.files /\ e.evidence = d.evidence
        /\ e.written = d.written /\ e.trajectories = d.trajectories
    BY <1>1, <2>1 DEF DiskTypes
  <2> HIDE DEF d, e
  <2>3. Follows(e, run) /\ DiskTypes(e)
    BY <1>1, <2>2 DEF Follows, DiskTypes, Pristine
  <2> QED
    BY <2>1, <2>3 DEF e
<1>4. CASE Answer(p)
  <2>1. PICK answer \in Failures \cup DOMAIN Replies(run.call.boundary, run.turn) :
          /\ run.call.answer = "awaited" /\ run' = [run EXCEPT !.call.answer = answer]
          /\ e = [d EXCEPT !.logged = IF answer \in Unlogged THEN @ ELSE @ + 1]
    BY <1>4 DEF Answer
  <2>2. Stage[run.phase] \in 2..5 /\ run.turn \in Turns /\ run.call.boundary \in Boundaries
    BY <1>1, <2>1, CallGoing
  <2>3. answer \notin {"none", "awaited"}
    BY <2>1, <2>2, StageOneAssumption DEF Replies, Failures, Marks
  <2> DEFINE call == [run.call EXCEPT !.answer = answer]
  <2>4. run' = [run EXCEPT !.call = call]
    BY <2>1
  <2>5. call.answer = answer
    BY <1>1 DEF RunTypes
  <2> HIDE DEF call
  <2>6. /\ run'.records = run.records /\ run'.completed = run.completed
        /\ run'.calls = run.calls /\ run'.phase = run.phase /\ run'.call = call
    BY <1>1, <2>4 DEF RunFields
  <2>7. /\ DOMAIN e = DOMAIN d /\ e.claimed = d.claimed
        /\ e.logged = IF answer \in Unlogged THEN d.logged ELSE d.logged + 1
        /\ e.lines = d.lines /\ e.files = d.files /\ e.evidence = d.evidence
        /\ e.written = d.written /\ e.trajectories = d.trajectories
    BY <1>1, <2>1 DEF DiskTypes
  <2> HIDE DEF d, e
  <2>8. d.logged = Len(run.calls) /\ d.logged \in Nat
    <3>1. Logged(run) = Len(run.calls)
      BY <1>1, <2>1 DEF Logged
    <3>2. Stage[run.phase] < 7
      BY <2>2
    <3> QED
      BY <1>1, <3>1, <3>2 DEF Follows
  <2>9. e.logged = Logged(run') /\ e.logged \in Nat
    <3>1. run'.call.answer = answer /\ Len(run'.calls) = Len(run.calls)
      BY <2>5, <2>6
    <3>2. Logged(run') = IF answer \in Unlogged THEN d.logged ELSE d.logged + 1
      BY <2>3, <2>8, <3>1, LoggedAnswered
    <3> QED
      BY <2>7, <2>8, <3>2
  <2>10. DiskTypes(e)
    BY <1>1, <2>7, <2>9 DEF DiskTypes
  <2>11. WholeLinesAre(e.lines, run')
    BY <1>1, <2>6, <2>7 DEF Follows, WholeLinesAre
  <2>12. /\ Stage[run'.phase] \in 2..5 /\ ~(Stage[run'.phase] =< 1)
         /\ ~(Stage[run'.phase] >= 7) /\ run'.phase # "report"
    BY <2>2, <2>6, Stages
  <2>13. Follows(e, run')
    BY <1>1, <2>6, <2>7, <2>9, <2>11, <2>12 DEF Follows
  <2> QED
    BY <2>10, <2>13 DEF e
<1>5. ASSUME NEW c \in Conditions, OpenFile(p, c) \/ CloseFile(p, c)
      PROVE  Follows(e, run') /\ DiskTypes(e)
  <2>1. run.phase = c /\ run.turn = NumTurns + 1 /\ d.files[c] # "whole"
    BY <1>5 DEF OpenFile, CloseFile, Closing, Running
  <2>2. Stage[run.phase] \in 3..5 /\ run.phase \in PipelinePhases
    BY <2>1, Stages DEF Conditions, PipelinePhases
  <2>3. run.call = NoCall
    <3>1. run.turn \notin Turns
      BY <2>1, NumTurnsFacts
    <3>2. Stage[run.phase] < 7
      BY <2>2
    <3> QED
      BY <1>1, <3>1, <3>2 DEF RunInv, Underway, CallPlaced
  <2>4. d.files \in [Conditions -> {"none", "torn", "whole"}]
    BY <1>1 DEF DiskTypes
  <2>5. CASE OpenFile(p, c)
    <3> DEFINE files == [d.files EXCEPT ![c] = "torn"]
    <3>1. run' = run /\ e = [d EXCEPT !.files = files]
      BY <2>5 DEF OpenFile
    <3>2. /\ files \in [Conditions -> {"none", "torn", "whole"}]
          /\ \A a \in Conditions : files[a] = "whole" <=> d.files[a] = "whole"
      BY <2>1, <2>4
    <3> HIDE DEF files
    <3>3. /\ DOMAIN e = DOMAIN d /\ e.claimed = d.claimed /\ e.logged = d.logged
          /\ e.lines = d.lines /\ e.files = files /\ e.evidence = d.evidence
          /\ e.written = d.written /\ e.trajectories = d.trajectories
      BY <1>1, <3>1 DEF DiskTypes
    <3>4. ~(Stage[run.phase] =< 1)
      BY <2>2
    <3> HIDE DEF d, e
    <3>5. Follows(e, run) /\ DiskTypes(e)
      BY <1>1, <3>2, <3>3, <3>4 DEF Follows, DiskTypes
    <3> QED
      BY <3>1, <3>5
  <2>6. CASE CloseFile(p, c)
    <3> DEFINE files == [d.files EXCEPT ![c] = "whole"]
    <3>1. /\ run' = [run EXCEPT !.completed = Append(@, c), !.turn = 1,
                                !.phase = Following(c)]
          /\ e = [d EXCEPT !.files = files]
      BY <2>6 DEF CloseFile
    <3>2. /\ files \in [Conditions -> {"none", "torn", "whole"}]
          /\ \A a \in Conditions : files[a] = "whole" <=> d.files[a] = "whole" \/ a = c
      BY <2>1, <2>4
    <3> HIDE DEF files
    <3>3. /\ DOMAIN e = DOMAIN d /\ e.claimed = d.claimed /\ e.logged = d.logged
          /\ e.lines = d.lines /\ e.files = files /\ e.evidence = d.evidence
          /\ e.written = d.written /\ e.trajectories = d.trajectories
      BY <1>1, <3>1 DEF DiskTypes
    <3>4. /\ run'.records = run.records /\ run'.completed = Append(run.completed, c)
          /\ run'.calls = run.calls /\ run'.call = run.call /\ run'.phase = Following(c)
      BY <1>1, <3>1 DEF RunFields
    <3>5. ToSet(run'.completed) = ToSet(run.completed) \cup {c}
      <4>1. run.completed \in Seq(Conditions)
        BY <1>1 DEF RunTypes
      <4>2. Extends(run'.completed, run.completed, c)
        BY <3>4, <4>1, AppendExtends
      <4> QED
        BY <4>2, ExtendedSet
    <3>6. /\ ~(Stage[run'.phase] =< 1) /\ ~(Stage[run'.phase] >= 7)
          /\ Stage[run'.phase] < 8 /\ run'.phase # "report"
      BY <3>4, Stages DEF Following, Conditions
    <3>7. Logged(run) = Len(run.calls) /\ Logged(run') = Len(run.calls)
      BY <1>1, <2>3, <3>4, LoggedIdle
    <3>8. /\ d.logged = Len(run.calls) /\ d.written # "whole" /\ d.trajectories = "none"
          /\ \A a \in Conditions : d.files[a] = "whole" <=> a \in ToSet(run.completed)
      <4>1. Stage[run.phase] < 7 /\ Stage[run.phase] < 8
        BY <2>2
      <4> QED
        BY <1>1, <3>7, <4>1 DEF Follows
    <3>9. WholeLinesAre(e.lines, run')
      BY <1>1, <3>3, <3>4 DEF Follows, WholeLinesAre
    <3> HIDE DEF d, e
    <3>10. DiskTypes(e)
      BY <1>1, <3>2, <3>3 DEF DiskTypes
    <3>11. Follows(e, run')
      BY <3>2, <3>3, <3>5, <3>6, <3>7, <3>8, <3>9 DEF Follows
    <3> QED
      BY <3>10, <3>11
  <2> QED
    BY <1>5, <2>5, <2>6
<1>6. CASE OpenEvidence(p)
  <2>1. run' = run /\ run.phase = "evidence" /\ Stage[run.phase] = 7
        /\ e = [d EXCEPT !.written = "torn"]
    BY <1>6, Stages DEF OpenEvidence, Running
  <2>2. /\ DOMAIN e = DOMAIN d /\ e.claimed = d.claimed /\ e.logged = d.logged
        /\ e.lines = d.lines /\ e.files = d.files /\ e.evidence = d.evidence
        /\ e.written = "torn" /\ e.trajectories = d.trajectories
    BY <1>1, <2>1 DEF DiskTypes
  <2> HIDE DEF d, e
  <2>3. Follows(e, run) /\ DiskTypes(e)
    BY <1>1, <2>1, <2>2 DEF Follows, DiskTypes
  <2> QED
    BY <2>1, <2>3 DEF e
<1>7. CASE WriteEvidence(p)
  <2>1. /\ run.phase = "evidence" /\ Stage[run.phase] = 7
        /\ run' = [run EXCEPT !.phase = "report"]
        /\ e = [d EXCEPT !.written = "whole", !.evidence = Evidence,
                  !.trajectories = IF run.error = "none" THEN "torn" ELSE @]
    BY <1>7, Stages DEF WriteEvidence, Running
  <2>2. /\ DOMAIN e = DOMAIN d /\ e.claimed = d.claimed /\ e.logged = d.logged
        /\ e.lines = d.lines /\ e.files = d.files /\ e.evidence = Evidence
        /\ e.written = "whole"
        /\ e.trajectories = IF run.error = "none" THEN "torn" ELSE d.trajectories
    BY <1>1, <2>1 DEF DiskTypes
  <2>3. /\ run'.phase = "report" /\ run'.error = run.error /\ run'.audit = run.audit
        /\ run'.completed = run.completed /\ run'.steps = run.steps
        /\ run'.calls = run.calls /\ run'.records = run.records
    BY <1>1, <2>1 DEF RunFields
  <2>4. EvidenceOf(run') = Evidence
    BY <2>3 DEF EvidenceOf, Evidence
  <2>5. WholeLinesAre(e.lines, run')
    BY <1>1, <2>2, <2>3 DEF Follows, WholeLinesAre
  <2>6. /\ d.trajectories = "none" /\ (run.error = "none" => d.logged = Len(run.calls))
        /\ \A a \in Conditions : d.files[a] = "whole" <=> a \in ToSet(run.completed)
    BY <1>1, <2>1 DEF Follows
  <2>7. Stage[run'.phase] = 8
    BY <2>3, Stages
  <2> HIDE DEF d, e
  <2>8. DiskTypes(e)
    BY <1>1, <2>2 DEF DiskTypes
  <2>9. Follows(e, run')
    BY <2>2, <2>3, <2>4, <2>5, <2>6, <2>7 DEF Follows
  <2> QED
    BY <2>8, <2>9 DEF e
<1>8. CASE WriteTrajectories(p)
  <2>1. /\ run' = run /\ run.phase = "report" /\ Stage[run.phase] = 8
        /\ run.error = "none" /\ e = [d EXCEPT !.trajectories = "whole"]
    BY <1>1, <1>8, Stages DEF WriteTrajectories, Running, Owned
  <2>2. /\ DOMAIN e = DOMAIN d /\ e.claimed = d.claimed /\ e.logged = d.logged
        /\ e.lines = d.lines /\ e.files = d.files /\ e.evidence = d.evidence
        /\ e.written = d.written /\ e.trajectories = "whole"
    BY <1>1, <2>1 DEF DiskTypes
  <2> HIDE DEF d, e
  <2>3. Follows(e, run) /\ DiskTypes(e)
    BY <1>1, <2>1, <2>2 DEF Follows, DiskTypes
  <2> QED
    BY <2>1, <2>3 DEF e
<1> QED
  BY <1>2, <1>3, <1>4, <1>5, <1>6, <1>7, <1>8
----------------------------------------------------------------------------
(* Every step keeps the invariant.                                         *)

\* What the steps inside the pipeline leave alone.
Quiet(p) ==
    \/ SetupDone(p) \/ Configure(p) \/ Send(p) \/ Answer(p) \/ CallFails(p)
    \/ Malformed(p, "evidence_extraction", ValidExtraction(Reply))
    \/ Malformed(p, "evidence_appraisal", ValidAppraisal(Reply))
    \/ Malformed(p, "stateless_baseline", ValidBaseline(Reply))
    \/ Malformed(p, "transcript_baseline", ValidBaseline(Reply))
    \/ ExtractHold(p) \/ Extract(p)
    \/ RejectedTurn(p) \/ SkipObservation(p) \/ Appraise(p)
    \/ AppraisalRejected(p) \/ Resolve(p) \/ EngineTurn(p)
    \/ BaselineTurn(p, "fm_stateless", "stateless_baseline")
    \/ BaselineTurn(p, "fm_transcript", "transcript_baseline")
    \/ \E c \in Conditions : OpenFile(p, c) \/ CloseFile(p, c) \/ FileFails(p, c)
    \/ Compare(p) \/ OpenEvidence(p) \/ Interrupt(p)

LEMMA StepQuiet ==
    ASSUME NEW r, NEW c \in Conditions, NEW outcome, DOMAIN r = RunFields, StepDone(c, r, outcome)
    PROVE  /\ (run'.phase = r.phase /\ run'.error = r.error) \/ run'.phase # "report"
           /\ run'.asked = r.asked
           /\ disk'.claimed = disk.claimed
<1> DEFINE counted == [r EXCEPT !.steps[c] = r.turn, !.item = 1, !.pending = 0]
<1>1. DOMAIN counted = RunFields /\ counted.phase = r.phase /\ counted.error = r.error
      /\ counted.asked = r.asked
  BY DEF RunFields
<1>2. \/ \E record : run' = [counted EXCEPT !.records[c] = Append(@, record), !.turn = @ + 1]
      \/ \E error : run' = Aborted(counted, error)
  BY DEF StepDone
<1>3. \E l : disk' = [disk EXCEPT !.lines = Append(@, l)]
  BY DEF StepDone
<1>4. disk'.claimed = disk.claimed
  BY <1>3
<1> HIDE DEF counted
<1>5. CASE \E record : run' = [counted EXCEPT !.records[c] = Append(@, record), !.turn = @ + 1]
  BY <1>1, <1>4, <1>5 DEF RunFields
<1>6. CASE \E error : run' = Aborted(counted, error)
  BY <1>1, <1>4, <1>6, AbortedFields DEF Differs, RunFields
<1> QED
  BY <1>2, <1>5, <1>6

LEMMA QuietSteps ==
    ASSUME NEW p, DOMAIN run = RunFields, Quiet(p)
    PROVE  /\ pc' = pc /\ owner' = owner /\ disk'.claimed = disk.claimed
           /\ pc[p] = "running" /\ owner = p
           /\ (run'.phase = run.phase /\ run'.error = run.error) \/ run'.phase # "report"
           /\ run'.asked = run.asked \/ run'.asked = run.asked + 1
<1> DEFINE m == Recorded(run)
<1>1. DOMAIN m = RunFields /\ m.phase = run.phase /\ m.error = run.error
      /\ m.asked = run.asked
  BY RecordedFields DEF Differs, RunFields
<1>2. ASSUME NEW r, DOMAIN r = RunFields, NEW error
      PROVE  Aborted(r, error).phase # "report" /\ Aborted(r, error).asked = r.asked
  BY <1>2, AbortedFields DEF Differs, RunFields
<1> HIDE DEF m
<1>3. CASE \/ Malformed(p, "evidence_extraction", ValidExtraction(Reply))
           \/ Malformed(p, "evidence_appraisal", ValidAppraisal(Reply))
           \/ Malformed(p, "stateless_baseline", ValidBaseline(Reply))
           \/ Malformed(p, "transcript_baseline", ValidBaseline(Reply))
  BY <1>1, <1>2, <1>3 DEF Malformed, Text, Running, m
<1>4. CASE SetupDone(p) \/ Configure(p) \/ CallFails(p) \/ Compare(p) \/ Interrupt(p)
  <2>1. CASE SetupDone(p)
    BY <2>1 DEF SetupDone, Running, RunFields
  <2>2. CASE Configure(p)
    BY <1>2, <2>2 DEF Configure, Running, RunFields
  <2>3. CASE CallFails(p)
    BY <1>1, <1>2, <2>3 DEF CallFails, Running, m
  <2>4. CASE Compare(p)
    BY <1>2, <2>4 DEF Compare, Running, RunFields
  <2>5. CASE Interrupt(p)
    BY <1>2, <2>5 DEF Interrupt
  <2> QED
    BY <1>4, <2>1, <2>2, <2>3, <2>4, <2>5
<1>5. CASE Send(p) \/ Answer(p) \/ SkipObservation(p) \/ OpenEvidence(p)
  <2>1. CASE Send(p)
    BY <2>1 DEF Send, Running, RunFields
  <2>2. CASE Answer(p)
    BY <2>2 DEF Answer, Running, RunFields
  <2>3. CASE SkipObservation(p)
    BY <2>3 DEF SkipObservation, InSanuvia, Running, RunFields
  <2>4. CASE OpenEvidence(p)
    BY <2>4 DEF OpenEvidence, Running
  <2> QED
    BY <1>5, <2>1, <2>2, <2>3, <2>4
<1>6. CASE ExtractHold(p) \/ Extract(p)
  <2>1. \/ run.phase = "extract" /\ \E rejected, items : run' = Extracted(run, rejected, items)
        \/ \E rejected, items : run' = Extracted(m, rejected, items)
    BY <1>6 DEF ExtractHold, Extract, Running, m
  <2>2. ASSUME NEW r, NEW rejected, NEW items, DOMAIN r = RunFields
        PROVE  /\ Extracted(r, rejected, items).phase \in {r.phase, "sanuvia_persistent"}
               /\ Extracted(r, rejected, items).error = r.error
               /\ Extracted(r, rejected, items).asked = r.asked
    <3> DEFINE n == Extracted(r, rejected, items)
    <3>1. /\ Differs(n, r, {"audit", "phase", "turn"})
          /\ r.turn = NumTurns => n.phase = "sanuvia_persistent"
          /\ r.turn # NumTurns => n.phase = r.phase
      BY <2>2, ExtractedFields
    <3> HIDE DEF n
    <3>2. n.error = r.error /\ n.asked = r.asked
      BY <3>1 DEF Differs, RunFields
    <3>3. n.phase \in {r.phase, "sanuvia_persistent"}
      BY <3>1
    <3> QED
      BY <3>2, <3>3 DEF n
  <2>3. UNCHANGED <<pc, owner, disk>> /\ pc[p] = "running" /\ owner = p
    BY <1>6 DEF ExtractHold, Extract, Text, Running
  <2> QED
    BY <1>1, <2>1, <2>2, <2>3
<1>7. CASE Appraise(p)
  <2>1. /\ \E n : run' = [m EXCEPT !.item = @ + 1, !.pending = n]
        /\ UNCHANGED <<pc, owner, disk>> /\ pc[p] = "running" /\ owner = p
    BY <1>7 DEF Appraise, Text, Running, m
  <2> QED
    BY <1>1, <2>1 DEF RunFields
<1>8. CASE \/ RejectedTurn(p) \/ AppraisalRejected(p) \/ Resolve(p) \/ EngineTurn(p)
           \/ BaselineTurn(p, "fm_stateless", "stateless_baseline")
           \/ BaselineTurn(p, "fm_transcript", "transcript_baseline")
  <2>1. /\ UNCHANGED <<pc, owner>> /\ pc[p] = "running" /\ owner = p
        /\ \/ \E c \in Conditions : \E outcome : StepDone(c, run, outcome)
           \/ \E c \in Conditions : \E outcome : StepDone(c, m, outcome)
           \/ run' = [m EXCEPT !.pending = @ - 1] /\ UNCHANGED disk
    BY <1>8 DEF RejectedTurn, AppraisalRejected, Resolve, EngineTurn, BaselineTurn, Text,
                InSanuvia, Running, Conditions, m
  <2>2. CASE run' = [m EXCEPT !.pending = @ - 1] /\ UNCHANGED disk
    BY <1>1, <2>1, <2>2 DEF RunFields
  <2> QED
    BY <1>1, <2>1, <2>2, StepQuiet
<1>9. CASE \E c \in Conditions : OpenFile(p, c) \/ CloseFile(p, c) \/ FileFails(p, c)
  <2>1. PICK c \in Conditions : OpenFile(p, c) \/ CloseFile(p, c) \/ FileFails(p, c)
    BY <1>9
  <2>2. CASE OpenFile(p, c)
    BY <2>2 DEF OpenFile, Closing, Running
  <2>3. CASE CloseFile(p, c)
    <3>1. Following(c) # "report"
      BY DEF Following, Conditions
    <3> QED
      BY <2>3, <3>1 DEF CloseFile, Closing, Running, RunFields
  <2>4. CASE FileFails(p, c)
    BY <1>2, <2>4 DEF FileFails, Closing, Running
  <2> QED
    BY <2>1, <2>2, <2>3, <2>4
<1> QED
  BY <1>3, <1>4, <1>5, <1>6, <1>7, <1>8, <1>9 DEF Quiet

LEMMA OwnedStep ==
    ASSUME StageInv, [Next]_vars
    PROVE  Owned'
<1>1. /\ DOMAIN pc = Procs
      /\ disk.claimed => owner \in Procs
      /\ ~disk.claimed => owner = Nobody /\ run = EmptyRun
      /\ \A q \in Procs : pc[q] = "running" =>
           owner = q /\ (run.phase = "report" => run.error = "none")
      /\ Nobody \notin Procs
      /\ DOMAIN run = RunFields
  BY StageOneAssumption DEF StageInv, Owned, RunInv, Kept, RunTypes
<1>2. /\ DOMAIN disk = {"claimed", "logged", "lines", "files", "evidence", "written",
                        "trajectories", "setupFailures"}
      /\ disk.claimed \in BOOLEAN
  BY DEF StageInv, DiskTypes

\* The claim and its owner stay, and nobody starts running.
<1>3. ASSUME owner' = owner, disk'.claimed = disk.claimed, run' = run \/ disk.claimed,
             DOMAIN pc' = Procs,
             \A q \in Procs : pc'[q] = "running" =>
               pc[q] = "running" /\ (run'.phase = "report" => run'.error = "none")
      PROVE  Owned'
  BY <1>1, <1>3 DEF Owned
<1>4. CASE UNCHANGED vars
  BY <1>1, <1>3, <1>4 DEF vars
<1>5. ASSUME NEW p \in Procs, CheckExists(p) \/ Kill(p) \/ ReportFails(p)
      PROVE  Owned'
  <2>1. /\ owner' = owner /\ disk' = disk /\ run' = run
        /\ \E where : where # "running" /\ pc' = [pc EXCEPT ![p] = where]
    BY <1>5 DEF CheckExists, Kill, ReportFails
  <2> QED
    BY <1>1, <1>3, <2>1
<1>6. ASSUME NEW p \in Procs, Quiet(p)
      PROVE  Owned'
  <2>1. /\ pc' = pc /\ owner' = owner /\ disk'.claimed = disk.claimed
        /\ pc[p] = "running" /\ owner = p
        /\ (run'.phase = run.phase /\ run'.error = run.error) \/ run'.phase # "report"
    BY <1>1, <1>6, QuietSteps
  <2>2. disk.claimed
    BY <1>1, <2>1
  <2>3. \A q \in Procs : pc'[q] = "running" =>
          pc[q] = "running" /\ (run'.phase = "report" => run'.error = "none")
    BY <1>1, <2>1
  <2> QED
    BY <1>1, <1>3, <2>1, <2>2, <2>3
<1>7. ASSUME NEW p \in Procs, MakeDirectory(p)
      PROVE  Owned'
  <2>1. CASE disk.claimed
    <3>1. /\ owner' = owner /\ disk' = disk /\ run' = run
          /\ pc' = [pc EXCEPT ![p] = "refused"]
      BY <1>7, <2>1 DEF MakeDirectory
    <3> QED
      BY <1>1, <1>3, <3>1
  <2>2. CASE ~disk.claimed
    <3>1. /\ owner' = p /\ disk' = [disk EXCEPT !.claimed = TRUE] /\ run' = EmptyRun
          /\ pc' = [pc EXCEPT ![p] = "running"]
      BY <1>7, <2>2 DEF MakeDirectory
    <3>2. disk'.claimed = TRUE
      BY <1>2, <3>1
    <3>3. DOMAIN pc' = Procs /\ \A q \in Procs : pc'[q] = "running" => q = p
      BY <1>1, <2>2, <3>1
    <3>4. run'.phase # "report"
      BY <3>1 DEF EmptyRun
    <3> QED
      BY <3>1, <3>2, <3>3, <3>4 DEF Owned
  <2> QED
    BY <2>1, <2>2
<1>8. ASSUME NEW p \in Procs, SetupFails(p)
      PROVE  Owned'
  <2>1. /\ run.phase = "setup" /\ owner' = Nobody /\ run' = run
        /\ owner = p /\ pc' = [pc EXCEPT ![p] = "failed"]
        /\ disk' = [disk EXCEPT !.claimed = disk.logged > 0, !.setupFailures = @ \cup {p}]
    BY <1>8 DEF SetupFails, Running
  <2>2. Stage[run.phase] = 0
    BY <2>1, Stages
  <2>3. run = EmptyRun /\ disk.logged = 0
    <3>1. Stage[run.phase] < 7 /\ Stage[run.phase] =< 1
      BY <2>2
    <3>2. run = EmptyRun
      BY <2>1, <3>1 DEF StageInv, RunInv, Underway, Placed
    <3>3. Pristine(disk)
      BY <3>1 DEF StageInv, Follows
    <3> QED
      BY <3>2, <3>3 DEF Pristine
  <2>4. ~disk'.claimed
    <3>1. disk'.claimed = (disk.logged > 0)
      BY <1>2, <2>1
    <3>2. ~(disk.logged > 0)
      BY <2>3
    <3> QED
      BY <3>1, <3>2
  <2>5. DOMAIN pc' = Procs /\ \A q \in Procs : pc'[q] # "running"
    BY <1>1, <2>1
  <2> QED
    BY <2>1, <2>3, <2>4, <2>5 DEF Owned
<1>9. ASSUME NEW p \in Procs, WriteEvidence(p) \/ WriteTrajectories(p)
      PROVE  Owned'
  <2>1. /\ owner' = owner /\ pc[p] = "running" /\ owner = p /\ disk'.claimed = disk.claimed
        /\ run'.error = run.error
        /\ \/ pc' = [pc EXCEPT ![p] = "finished"]
           \/ pc' = pc /\ run.error = "none"
           \/ pc' = [pc EXCEPT ![p] = pc[p]] /\ run.error = "none"
    BY <1>1, <1>2, <1>9 DEF WriteEvidence, WriteTrajectories, Running, RunFields
  <2>2. /\ DOMAIN pc' = Procs
        /\ \A q \in Procs : pc'[q] = "running" => pc[q] = "running" /\ run'.error = "none"
    BY <1>1, <2>1
  <2> QED
    BY <1>1, <1>3, <2>1, <2>2
<1>10. ASSUME NEW p \in Procs, CheckExists(p) \/ Advance(p) \/ Interrupt(p) \/ Kill(p)
       PROVE  Owned'
  <2>1. \/ CheckExists(p) \/ Kill(p) \/ ReportFails(p) \/ Quiet(p) \/ MakeDirectory(p)
        \/ SetupFails(p) \/ WriteEvidence(p) \/ WriteTrajectories(p)
    BY <1>10 DEF Advance, Quiet
  <2> QED
    BY <2>1, <1>5, <1>6, <1>7, <1>8, <1>9
<1> QED
  BY <1>4, <1>10 DEF Next

LEMMA StageStep ==
    ASSUME StageInv, [Next]_vars
    PROVE  StageInv'
<1>1. RunInv(run) /\ DiskTypes(disk) /\ Follows(disk, run)
  BY DEF StageInv
<1>2. RunInv(run')
  BY <1>1, RunStep
<1>3. Follows(disk', run') /\ DiskTypes(disk')
  <2>1. CASE UNCHANGED vars
    BY <1>1, <2>1 DEF vars
  <2>2. ASSUME NEW p \in Procs, CheckExists(p) \/ Advance(p) \/ Interrupt(p) \/ Kill(p)
        PROVE  Follows(disk', run') /\ DiskTypes(disk')
    <3>1. CASE CheckExists(p) \/ Kill(p) \/ ReportFails(p)
      <4>1. run' = run /\ disk' = disk
        BY <3>1 DEF CheckExists, Kill, ReportFails
      <4> QED
        BY <1>1, <4>1
    <3>2. CASE \/ SetupDone(p) \/ Configure(p) \/ ExtractHold(p) \/ SkipObservation(p)
               \/ Compare(p) \/ CallFails(p) \/ Extract(p) \/ Appraise(p) \/ Send(p)
               \/ Interrupt(p)
               \/ \E c \in Conditions : FileFails(p, c)
               \/ Malformed(p, "evidence_extraction", ValidExtraction(Reply))
               \/ Malformed(p, "evidence_appraisal", ValidAppraisal(Reply))
               \/ Malformed(p, "stateless_baseline", ValidBaseline(Reply))
               \/ Malformed(p, "transcript_baseline", ValidBaseline(Reply))
      <4>1. Follows(disk, run')
        BY <1>1, <3>2, DiskLeft
      <4>2. disk' = disk
        BY <3>2 DEF SetupDone, Configure, ExtractHold, SkipObservation, Compare, CallFails,
                    Extract, Appraise, Send, Interrupt, FileFails, Malformed
      <4> QED
        BY <1>1, <4>1, <4>2
    <3>3. CASE \/ RejectedTurn(p) \/ EngineTurn(p) \/ AppraisalRejected(p) \/ Resolve(p)
               \/ BaselineTurn(p, "fm_stateless", "stateless_baseline")
               \/ BaselineTurn(p, "fm_transcript", "transcript_baseline")
      BY <1>1, <3>3, LineSteps
    <3>4. CASE \/ MakeDirectory(p) \/ SetupFails(p) \/ Answer(p)
               \/ \E c \in Conditions : OpenFile(p, c) \/ CloseFile(p, c)
               \/ OpenEvidence(p) \/ WriteEvidence(p) \/ WriteTrajectories(p)
      BY <3>4, DiskSteps
    <3> QED
      BY <2>2, <3>1, <3>2, <3>3, <3>4 DEF Advance
  <2> QED
    BY <2>1, <2>2 DEF Next
<1>4. Owned'
  BY OwnedStep
<1> QED
  BY <1>2, <1>3, <1>4 DEF StageInv

LEMMA StageInit ==
    ASSUME Init
    PROVE  StageInv
<1>1. /\ pc = [p \in Procs |-> "idle"] /\ owner = Nobody /\ disk = EmptyDisk
      /\ run = EmptyRun
  BY DEF Init
<1>2. DiskTypes(EmptyDisk) /\ Pristine(EmptyDisk) /\ EmptyDisk.claimed = FALSE
  <2>1. <<>> \in Seq(Lines)
    OBVIOUS
  <2> QED
    BY <2>1 DEF EmptyDisk, DiskTypes, Pristine
<1>3. Follows(EmptyDisk, EmptyRun)
  <2>1. /\ EmptyRun.phase = "setup" /\ Stage[EmptyRun.phase] = 0
        /\ EmptyRun.completed = <<>> /\ EmptyRun.calls = <<>> /\ EmptyRun.call = NoCall
        /\ \A c \in Conditions : EmptyRun.records[c] = <<>>
    BY Stages DEF EmptyRun
  <2>2. WholeLinesAre(EmptyDisk.lines, EmptyRun)
    <3>1. ASSUME NEW c \in Conditions
          PROVE  {i \in DOMAIN EmptyDisk.lines :
                    EmptyDisk.lines[i].condition = c /\ EmptyDisk.lines[i].whole} = {}
      <4>1. DOMAIN EmptyDisk.lines = {}
        BY DEF EmptyDisk
      <4> QED
        BY <4>1
    <3>2. \A c \in Conditions : Len(EmptyRun.records[c]) = 0
      BY <2>1
    <3> HIDE DEF EmptyDisk, EmptyRun
    <3>3. ASSUME NEW c \in Conditions
          PROVE  Cardinality({i \in DOMAIN EmptyDisk.lines :
                                EmptyDisk.lines[i].condition = c /\ EmptyDisk.lines[i].whole})
                   = Len(EmptyRun.records[c])
      BY <3>1, <3>2, FS_EmptySet
    <3> QED
      BY <3>3 DEF WholeLinesAre
  <2>3. Logged(EmptyRun) = 0
    BY <2>1 DEF Logged, NoCall
  <2>4. ToSet(EmptyRun.completed) = {}
    BY <2>1 DEF ToSet
  <2> HIDE DEF EmptyRun, EmptyDisk
  <2> QED
    BY <1>2, <2>1, <2>2, <2>3, <2>4 DEF Follows, Pristine
<1>4. Owned
  <2>1. EmptyRun.phase # "report"
    BY DEF EmptyRun
  <2> QED
    BY <1>1, <1>2 DEF Owned
<1> QED
  BY <1>1, <1>2, <1>3, <1>4, EmptyRunInv DEF StageInv

\* The run keeps to its place, its audit, records and calls to each other, the
\* disk to the run, and the claim to its owner.
THEOREM StageInductive == Spec => []StageInv
<1>1. Init => StageInv
  BY StageInit
<1>2. StageInv /\ [Next]_vars => StageInv'
  BY StageStep
<1> QED
  BY <1>1, <1>2, PTL DEF Spec
----------------------------------------------------------------------------
(* What the properties say.                                                *)

\* Each condition has one record per turn, in order; a rejected turn's record
\* says so; a condition starts after the one before it, and the transcript
\* baseline has read the text up to its turn (pipeline.py).
THEOREM SequencesArePaired == Spec => []PairedSequences
<1>1. StageInv => PairedSequences
  <2> SUFFICES ASSUME StageInv PROVE PairedSequences
    OBVIOUS
  <2>1. RunInv(run) /\ Kept(run) /\ RecordsKept(run) /\ Stage[run.phase] \in 0..8
    BY StageRange DEF StageInv, RunInv, Kept, RunTypes
  <2>2. run.error # "ValueError"
    <3>1. CASE Stage[run.phase] < 7
      BY <2>1, <3>1 DEF RunInv, Underway, Placed
    <3>2. CASE Stage[run.phase] >= 7
      BY <2>1, <3>2 DEF RunInv, Stopped
    <3> QED
      BY <2>1, <3>1, <3>2
  <2>3. \A k \in 1..2 : run.records[ConditionOrder[k + 1]] # <<>> =>
          Len(run.records[ConditionOrder[k]]) = NumTurns
    <3>1. /\ ConditionOrder[1] = "sanuvia_persistent" /\ ConditionOrder[2] = "fm_stateless"
          /\ ConditionOrder[3] = "fm_transcript"
      BY DEF ConditionOrder
    <3>2. \A k \in 1..2 : (k = 1 /\ k + 1 = 2) \/ (k = 2 /\ k + 1 = 3)
      OBVIOUS
    <3> QED
      BY <2>1, <3>1, <3>2 DEF RecordsKept
  <2> QED
    BY <2>1, <2>2, <2>3 DEF RecordsKept, PairedSequences
<1> QED
  BY <1>1, StageInductive, PTL

\* What a turn admits was resolved from its own labels, and a rejected turn
\* admits nothing (participants.py).
THEOREM LabelsStayInTheirTurn == Spec => []LabelsOfOwnTurn
<1>1. StageInv => LabelsOfOwnTurn
  BY DEF StageInv, RunInv, Kept, AuditKept, Labelled, LabelsOfOwnTurn
<1> QED
  BY <1>1, StageInductive, PTL

\* No extraction, appraisal or baseline call is made twice, and a rejected turn
\* gets no appraisal (run003_stage1.py, pipeline.py).
THEOREM NeverAskedTwice == Spec => []AskedOnce
<1>1. StageInv => AskedOnce
  <2> SUFFICES ASSUME StageInv PROVE AskedOnce
    OBVIOUS
  <2>1. CallsKept(run) /\ RunTypes(run)
    BY DEF StageInv, RunInv, Kept
  <2>2. ASSUME NEW a \in CallRecords, NEW b \in CallRecords,
               [a EXCEPT !.status = "any"] = [b EXCEPT !.status = "any"]
        PROVE  a.boundary = b.boundary /\ a.turn = b.turn /\ a.item = b.item
    <3> DEFINE x == [a EXCEPT !.status = "any"]
               y == [b EXCEPT !.status = "any"]
    <3>1. x.boundary = a.boundary /\ x.turn = a.turn /\ x.item = a.item
      BY DEF CallRecords
    <3>2. y.boundary = b.boundary /\ y.turn = b.turn /\ y.item = b.item
      BY DEF CallRecords
    <3>3. x = y
      BY <2>2
    <3> HIDE DEF x, y
    <3> QED
      BY <3>1, <3>2, <3>3
  <2>3. \A k \in DOMAIN run.calls : run.calls[k] \in CallRecords
    BY <2>1 DEF RunTypes
  <2> QED
    BY <2>1, <2>2, <2>3 DEF CallsKept, AskedOnce
<1> QED
  BY <1>1, StageInductive, PTL

\* A file of evidence is whole only once the run has reported.
LEMMA WrittenReports ==
    ASSUME StageInv, disk.written = "whole"
    PROVE  /\ run.phase = "report" /\ Kept(run) /\ StepsKept(run, run.error)
           /\ Stopped(run) /\ disk.evidence = EvidenceOf(run)
           /\ Follows(disk, run) /\ RunTypes(run)
<1>1. /\ RunInv(run) /\ Follows(disk, run) /\ Kept(run) /\ RunTypes(run)
      /\ run.phase \in Phases
  BY DEF StageInv, RunInv, Kept, RunTypes
<1>2. ~(Stage[run.phase] < 8)
  BY <1>1 DEF Follows
<1>3. run.phase = "report"
  BY <1>1, <1>2, Stages DEF Phases
<1>4. Stage[run.phase] >= 7
  BY <1>3, Stages
<1> QED
  BY <1>1, <1>3, <1>4 DEF RunInv, Follows

\* The beginnings of the order of the conditions.
LEMMA OrderPrefixes ==
    /\ \A s \in {<<>>, <<"sanuvia_persistent">>, <<"sanuvia_persistent", "fm_stateless">>,
                 ConditionOrder} : s = SubSeq(ConditionOrder, 1, Len(s))
    /\ Len(ConditionOrder) = 3
<1> DEFINE order == ConditionOrder
<1>1. /\ order \in Seq(Conditions) /\ Len(order) = 3
      /\ order[1] = "sanuvia_persistent" /\ order[2] = "fm_stateless"
  BY DEF ConditionOrder, Conditions
<1> HIDE DEF order
<1>2. ASSUME NEW s \in Seq(Conditions), Len(s) \in 0..3,
             \A i \in 1..Len(s) : s[i] = order[i]
      PROVE  s = SubSeq(order, 1, Len(s))
  <2>1. /\ SubSeq(order, 1, Len(s)) \in Seq(Conditions)
        /\ Len(SubSeq(order, 1, Len(s))) = Len(s)
        /\ \A i \in 1..Len(s) : SubSeq(order, 1, Len(s))[i] = order[i]
    BY <1>1, <1>2
  <2> DEFINE t == SubSeq(order, 1, Len(s))
  <2> HIDE DEF t
  <2> QED
    BY <1>2, <2>1, SeqEqual
<1>3. <<>> = SubSeq(order, 1, Len(<<>>))
  <2> DEFINE s == <<>>
  <2>1. s \in Seq(Conditions) /\ Len(s) = 0
    OBVIOUS
  <2> HIDE DEF s
  <2>2. s = SubSeq(order, 1, Len(s))
    BY <1>2, <2>1
  <2> QED
    BY <2>2 DEF s
<1>4. <<"sanuvia_persistent">> = SubSeq(order, 1, Len(<<"sanuvia_persistent">>))
  <2> DEFINE s == <<"sanuvia_persistent">>
  <2>1. s \in Seq(Conditions) /\ Len(s) = 1 /\ s[1] = "sanuvia_persistent"
    BY DEF Conditions
  <2> HIDE DEF s
  <2>2. \A i \in 1..Len(s) : s[i] = order[i]
    BY <1>1, <2>1
  <2>3. s = SubSeq(order, 1, Len(s))
    BY <1>2, <2>1, <2>2
  <2> QED
    BY <2>3 DEF s
<1>5. <<"sanuvia_persistent", "fm_stateless">>
        = SubSeq(order, 1, Len(<<"sanuvia_persistent", "fm_stateless">>))
  <2> DEFINE s == <<"sanuvia_persistent", "fm_stateless">>
  <2>1. /\ s \in Seq(Conditions) /\ Len(s) = 2 /\ s[1] = "sanuvia_persistent"
        /\ s[2] = "fm_stateless"
    BY DEF Conditions
  <2> HIDE DEF s
  <2>2. \A i \in 1..Len(s) : s[i] = order[i]
    <3>1. \A i \in 1..2 : i = 1 \/ i = 2
      OBVIOUS
    <3> QED
      BY <1>1, <2>1, <3>1
  <2>3. s = SubSeq(order, 1, Len(s))
    BY <1>2, <2>1, <2>2
  <2> QED
    BY <2>3 DEF s
<1>6. order = SubSeq(order, 1, Len(order))
  BY <1>1, <1>2
<1> QED
  BY <1>1, <1>3, <1>4, <1>5, <1>6 DEF order

\* Completed conditions are the prefix with a whole file, steps_completed
\* counts the lines of progress.jsonl, and only a report has trajectories.
THEOREM EvidenceTellsTheDisk == Spec => []EvidenceMatchesDisk
<1>1. StageInv => EvidenceMatchesDisk
  <2> SUFFICES ASSUME StageInv, disk.written = "whole"
               PROVE  LET e == disk.evidence IN
                      /\ e.completed = SubSeq(ConditionOrder, 1, Len(e.completed))
                      /\ \A c \in Conditions :
                           /\ c \in ToSet(e.completed) <=> disk.files[c] = "whole"
                           /\ c \in ToSet(e.completed) => e.steps[c] = NumTurns
                           /\ \/ e.steps[c] = WholeLines(c)
                              \/ /\ e.steps[c] = WholeLines(c) + 1
                                 /\ e.error \in {"OSError", "KeyboardInterrupt"}
                      /\ disk.trajectories # "none" <=> e.status = "completed"
                      /\ e.status = "completed" => Len(e.completed) = 3
    BY DEF EvidenceMatchesDisk
  <2> DEFINE e == disk.evidence
  <2>1. /\ run.phase = "report" /\ Kept(run) /\ StepsKept(run, run.error)
        /\ Stopped(run) /\ e = EvidenceOf(run) /\ Follows(disk, run) /\ RunTypes(run)
    BY WrittenReports
  <2>2. /\ e.completed = run.completed /\ e.steps = run.steps /\ e.error = run.error
        /\ e.status = "completed" <=> run.error = "none"
    BY <2>1 DEF EvidenceOf
  <2> HIDE DEF e
  <2>3. run.completed = SubSeq(ConditionOrder, 1, Len(run.completed))
    BY <2>1, OrderPrefixes DEF Kept, RecordsKept
  <2>4. \A c \in Conditions : WholeLines(c) = Len(run.records[c])
    BY <2>1 DEF Follows, WholeLinesAre, WholeLines
  <2>5. /\ \A c \in Conditions : disk.files[c] = "whole" <=> c \in ToSet(run.completed)
        /\ disk.trajectories # "none" <=> run.error = "none"
    BY <2>1 DEF Follows
  <2>6. \A c \in ToSet(run.completed) : run.steps[c] = NumTurns
    BY <2>1 DEF Kept, RecordsKept
  <2>7. run.error = "none" => Len(run.completed) = 3
    BY <2>1, OrderPrefixes DEF Stopped
  <2>8. ASSUME NEW c \in Conditions
        PROVE  \/ run.steps[c] = WholeLines(c)
               \/ /\ run.steps[c] = WholeLines(c) + 1
                  /\ run.error \in {"OSError", "KeyboardInterrupt"}
    BY <2>1, <2>4 DEF StepsKept
  <2> QED
    BY <2>2, <2>3, <2>5, <2>6, <2>7, <2>8 DEF e
<1> QED
  BY <1>1, StageInductive, PTL

\* The status of a turn some call was made for is that of one of the calls.
LEMMA TurnStatusIs ==
    ASSUME NEW calls, calls \in Seq(CallRecords), NEW t, NEW k \in DOMAIN calls,
           calls[k].turn = t
    PROVE  /\ TurnStatus(calls, t) \in Statuses
           /\ (\A i \in DOMAIN calls : calls[i].status = "success") =>
                TurnStatus(calls, t) = "success"
<1> DEFINE of == {i \in DOMAIN calls : calls[i].turn = t}
           bad == {i \in of : calls[i].status # "success"}
           first == CHOOSE i \in bad : \A j \in bad : i =< j
<1>1. TurnStatus(calls, t) = IF of = {} THEN "not_executed"
                             ELSE IF bad = {} THEN "success"
                             ELSE calls[first].status
  BY DEF TurnStatus
<1>2. k \in of /\ bad \subseteq Nat /\ bad \subseteq DOMAIN calls
  OBVIOUS
<1>3. bad # {} => first \in bad
  <2> SUFFICES ASSUME bad # {} PROVE \E i \in bad : \A j \in bad : i =< j
    OBVIOUS
  <2> HIDE DEF bad
  <2> QED
    BY <1>2, LeastOfNaturals
<1>4. \A i \in DOMAIN calls : calls[i].status \in Statuses
  <2>1. \A i \in DOMAIN calls : calls[i] \in CallRecords
    OBVIOUS
  <2> QED
    BY <2>1 DEF CallRecords
<1>5. (\A i \in DOMAIN calls : calls[i].status = "success") => bad = {}
  OBVIOUS
<1>6. "success" \in Statuses
  BY DEF Statuses
<1> HIDE DEF of, bad, first
<1>7. TurnStatus(calls, t) = IF bad = {} THEN "success" ELSE calls[first].status
  BY <1>1, <1>2
<1> QED
  BY <1>2, <1>3, <1>4, <1>5, <1>6, <1>7

\* The manifest misses at most the call an interrupt cut short, no turn whose
\* extraction returned is not_executed, and a completed run's calls all
\* succeeded and are in the log (phase1_evidence.py, response_evidence.py).
THEOREM ManifestAccounts == Spec => []CallsAccounted
<1>1. StageInv => CallsAccounted
  <2> SUFFICES ASSUME StageInv, disk.written = "whole"
               PROVE  LET e == disk.evidence IN
                      /\ \/ Len(e.calls) = run.asked
                         \/ Len(e.calls) = run.asked - 1 /\ e.error = "KeyboardInterrupt"
                      /\ \A i \in DOMAIN e.audit :
                           e.audit[i].turn \notin HoldTurns => e.perTurn[i] # "not_executed"
                      /\ e.status = "completed" =>
                           /\ \A t \in Turns : e.perTurn[t] = "success"
                           /\ disk.logged = Len(e.calls)
    BY DEF CallsAccounted
  <2> DEFINE e == disk.evidence
  <2>1. /\ run.phase = "report" /\ Kept(run)
        /\ Stopped(run) /\ e = EvidenceOf(run) /\ Follows(disk, run) /\ RunTypes(run)
    BY WrittenReports
  <2>2. /\ e.calls = run.calls /\ e.audit = run.audit /\ e.error = run.error
        /\ e.status = "completed" <=> run.error = "none"
        /\ \A t \in Turns : e.perTurn[t] = TurnStatus(run.calls, t)
    BY <2>1 DEF EvidenceOf
  <2> HIDE DEF e
  <2>3. /\ run.calls \in Seq(CallRecords) /\ run.asked \in Nat /\ Len(run.calls) \in Nat
        /\ \A k \in DOMAIN run.calls : run.calls[k].turn \in Turns
    BY <2>1, RunFieldTypes DEF RunTypes
  <2>4. \/ Len(run.calls) = run.asked
        \/ Len(run.calls) = run.asked - 1 /\ run.error = "KeyboardInterrupt"
    BY <2>1, <2>3 DEF Stopped
  <2>5. ASSUME NEW t, Called(run, t)
        PROVE  /\ t \in Turns /\ e.perTurn[t] # "not_executed"
               /\ (\A i \in DOMAIN run.calls : run.calls[i].status = "success") =>
                    e.perTurn[t] = "success"
    <3>1. PICK k \in DOMAIN run.calls : run.calls[k].turn = t
      BY <2>5 DEF Called
    <3>2. t \in Turns /\ e.perTurn[t] = TurnStatus(run.calls, t)
      BY <2>2, <2>3, <3>1
    <3>3. "not_executed" \notin Statuses
      BY DEF Statuses
    <3>4. /\ TurnStatus(run.calls, t) \in Statuses
          /\ (\A i \in DOMAIN run.calls : run.calls[i].status = "success") =>
               TurnStatus(run.calls, t) = "success"
      BY <2>3, <3>1, TurnStatusIs
    <3> QED
      BY <3>2, <3>3, <3>4
  <2>6. ASSUME NEW i \in DOMAIN run.audit, run.audit[i].turn \notin HoldTurns
        PROVE  e.perTurn[i] # "not_executed"
    <3>1. Called(run, i)
      BY <2>1, <2>6 DEF Kept, AuditKept
    <3> QED
      BY <2>5, <3>1
  <2>7. ASSUME run.error = "none"
        PROVE  /\ \A t \in Turns : e.perTurn[t] = "success"
               /\ disk.logged = Len(run.calls)
    <3>1. /\ \A k \in DOMAIN run.calls : run.calls[k].status = "success"
          /\ \A t \in Turns : Called(run, t)
      BY <2>1, <2>7 DEF Stopped
    <3>2. disk.logged = Len(run.calls)
      <4>1. Stage[run.phase] >= 7
        BY <2>1, Stages
      <4> QED
        BY <2>1, <2>7, <4>1 DEF Follows
    <3> QED
      BY <2>5, <3>1, <3>2
  <2> QED
    BY <2>2, <2>4, <2>6, <2>7 DEF e
<1> QED
  BY <1>1, StageInductive, PTL

\* The execution is one attempt: given back only before any call of the model,
\* and never made by another process after one (run003_stage1.py).
THEOREM ExecutionIsOneAttempt == Spec => ImplementsSingleAttempt
<1> DEFINE holder == IF disk.claimed THEN owner ELSE Nobody
           effects == disk.claimed /\ run.asked > 0
<1>1. Init => Once!Init
  <2> SUFFICES ASSUME Init PROVE Once!Init
    OBVIOUS
  <2>1. ~disk.claimed
    BY DEF Init, EmptyDisk
  <2> QED
    BY <2>1 DEF Once!Init
<1>2. StageInv /\ [Next]_vars => [Once!Next]_(Once!vars)
  <2> SUFFICES ASSUME StageInv, [Next]_vars
               PROVE  [Once!Next]_(Once!vars)
    OBVIOUS
  <2>1. /\ disk.claimed => owner \in Procs
        /\ ~disk.claimed => owner = Nobody /\ run = EmptyRun
        /\ Nobody \notin Procs /\ DOMAIN run = RunFields /\ run.asked \in Nat
        /\ EmptyRun.asked = 0 /\ disk.claimed \in BOOLEAN
    BY StageOneAssumption DEF StageInv, Owned, RunInv, Kept, RunTypes, EmptyRun, DiskTypes
  <2>2. ASSUME UNCHANGED <<owner, disk>>, run' = run
        PROVE  [Once!Next]_(Once!vars)
    BY <2>2 DEF Once!vars
  <2>3. CASE UNCHANGED vars
    BY <2>2, <2>3 DEF vars
  <2>4. ASSUME disk.claimed, disk'.claimed = disk.claimed, owner' = owner,
               run'.asked = run.asked \/ run'.asked = run.asked + 1
        PROVE  [Once!Next]_(Once!vars)
    <3>1. holder' = holder /\ holder # Nobody
      BY <2>1, <2>4
    <3>2. effects = (run.asked > 0) /\ effects' = (run'.asked > 0)
      BY <2>1, <2>4
    <3>3. CASE run'.asked = run.asked
      BY <3>1, <3>2, <3>3 DEF Once!vars
    <3>4. CASE run'.asked = run.asked + 1
      <4>1. effects' = TRUE
        BY <2>1, <3>2, <3>4
      <4>2. Once!Reach
        BY <3>1, <4>1 DEF Once!Reach
      <4> QED
        BY <4>2 DEF Once!Next
    <3> QED
      BY <2>4, <3>3, <3>4
  <2>5. ASSUME NEW p \in Procs, MakeDirectory(p)
        PROVE  [Once!Next]_(Once!vars)
    <3>1. CASE disk.claimed
      BY <2>2, <2>5, <3>1 DEF MakeDirectory
    <3>2. CASE ~disk.claimed
      <4>1. owner' = p /\ disk' = [disk EXCEPT !.claimed = TRUE] /\ run' = EmptyRun
        BY <2>5, <3>2 DEF MakeDirectory
      <4>2. disk'.claimed
        BY <4>1 DEF StageInv, DiskTypes
      <4>3. holder = Nobody /\ holder' = p
        BY <3>2, <4>1, <4>2
      <4>4. effects = FALSE /\ effects' = FALSE
        <5>1. ~(run'.asked > 0)
          BY <2>1, <4>1
        <5> QED
          BY <3>2, <5>1
      <4>5. Once!Begin(p)
        BY <4>3, <4>4 DEF Once!Begin
      <4> QED
        BY <4>5 DEF Once!Next
    <3> QED
      BY <3>1, <3>2
  <2>6. ASSUME NEW p \in Procs, SetupFails(p)
        PROVE  [Once!Next]_(Once!vars)
    <3>1. run.phase = "setup" /\ Stage[run.phase] < 7 /\ run' = run /\ owner' = Nobody
          /\ owner = p
      BY <2>6, Stages DEF SetupFails, Running
    <3>2. run = EmptyRun
      BY <3>1 DEF StageInv, RunInv, Underway, Placed
    <3>3. ~(run.asked > 0) /\ ~(run'.asked > 0)
      BY <2>1, <3>1, <3>2
    <3>4. disk.claimed
      BY <2>1, <3>1
    <3>5. holder = p /\ holder' = Nobody /\ holder # Nobody
      BY <2>1, <3>1, <3>4
    <3>6. effects = FALSE /\ effects' = FALSE
      BY <3>3
    <3>7. Once!GiveBack
      BY <3>5, <3>6 DEF Once!GiveBack
    <3> QED
      BY <3>7 DEF Once!Next
  <2>7. ASSUME NEW p \in Procs, WriteEvidence(p) \/ WriteTrajectories(p)
        PROVE  [Once!Next]_(Once!vars)
    <3>1. disk'.claimed = disk.claimed /\ owner' = owner /\ owner = p
          /\ run'.asked = run.asked
      BY <2>1, <2>7 DEF WriteEvidence, WriteTrajectories, Running, RunFields, StageInv, DiskTypes
    <3>2. disk.claimed
      BY <2>1, <3>1
    <3> QED
      BY <2>4, <3>1, <3>2
  <2>8. ASSUME NEW p \in Procs, Quiet(p)
        PROVE  [Once!Next]_(Once!vars)
    <3>1. /\ owner' = owner /\ owner = p /\ disk'.claimed = disk.claimed
          /\ run'.asked = run.asked \/ run'.asked = run.asked + 1
      BY <2>1, <2>8, QuietSteps
    <3>2. disk.claimed
      BY <2>1, <3>1
    <3> QED
      BY <2>4, <3>1, <3>2
  <2>9. ASSUME NEW p \in Procs, CheckExists(p) \/ Kill(p) \/ ReportFails(p)
        PROVE  [Once!Next]_(Once!vars)
    BY <2>2, <2>9 DEF CheckExists, Kill, ReportFails
  <2>10. ASSUME NEW p \in Procs, CheckExists(p) \/ Advance(p) \/ Interrupt(p) \/ Kill(p)
         PROVE  [Once!Next]_(Once!vars)
    <3>1. \/ CheckExists(p) \/ Kill(p) \/ ReportFails(p) \/ Quiet(p) \/ MakeDirectory(p)
          \/ SetupFails(p) \/ WriteEvidence(p) \/ WriteTrajectories(p)
      BY <2>10 DEF Advance, Quiet
    <3> QED
      BY <3>1, <2>5, <2>6, <2>7, <2>8, <2>9
  <2> QED
    BY <2>3, <2>10 DEF Next
<1> QED
  BY <1>1, <1>2, StageInductive, PTL DEF Spec, ImplementsSingleAttempt, Once!Spec
=============================================================================
