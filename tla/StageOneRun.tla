---------------------------- MODULE StageOneRun ----------------------------
(***************************************************************************)
(* execute() of run003_stage1.py: the single governed execution of three   *)
(* conditions over one transcript -- extraction of every turn, then the    *)
(* engine, then the two foundation-model baselines -- against a local      *)
(* model server, with the evidence it leaves on disk.  Several processes   *)
(* may be started on the same evidence directory; any may be interrupted,  *)
(* may fail to write, or may be killed.                                    *)
(*                                                                         *)
(* disk is what survives a process; run is the memory of the process that  *)
(* made the directory.                                                     *)
(***************************************************************************)
EXTENDS ModelBoundary

CONSTANTS
    Procs,            \* invocations of the command
    Nobody,
    NumTurns,         \* interactions of the transcript
    HoldTurns,        \* those without text
    Speaker,          \* turn -> recorded speaker, 0 if none
    Rosters,          \* rosters the run may be given
    ExtractionReply,  \* turn -> name -> reply
    AppraisalReply,   \* name -> reply
    IdentityReply,
    BaselineReply,
    MaxPlausible      \* bound: commitments offered to the resolver

Turns == 1..NumTurns
Conditions == {"sanuvia_persistent", "fm_stateless", "fm_transcript"}
ConditionOrder == <<"sanuvia_persistent", "fm_stateless", "fm_transcript">>

\* How a call may end without text for the caller: the connection fails, or
\* what comes is not a chat completion; the connection times out; the answer
\* does; or it carries reasoning under enable_thinking=false.
Failures == {"error", "connect_timeout", "read_timeout", "reasoning"}
\* What stands where a reply would; no reply is called so.
Marks == Failures \cup {"none", "awaited"}

ASSUME StageOneAssumption ==
    /\ Nobody \notin Procs
    /\ NumTurns \in Nat \ {0} /\ HoldTurns \subseteq Turns
    /\ Speaker \in [Turns -> Nat]
    /\ Rosters \subseteq Seq(Nat \ {0})
    /\ MaxPlausible \in Nat \ {0}
    /\ \A t \in Turns : DOMAIN ExtractionReply[t] \cap Marks = {}
    /\ \A replies \in {AppraisalReply, IdentityReply, BaselineReply} :
         DOMAIN replies \cap Marks = {}

VARIABLES
    pc,     \* process -> where execute() stands
    owner,  \* the process that made the evidence directory
    disk,   \* the evidence directory and what lies beside it
    run     \* memory of the owner

vars == <<pc, owner, disk, run>>

----------------------------------------------------------------------------
\* Calls, manifest records and trajectory records.
NoCall == [boundary |-> "none", turn |-> 0, item |-> 0, answer |-> "none"]

\* generate_ex logs what urlopen reports as URLError and what it received; a
\* timeout while the answer is awaited is neither.
Unlogged == {"read_timeout"}

CallStatus(answer) ==
    CASE answer = "connect_timeout" -> "timeout"
      [] answer = "reasoning" -> "malformed_output"
      [] answer \in Failures \ {"connect_timeout", "reasoning"} -> "model_error"
      [] OTHER -> "success"

Replies(boundary, turn) ==
    CASE boundary = "evidence_extraction" -> ExtractionReply[turn]
      [] boundary = "evidence_appraisal" -> AppraisalReply
      [] boundary = "identity_resolution" -> IdentityReply
      [] OTHER -> BaselineReply

NoEvidence == [status |-> "absent"]

EmptyRun ==
    [phase |-> "setup", turn |-> 1, item |-> 1, pending |-> 0, roster |-> <<>>,
     call |-> NoCall, audit |-> <<>>, calls |-> <<>>, asked |-> 0,
     records |-> [c \in Conditions |-> <<>>],
     steps |-> [c \in Conditions |-> 0], completed |-> <<>>,
     error |-> "none"]

EmptyDisk ==
    [claimed |-> FALSE, logged |-> 0, lines |-> <<>>,
     files |-> [c \in Conditions |-> "none"], evidence |-> NoEvidence,
     written |-> "none", trajectories |-> "none", setupFailures |-> {}]

Init ==
    /\ pc = [p \in Procs |-> "idle"]
    /\ owner = Nobody
    /\ disk = EmptyDisk
    /\ run = EmptyRun

----------------------------------------------------------------------------
\* The claim.  The directory is tested and then made; mkdir fails when
\* another process made it in between.
CheckExists(p) ==
    /\ pc[p] = "idle"
    /\ pc' = [pc EXCEPT ![p] = IF disk.claimed THEN "refused" ELSE "checked"]
    /\ UNCHANGED <<owner, disk, run>>

\* Mutant: mkdir(exist_ok=True).
MakeDirectoryAnyway(p) ==
    /\ pc[p] = "checked"
    /\ pc' = [pc EXCEPT ![p] = "running"] /\ owner' = p
    /\ disk' = [disk EXCEPT !.claimed = TRUE] /\ run' = EmptyRun

MakeDirectory(p) ==
    /\ pc[p] = "checked"
    /\ IF disk.claimed
       THEN pc' = [pc EXCEPT ![p] = "refused"] /\ UNCHANGED <<owner, disk, run>>
       ELSE /\ pc' = [pc EXCEPT ![p] = "running"]
            /\ owner' = p
            /\ disk' = [disk EXCEPT !.claimed = TRUE]
            /\ run' = EmptyRun

Running(p, phase) == pc[p] = "running" /\ owner = p /\ run.phase = phase

\* The fixture cannot be read or the runner cannot be built.  The directory
\* is empty, so it is removed; the diagnostics go beside it.
SetupFails(p) ==
    /\ Running(p, "setup")
    /\ disk' = [disk EXCEPT !.claimed = disk.logged > 0,
                            !.setupFailures = @ \cup {p}]
    /\ owner' = Nobody
    /\ pc' = [pc EXCEPT ![p] = "failed"]
    /\ UNCHANGED run

SetupDone(p) ==
    /\ Running(p, "setup")
    /\ \E roster \in Rosters :
         run' = [run EXCEPT !.phase = "configure", !.roster = roster]
    /\ UNCHANGED <<pc, owner, disk>>

\* Whatever leaves the pipeline is caught; the evidence is written all the same.
Aborted(r, error) == [r EXCEPT !.phase = "evidence", !.error = error,
                               !.call = NoCall]

\* validate_run_configuration, the first step of the pipeline.  Of what it
\* checks, only the roster is not fixed by build_runner.
Configure(p) ==
    /\ Running(p, "configure")
    /\ run' = IF run.roster = <<>> THEN Aborted(run, "ConfigurationError")
              ELSE [run EXCEPT !.phase = "extract"]
    /\ UNCHANGED <<pc, owner, disk>>

----------------------------------------------------------------------------
\* One model call: sent, answered (and logged by the backend), then recorded
\* in the manifest and handed to the caller.
CurrentItems == run.audit[run.turn].items

Wanted ==
    IF run.turn \notin Turns THEN "none" ELSE
    CASE run.phase = "extract" /\ run.turn \notin HoldTurns ->
           "evidence_extraction"
      [] run.phase = "sanuvia_persistent" /\ run.pending > 0 ->
           "identity_resolution"
      [] run.phase = "sanuvia_persistent" /\ run.pending = 0
           /\ run.item =< Len(CurrentItems)
           /\ CurrentItems[run.item].appraisable -> "evidence_appraisal"
      [] run.phase = "fm_stateless" -> "stateless_baseline"
      [] run.phase = "fm_transcript" -> "transcript_baseline"
      [] OTHER -> "none"

Send(p) ==
    /\ Running(p, run.phase) /\ run.call = NoCall /\ Wanted # "none"
    /\ run' = [run EXCEPT !.asked = @ + 1,
                 !.call = [boundary |-> Wanted, turn |-> run.turn,
                           item |-> run.item, answer |-> "awaited"]]
    /\ UNCHANGED <<pc, owner, disk>>

Answer(p) ==
    /\ Running(p, run.phase) /\ run.call.answer = "awaited"
    /\ \E answer \in Failures
                     \cup DOMAIN Replies(run.call.boundary, run.turn) :
         /\ run' = [run EXCEPT !.call.answer = answer]
         /\ disk' = [disk EXCEPT !.logged =
                       IF answer \in Unlogged THEN @ ELSE @ + 1]
    /\ UNCHANGED <<pc, owner>>

Answered(boundary) ==
    run.call.boundary = boundary /\ run.call.answer \notin {"none", "awaited"}

\* Mutant: what failed is recorded under no status.
DropFailed(r) ==
    [r EXCEPT !.call = NoCall,
       !.calls = IF CallStatus(r.call.answer) # "success" THEN @
                 ELSE Append(@, [boundary |-> r.call.boundary, turn |-> r.turn,
                                 item |-> r.item, status |-> "success"])]

\* call_with_recording with no retries: the manifest keeps how the call ended,
\* before any validator has seen the text.
Recorded(r) ==
    [r EXCEPT !.call = NoCall,
       !.calls = Append(@, [boundary |-> r.call.boundary, turn |-> r.turn,
                            item |-> r.item,
                            status |-> CallStatus(r.call.answer)])]

\* Mutant: a failed call is made again.
CallRetried(p) ==
    /\ Running(p, run.phase) /\ run.call.answer \in Failures
    /\ run' = Recorded(run)
    /\ UNCHANGED <<pc, owner, disk>>

CallFails(p) ==
    /\ Running(p, run.phase) /\ run.call.answer \in Failures
    /\ run' = Aborted(Recorded(run), CallStatus(run.call.answer))
    /\ UNCHANGED <<pc, owner, disk>>

Reply == Replies(run.call.boundary, run.turn)[run.call.answer]
Text(p, boundary) == Running(p, run.phase) /\ Answered(boundary)
                     /\ run.call.answer \notin Failures

Malformed(p, boundary, valid) ==
    /\ Text(p, boundary) /\ ~valid
    /\ run' = Aborted(Recorded(run), "MalformedOutputError")
    /\ UNCHANGED <<pc, owner, disk>>

----------------------------------------------------------------------------
\* Extraction: a turn without text makes no call; an unacceptable standing
\* rejects the turn, not the run; a malformed reply ends the run.
Extracted(r, rejected, items) ==
    [r EXCEPT !.audit = Append(@, [turn |-> r.turn, rejected |-> rejected,
                                   items |-> items]),
              !.phase = IF r.turn = NumTurns THEN "sanuvia_persistent" ELSE @,
              !.turn = IF r.turn = NumTurns THEN 1 ELSE @ + 1]

ExtractHold(p) ==
    /\ Running(p, "extract") /\ run.turn \in HoldTurns
    /\ run' = Extracted(run, FALSE, <<>>)
    /\ UNCHANGED <<pc, owner, disk>>

Extract(p) ==
    /\ Text(p, "evidence_extraction") /\ ValidExtraction(Reply)
    /\ LET items == Items(Get(Reply, "evidence"))
           vocabulary == Vocabulary(run.turn, run.roster)
           accepted == \A item \in ToSet(items) :
                         StandingAccepted(item, Speaker[run.turn], vocabulary)
       IN  run' = Extracted(Recorded(run), ~accepted,
                    IF accepted
                    THEN [k \in DOMAIN items |->
                            Standing(items[k], Speaker[run.turn])]
                    ELSE <<>>)
    /\ UNCHANGED <<pc, owner, disk>>

----------------------------------------------------------------------------
\* A step of a condition returns its record and the observer writes it to
\* progress.jsonl; the count is raised first.  A write that fails leaves part of
\* the line, which no reader can tell from none of it.
StatelessContext == {run.turn} \ HoldTurns
TranscriptContext == (1..run.turn) \ HoldTurns

Context(c) ==
    CASE c = "sanuvia_persistent" -> {}
      [] c = "fm_stateless" -> StatelessContext
      [] c = "fm_transcript" -> TranscriptContext

StepDone(c, r, outcome) ==
    LET counted == [r EXCEPT !.steps[c] = r.turn, !.item = 1, !.pending = 0]
        record == [turn |-> r.turn, outcome |-> outcome, context |-> Context(c)]
        line(whole) == [condition |-> c, turn |-> r.turn, whole |-> whole]
    IN  \/ /\ run' = [counted EXCEPT !.records[c] = Append(@, record),
                                     !.turn = @ + 1]
           /\ disk' = [disk EXCEPT !.lines = Append(@, line(TRUE))]
        \/ /\ \E error \in {"OSError", "KeyboardInterrupt"} :
                run' = Aborted(counted, error)
           /\ disk' = [disk EXCEPT !.lines = Append(@, line(FALSE))]

\* The engine's turn.  A turn rejected at extraction never reaches it.
InSanuvia(p) == Running(p, "sanuvia_persistent") /\ run.turn \in Turns

\* Mutant: a turn refused before the engine leaves no trajectory record.
DropRejectedTurn(p) ==
    /\ InSanuvia(p) /\ run.call = NoCall /\ run.audit[run.turn].rejected
    /\ run' = [run EXCEPT !.turn = @ + 1]
    /\ UNCHANGED <<pc, owner, disk>>

RejectedTurn(p) ==
    /\ InSanuvia(p) /\ run.call = NoCall /\ run.audit[run.turn].rejected
    /\ StepDone("sanuvia_persistent", run, "rejected_plan")
    /\ UNCHANGED <<pc, owner>>

\* Mutant: an observation outside the appraisable roles waits for a reply.
AwaitsEveryObservation(p) == FALSE

SkipObservation(p) ==
    /\ InSanuvia(p) /\ run.call = NoCall /\ run.pending = 0
    /\ run.item =< Len(CurrentItems) /\ ~CurrentItems[run.item].appraisable
    /\ run' = [run EXCEPT !.item = @ + 1]
    /\ UNCHANGED <<pc, owner, disk>>

\* The governed controls accept the reply, and some of its proposals need the
\* resolver; or they reject the whole turn.
Appraise(p) ==
    /\ Text(p, "evidence_appraisal") /\ ValidAppraisal(Reply)
    /\ \E n \in 0..Len(Proposals(Reply)) :
         run' = [Recorded(run) EXCEPT !.item = @ + 1, !.pending = n]
    /\ UNCHANGED <<pc, owner, disk>>

AppraisalRejected(p) ==
    /\ Text(p, "evidence_appraisal") /\ ValidAppraisal(Reply)
    /\ StepDone("sanuvia_persistent", Recorded(run), "rejected_plan")
    /\ UNCHANGED <<pc, owner>>

\* An unusable answer of the resolver, malformed or naming what was not
\* offered, rejects the turn.
Resolve(p) ==
    /\ Text(p, "identity_resolution")
    /\ \E offered \in 1..MaxPlausible :
         IF IdentityUsable(Reply, offered)
         THEN /\ run' = [Recorded(run) EXCEPT !.pending = @ - 1]
              /\ UNCHANGED disk
         ELSE StepDone("sanuvia_persistent", Recorded(run), "rejected_plan")
    /\ UNCHANGED <<pc, owner>>

\* Every observation is through: the plan commits, holds or is rejected.
EngineTurn(p) ==
    /\ InSanuvia(p) /\ run.call = NoCall /\ run.pending = 0
    /\ ~run.audit[run.turn].rejected /\ run.item > Len(CurrentItems)
    /\ \E outcome \in IF CurrentItems = <<>> THEN {"no_evidence_hold"}
                      ELSE {"committed", "held", "rejected_plan"} :
         StepDone("sanuvia_persistent", run, outcome)
    /\ UNCHANGED <<pc, owner>>

\* The baselines are asked for every turn, a hold included.
BaselineTurn(p, c, boundary) ==
    /\ Text(p, boundary) /\ ValidBaseline(Reply)
    /\ StepDone(c, Recorded(run), "answered")
    /\ UNCHANGED <<pc, owner>>

----------------------------------------------------------------------------
\* A finished condition's records are written whole, then it counts.
Following(c) ==
    CASE c = "sanuvia_persistent" -> "fm_stateless"
      [] c = "fm_stateless" -> "fm_transcript"
      [] c = "fm_transcript" -> "compare"

Closing(p, c) == Running(p, c) /\ run.turn = NumTurns + 1

OpenFile(p, c) ==
    /\ Closing(p, c) /\ disk.files[c] = "none"
    /\ disk' = [disk EXCEPT !.files[c] = "torn"]
    /\ UNCHANGED <<pc, owner, run>>

\* Mutant: the condition counts as completed before its file is written.
CloseFileEarly(p, c) ==
    /\ Closing(p, c) /\ disk.files[c] = "torn"
    /\ \/ disk' = [disk EXCEPT !.files[c] = "whole"]
       \/ UNCHANGED disk
    /\ run' = [run EXCEPT !.completed = Append(@, c), !.turn = 1,
                          !.phase = Following(c)]
    /\ UNCHANGED <<pc, owner>>

CloseFile(p, c) ==
    /\ Closing(p, c) /\ disk.files[c] = "torn"
    /\ disk' = [disk EXCEPT !.files[c] = "whole"]
    /\ run' = [run EXCEPT !.completed = Append(@, c), !.turn = 1,
                          !.phase = Following(c)]
    /\ UNCHANGED <<pc, owner>>

FileFails(p, c) ==
    /\ Closing(p, c) /\ disk.files[c] = "torn"
    /\ run' = Aborted(run, "OSError")
    /\ UNCHANGED <<pc, owner, disk>>

\* The fairness guard: all three conditions went through the same turns.
Sequence(c) == [i \in 1..Len(run.records[c]) |-> run.records[c][i].turn]

Compare(p) ==
    /\ Running(p, "compare")
    /\ run' = IF \A c \in Conditions : Sequence(c) = [t \in Turns |-> t]
              THEN [run EXCEPT !.phase = "evidence"]
              ELSE Aborted(run, "ValueError")
    /\ UNCHANGED <<pc, owner, disk>>

----------------------------------------------------------------------------
\* The evidence, then, for a run that produced a report, the trajectories.
\* A turn is not_executed when the manifest has no call for it.
TurnStatus(calls, t) ==
    LET of == {i \in DOMAIN calls : calls[i].turn = t}
        bad == {i \in of : calls[i].status # "success"}
    IN  IF of = {} THEN "not_executed"
        ELSE IF bad = {} THEN "success"
        ELSE calls[CHOOSE i \in bad : \A j \in bad : i =< j].status

Evidence ==
    [status |-> IF run.error = "none" THEN "completed" ELSE "aborted",
     error |-> run.error, audit |-> run.audit, completed |-> run.completed,
     steps |-> run.steps, calls |-> run.calls,
     perTurn |-> [t \in Turns |-> TurnStatus(run.calls, t)]]

OpenEvidence(p) ==
    /\ Running(p, "evidence") /\ disk.written = "none"
    /\ disk' = [disk EXCEPT !.written = "torn"]
    /\ UNCHANGED <<pc, owner, run>>

WriteEvidence(p) ==
    /\ Running(p, "evidence") /\ disk.written = "torn"
    /\ disk' = [disk EXCEPT !.written = "whole", !.evidence = Evidence,
                  !.trajectories = IF run.error = "none" THEN "torn" ELSE @]
    /\ run' = [run EXCEPT !.phase = "report"]
    /\ pc' = [pc EXCEPT ![p] = IF run.error = "none" THEN @ ELSE "finished"]
    /\ UNCHANGED owner

WriteTrajectories(p) ==
    /\ Running(p, "report")
    /\ disk' = [disk EXCEPT !.trajectories = "whole"]
    /\ pc' = [pc EXCEPT ![p] = "finished"]
    /\ UNCHANGED <<owner, run>>

\* A failing write of either escapes execute().
ReportFails(p) ==
    /\ Running(p, "report") \/ (Running(p, "evidence") /\ disk.written = "torn")
    /\ pc' = [pc EXCEPT ![p] = "failed"]
    /\ UNCHANGED <<owner, disk, run>>

----------------------------------------------------------------------------
\* An interrupt inside the pipeline aborts the run; a call it cuts short is
\* not in the manifest.  Its evidence is written.  A kill leaves the disk (and
\* one before the claim leaves nothing at all).
PipelinePhases == Conditions \cup {"configure", "extract", "compare"}

Interrupt(p) ==
    /\ pc[p] = "running" /\ owner = p /\ run.phase \in PipelinePhases
    /\ run' = Aborted(run, "KeyboardInterrupt")
    /\ UNCHANGED <<pc, owner, disk>>

Kill(p) ==
    /\ pc[p] = "running" /\ owner = p
    /\ pc' = [pc EXCEPT ![p] = "killed"]
    /\ UNCHANGED <<owner, disk, run>>

Advance(p) ==
    \/ MakeDirectory(p) \/ SetupFails(p) \/ SetupDone(p) \/ Configure(p)
    \/ Send(p) \/ Answer(p) \/ CallFails(p)
    \/ Malformed(p, "evidence_extraction", ValidExtraction(Reply))
    \/ Malformed(p, "evidence_appraisal", ValidAppraisal(Reply))
    \/ Malformed(p, "stateless_baseline", ValidBaseline(Reply))
    \/ Malformed(p, "transcript_baseline", ValidBaseline(Reply))
    \/ ExtractHold(p) \/ Extract(p)
    \/ RejectedTurn(p) \/ SkipObservation(p) \/ Appraise(p)
    \/ AppraisalRejected(p) \/ Resolve(p) \/ EngineTurn(p)
    \/ BaselineTurn(p, "fm_stateless", "stateless_baseline")
    \/ BaselineTurn(p, "fm_transcript", "transcript_baseline")
    \/ \E c \in Conditions : OpenFile(p, c) \/ CloseFile(p, c) \/ FileFails(p, c)
    \/ Compare(p) \/ OpenEvidence(p) \/ WriteEvidence(p)
    \/ WriteTrajectories(p) \/ ReportFails(p)

Next == \E p \in Procs : CheckExists(p) \/ Advance(p) \/ Interrupt(p) \/ Kill(p)

\* A process that has begun keeps running: every call carries a timeout, and
\* nothing else waits for anybody.  Nobody has to start one, interrupt one or
\* kill one.
Spec == Init /\ [][Next]_vars /\ \A p \in Procs : WF_vars(Advance(p))
=============================================================================
