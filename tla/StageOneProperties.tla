------------------------ MODULE StageOneProperties -------------------------
(* What the evidence of the governed execution may be relied on for.       *)
EXTENDS StageOneRun

----------------------------------------------------------------------------
\* One authorised execution (run003_stage1.py:402): however many processes are
\* started, interrupted or killed, once one of them has reached the model no
\* other ever does, and before that the attempt can be given back.
Once == INSTANCE SingleAttempt WITH
          holder <- IF disk.claimed THEN owner ELSE Nobody,
          effects <- disk.claimed /\ run.asked > 0
ImplementsSingleAttempt == Once!Spec

WholeLines(c) ==
    Cardinality({i \in DOMAIN disk.lines :
                   disk.lines[i].condition = c /\ disk.lines[i].whole})

\* What the evidence says of completed work is on disk, even for a run that
\* stopped (run003_stage1.py:493): completed conditions are a prefix of the
\* order and exactly the ones with a whole file; steps_completed counts the
\* trajectories in progress.jsonl, and may be one ahead of them only when
\* writing that very line is what stopped the run.
EvidenceMatchesDisk ==
    disk.written = "whole" =>
      LET e == disk.evidence IN
      /\ e.completed = SubSeq(ConditionOrder, 1, Len(e.completed))
      /\ \A c \in Conditions :
           /\ c \in ToSet(e.completed) <=> disk.files[c] = "whole"
           /\ c \in ToSet(e.completed) => e.steps[c] = NumTurns
           /\ \/ e.steps[c] = WholeLines(c)
              \/ /\ e.steps[c] = WholeLines(c) + 1
                 /\ e.error \in {"OSError", "KeyboardInterrupt"}
      /\ disk.trajectories # "none" <=> e.status = "completed"
      /\ e.status = "completed" => Len(e.completed) = 3

\* The three conditions are compared turn by turn: each has one record per
\* turn it went through, in order, a turn rejected at extraction included and
\* marked so; a condition starts after the one before it is finished; the
\* transcript baseline has read exactly the text up to its turn.  So the
\* sequence guard at the end (pipeline.py:304) never stops a run.
PairedSequences ==
    /\ run.error # "ValueError"
    /\ \A c \in Conditions : \A i \in DOMAIN run.records[c] :
         /\ run.records[c][i].turn = i
         /\ c = "fm_transcript" =>
              run.records[c][i].context = (1..i) \ HoldTurns
    /\ \A i \in DOMAIN run.records["sanuvia_persistent"] :
         run.audit[i].rejected =>
           run.records["sanuvia_persistent"][i].outcome = "rejected_plan"
    /\ \A k \in 1..2 : run.records[ConditionOrder[k + 1]] # <<>> =>
         Len(run.records[ConditionOrder[k]]) = NumTurns

\* The manifest accounts for the calls.  It misses one at most, the one an
\* interrupt cut short; a turn whose extraction returned is never reported
\* not_executed unless it is a hold; a completed run has only successful calls,
\* all of them in the backend's log, and every turn executed.
CallsAccounted ==
    disk.written = "whole" =>
      LET e == disk.evidence IN
      /\ \/ Len(e.calls) = run.asked
         \/ Len(e.calls) = run.asked - 1 /\ e.error = "KeyboardInterrupt"
      /\ \A i \in DOMAIN e.audit :
           e.audit[i].turn \notin HoldTurns => e.perTurn[i] # "not_executed"
      /\ e.status = "completed" =>
           /\ \A t \in Turns : e.perTurn[t] = "success"
           /\ disk.logged = Len(e.calls)

\* No second pass (run003_stage1.py:455): no extraction, appraisal or baseline
\* call is ever made twice for the same turn and observation, and a rejected
\* turn gets no appraisal.
AskedOnce ==
    /\ \A i, j \in DOMAIN run.calls :
         /\ run.calls[i].boundary # "identity_resolution"
         /\ [run.calls[i] EXCEPT !.status = "any"]
              = [run.calls[j] EXCEPT !.status = "any"]
         => i = j
    /\ \A i \in DOMAIN run.calls :
         run.calls[i].boundary = "evidence_appraisal" =>
           ~run.audit[run.calls[i].turn].rejected

\* A label minted for one request never names a participant in another
\* (participants.py:13): what a turn admits was resolved from that turn's own
\* labels, comes from a speaker of the roster, and a rejected turn admits
\* nothing.
LabelsOfOwnTurn ==
    \A i \in DOMAIN run.audit :
      /\ run.audit[i].rejected => run.audit[i].items = <<>>
      /\ \A k \in DOMAIN run.audit[i].items :
           LET item == run.audit[i].items[k] IN
           /\ item.source # 0 => item.source \in ToSet(run.roster)
           /\ item.label = <<0, 0>>
              \/ /\ item.label[1] = i
                 /\ item.label[2] \in 1..Cardinality(ToSet(run.roster))

\* Every process that has begun comes to an end, whatever the model answers.
EveryAttemptEnds ==
    \A p \in Procs :
      pc[p] \in {"checked", "running"} ~>
        pc[p] \in {"refused", "failed", "finished", "killed"}

----------------------------------------------------------------------------
\* What docs/phase1-experiment-manifest.md:163 says of a reply that does not
\* satisfy its schema: it is recorded as such, never as a success.
MalformedIsRecorded ==
    disk.written = "whole" /\ disk.evidence.error = "MalformedOutputError" =>
      \E i \in DOMAIN disk.evidence.calls :
        disk.evidence.calls[i].status # "success"
=============================================================================
