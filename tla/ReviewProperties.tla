-------------------------- MODULE ReviewProperties --------------------------
(***************************************************************************)
(* What a reviewer relies on when the harness shows a case, saves it, or   *)
(* brings it back after a restart.                                         *)
(***************************************************************************)
EXTENDS ReviewHarness

Cases == DOMAIN mem.cases

\* A case always stands where running the first ran specs of its sequence on a
\* clean engine, with nothing expected of them, would put it: the same results and
\* the same stores, however it got there -- stepping, rerunning, resetting, steps
\* that raise, before they count or after, a restart over rows left in its
\* database.  Only an interaction that fails halfway on SQLite, which has no
\* rollback, spoils this, until the next rebuild.  The snapshots are taken after a step
\* counts, and there may be fewer: each shows the step it names, in their order,
\* and where no read has failed none is missing between two of them, nor at
\* the end unless an expectation cannot be read (_build, _run_spec, _advance,
\* run_all, reset and expected_vs_actual of testcase.py).
Replayed(case) ==
    All(Rebuilt([Definition(case) EXCEPT
                   !.sequence = SubSeq(@, 1, case.ran), !.expectations = <<>>],
                FALSE),
        EmptyWorld, 0, "none")

SnapshotsShow(case, all) ==
    /\ \A i \in DOMAIN case.snapshots :
         /\ case.snapshots[i].step \in DOMAIN all
         /\ case.snapshots[i] = all[case.snapshots[i].step]
    /\ \A i, j \in DOMAIN case.snapshots :
         i < j => case.snapshots[i].step < case.snapshots[j].step
    /\ ~case.missed =>
         /\ \A i \in DOMAIN case.snapshots : case.snapshots[i].step = i
         /\ Len(case.snapshots) = case.ran \/ Unreadable(case)

HistoryIsReplay ==
    \A id \in Cases :
        LET case == mem.cases[id]
            replay == Replayed(case)
        IN  /\ case.ran = Len(case.history)
            /\ ~case.partial =>
                 /\ case.history = replay.case.history
                 /\ worlds[id] = replay.world
                 /\ SnapshotsShow(case, replay.case.snapshots)

\* A saved file is only ever written over by a later save of the same case, of
\* whatever process: no case created, duplicated or imported after a restart
\* takes the place of one saved before (_load_saved and _next_id of manager.py,
\* FileTestCaseSpecStore.save).
FilesKeepTheirCase ==
    [][\A id \in DOMAIN files :
         files'[id].definition.born = files[id].definition.born]_files

\* A response shows the state its own operation left, not one that another
\* reviewer's request has moved on in between (the lock of do_GET and do_POST).
OwnReply ==
    \A t \in Clients :
        pc[t] = "responding" => reply[t] = applied[t]

\* Every request is answered, failing ones included, unless the server stops or
\* a client has stopped reading a response written under the lock; health and the page are
\* answered even then (do_GET, do_POST, _send_json).
LockLost == \E t \in stalled : pc[t] = "responding" /\ lock = t
RequestsAnswered ==
    \A t \in Clients :
        pc[t] # "idle" ~> \/ pc[t] = "idle" \/ t \in stalled
                          \/ LockLost /\ pc[t] # "plain"

\* The panels tell one story, some from the results and some from the stores.
\* The lifecycle's last change of each prediction agrees with the predictions
\* the narrative finds in the stores; the versions of the timeline are those of
\* the ledger; the revisions per interaction are the ledger, and each is in the
\* chain of its evidence; the progression of a leading hypothesis ends with its
\* stored support; and the verdict, whatever ran, fails only for an uncertainty
\* that never moved (the derived views of testcase.py).
StillForeseen(lifecycle, h) ==
    LET of == SelectSeq(lifecycle, LAMBDA step : h \in DOMAIN step.events)
    IN  of # <<>> /\ of[Len(of)].events[h] # "invalidated"

Lifecycle(case, world) ==
    LET lifecycle == PredictionLifecycle(case.history)
        now == ReasoningSummary(case.history, world).predicted
    IN  \A h \in UNION ({now} \cup {DOMAIN step.events : step \in ToSet(lifecycle)}) :
            StillForeseen(lifecycle, h) <=> h \in now

PanelsAgree ==
    \A id \in Cases :
        LET case == mem.cases[id]
            world == worlds[id]
            timeline == WorldModelTimeline(case.history)
            chains == EvidenceChains(case.history, world)
            revisions == RevisionsByInteraction(case.history)
            why == ExplainWhy(case.history, world)
        IN  ~case.partial /\ case.history # <<>> =>
              /\ Lifecycle(case, world)
              /\ {timeline[i].version : i \in DOMAIN timeline}
                   = Summary(case, world).versions
              /\ Len(FlattenSeq([i \in DOMAIN revisions |-> revisions[i].revisions]))
                   = Len(world.ledger)
              /\ UNION {ToSet(chains[i].revisions) : i \in DOMAIN chains}
                   = ToSet(world.ledger)
              /\ \A h \in DOMAIN why :
                   Ends(why[h].progression)[2] = SupportIn(world.active, h)
              /\ \A i \in DOMAIN case.history :
                   SequenceRows(case)[i].evidence = Timeline(case.history)[i].evidence
              /\ Verdict(case.history, world) = "FAIL"
                   => ~UncertaintyRevised(case.history)

\* The comparison of a step that has run is settled: running later steps does
\* not turn its match into a mismatch (authored_to_durable and
\* expected_vs_actual, which translate by what all steps so far show).
RowsAreFinal ==
    [][\A id \in Cases \cap DOMAIN mem'.cases :
         LET before == mem.cases[id]
             after == mem'.cases[id]
         IN  /\ after.sequence = before.sequence
             /\ Len(before.expectations) >= Len(before.sequence)
             /\ ~Unreadable(before) /\ ~Unreadable(after)
             /\ \E n \in DOMAIN after.snapshots \cup {0} :
                  before.snapshots = SubSeq(after.snapshots, 1, n)
             => \A i \in DOMAIN before.snapshots :
                  ExpectedVsActual(after)[i] = ExpectedVsActual(before)[i]]_mem
=============================================================================
