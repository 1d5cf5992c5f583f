---------------------------- MODULE ReviewHarness ---------------------------
(***************************************************************************)
(* The review harness: test cases authored and run by reviewers over HTTP. *)
(* One thread per request; every stateful request takes one lock, does its *)
(* operation, renders the current state and writes the response before it  *)
(* lets the lock go.  Only the definitions of cases are saved, one file    *)
(* each; reasoning state is rebuilt by rerunning.  The process may crash   *)
(* between any two steps and be started again.                             *)
(*                                                                         *)
(* The engine is a constant here: what one interaction makes of a world is *)
(* the subject of ReasoningCore.                                           *)
(***************************************************************************)
EXTENDS TestCaseViews

CONSTANTS
    Clients, Nobody,
    Configs,             \* [backend, writable]: how the process is configured,
                         \* and whether the definitions' directory can be used
    Saved,               \* id -> definition: what is on disk at first
    Evidence,            \* specs a reviewer may add
    Sample, Imported,    \* definitions brought in from outside
    Interaction(_, _, _),\* world, spec, evidence id -> [world, result]: what the
                         \* engine makes of an observation it admits
    MaxRequests, MaxCrashes, MaxFaults   \* bounds

ASSUME HarnessAssumption ==
    /\ Nobody \notin Clients
    /\ Configs \subseteq [backend : {"memory", "sqlite"}, writable : BOOLEAN]
    /\ DOMAIN Saved \subseteq Nat \ {0} /\ IsFiniteSet(DOMAIN Saved)
    /\ \A definition \in {Sample, Imported} \cup {Saved[id] : id \in DOMAIN Saved} :
         definition.sequence \in Seq(ToSet(definition.sequence))
    /\ MaxRequests \in Nat /\ MaxCrashes \in Nat /\ MaxFaults \in Nat

VARIABLES
    config,   \* the configuration
    up,       \* "down", "up", or "refused": start-up raised
    mem,      \* the manager: cases, counter, current
    worlds,   \* id -> what the stores of that case hold
    files,    \* id -> [whole, definition]
    lock,     \* the client whose request holds it
    pc,       \* client -> where its request stands
    reply,    \* client -> the state its response carries
    applied,  \* client -> the state its own operation left
    stalled,  \* clients that have stopped reading
    spent     \* requests made, crashes and faults so far

vars == <<config, up, mem, worlds, files, lock, pc, reply, applied, stalled, spent>>
durable == <<config, files>>
Nothing == <<>>

----------------------------------------------------------------------------
\* Test cases.  A rebuild gives a clean engine and stores, and keeps the
\* sequence and the review metadata.
EmptyWorld ==
    [evidence |-> <<>>, ledger |-> <<>>, active |-> <<>>, predictions |-> <<>>,
     inquiry |-> FALSE, version |-> None, uncertainty |-> None]

Definition(case) == [born |-> case.born, sequence |-> case.sequence,
                     expectations |-> case.expectations, noted |-> case.noted]

Rebuilt(definition, exit) ==
    [born |-> definition.born, sequence |-> definition.sequence,
     expectations |-> definition.expectations, noted |-> definition.noted,
     history |-> <<>>, snapshots |-> <<>>, ran |-> 0, ids |-> 0,
     exit |-> exit, partial |-> FALSE, missed |-> FALSE]

\* Mutant: the rows of an earlier run stay in the case's database.
WorldOfUnresetDatabase(id) ==
    IF config.backend = "sqlite" /\ id \in DOMAIN worlds THEN worlds[id]
    ELSE EmptyWorld

\* A new memory store, or the case's database with every table cleared.
BuiltWorld(id) == EmptyWorld

With(f, x, y) == [z \in DOMAIN f \cup {x} |-> IF z = x THEN y ELSE f[z]]

----------------------------------------------------------------------------
\* One step of a case.  It may raise before it counts: the spec is not
\* acceptable, its evidence id is taken, or a write fails.  The memory backend
\* restores the identifiers and the stores; SQLite keeps both as they stand.  Or
\* it may raise after it has run and counted, when its snapshot cannot be taken:
\* an expectation cannot be read, or a read of the stores fails.  (partial and
\* missed remember that a write or a read has failed; no field of the code does.)
Kept(ids) == IF config.backend = "sqlite" THEN ids + 1 ELSE ids

\* What an interaction leaves: its evidence after what was there, the rest as
\* the engine decides.
Outcome(world, spec, e) ==
    LET out == Interaction(world, spec, e)
    IN  [result |-> out.result,
         world |-> [part \in DOMAIN EmptyWorld |->
                      IF part = "evidence" THEN Append(world.evidence, e)
                      ELSE out.world[part]]]

Shown(n, world) == [step |-> n, world |-> world]

Step(case, world, fault) ==
    LET spec == case.sequence[case.ran + 1]
        e == case.ids + 1
        out == Outcome(world, spec, e)
        refused == spec.refused = "within" \/ e \in ToSet(world.evidence)
        counted == [case EXCEPT !.ids = e, !.ran = @ + 1,
                      !.history = Append(@, out.result)]
        shown == fault # "read" /\ ~Unreadable(case)
    IN  CASE spec.refused = "before" ->
               [case |-> case, world |-> world, raised |-> TRUE]
          [] spec.refused # "before" /\ refused ->
               [case |-> [case EXCEPT !.ids = Kept(@)], world |-> world,
                raised |-> TRUE]
          [] spec.refused # "before" /\ ~refused /\ fault = "write" ->
               [case |-> [case EXCEPT !.ids = e, !.partial = TRUE],
                world |-> [world EXCEPT !.evidence = Append(@, e)],
                raised |-> TRUE]
          [] OTHER ->
               [case |-> IF shown
                         THEN [counted EXCEPT !.snapshots =
                                 Append(@, Shown(case.ran + 1, out.world))]
                         ELSE [counted EXCEPT !.missed = @ \/ fault = "read"],
                world |-> out.world, raised |-> ~shown]

\* Everything, from a clean engine, up to the first step that raises; a fault may
\* strike step failing.
All(case, world, failing, fault) ==
    LET run[k \in 0..Len(case.sequence)] ==
          IF k = 0 THEN [case |-> case, world |-> world, raised |-> FALSE]
          ELSE LET before == run[k - 1]
               IN  IF before.raised THEN before
                   ELSE Step(before.case, before.world,
                             IF k = failing THEN fault ELSE "none")
    IN  run[Len(case.sequence)]

----------------------------------------------------------------------------
\* The manager.
Current == mem.cases[mem.current]
NextId == mem.counter + 1

\* A definition becomes a case of its own under a fresh id, and is current.
Register(definition) ==
    [cases |-> With(mem.cases, NextId,
                    Rebuilt([definition EXCEPT !.born = <<spent.crashes, NextId>>],
                            FALSE)),
     counter |-> NextId, current |-> NextId]

Blank == [born |-> Nothing, sequence |-> <<>>, expectations |-> <<>>,
          noted |-> FALSE]

\* Saved definitions are read in the order of their file names: test-case-10
\* before test-case-9.
NameOrder(id) == IF id < 10 THEN 11 * id ELSE 11 * (id \div 10) + (id % 10) + 1
LastByName(ids) ==
    CHOOSE id \in ids : \A other \in ids : NameOrder(other) =< NameOrder(id)

\* Mutant: the counter goes on from the last definition read.
CounterAfterLast(ids) ==
    IF ids = {} THEN 0 ELSE LastByName(ids)

CounterAfter(ids) == IF ids = {} THEN 0 ELSE CHOOSE n \in ids : \A m \in ids : m =< n

\* The manager a start makes of what is on disk: with nothing saved, one new
\* case.
Manager(ids) ==
    IF ids = {}
    THEN [cases |-> [id \in {1} |-> Rebuilt([Blank EXCEPT !.born =
                                               <<spent.crashes, 1>>], FALSE)],
          counter |-> 1, current |-> 1]
    ELSE [cases |-> [id \in ids |-> Rebuilt(files[id].definition, FALSE)],
          counter |-> CounterAfter(ids),
          current |-> LastByName(ids)]

NoManager == [cases |-> [id \in {} |-> Blank], counter |-> 0, current |-> 0]

\* A directory that cannot be used is replaced by a store in memory, silently.
Boot ==
    /\ up = "down"
    /\ LET ids == IF config.writable THEN DOMAIN files ELSE {}
       IN  IF \E id \in ids : ~files[id].whole
           THEN up' = "refused" /\ UNCHANGED <<mem, worlds>>
           ELSE /\ up' = "up"
                /\ mem' = Manager(ids)
                /\ worlds' = [id \in DOMAIN worlds \cup DOMAIN mem'.cases |->
                                IF id \in DOMAIN mem'.cases THEN BuiltWorld(id)
                                ELSE worlds[id]]
    /\ UNCHANGED <<durable, lock, pc, reply, applied, stalled, spent>>

Crash ==
    /\ up = "up" /\ spent.crashes < MaxCrashes
    /\ up' = "down" /\ mem' = NoManager /\ lock' = Nobody
    /\ worlds' = IF config.backend = "sqlite" THEN worlds
                 ELSE [id \in {} |-> EmptyWorld]
    /\ pc' = [t \in Clients |-> "idle"]
    /\ reply' = [t \in Clients |-> Nothing]
    /\ applied' = [t \in Clients |-> Nothing]
    /\ stalled' = {}
    /\ spent' = [spent EXCEPT !.crashes = @ + 1]
    /\ UNCHANGED durable

Init ==
    /\ config \in Configs
    /\ files = [id \in DOMAIN Saved |-> [whole |-> TRUE, definition |-> Saved[id]]]
    /\ up = "down" /\ mem = NoManager /\ lock = Nobody
    /\ worlds = [id \in {} |-> EmptyWorld]
    /\ pc = [t \in Clients |-> "idle"]
    /\ reply = [t \in Clients |-> Nothing]
    /\ applied = [t \in Clients |-> Nothing]
    /\ stalled = {}
    /\ spent = [requests |-> 0, crashes |-> 0, faults |-> 0]

----------------------------------------------------------------------------
\* Requests.  "plain" ones -- health, the page, samples, the reference scenario
\* -- touch no shared state and no lock; "garbled" ones have a body that is no
\* JSON.
Request(t) ==
    /\ up = "up" /\ pc[t] = "idle" /\ spent.requests < MaxRequests
    /\ \E kind \in {"waiting", "plain", "garbled"} : pc' = [pc EXCEPT ![t] = kind]
    /\ spent' = [spent EXCEPT !.requests = @ + 1]
    /\ UNCHANGED <<durable, up, mem, worlds, lock, reply, applied, stalled>>

\* It is answered before the lock is asked for.
RefuseBody(t) ==
    /\ pc[t] = "garbled"
    /\ pc' = [pc EXCEPT ![t] = "error"]
    /\ UNCHANGED <<durable, up, mem, worlds, lock, reply, applied, stalled, spent>>

Acquire(t) ==
    /\ pc[t] = "waiting" /\ lock = Nobody
    /\ lock' = t
    /\ pc' = [pc EXCEPT ![t] = "locked"]
    /\ UNCHANGED <<durable, up, mem, worlds, reply, applied, stalled, spent>>

\* _state(): what a response shows of the current case, beside the list.
State(m, ws) ==
    [current |-> m.current, listed |-> DOMAIN m.cases,
     summary |-> Summary(m.cases[m.current], ws[m.current]),
     exit |-> m.cases[m.current].exit]

\* Mutant: the lock covers the operation, not the response.
DoneUnlocked(t, m, ws) ==
    /\ pc' = [pc EXCEPT ![t] = "applied"]
    /\ mem' = m /\ worlds' = ws
    /\ applied' = [applied EXCEPT ![t] = State(m, ws)]
    /\ lock' = Nobody
    /\ UNCHANGED <<config, up, reply, stalled>>

Done(t, m, ws) ==
    /\ pc' = [pc EXCEPT ![t] = "applied"]
    /\ mem' = m /\ worlds' = ws
    /\ applied' = [applied EXCEPT ![t] = State(m, ws)]
    /\ UNCHANGED <<config, up, lock, reply, stalled>>

\* A response that is not a snapshot of the case.
Answered(t, m, ws) ==
    /\ pc' = [pc EXCEPT ![t] = "responding"]
    /\ mem' = m /\ worlds' = ws
    /\ applied' = [applied EXCEPT ![t] = State(m, ws)]
    /\ reply' = [reply EXCEPT ![t] = State(m, ws)]
    /\ UNCHANGED <<config, up, lock, stalled>>

\* Mutant: what raises ends the thread and does not let the lock go.
RaisedHolding(t, m, ws) ==
    /\ pc' = [pc EXCEPT ![t] = "idle"]
    /\ mem' = m /\ worlds' = ws
    /\ UNCHANGED <<config, up, lock, reply, applied, stalled>>

\* An exception leaves what was done and the lock; the error is sent after.
Raised(t, m, ws) ==
    /\ pc' = [pc EXCEPT ![t] = "error"]
    /\ mem' = m /\ worlds' = ws
    /\ lock' = Nobody
    /\ UNCHANGED <<config, up, reply, applied, stalled>>

Locked(t) == pc[t] = "locked"
Edit(case) == [mem EXCEPT !.cases[mem.current] = case]

\* A statement on SQLite may fail, of an interaction or of a snapshot; nothing of
\* the kind happens in memory.  MaxFaults bounds those that strike a step.
ReadFails == config.backend = "sqlite"
Faults == {"none"} \cup {fault \in {"read", "write"} :
                           ReadFails /\ spent.faults < MaxFaults}

\* Steps have run: the response, or the error of the one that raised.
Ran(t, run, fault) ==
    LET m == Edit(run.case)
        ws == [worlds EXCEPT ![mem.current] = run.world]
    IN  /\ IF run.raised THEN Raised(t, m, ws) ELSE Done(t, m, ws)
        /\ spent' = IF fault = "none" THEN spent
                    ELSE [spent EXCEPT !.faults = @ + 1]
        /\ UNCHANGED files

AddEvidence(t) ==
    /\ Locked(t)
    /\ \E spec \in Evidence :
         Done(t, Edit([Current EXCEPT !.sequence = Append(@, spec)]), worlds)
    /\ UNCHANGED <<files, spent>>

RunNext(t) ==
    /\ Locked(t)
    /\ IF Current.ran < Len(Current.sequence)
       THEN \E fault \in Faults :
              Ran(t, Step(Current, worlds[mem.current], fault), fault)
       ELSE Done(t, mem, worlds) /\ UNCHANGED <<files, spent>>

RunAll(t) ==
    /\ Locked(t)
    /\ \E fault \in Faults, failing \in {0} \cup DOMAIN Current.sequence :
         /\ fault = "none" <=> failing = 0
         /\ Ran(t, All(Rebuilt(Definition(Current), Current.exit),
                       BuiltWorld(mem.current), failing, fault), fault)

Reset(t) ==
    /\ Locked(t)
    /\ Done(t, Edit(Rebuilt(Definition(Current), FALSE)),
            [worlds EXCEPT ![mem.current] = BuiltWorld(mem.current)])
    /\ UNCHANGED <<files, spent>>

\* Renaming, tagging and noting change review metadata only.
Annotate(t) ==
    /\ Locked(t)
    /\ Done(t, Edit([Current EXCEPT !.noted = TRUE]), worlds)
    /\ UNCHANGED <<files, spent>>

\* The state, now or as it was after a step.
Read(t) ==
    /\ Locked(t)
    /\ Done(t, mem, worlds)
    /\ UNCHANGED <<files, spent>>

\* The canonical scenario is run beside the case, never on it.
ExitTest(t) ==
    /\ Locked(t)
    /\ Answered(t, Edit([Current EXCEPT !.exit = TRUE]), worlds)
    /\ UNCHANGED <<files, spent>>

\* Traces, graphs, definitions, search, and comparing cases that can be shown.
Export(t) ==
    /\ Locked(t)
    /\ Answered(t, mem, worlds)
    /\ UNCHANGED <<files, spent>>

\* The report, the verdict and the package: a snapshot, the exit test, and the
\* case rerun in memory, which raises if a step of it does -- after the exit test,
\* or before it for the verdict.
Review(t) ==
    /\ Locked(t) /\ ~Unreadable(Current)
    /\ LET m == Edit([Current EXCEPT !.exit = TRUE])
           again == All(Rebuilt(Definition(Current), FALSE), EmptyWorld, 0, "none")
       IN  IF again.raised \/ Unreadable(again.case)
           THEN \E n \in {mem, m} : Raised(t, n, worlds)
           ELSE Answered(t, m, worlds)
    /\ UNCHANGED <<files, spent>>

\* No report of a case that cannot be shown, nor a comparison with one.
ShowFails(t) ==
    /\ Locked(t)
    /\ ReadFails \/ \E id \in DOMAIN mem.cases : Unreadable(mem.cases[id])
    /\ Raised(t, mem, worlds)
    /\ UNCHANGED <<files, spent>>

Select(t) ==
    /\ Locked(t)
    /\ \E id \in DOMAIN mem.cases : Done(t, [mem EXCEPT !.current = id], worlds)
    /\ UNCHANGED <<files, spent>>

Opened(t, definition) ==
    /\ Locked(t)
    /\ Done(t, Register(definition), With(worlds, NextId, BuiltWorld(NextId)))
    /\ UNCHANGED <<files, spent>>

NewCase(t) == Opened(t, Blank)
Duplicate(t) == up = "up" /\ Opened(t, Definition(Current))
LoadSample(t) == Opened(t, Sample)
Import(t) == Opened(t, Imported)

\* A definition that cannot be read uses up an id; an unknown case nothing.
ImportFails(t) ==
    /\ Locked(t)
    /\ \E n \in {mem.counter, NextId} : Raised(t, [mem EXCEPT !.counter = n], worlds)
    /\ UNCHANGED <<files, spent>>

\* Saving truncates the file, then writes it.
OpenFile(t) ==
    /\ Locked(t)
    /\ pc' = [pc EXCEPT ![t] = "saving"]
    /\ files' = IF config.writable
                THEN With(files, mem.current,
                          [whole |-> FALSE, definition |-> Definition(Current)])
                ELSE files
    /\ UNCHANGED <<config, up, mem, worlds, lock, reply, applied, stalled, spent>>

WriteFile(t) ==
    /\ pc[t] = "saving"
    /\ files' = IF config.writable THEN [files EXCEPT ![mem.current].whole = TRUE]
                ELSE files
    /\ Done(t, mem, worlds)
    /\ UNCHANGED spent

WriteFails(t) ==
    /\ pc[t] = "saving" /\ config.writable /\ spent.faults < MaxFaults
    /\ Raised(t, mem, worlds)
    /\ spent' = [spent EXCEPT !.faults = @ + 1]
    /\ UNCHANGED files

Render(t) ==
    /\ pc[t] = "applied" /\ ~Unreadable(Current)
    /\ reply' = [reply EXCEPT ![t] = State(mem, worlds)]
    /\ pc' = [pc EXCEPT ![t] = "responding"]
    /\ UNCHANGED <<durable, up, mem, worlds, lock, applied, stalled, spent>>

\* The operation stands, whether or not its state can be shown.
RenderFails(t) ==
    /\ pc[t] = "applied" /\ (ReadFails \/ Unreadable(Current))
    /\ Raised(t, mem, worlds)
    /\ UNCHANGED <<files, spent>>

\* The response is written under the lock.  When the client is gone, so is the
\* error that would report it: the operation stands, unanswered.
Sent(t) ==
    /\ pc[t] \in {"responding", "error", "plain"} /\ t \notin stalled
    /\ pc' = [pc EXCEPT ![t] = "idle"]
    /\ lock' = IF lock = t THEN Nobody ELSE lock
    /\ reply' = [reply EXCEPT ![t] = Nothing]
    /\ applied' = [applied EXCEPT ![t] = Nothing]
    /\ UNCHANGED <<durable, up, mem, worlds, stalled, spent>>

\* A client that neither reads nor hangs up; no timeout is set.
Stall(t) ==
    /\ pc[t] \in {"responding", "error", "plain"} /\ t \notin stalled
    /\ stalled' = stalled \cup {t}
    /\ UNCHANGED <<durable, up, mem, worlds, lock, pc, reply, applied, spent>>

Operation(t) ==
    \/ AddEvidence(t) \/ RunNext(t) \/ RunAll(t) \/ Reset(t) \/ Annotate(t)
    \/ ExitTest(t) \/ Read(t) \/ Export(t) \/ Review(t) \/ ShowFails(t)
    \/ Select(t) \/ NewCase(t) \/ Duplicate(t)
    \/ LoadSample(t) \/ Import(t) \/ ImportFails(t) \/ OpenFile(t)

Serve(t) == \/ RefuseBody(t) \/ Acquire(t) \/ Operation(t) \/ WriteFile(t)
            \/ WriteFails(t) \/ Render(t) \/ RenderFails(t) \/ Sent(t)

Next == \/ Boot \/ Crash
        \/ \E t \in Clients : Request(t) \/ Serve(t) \/ Stall(t)

\* A thread that has a request goes on with it; clients need not send one, nor
\* read on, and nobody has to start the process.
Spec == Init /\ [][Next]_vars /\ \A t \in Clients : WF_vars(Serve(t))
=============================================================================
