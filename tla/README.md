# Formal models of the Sanuvia reasoning engine

TLA+ modules for the engine under `src/src/sanuvia` (application, domain,
in-memory and SQLite stores, the HTTP review harness) and for phase 1 under
`src/sanuvia-phase1` (the boundary to the model, the governed execution of
run 003, the gates before it), TLC configurations that check them on small
instances, and TLAPS proofs of what matters most for every instance. Source
paths below are relative to `src/src/sanuvia/`, in the parts on phase 1 to
`src/sanuvia-phase1/src/sanuvia_phase1/`.

    tlc -workers 2 -config MCSupport.cfg MCReasoning     # a run
    tlapm ReasoningCore_proofs.tla                       # the proofs

## 1. Inventory

### Components, their state and operations

| component | source | state | operations |
|---|---|---|---|
| service boundary | `application/api/service.py` | none of its own | `record_interaction`, capability gate |
| unit of work | `application/reasoning/unit_of_work.py` | snapshot tokens, open flag | `begin`, `commit`, `restore` |
| core loop | `application/reasoning/core_loop.py` | none | `ingest`: ownership gate, plan, validate, commit |
| revision engine | `application/reasoning/model_revision.py` | `_RevisionRun`, one per interaction | `plan`, `ingest`, `_apply_decision`, `_strengthen`, `_contradict`, `_weaken`, `commit_plan` (the sole writer) |
| identity | `application/reasoning/identity.py` | none | `adjudicate`, resolver governance (rule R1a) |
| plan validation | `application/reasoning/plan_validation.py` | none | checks 1-11 over the complete plan |
| handles | `application/reasoning/handles.py` | the request's handle table | closed candidate sets, resolution |
| scoring, config | `application/reasoning/scoring.py`, `config.py` | thresholds | pure arithmetic |
| stores | `adapters/persistence/in_memory.py` | evidence and source-ref index, evaluations, ledger, anomalies, edges, lineages, statement versions, adjudications, model versions and pointer, ids | add, read, snapshot, restore |
| SQLite bundle | `adapters/persistence/sqlite_*.py`, `codec.py` | the same without lineages, over one connection | open and migrate, write (each its own transaction), query, reset |
| review harness | `adapters/http/` | test cases, current case, counter, definition files, the lock | new, select, author, run, reset, duplicate, import, restart; derived views |
| exit test | `exit_test/` | session state, traces | scripted scenario, reasoning graph |
| model boundary | `validation.py`, `participants.py`, `standing.py`, `*/external.py` | labels of one request | compose a request, parse and validate a reply |
| stage 1 | `run003_stage1.py`, `pipeline.py`, `capture.py`, `manifest.py`, `failures.py` | the evidence directory, manifest, audit, records of three conditions | claim, configure, extract, run conditions, observe, report |
| gates | `preflight.py`, `readiness.py`, `governance.py`, `runconfig.py`, `__main__.py` | freeze record, readiness evidence | preflight, readiness, configuration guard |
| backends | `llama_server_backend.py`, `qwen.py` | call log | one model call, detection of what is installed |

### How they interact

A caller's `record_interaction` opens the unit of work (a snapshot of every
store and of the identifier generator), mints evidence ids and calls
`CoreLoop.ingest`. That plans: each appraisable observation becomes one call
to the appraiser; divergences are recorded, candidates adjudicated against
committed lineages and those in flight (perhaps through the identity
resolver), then the response's bearings are applied to the plan's working
evaluations. The complete plan is validated, and `commit_plan` writes store
after store. Any exception anywhere restores the snapshot, identifiers
included, and is passed on. Everything is one synchronous call: what
interleaves is not threads but the places an exception can strike, the order
of the items in a response, and what one plan sees of its own earlier work.

The harness holds one engine and one bundle per test case; a thread per
request takes one lock around operation, rendering and response. Definitions
of cases are saved to files, reasoning state is not: after a restart a case is
rebuilt and rerun, over a database that may still have the rows of before.

Stage 1 claims its evidence directory, then drives three conditions over one
transcript. Each turn asks the model for evidence, and the Sanuvia condition
then asks for appraisals and identity decisions through the engine. Every
reply goes through `ModelBoundary`'s validators; a recording proxy and
observers write the audit and the files as the run goes on. The gates are
commands of their own: nothing in `execute()` consults them.

### What is hard

* **Read-before-write inside one plan.** Adjudication views and check 10 are
  built from the stores, the evaluations from the plan. An item of a response
  is judged against state an earlier item of the same plan has already moved.
* **Failure between two writes**, between two restores, and before the
  boundary opens.
* **Threshold crossings** in the middle of a plan decide whether a
  contradiction is an anomaly or an ordinary weakening.
* **Selective commit policies**: events and evaluations are filtered, edges,
  working set, lineages and versions are not, or otherwise.
* **One evidence store, several scopes**: references are unique across scopes,
  divergence must stay inside one.
* **Durable stores without a transaction around an interaction**, a migration
  in which the driver opens transactions only before row changes, and a reset.
* **A harness that is killed and restarted**: files half written, counters
  rebuilt from what was saved, rows without a case.
* **One authorised execution**: two processes, kills and interrupts at every
  step, failing calls and failing writes, and evidence that has to be true of
  all of them.
* **Views of one history computed separately**, from results, snapshots and
  stores, that must not contradict each other.
* **Gates that read a machine that moves on** between two reads.

`PROJECT.json` lists each hazard at its line with the properties that watch it.

### What makes each component correct

* service and unit of work: with a rollback boundary an interaction happens
  completely or not at all, and gives its identifiers back
  (`ImplementsAtomicInteractions`);
* write order of `commit_plan`, where no rollback boundary undoes half a plan:
  what is left lacks what it names only where the code writes ahead of it, and
  nothing an interaction with a version wrote lacks anything
  (`OnlyUnversionedDangle`);
* revision: evidence counts once, on one side, and only if admitted and
  appraisable; ledger, edges, evaluations, anomalies and model tell one story;
* identity: one statement per lineage and bound, no inversion, opposition is
  never recorded without a contradiction;
* policy: what is declined leaves no orphan and no half-written lineage;
* admission: references resolve, divergence joins accounts of two people about
  the same one in one shared space;
* durable stores: a migration drops no row and gives none to another subject,
  and whatever is on disk after a crash can be read back;
* harness: a case is what rerunning its sequence gives, a file keeps its case,
  every request is answered with the state it left, the panels agree;
* stage 1: one attempt reaches the model, and what it leaves on disk is true
  wherever it stops;
* model boundary: a refused reply yields nothing, a label means somebody only
  in the request it was minted for;
* gates: a PASS vouches for one server, or for the run it is asked about.

## 2. Modules

| module | what it is |
|---|---|
| `Scoring` | `scoring.py` in fixed point (`Unit` stands for 1.0, rounding down) |
| `ReasoningCore` | one (space, subject) scope of the engine: plan, validate, commit |
| `ReasoningInvariants` | types and properties of `ReasoningCore`, and its refinement mapping |
| `Understanding` | abstract specification: evidence in, monotone evidence sets out |
| `InteractionCommit` | service boundary and unit of work, store by store |
| `AtomicInteractions` | abstract specification: an interaction is one step |
| `EvidenceAdmission` | several scopes over one evidence store: references, roles, divergence |
| `ModelBoundary` | pure: replies of the model as JSON, the strict validators, labels, standing |
| `StageOneRun` | the governed execution, call by call and file by file; extends `ModelBoundary` |
| `SingleAttempt` | abstract specification: an attempt can be given back until it has had effects |
| `StageOneProperties` | properties of `StageOneRun` and its refinement mapping |
| `ReasoningGraph` | pure: nodes and edges of `build_graph`, and whether an edge dangles |
| `TestCaseViews` | pure: the derived views of a test case |
| `ReviewHarness`, `ReviewProperties` | manager, definitions on disk, requests and lock; extends `TestCaseViews` |
| `SqliteStore`, `StoreProperties` | connection, migration, writes, queries, reset; extends `ReasoningGraph` |
| `RunConfiguration` | pure: freeze record, configurations, the guard of both modes |
| `RunGates` | preflight and readiness on a changing machine; extends `RunConfiguration` |
| `MCReasoning`, `MCCommit`, `MCAdmission`, `MCStageOne`, `MCReview`, `MCStore`, `MCGates` | instances for TLC, some with several configurations |
| `InteractionCommit_proofs`, `ReasoningCore_proofs`, `EvidenceAdmission_proofs`, `Review_proofs`, `StageOne_proofs`, `Store_proofs`, `RunGates_proofs` | TLAPS proofs about the module each is named after |
| `ReasoningStores_proofs` | on top of `ReasoningCore_proofs`: the stores and the refinement; ledger, anomalies and model |

The three component models meet at `commit_plan`. `InteractionCommit` shows
that closing an interaction is atomic, which is what lets `ReasoningCore` and
`EvidenceAdmission` take `Hold`, `Commit` and `Admit` as one step.
`EvidenceAdmission` keeps the hypothesis-independent part of the plan (source
references, divergence) and `ReasoningCore` the rest; the two parts share no
variable in the code but the evidence ids, and neither reads what the other
writes.

### ReasoningCore and the code

* The variables up to `current` are the governed stores. Evaluations,
  versions and lineages are functions over `1..MaxHypotheses`; an id not yet
  issued has no record, no version and the bound `NoKey`.
* `plan` is `_RevisionRun`: batch and index of the current observation, the
  reserved model id, working evaluations, lineages in flight, pending versions,
  evaluations, events, edges, anomalies and parked candidates, and the items
  of the response consumed so far, which validation reads.
* `plan.ids` are the live counters; `ids` holds them as of the last closed
  interaction, which is what a restore returns to.
* A response is chosen item by item in the order the engine consumes it:
  candidates first (one action per identity outcome), then bearings.
  `MatchCommitted`, `ParkOpposedMatch`, `MatchInFlight`, `FoundDistinct`,
  `ParkAmbiguous`, `ResolverMatch`, `ResolverRefine` and `ParkOpposedMerge`
  are the branches of `adjudicate`, `_govern_resolver_decision` and
  `_apply_decision` together; `BearSupports`, `BearWeakens` and the two
  `BearContradicts...` those of the bearing loop, `_contradict` and `_weaken`.
* Ways to close: `Commit`, `Hold`, `RejectAppraisal` (a governed rejection
  while planning), `RejectPlan` (complete-plan validation), `Breach` (the
  overlap invariant of `Hypothesis`), `Interrupt` (any other exception).
* The commit policy is the set `CommitOutcomes` of outcomes it lets commit.
  It filters evaluations and events only, as in `plan()`.

Abstracted: statements and claim classes are members of `Texts` (equal means
equal after normalisation), a bound is a member of `Keys`; the temporal scope is
part of the text; an inquiry is a flag; predictions are the set of hypotheses
that have one. Left out: trajectory hints, `DERIVED_FROM` edges, rationales,
audit text, timestamps.

### InteractionCommit and the code

A store's content is a row for each interaction that wrote to it, the
interaction's identifier and the stores of its plan.
`begin` copies stores and counter; `Mint` is any `ids.new_id`; `Validated`
picks the stores the plan writes (`HoldPlans` or `CommitPlans`); `WriteStore`
follows `WriteOrder` one store at a time; `Raise` may strike before and after
every write, and with a boundary leads to `RestoreStore` one by one and
`RestoreIds`. The current-model pointer is a slot of its own, though it lives
in the world-model store. `snapshotable` and `semanticState` say what the bundle
is and never change: with neither it is the legacy bundle that runs without a
boundary, with `semanticState` alone it is refused (`MayRun`). For a bundle with a
boundary `AtomicInteractions` is all or nothing; for one without it also allows an
interaction to take effect in part (`PerformPartly`), under its own identifier and in
stores of its plan.

`References` lists which stores' rows name which other's within one plan (the id
fields of the domain records, the endpoints of edges). Most are written after
what they name; `WrittenAhead` are the ones `commit_plan` writes first:
`DERIVED_FROM` edges before the predictions they start from
(`model_revision.py:979-982`), and evaluations, statement versions, events and
predictions before the version they carry (:992). In a legacy bundle an
exception in between leaves such rows for good, naming something that never
follows; later interactions read them, and may list the hypothesis of an
abandoned one in a version of their own. `OnlyUnversionedDangle` says this is all:
no other pair of `References` is ever broken, and none at all for an interaction
whose version, and so whose pointer, was written. Names of earlier interactions'
rows come from the stores and are not in `References`; whether a plan carries the
rows its own rows name is the subject of `ReasoningInvariants` (`ReferencesResolve`,
`LedgerExplainsRecords`), and edges of declined events do not (section 5).

### EvidenceAdmission and the code

Records get ids when the interaction opens; each appraisable one may name
partners from its candidate set (`Eligible` is rules 2-6b, `Pool` rule 9,
`MaxCandidates` rule 8, `SharedScopes` rule 7). `Valid` is checks 2(e), 7, 8a,
8b and 9(a); check 9 is evaluated per appraised observation and so not at all
in a batch without one, which `RolesAgree` keeps. `Admit` writes evidence,
index and edges; a later record of a batch overwrites the index entry of an
earlier one with the same reference.

### ModelBoundary, StageOneRun and the code

A reply is a JSON value as a record (`Str`, `Num`, `Obj`, `List`, ...) or
`NotJson`; `ValidExtraction`, `ValidAppraisal`, `ValidIdentity` and
`ValidBaseline` follow the validators field by field and say whether a reply is
accepted; `Items`, `Standing` and `Proposals` are what is then read from it. Texts and numbers are as coarse as the checks are. A label is a
pair, request and position: `Resolvable` is what `resolve_participant` knows.

`StageOneRun` has a process variable `pc` per started process, the evidence
directory `disk`, and the `run` of the process that owns it. `CheckExists` and `MakeDirectory` are
the claim, `run.phase` the step of `execute()`; a condition goes through turns,
a turn through calls: `Send`, then `Answer` with any reply of the instance or any
failure of the backend, then the step that takes it, `Malformed` or `CallFails`. `CallStatus` is how
`call_with_recording` and the backend type a failure. Observers write after each step
and may fail there; `Interrupt` may come anywhere in the pipeline
(`execute()` catches it there), `Kill` at any point after the claim. The engine's own
decisions are the nondeterminism of the Sanuvia turn (`ReasoningCore` has them).
`SingleAttempt` is implemented under the mapping "holder is the owner of the
directory, effects are model calls".

### ReviewHarness, TestCaseViews and the code

`mem` is the manager, `worlds` what the stores of each case hold, `files` the
saved definitions; the engine is the constant operator `Interaction`, so what
is checked is the harness and not the engine again. A request takes the lock,
applies one operation of `controllers`, renders and responds; an operation is one
step because the lock makes it one, except that a save may fail or be cut by
a crash (a torn file). A step of a case (`Step`) may raise at three places: before
the interaction or within its writes, and then it does not count; or afterwards,
when `_advance` has counted it and takes its snapshot, because the comparison with
an imported expectation raises (`None` in `expectations`, `Unreadable`) or a read on
SQLite fails. Then results and stores are one step ahead of the snapshots, and stay
so. Two fields of the model are no fields of the code: `partial` and `missed`
remember that an interaction or a read has failed on SQLite since the last rebuild.
Most responses are a snapshot of the current case (`Done`, then `Render` or
`RenderFails`); exports, search and the exit test are not (`Answered`), and the report
takes one and reruns the case in memory (`Review`).
`TestCaseViews` has one operator per method of `TestCase` that derives a panel.

### SqliteStore and the code

`live` is what the connection sees, `disk` what is committed, `pending` whether
the driver has a transaction open. The migration is a script of statements
(`Script`), each with its effect and whether it changes rows; a crash leaves
`disk`. Writes follow the order of `commit_plan`, one commit each. A legacy row
remembers in `writer` the subject it was written for, which no column does:
that is what recovery is measured against. A query is the set of rows it selects,
except where stored order decides (`LatestPerId`); what it is asked for is the
subject, the space and, for the pointer and a version, the key.

### RunGates and the code

A readiness command refuses or claims its directory, then reads process,
`/props`, digest and probe in separate steps, and writes two files; it may die
anywhere. Between any two of these another server may be started in place of the
running one, the server stopped or an artifact replaced. A path stands for
the file it resolves to, a content for its digest. Preflight detects what is
installed, then judges. It and readiness write nothing the other reads, so a
behaviour has one or the other. Its two checks on the source tree (prompt
drift, import isolation) are left out.

## 3. Runs

Pass (states are distinct states):

| run | instance | shows |
|---|---|---|
| `MCIdentity` (0.26 M) | one bound, 3 stances, resolver, commit-all, 3 interactions of one weak observation, 2 candidates and 1 `contradicts` bearing each, 2 lineages | `NoInversionBetweenInteractions`, `DuplicatesConfinedToOnePlan`, `OppositionIsContradicted`, `ImplementsUnderstanding`, types |
| `MCSupport` (0.6 M) | all three bearings, strong, weak and non-appraisable observations, 2 texts, one stance | evidence sets, `LedgerExplainsRecords` (edges and supersession included), `AnomaliesDecide`, `ModelRereadsStore` |
| `MCPolicy` (15 k) | a policy that declines `HYPOTHESIZE`, no resolver, 2 bounds, fairness | `ReferencesResolve`, `EvidenceIdsGapless`, `UnderstandingMovesWithModel`, `InteractionsClose` |
| `MCCommit` (0.5 M) | every bundle, snapshotable or not, with the semantic-state stores (13) or without (10); 2 identifiers | `ImplementsAtomicInteractions`, `OnlyUnversionedDangle`, types |
| `MCAdmission` (1.1 M) | a shared and a private scope, 2 references, 2 participants, 2 roles, batches of 2, 3 records | types, `DivergencesJoinSharedAccounts`, `RefsReusedOnlyInOneBatch` |
| `MCStageOne` (0.26 M) | 2 processes, 3 turns of which one a hold, a roster with a repetition and an empty one, up to three replies per boundary, every failure | the seven properties of `StageOneProperties` |
| `MCReview` (0.2 M) | 2 clients, 3 requests, a crash, a failing write or read, two saved cases, an imported one whose first expectation cannot be read; SQLite with a usable directory, memory without | the six properties of `ReviewProperties` |
| `MCStore` (0.7 M) | databases of 0, 1 and 2 subjects, 2 interactions, 2 failures (crashes, failing writes), a reset | `MigrationPreservesRows`, `OwnersRecovered`, `StoreReadable` |
| `MCGates` (0.4 M) | 2 commands, 2 directories, 2 paths, 5 servers, one wrong in each respect, 3 machines, 3 freeze records, one change of the machine during a check | `ReadinessVouches`, `EvidenceStands`, `PreflightVouches` |

Why the bounds are enough. Every property of `ReasoningCore` relates at most
two lineages and two successive states of one of them. In `MCIdentity` two
candidates per response give state moved earlier in the same plan, and three
interactions are the shortest history in which a lineage has turned
(affirms, open, negates) and its oldest statement is presented again, which is
when `ParkOpposedMatch` happens; stances tell statements apart. Its thresholds
sit where a single weak observation establishes support, so contradictions of
established understanding occur. `MCSupport` and `MCPolicy` have batches of two
observations in two interactions; `MCSupport` has both a disposition that
revises (reliability 8 of 8) and one that escalates (3 of 8). In `MCCommit` two
identifiers are two interactions, one abandoned and one not; fourteen positions
times every plan is every place an exception can strike, over each of the four
bundles; where nothing is restored a second interaction works on what the first left.
In `MCAdmission` three records are a committed one and a batch of two, and `MaxCandidates = 1` makes
the cut bite.

In `MCStageOne` three turns are one before the hold, the hold and one after:
labels of another turn, a context with a gap, a rejected turn followed by
others. A second process is one competitor for the claim; more see the same
directory. Runs stop at their first failure, so combinations of failures do
not arise. In `MCReview` three requests, of one client or of two, are a case opened,
run and run again, or two steps and an operation of the other client between them. That
is enough for a step that counts without its snapshot, its read having failed, to be
followed by one that gets it, and for an imported case to go on after an expectation
that cannot be read. The cases saved at first are numbered 9 and 10, so that
lexicographic and numeric order differ, and the first of them has a spec that fails.
In `MCStore` two failures are a crash in the migration and one in the migration of
what that left, or two among the writes, or one of each; the theorems about the store
hold for any number. In `MCGates` servers run from the start in some
initial states, and one change replaces a server by another between two reads; a second
replacement could only undo the first. The two commands are interchangeable
and the configuration declares that symmetry; no liveness is checked there.

`MCPolicy` declines every founding event: a hypothesis comes to be held only if
a later observation of the same plan matches it and that event commits. Then
lineage, versions and evaluations must appear together although the first
evaluation was dropped, which is the case the guard in `commit_plan` is for.

Violation (the code does something a comment or a document rules out; each is
a finding in `PROJECT.json`):

| run | statement | what happens |
|---|---|---|
| `VRefineAnomaly` | no support by an observation that is an anomaly | check 2(f) knows matches, not refinements |
| `VMalformed` | a malformed reply is recorded as such and never as a success | the call is recorded before the reply is validated |
| `VMigration` | a legacy row is quarantined rather than given to another subject | two subjects used one id: the first model row that names it wins |

Other disagreements met while modelling, which have no run of their own. The
first five are stated at the end of `ReasoningInvariants` and
`EvidenceAdmission`, and TLC refutes them when they are added to the run named.

* `LineageNeverInverts` (`MCIdentity`): the comment at `identity.py:160` says a
  lineage can never invert its own stance; affirms, refined to open, refined
  to negates does. `NoInversionBetweenInteractions` is what holds.
* `ContradictionHasAnomaly` (`MCSupport`): `model_revision.py:814` has anomaly
  first; a `WEAKENS` bearing crosses the threshold without one.
* `ConflictsAreRejected` (`MCSupport`): bearings are applied before validation,
  so conflicting ones end as an internal breach, not as check 2(c) intends.
* `ModelRereadsStore` under the policy of `MCPolicy`: the active set holds what
  the policy declined; `model_revision.py:1162` calls it equivalent to a re-read.
* `MappingOneToOne` (`MCAdmission`): two records of one batch may share a source
  reference; the index forgets the first (`evidence.py:45`).
* `verdict()` may fail a case for an uncertainty that happened not to move.
* A save is reported as done also when the manager has fallen back to keeping
  definitions in memory.
* An interaction cut short on SQLite leaves a hypothesis without its ledger
  event, or an event whose model version was never written; both can be read.
* The migration puts aside a hypothesis that no version names if there are two
  subjects, also one that an event of the ledger names: an interaction cut short
  between the two left it so. Its graph then has an edge to nowhere (`StoreReadable`
  is refuted with `Legacy <- MCTorn`).
* A step whose snapshot raises stays counted. After an import with an expectation
  that is no object (nothing validates it) the first step is run and kept although
  its request fails, and so does every later response that shows the case. After a
  failed read on SQLite the later snapshots move up: `get_step`, whose docstring has
  "the view as of `step`" (`controllers.py:126`), and the comparison, which pairs
  snapshot i with expectation i, show another step. `HistoryIsReplay` says what
  does hold then.
* An operation may be applied and its response lost; the client cannot tell.
* In stage 1 `steps_completed` is one ahead of `progress.jsonl` when the write
  of that very line failed; a configuration refused after the claim uses it up.
* `execute()` consults neither gate, and `preflight-real` as a command builds
  its configuration without participants, so it never passes.
* Readiness compares the path a server was started with and the digest of the
  file that is there now: a server whose file was replaced since is passed.
  `ReadinessVouches` therefore excepts it, and a change between two reads;
  without the exception TLC refutes it.

### Fairness

`FairSpec` adds `WF_vars(Step)`: once an interaction is under way the engine
keeps going. That is the scheduling the code has: one synchronous call in one
thread, loops over finite batches and finite responses, and an appraiser or
resolver that either answers or raises. No fairness is assumed of callers
(`RecordInteraction`) or of failures (`Interrupt`). `Interrupt` could rescue a
stuck interaction but is owed no fairness, so it is `InteractionsClose` that
finds one: a mutant of `Hold` that forgets plans without an appraised
observation shows it. A disjunct for "no further call" keeps a quiet, idle
engine from counting as a deadlock.

`StageOneRun` and `ReviewHarness` state weak fairness too, of a process's own
steps and of the threads of the server: one sequential program whose model
calls return or time out (`timeout` of the backend), and, for each thread of
the server, its next step, the lock included. Weak fairness is enough for the
lock because an instance bounds the requests: once the others are used up, a
waiting thread finds it free and stays able to take it. A Python `Lock` promises
no more than that; under an endless stream of requests it could starve a thread.
None is assumed of crashes, kills, interrupts, clients that stop reading, or
of anybody starting a request or a run. These models stop when their bounded
requests and attempts are used up, so their configurations say
`CHECK_DEADLOCK FALSE`, as do `MCStore` and `MCGates`.

## 4. Proofs

| theorem | statement |
|---|---|
| `InteractionCommit_proofs!InteractionsAreAtomic` | `Spec => ImplementsAtomicInteractions`, all or nothing where there is a rollback boundary |
| `InteractionCommit_proofs!OnlyAbandonedDangle` | `Spec => []OnlyUnversionedDangle`, with or without a rollback boundary |
| `InteractionCommit_proofs!TypeCorrect` | `Spec => []TypeOK` |
| `ReasoningCore_proofs!TypeCorrect` | `Spec => []TypeOK` |
| `ReasoningCore_proofs!IdsAreGapless` | `Spec => []EvidenceIdsGapless` |
| `ReasoningCore_proofs!SidesAreDisjoint` | `Spec => []EvidenceDisjoint` |
| `ReasoningCore_proofs!EvaluationsAreGrounded` | `Spec => []GroundedInEvidence` |
| `ReasoningStores_proofs!ReferencesAlwaysResolve` | `Spec => []ReferencesResolve` |
| `ReasoningStores_proofs!UnderstandingMoves` | `Spec => UnderstandingMovesWithModel` |
| `ReasoningStores_proofs!EngineImplementsUnderstanding` | `Spec => ImplementsUnderstanding` |
| `ReasoningStores_proofs!StancesKeptBetweenInteractions` | `Spec => []NoInversionBetweenInteractions` |
| `ReasoningStores_proofs!LineagesStayApart` | `Spec => []DuplicatesConfinedToOnePlan` |
| `ReasoningStores_proofs!EffectsAreSingle` | `Spec => []OneEffectPerObservation` |
| `ReasoningStores_proofs!LedgerAlwaysExplains` | `Spec /\ AllOutcomes => []LedgerExplainsRecords` |
| `ReasoningStores_proofs!ModelAlwaysRereads` | `Spec /\ AllOutcomes => []ModelRereadsStore` |
| `ReasoningStores_proofs!AnomaliesAlwaysDecide` | `Spec /\ AllOutcomes => []AnomaliesDecide` |
| `ReasoningStores_proofs!OppositionsAreContradicted` | `Spec /\ AllOutcomes => OppositionIsContradicted` |
| `EvidenceAdmission_proofs!TypeCorrect` | `Spec => []TypeOK` |
| `EvidenceAdmission_proofs!DivergencesJoin` | `Spec => []DivergencesJoinSharedAccounts` |
| `EvidenceAdmission_proofs!RefsNotReused` | `Spec => RefsReusedOnlyInOneBatch` |
| `RunGates_proofs!ReadinessAlwaysVouches` | `Spec => []ReadinessVouches` |
| `RunGates_proofs!EvidenceAlwaysStands` | `Spec => EvidenceStands` |
| `RunGates_proofs!PreflightAlwaysVouches` | `Spec => []PreflightVouches` |
| `Review_proofs!HistoryIsReplayAlways` | `Spec => []HistoryIsReplay` |
| `Review_proofs!OwnReplyAlways` | `Spec => []OwnReply` |
| `Review_proofs!FilesKeepTheirCaseAlways` | `Spec => FilesKeepTheirCase` |
| `StageOne_proofs!SequencesArePaired` | `Spec => []PairedSequences` |
| `StageOne_proofs!LabelsStayInTheirTurn` | `Spec => []LabelsOfOwnTurn` |
| `StageOne_proofs!NeverAskedTwice` | `Spec => []AskedOnce` |
| `StageOne_proofs!EvidenceTellsTheDisk` | `Spec => []EvidenceMatchesDisk` |
| `StageOne_proofs!ManifestAccounts` | `Spec => []CallsAccounted` |
| `StageOne_proofs!ExecutionIsOneAttempt` | `Spec => ImplementsSingleAttempt` |
| `Store_proofs!StoreInductive` | `Spec => []StoreInv`, the inductive invariant |
| `Store_proofs!MigrationPreservesRowsAlways` | `Spec => []MigrationPreservesRows` |
| `Store_proofs!OwnersRecoveredAlways` | `Spec => []OwnersRecovered`, if every legacy database keeps its subjects apart (`SubjectsApart`) |
| `Store_proofs!StoreReadableAlways` | `Spec => []StoreReadable`, if every legacy database is coherent (`Coherent`) |

They hold for every value of the constants under the assumptions declared in
`Scoring`, `ReasoningCore`, `InteractionCommit`, `EvidenceAdmission`, `StageOneRun`,
`ReviewHarness`, `SqliteStore` and `RunGates`: thresholds and reliabilities in the unit interval,
vocabularies within the code's enums, bounds natural numbers, marks such as `None`
that are no file, reply or process, saved definitions that are finitely many and
numbered from 1, legacy databases whose rows have no space, whose tables were
created together and which have an `evidence` table if they have any row, and whose
rows belong to who wrote them where a column says whose they are. No assumption bounds a batch, a response, a transcript or the
number of hypotheses, processes, commands, servers, clients or cases. Every
safety property, action property and refinement that the runs of these
components check is proved, but for those named at the end;
those that need the policy below say so.

**AllOutcomes.** Four theorems have the hypothesis `CommitOutcomes = Outcomes`,
the policy the code comes with (`MCIdentity` and `MCSupport` are instances). It is
needed: a policy that declines an outcome drops an event whose evaluation the
next one of the same plan builds on, so the ledger no longer explains the
chain, and TLC refutes `ModelRereadsStore` under the policy of `MCPolicy`. What
holds under every policy has no hypothesis.

**InteractionCommit.** `OnlyUnversionedDangle` is not inductive: a write in the
middle of a commit is only right because of what has been written before the
cursor, and a restore only because the snapshot was consistent. The inductive
invariant adds that while an interaction is open stores equal the snapshot, that
while writing they equal the snapshot plus this interaction's row exactly up to
the cursor, that while restoring they equal the snapshot up to the cursor, that
the plan in force is one of `Plans`, that no row of the snapshot is under an
identifier not yet issued, so this interaction's is in none of its stores, and
that the snapshot itself is consistent. The one fact about the code it rests on
is `ReferencesFollowOrder`: a store written before one it names is in
`WrittenAhead`, and none names the pointer. Atomicity then follows by cases:
`CommitUnit` is one `AtomicInteractions` step, `RestoreIds` and every other action
a stutter, except that a `Raise` without a boundary performs the interaction in part;
what it performs is what the invariant says has been written up to the cursor.

**ReasoningCore.** Groundedness is not inductive over the stores: evaluations
are built in the plan, from evidence not yet admitted. The inductive invariant
adds that the batch is numbered from the counter on, that committed
evaluations rest on admitted appraisable evidence with disjoint sides
(`StoresGrounded`), that those of the plan rest on evidence either admitted or
in the batch up to the current observation, that an observation being
appraised is appraisable, and that bearings come only after all candidates.
The proof has one step per action; `Revised`, `Strengthened`,
`Weakened`, `Founded` and `Versioned` have lemmas of their own about what they
preserve, and all actions that only edit the plan go through them.

**ReasoningStores.** Adjudication has eight actions and bearings four, but to
the stores each is the same kind of step: a *turn*, which evaluates at most
one lineage, adds at most one statement version or founds one lineage, and
touches nothing else. `AdjudicateIsTurn` and `BearIsTurn` establish that once;
the invariants are proved over turns. `SInv` adds to the invariant above that
the plan continues the stores: lineages in flight have ids no store has,
whatever the plan writes carries its model version, every event's hypothesis is
evaluated, and evidence sets only grow, by evidence of this interaction. That is
what `commit_plan` needs when a policy lets only part of a plan through, and the
refinement of `Understanding` is then a `Commit` mapped to one step and everything
else to a stutter. `IdentityInv` says of the statements a plan words what exact
match and rule R1a have checked: they neither invert the committed stance of
their lineage nor repeat a committed statement of the same bound.

**ReasoningStores, the ledger.** Four invariants, each on top of the one before. `EffectInv`:
two events of a plan with one lineage and one observation mean that the appraiser
repeated a handle, which check 2(a) refuses before anything is committed. This is
the pattern of the whole part: a plan may be wrong, and is then known to carry
what validation looks for. `StoryInv`: committed ledger, evaluations and edges
agree, and appending the plan's would still leave them so, the chain of
superseded evaluations included. `AnomalyInv`: the plan's anomalies and the
events that announce or carry out a weakening agree, unless a handle is repeated.
`OppositionInv`: every contradiction the appraiser reported has left an edge or an
anomaly, and everything worded or parked was said; check 10 over what was said
then gives the property.

**EvidenceAdmission.** The invariant says of the plan under way that its batch is of
its scope and that its pairs join accounts as admitted ones must, and of the index
that it covers every admitted record: a check against the index is then a check
against the records, which is what keeps references apart across scopes.

**RunGates.** `GatesInv` has four parts: which fields a command has at which place;
that a claimed directory belongs to one command and holds exactly what that one
has written; that what a command has read, if the machine has not changed since it
began, is what the machine holds now; and what a preflight that passed has
passed. The third turns checks made one after the other into statements about one
server.

**StageOneRun.** `StageInv` relates the memory of the run, the disk and the
claim. What holds wherever a run stops (`Kept`): audit entries are numbered, each
turn with text has a call, records are numbered by turn, completed conditions
are a beginning of the order with all their turns. Where a run stands that has
not been stopped (`Placed`): how long audit and records are in each phase, and
that calls made so far lie before that place (`AllPast`), from which no call is
made twice. A run that has stopped (`Stopped`) has all its calls in the manifest but
for one that an interrupt cut short. The disk follows (`Follows`): whole lines
are records, whole files completed conditions, the log has the calls answered
so far. Setup can give the directory back only because at that point the run
is still the empty one and the disk is pristine, which is what the refinement of
`SingleAttempt` rests on.

**ReviewHarness.** That a case is what a rerun gives compares two computations and
is not inductive. `ReviewInv` says instead that a case has a trail, what its stores
held after each step, and that this is explained step by step (`Explained`): result
k and entry k of the trail are what the engine makes of spec k, under evidence id k,
on entry k - 1. A step that counts extends the trail by one (`TrailGrows`), whether
or not its snapshot is taken; the snapshots there are picture the trail at the steps
they name (`Pictured`, `InOrder`), the first ones if no read has failed, and all unless
an expectation cannot be read (`Complete`). Two facts it needs are easy to overlook: evidence ids are positions in the sequence,
so the next id is always free (`Numbered`), and on SQLite, where a refused step
uses up an id, the counter is ahead only in front of a step that will be refused
again (`Counted`), so that no later step runs under a shifted id. Conversely
`ReplayGivesTheCase` shows, by induction on the steps of the rerun, that a case so
explained is the one the rerun arrives at, and the snapshots of the rerun are the
trail. The rest of `ReviewInv` is about the
process: whoever is between lock and response has the lock alone, an operation's
result is still the current state when it is rendered, ids in use are not above
the counter, and each file belongs to a case of the manager by the same birth, which
is why neither a save nor a start over saved definitions puts one case in the
place of another. Of the engine nothing is assumed but that an interaction
appends its evidence to the stores (`Outcome`).

**SqliteStore.** That no row is lost at a crash rests on when the driver commits. A
schema change commits by itself unless a transaction is open, so renaming a
table would leave the disk without it. It does not, because the `UPDATE` of
`evidence`, the third thing the script does, has opened a transaction by then and nothing
commits before the flush. This needs the assumption on `Legacy`: without an
`evidence` table there is no row to lose. `StoreInv` says, while the version is 0, that
on disk every legacy row is in its place and only gained fields (`Kept`); that
of the connection's tables the one being rekeyed is between its two names
(`Windowed`) and then a transaction is open; that what statements already
executed or left out have added is there (`Done`); and that the owners found are
those one would still find (`RecoveredKept`), so that a second migration over what
a crash left gives every row the owner the first one would have. Once the version is 1 every
row is `Sound` and each table starts with the legacy rows; a write appends a row
of the current form, and a reset is one transaction. That an owner found is the
writer is true only of databases of which `SubjectsApart` is; `MCStore` evaluates
it on its instances, and `VMigration` runs one of which it is false.

`StoreReadable` says much of what a reader is shown, and follows from one thing:
what a subject's rows cite (`Cites`) is found among that subject's rows, and its
ledger is numbered without a gap (`Linked`). `LinkedInv` has it of the disk, and
outside a reset of the connection's tables. It is preserved because a plan is in
order (`InOrder`): each row of it cites what was there when the plan was made or
a row written before it, and it has at most one ledger entry, numbered by how
many there are. So every prefix of its writes, which is all that a crash or a failing
write leaves, resolves as well. A reset leaves nothing to resolve, and half of it
is not committed. The migration has to be shown to produce such tables in the
first place: of a database that is `Coherent` (what a subject's rows cite it
wrote, and none of it will be quarantined) every row keeps its position, and a
subject gets what it wrote and nothing else (`WroteMine`, `MineWritten`). `MCStore`
evaluates `Coherent` on its instances, among them one whose last interaction was cut
short, and `SubjectsApart` on `MCTorn`, of which `Coherent` is false.

What the tools leave to TLC: `InteractionsClose`, `EveryAttemptEnds` and
`RequestsAnswered` (liveness under fairness); `PanelsAgree` and `RowsAreFinal`,
which speak of what the engine's results contain and fold over them, and would
need assumptions on `Interaction` beyond the one above. The operators of `ModelBoundary` and
`TestCaseViews` that fold over data of any length stay with TLC: what they
compute for every input needs induction. The proofs about stage 1 take of
`ModelBoundary` only what an accepted standing names (`AcceptedIsLabelled`).

## 5. Not modelled, and the plan

Checks 1, 3a, 4, 5, 8 and 11 of complete-plan validation re-verify what the
construction of the plan guarantees, and have no effect on a plan built by the
engine. Two committed lineages of distinct spaces never meet, so one scope is
enough for `ReasoningCore`. Two known behaviours have no run: a statement may
be founded twice by one plan that has refined another lineage to it
(`DuplicatesConfinedToOnePlan` is stated so as to allow exactly that), and
edges of declined events are written when some other event commits
(the edges that `LedgerExplainsRecords` speaks of are those of a run that
commits every outcome).

Rendering (`dashboard.py`, `report.py`, `metrics.py`), review data and
fixtures, prompt texts and their hashes, the demo, the scripted exit-test
scenario and its traces, deployment and shell scripts keep no state and are not
modelled. Of the HTTP layer parsing of paths and status codes are left out, of
the model server everything but how a call can end. The golden pipeline runs
the three conditions without files or failing calls and is the trivial case
of stage 1.

What is left:

1. A proof of `PanelsAgree`, with assumptions on what an interaction returns.
2. `ReasoningCore` over the durable bundle: which of its invariants survive a
   crash in the middle of `commit_plan`, beyond `StoreReadable`.
