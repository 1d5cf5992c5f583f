------------------------- MODULE InteractionCommit -------------------------
(***************************************************************************)
(* ReasoningService.record_interaction and the unit of work around it:     *)
(* snapshot, identifier allocation, the store-by-store writes of           *)
(* commit_plan, and the store-by-store restore after an exception raised   *)
(* anywhere in between.  What a store holds is abstracted to one row for   *)
(* each interaction that wrote to it: its identifier and its plan, that    *)
(* is, the stores it set out to write.                                     *)
(***************************************************************************)
EXTENDS Naturals, Sequences

CONSTANT MaxIds     \* bound: identifiers allocated

ASSUME BoundAssumption == MaxIds \in Nat

\* Mutant: the pointer is moved before the version it points to is there.
PointerFirst ==
    <<"evidence", "anomalies", "lineages", "statement_versions",
      "identity_adjudications", "hypotheses", "ledger", "dependencies",
      "predictions", "inquiries", "provenance", "pointer", "world_models">>

\* The order in which commit_plan writes.  "pointer" is the current-model
\* pointer, kept by the world-model store next to the versions.
WriteOrder ==
    <<"evidence", "anomalies", "lineages", "statement_versions",
      "identity_adjudications", "hypotheses", "ledger", "dependencies",
      "predictions", "inquiries", "provenance", "world_models", "pointer">>

\* What commit_plan writes ahead of the row it names: DERIVED_FROM edges ahead
\* of the predictions they start from, and whatever records the version it
\* belongs to ahead of that version.
WrittenAhead ==
    ({"statement_versions", "hypotheses", "ledger", "predictions"}
        \X {"world_models"})
    \cup {<<"dependencies", "predictions">>}

SemanticStores == {"lineages", "statement_versions", "identity_adjudications"}
Stores == {WriteOrder[i] : i \in DOMAIN WriteOrder}

VARIABLES
    snapshotable,   \* does every store of the bundle support snapshots?
    semanticState,  \* does the bundle carry the semantic-state stores?
    live,       \* store -> the rows in it
    ids,        \* the identifier generator's counter
    phase,      \* "idle", "open", "writing" or "restoring"
    tokens,     \* the snapshot of every store taken by begin()
    idsToken,   \* the snapshot of the generator
    planned,    \* stores the validated plan writes to
    cursor,     \* position of commit_plan or of restore() in the stores
    tag         \* the identifier this interaction writes under

Row == [id |-> tag, plan |-> planned]
bundle == <<snapshotable, semanticState>>
transaction == <<tokens, idsToken, planned, cursor, tag>>
vars == <<bundle, live, ids, phase, transaction>>

Init ==
    /\ snapshotable \in BOOLEAN /\ semanticState \in BOOLEAN
    /\ live = [s \in Stores |-> {}]
    /\ ids = 0
    /\ phase = "idle"
    /\ tokens = live /\ idsToken = 0
    /\ planned = {} /\ cursor = 1 /\ tag = 0

----------------------------------------------------------------------------
\* A bundle without a rollback boundary may run only if it is outside the
\* semantic-state path; then the "snapshot" below is never restored.
MayRun == snapshotable \/ ~semanticState

\* Mutant: the identifier of an abandoned interaction is used again.
BeginKeepingTag ==
    /\ phase = "idle"
    /\ MayRun
    /\ phase' = "open"
    /\ tokens' = live
    /\ idsToken' = ids
    /\ UNCHANGED <<live, ids, planned, cursor, tag>>

Begin ==
    /\ phase = "idle"
    /\ MayRun
    /\ phase' = "open"
    /\ tokens' = live
    /\ idsToken' = ids
    /\ tag' = 0
    /\ UNCHANGED <<live, ids, planned, cursor>>

\* Evidence ids, request ids, the model-version id ... all come from the
\* one generator; the interaction is tagged by the latest.
Mint ==
    /\ phase = "open"
    /\ ids < MaxIds
    /\ ids' = ids + 1
    /\ tag' = ids + 1
    /\ UNCHANGED <<live, phase, tokens, idsToken, planned, cursor>>

\* A hold writes its audit record; a commit writes evidence, evaluations,
\* events and a model version, and whatever else the plan carries.
HoldWrites == {"evidence", "anomalies", "identity_adjudications",
               "dependencies"}
CommitWrites == {"evidence", "hypotheses", "ledger", "dependencies",
                 "provenance", "world_models", "pointer"}
Carried == IF semanticState THEN Stores ELSE Stores \ SemanticStores

HoldPlans == {S \in SUBSET HoldWrites : S # {} => "evidence" \in S}
CommitPlans == {S \in SUBSET Stores :
                  /\ CommitWrites \subseteq S
                  /\ "lineages" \in S => "statement_versions" \in S}
Plans == HoldPlans \cup CommitPlans

Validated ==
    /\ phase = "open"
    /\ tag # 0
    /\ phase' = "writing"
    /\ planned' \in {S \in Plans : S \subseteq Carried}
    /\ cursor' = 1
    /\ UNCHANGED <<live, ids, tokens, idsToken, tag>>

WriteStore ==
    /\ phase = "writing"
    /\ cursor =< Len(WriteOrder)
    /\ live' = IF WriteOrder[cursor] \in planned
               THEN [live EXCEPT ![WriteOrder[cursor]] = @ \cup {Row}]
               ELSE live
    /\ cursor' = cursor + 1
    /\ UNCHANGED <<ids, phase, tokens, idsToken, planned, tag>>

\* uow.commit(): closes the boundary, writes nothing.
CommitUnit ==
    /\ phase = "writing"
    /\ cursor > Len(WriteOrder)
    /\ phase' = "idle"
    /\ UNCHANGED <<live, ids, transaction>>

\* Any BaseException: with a boundary, restore; without one, the exception
\* just leaves what has been written.
Raise ==
    /\ phase \in {"open", "writing"}
    /\ phase' = IF snapshotable THEN "restoring" ELSE "idle"
    /\ cursor' = 1
    /\ UNCHANGED <<live, ids, tokens, idsToken, planned, tag>>

\* Mutant: the dependency store is missing from the bundle's list of stores.
RestoreAllButDependencies ==
    /\ phase = "restoring"
    /\ cursor =< Len(WriteOrder)
    /\ live' = IF WriteOrder[cursor] = "dependencies" THEN live
               ELSE [live EXCEPT ![WriteOrder[cursor]] =
                       tokens[WriteOrder[cursor]]]
    /\ cursor' = cursor + 1
    /\ UNCHANGED <<ids, phase, tokens, idsToken, planned, tag>>

\* One store after the other; their order is not observable.
RestoreStore ==
    /\ phase = "restoring"
    /\ cursor =< Len(WriteOrder)
    /\ live' = [live EXCEPT ![WriteOrder[cursor]] =
                  tokens[WriteOrder[cursor]]]
    /\ cursor' = cursor + 1
    /\ UNCHANGED <<ids, phase, tokens, idsToken, planned, tag>>

\* The generator is restored last, and the unit is closed.
RestoreIds ==
    /\ phase = "restoring"
    /\ cursor > Len(WriteOrder)
    /\ ids' = idsToken
    /\ phase' = "idle"
    /\ UNCHANGED <<live, transaction>>

\* Callers may stop, and a bundle that may not run is refused each time.
Quiet == phase = "idle" /\ UNCHANGED vars

\* What the bundle is does not change.
Next ==
    /\ UNCHANGED bundle
    /\ \/ Begin \/ Mint \/ Validated \/ WriteStore \/ CommitUnit
       \/ Raise \/ RestoreStore \/ RestoreIds \/ Quiet

Spec == Init /\ [][Next]_vars

----------------------------------------------------------------------------
Rows == [id : Nat, plan : SUBSET Stores]

TypeOK ==
    /\ snapshotable \in BOOLEAN /\ semanticState \in BOOLEAN
    /\ live \in [Stores -> SUBSET Rows]
    /\ ids \in Nat
    /\ phase \in {"idle", "open", "writing", "restoring"}
    /\ tokens \in [Stores -> SUBSET Rows]
    /\ idsToken \in Nat
    /\ planned \in SUBSET Stores
    /\ cursor \in 1..Len(WriteOrder) + 1
    /\ tag \in Nat
    /\ phase \in {"open", "writing"} => tag =< ids

\* <<s, t>>: rows of store s name rows of store t written by the same
\* interaction (the id fields of the domain records and _edge's endpoints).
\* Names of earlier interactions' rows are read from the stores themselves.
References ==
    ({"anomalies", "identity_adjudications", "hypotheses", "ledger",
      "dependencies", "predictions", "inquiries", "provenance"}
        \X {"evidence"})
    \cup ({"statement_versions", "hypotheses"} \X {"lineages"})
    \cup ({"ledger", "dependencies", "predictions", "inquiries",
           "world_models"} \X {"hypotheses"})
    \cup ({"inquiries", "provenance", "world_models"} \X {"ledger"})
    \cup ({"world_models"} \X {"predictions", "inquiries", "provenance"})
    \cup {<<"ledger", "anomalies">>, <<"pointer", "world_models">>}
    \cup WrittenAhead

\* A row that names something its plan has, but that is not there.
Dangles(row, s, t) ==
    /\ row \in live[s] /\ row \notin live[t]
    /\ t \in row.plan /\ <<s, t>> \in References

\* An exception out of commit_plan leaves, in a bundle without a rollback
\* boundary, half of a plan behind: evaluations, statement versions, events
\* and predictions of a model version that never followed, edges from
\* predictions that never followed.  Nothing else is left without what it
\* names, and nothing at all by an interaction whose version is there: what
\* the version and the pointer name of it is complete.  (Whether a plan carries
\* the rows its rows name is ReasoningInvariants' subject.)
OnlyUnversionedDangle ==
    phase # "restoring" =>
        \A s, t \in Stores : \A row \in live[s] :
            Dangles(row, s, t) =>
                <<s, t>> \in WrittenAhead /\ row \notin live["world_models"]

\* An interaction of the service is atomic: until its unit of work is closed
\* it counts as not having happened, then it is in every store of its plan;
\* abandoned anywhere, it leaves no trace and gives its identifiers back -- but
\* for a bundle without a rollback boundary, where what it leaves is its own rows,
\* in stores of its plan (UnitOfWork.begin, restore and commit around _record).
Visible == IF phase = "idle" THEN live ELSE tokens
VisibleIds == IF phase = "idle" THEN ids ELSE idsToken

Atomic == INSTANCE AtomicInteractions
            WITH contents <- Visible, ids <- VisibleIds,
                 boundary <- snapshotable
ImplementsAtomicInteractions == Atomic!Spec
=============================================================================
