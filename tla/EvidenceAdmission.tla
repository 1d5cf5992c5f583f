------------------------- MODULE EvidenceAdmission -------------------------
(***************************************************************************)
(* The evidence side of an interaction: standing and source references of  *)
(* admitted observations, the closed candidate set offered for divergence, *)
(* DIVERGES_WITH edges and the checks 2(e), 7, 8a, 8b and 9 of the         *)
(* complete plan.  Evidence of several scopes shares one store.  Divergence*)
(* is independent of hypotheses, which module ReasoningCore models: it is  *)
(* written with the plan whether the model moves or holds.                 *)
(***************************************************************************)
EXTENDS Naturals, Sequences, FiniteSets

CONSTANTS
    Scopes,           \* (space, subject) scopes sharing the store
    SharedScopes,     \* those whose space declares itself shared
    Refs,             \* source observation references
    Participants,
    Roles,            \* the roles callers use
    NoParticipant,    \* the source of an observation no participant made
    Dyad,             \* about the pair rather than one participant
    MaxCandidates,    \* MAX_DIVERGENCE_CANDIDATES (8 in the code)
    MaxBatch,         \* bound: observations of one interaction
    MaxEvidence       \* bound: evidence identifiers minted

AllRoles == {"event_observation", "account", "response", "meta"}
Appraisable == {"event_observation", "account"}

ASSUME AdmissionAssumption ==
    /\ SharedScopes \subseteq Scopes
    /\ Roles \subseteq AllRoles
    /\ NoParticipant \notin Participants /\ Dyad \notin Participants
    /\ {MaxCandidates, MaxBatch, MaxEvidence} \subseteq Nat

Standings == [role : Roles, source : Participants \cup {NoParticipant},
              about : Participants \cup {Dyad}]
Inputs == [ref : Refs, standing : Standings]

VARIABLES
    store,       \* admitted records, in admission order
    index,       \* source_ref_index: reference -> evidence id, 0 if none
    divergences, \* recorded DIVERGES_WITH pairs
    lastId,      \* evidence ids minted by closed interactions
    phase,       \* "idle" or "planning"
    plan         \* the interaction under way

vars == <<store, index, divergences, lastId, phase, plan>>

NoPlan == [scope |-> "", batch |-> <<>>, next |-> 1, appraised |-> {},
           pairs |-> {}, repeated |-> FALSE]

Init ==
    /\ store = <<>>
    /\ index = [r \in Refs |-> 0]
    /\ divergences = {}
    /\ lastId = 0
    /\ phase = "idle"
    /\ plan = NoPlan

----------------------------------------------------------------------------
\* Records get their ids, in order, before anything is planned.
Record(scope, input, id) ==
    [id |-> id, scope |-> scope, ref |-> input.ref,
     standing |-> input.standing]

OpenInteraction ==
    /\ phase = "idle"
    /\ \E scope \in Scopes, n \in 1..MaxBatch :
        /\ lastId + n =< MaxEvidence
        /\ \E inputs \in [1..n -> Inputs] :
             plan' = [NoPlan EXCEPT
                       !.scope = scope,
                       !.batch = [i \in 1..n |->
                                    Record(scope, inputs[i], lastId + i)]]
    /\ phase' = "planning"
    /\ UNCHANGED <<store, index, divergences, lastId>>

\* Mutant: any participant's record will do.
ByParticipant(st) == st.source # NoParticipant

IsParticipantAccount(st) ==
    st.role = "account" /\ st.source # NoParticipant

\* Rules 2-6 and 6b, for one admitted record.
Eligible(obs, rec) ==
    /\ rec.id # obs.id
    /\ IsParticipantAccount(obs.standing) /\ IsParticipantAccount(rec.standing)
    /\ Dyad \notin {obs.standing.about, rec.standing.about}
    /\ rec.standing.about = obs.standing.about
    /\ rec.standing.source # obs.standing.source
    /\ {obs.id, rec.id} \notin divergences

\* Rule 9: membership order is the admitted records, then the batch.
Pool == store \o plan.batch

\* Rules 1, 7 and 8: of the scope, in a shared space, and the most recent few.
DivergenceCandidates(obs) ==
    LET eligible == {i \in DOMAIN Pool : /\ Pool[i].scope = plan.scope
                                         /\ Eligible(obs, Pool[i])}
        later(i) == {j \in eligible : j > i}
        recent == {i \in eligible : Cardinality(later(i)) < MaxCandidates}
    IN  IF plan.scope \notin SharedScopes THEN {}
        ELSE {Pool[i].id : i \in recent}

Current == plan.batch[plan.next]
Pending == phase = "planning" /\ plan.next =< Len(plan.batch)

SkipObservation ==
    /\ Pending
    /\ Current.standing.role \notin Appraisable
    /\ plan' = [plan EXCEPT !.next = @ + 1]
    /\ UNCHANGED <<store, index, divergences, lastId, phase>>

\* The response names partners out of the offered set, perhaps one twice.
\* An edge already proposed in this plan is not proposed again.
AppraiseDivergences ==
    /\ Pending
    /\ Current.standing.role \in Appraisable
    /\ \E partners \in SUBSET DivergenceCandidates(Current), twice \in BOOLEAN :
        /\ twice => partners # {}
        /\ plan' = [plan EXCEPT
                      !.next = @ + 1,
                      !.appraised = @ \cup {Current.id},
                      !.pairs = @ \cup {{Current.id, p} : p \in partners},
                      !.repeated = @ \/ twice]
    /\ UNCHANGED <<store, index, divergences, lastId, phase>>

----------------------------------------------------------------------------
\* Complete-plan validation.
InBatch(id) == {i \in DOMAIN plan.batch : plan.batch[i].id = id}
Resolved(id) ==
    IF InBatch(id) # {} THEN plan.batch[CHOOSE i \in InBatch(id) : TRUE]
    ELSE store[id]

\* Mutant: the index is consulted for this scope only.
SourceRefsMapInScope ==
    \A i \in DOMAIN plan.batch :
        \A j \in DOMAIN store :
            store[j].scope = plan.scope => store[j].ref # plan.batch[i].ref

SourceRefsMap ==                                              \* check 7
    \A i \in DOMAIN plan.batch :
        index[plan.batch[i].ref] \in {0, plan.batch[i].id}

\* check 9(a), run once per appraised observation and so not at all when
\* the batch has none.
RolesAgree ==
    plan.appraised # {} =>
        \A i, j \in DOMAIN plan.batch :
            plan.batch[i].ref = plan.batch[j].ref =>
                plan.batch[i].standing.role = plan.batch[j].standing.role

PairDisclosable(pair) ==                                 \* checks 8, 8a, 8b
    \A a, b \in pair :
        /\ IsParticipantAccount(Resolved(a).standing)
        /\ Resolved(a).standing.about = Resolved(b).standing.about
        /\ a # b => Resolved(a).standing.source # Resolved(b).standing.source
        /\ Resolved(a).scope = plan.scope

Valid ==
    /\ ~plan.repeated                                         \* check 2(e)
    /\ RolesAgree
    /\ SourceRefsMap
    /\ \A pair \in plan.pairs : PairDisclosable(pair)

Planned == phase = "planning" /\ plan.next > Len(plan.batch)

\* Mutant: the counter is not restored.
AbandonConsumingIds ==
    /\ lastId' = lastId + Len(plan.batch)
    /\ phase' = "idle"
    /\ plan' = NoPlan
    /\ UNCHANGED <<store, index, divergences>>

Abandon ==
    /\ phase' = "idle"
    /\ plan' = NoPlan
    /\ UNCHANGED <<store, index, divergences, lastId>>

RejectPlan == Planned /\ ~Valid /\ Abandon

\* An unknown partner handle, or any exception while planning.
Interrupt == phase = "planning" /\ Abandon

\* A later record of the batch overwrites the index entry of an earlier one.
LastWith(r) == CHOOSE i \in DOMAIN plan.batch :
                  /\ plan.batch[i].ref = r
                  /\ \A j \in DOMAIN plan.batch :
                        plan.batch[j].ref = r => j =< i

\* Evidence, index and divergences are written.
Admit ==
    /\ Planned
    /\ Valid
    /\ store' = store \o plan.batch
    /\ index' = [r \in Refs |->
                   IF \E i \in DOMAIN plan.batch : plan.batch[i].ref = r
                   THEN plan.batch[LastWith(r)].id ELSE index[r]]
    /\ divergences' = divergences \cup plan.pairs
    /\ lastId' = lastId + Len(plan.batch)
    /\ phase' = "idle"
    /\ plan' = NoPlan

\* Callers may stop calling; only the bound makes them.
NoMoreCalls == phase = "idle" /\ UNCHANGED vars

Next ==
    \/ OpenInteraction \/ SkipObservation \/ AppraiseDivergences
    \/ RejectPlan \/ Interrupt \/ Admit \/ NoMoreCalls

Spec == Init /\ [][Next]_vars

----------------------------------------------------------------------------
RecordType == [id : Nat, scope : Scopes, ref : Refs, standing : Standings]

TypeOK ==
    /\ store \in Seq(RecordType)
    /\ index \in [Refs -> Nat]
    /\ \A pair \in divergences : pair \subseteq Nat
    /\ lastId \in Nat
    /\ phase \in {"idle", "planning"}
    /\ plan.batch \in Seq(RecordType)
    /\ plan.appraised \subseteq Nat
    /\ plan.repeated \in BOOLEAN
    /\ lastId = Len(store)
    /\ \A i \in DOMAIN store : store[i].id = i

\* Two admitted records carry the same source reference only if one batch
\* brought both: a reference admitted before is refused in every later
\* interaction, of any scope (check 7).
RefsReusedOnlyInOneBatch ==
    [][\A i \in DOMAIN store, j \in DOMAIN store' \ DOMAIN store :
          store[i].ref # store'[j].ref]_vars

\* A recorded divergence joins accounts of two different participants about
\* the same one, admitted to one and the same shared scope; nothing private
\* is disclosed (rules 2-7, checks 8a and 8b).
DivergencesJoinSharedAccounts ==
    \A pair \in divergences : \E a, b \in DOMAIN store :
        /\ pair = {store[a].id, store[b].id}
        /\ store[a].scope = store[b].scope /\ store[a].scope \in SharedScopes
        /\ store[a].standing.role = "account"
        /\ store[b].standing.role = "account"
        /\ {store[a].standing.source, store[b].standing.source}
              \subseteq Participants
        /\ store[a].standing.source # store[b].standing.source
        /\ store[a].standing.about = store[b].standing.about
        /\ store[a].standing.about # Dyad

\* evidence.py:45: the mapping of source observation to evidence id is
\* one-to-one within an execution and resolvable in both directions.
MappingOneToOne ==
    \A i \in DOMAIN store : index[store[i].ref] = store[i].id
=============================================================================
