----------------------------- MODULE SqliteStore -----------------------------
(***************************************************************************)
(* The durable stores over one SQLite connection: opening a database, the  *)
(* migration of one written before spaces existed, the writes of           *)
(* commit_plan, reset, and a crash between any two of these statements.    *)
(*                                                                         *)
(* The Python driver opens a transaction before a row is changed and not   *)
(* before the schema is; inside an open transaction a schema change joins  *)
(* it.  executescript commits what is pending.  Each store commits its own *)
(* write.  A row is [id, writer, owner, space, blob, data]: its key, the   *)
(* subject it was written for (which no legacy column tells of hypotheses  *)
(* and predictions), the subject and space columns, the subject in its     *)
(* JSON, and what it refers to.                                            *)
(***************************************************************************)
EXTENDS ReasoningGraph, FiniteSets, Integers

CONSTANTS
    Subjects,
    Unknown,     \* the owner of a row nobody can be found for
    None,        \* a column or a field that is not there
    Legacy,      \* contents of the databases there may be at first
    MaxInteractions,
    MaxFailures  \* bounds; a failure is a crash or a write that raises

ASSUME StoreAssumption ==
    /\ Unknown \notin Subjects /\ None \notin Subjects \cup {Unknown}
    /\ MaxInteractions \in Nat /\ MaxFailures \in Nat

VARIABLES
    disk,     \* what is committed: [tables, version]
    live,     \* the tables as the connection sees them
    pending,  \* is a transaction open?
    phase,    \* "closed", "opening", "ready", "writing", "resetting"
    cursor,   \* position in the script, or in the tables to clear
    read,     \* what the migration found out about owners
    todo,     \* rows of the plan still to write
    legacy,   \* the tables as they were at first
    spent     \* interactions, crashes, faults and resets so far

vars == <<disk, live, pending, phase, cursor, read, todo, legacy, spent>>

Space == "default"

----------------------------------------------------------------------------
\* The schema.
Additive == <<"evidence", "inference", "inquiries", "recognition">>
Owned == <<"hypotheses", "predictions">>
Patched == <<"anomalies", "provenance">>
Rekeyed == <<"world_models", "current_pointer", "ledger">>
Unscoped == <<"dependencies", "modelling_context">>

Schema == Additive \o Owned \o Rekeyed \o Patched \o Unscoped
Scoped == ToSet(Additive) \cup ToSet(Owned) \cup ToSet(Rekeyed)

Retired(t) == CASE t = "world_models" -> "world_models_v0"
                [] t = "current_pointer" -> "current_pointer_v0"
                [] t = "ledger" -> "ledger_v0"

Empty(t) == [cols |-> IF t \in Scoped THEN {"space", "subject"} ELSE {},
             rows |-> <<>>]

Put(tables, t, table) ==
    [u \in DOMAIN tables \cup {t} |-> IF u = t THEN table ELSE tables[u]]

\* CREATE TABLE IF NOT EXISTS
Created(tables, t) == IF t \in DOMAIN tables THEN tables ELSE Put(tables, t, Empty(t))

Rows(tables, t) == IF t \in DOMAIN tables THEN tables[t].rows ELSE <<>>

\* Legacy databases.  Their tables were created together, before any row; rows
\* have no space yet, and those of hypotheses and predictions no subject.
LegacyRow(t, row) ==
    /\ row = [id |-> row.id, writer |-> row.writer, owner |-> row.owner,
              space |-> None, blob |-> row.blob, data |-> row.data]
    /\ row.writer \in Subjects
    /\ row.blob = None <=> t \in ToSet(Owned)
    /\ t \notin ToSet(Owned) => row.owner = row.writer
    /\ t = "current_pointer" => row.id = row.writer

LegacyTable(t, table) ==
    /\ table = [cols |-> table.cols, rows |-> table.rows]
    /\ table.cols \subseteq {"subject"}
    /\ t = "evidence" => "subject" \in table.cols
    /\ table.rows \in Seq(ToSet(table.rows))
    /\ \A row \in ToSet(table.rows) : LegacyRow(t, row)

ASSUME LegacyAssumption ==
    \A tables \in Legacy :
        /\ tables = [t \in DOMAIN tables |-> tables[t]]
        /\ DOMAIN tables \subseteq ToSet(Schema)
        /\ \A t \in DOMAIN tables : LegacyTable(t, tables[t])
        /\ \/ "evidence" \in DOMAIN tables
           \/ \A t \in DOMAIN tables : tables[t].rows = <<>>

----------------------------------------------------------------------------
\* The migration.  Owners are found before anything is changed: the first
\* version, in stored order, that holds the id; else the subject of all
\* evidence; else nobody.
Holders(tables, id, kind) ==
    {i \in DOMAIN Rows(tables, "world_models") :
       id \in Rows(tables, "world_models")[i].data[kind]}

\* Mutant: of several subjects with evidence, the first is taken.
FirstEvidenceSubject(tables) ==
    LET rows == Rows(tables, "evidence")
    IN  IF rows = <<>> THEN None ELSE rows[1].owner

SoleEvidenceSubject(tables) ==
    LET subjects == {row.owner : row \in ToSet(Rows(tables, "evidence"))}
    IN  IF Cardinality(subjects) = 1 THEN CHOOSE s \in subjects : TRUE ELSE None

Recovered(tables, t) ==
    LET ids == {row.id : row \in ToSet(Rows(tables, t))}
        owner(id) ==
          LET holders == Holders(tables, id, t)
          IN  IF holders # {} THEN Rows(tables, "world_models")[Min(holders)].writer
              ELSE IF SoleEvidenceSubject(tables) # None
                   THEN SoleEvidenceSubject(tables) ELSE Unknown
    IN  [id \in ids |-> owner(id)]

Statement(op, t) == [op |-> op, table |-> t]
Each(ops, tables) ==
    [i \in 1..Len(ops) * Len(tables) |->
       Statement(ops[((i - 1) % Len(ops)) + 1],
                 tables[((i - 1) \div Len(ops)) + 1])]

Migration ==
    Each(<<"add_space", "fill">>, Additive)
    \o Each(<<"add_space", "add_subject", "assign">>, Owned)
    \o Each(<<"patch">>, Patched)
    \o Each(<<"rename", "create", "copy", "drop">>, Rekeyed)

Script == Migration \o <<Statement("flush", "database")>> \o Each(<<"create">>, Schema)
          \o <<Statement("stamp", "database")>>

\* A statement on a table that is not there, or a column that is, is left out;
\* a rekeyed table that has its space is left alone altogether.
Skips(statement) ==
    LET t == statement.table
        there == t \in DOMAIN live
    IN  CASE statement.op = "add_space" -> ~there \/ "space" \in live[t].cols
          [] statement.op = "add_subject" -> ~there \/ "subject" \in live[t].cols
          [] statement.op \in {"fill", "assign", "patch"} -> ~there
          [] statement.op = "rename" -> ~there \/ "space" \in live[t].cols
          [] OTHER -> FALSE

SkipLength(statement) == IF statement.op = "rename" THEN 4 ELSE 1

\* Statements that change rows open a transaction: an UPDATE of the whole table
\* always, one per row if there is a row.
Changes(statement) ==
    \/ statement.op = "fill"
    \/ /\ statement.op \in {"assign", "patch"}
       /\ Rows(live, statement.table) # <<>>
    \/ /\ statement.op = "copy"
       /\ Rows(live, Retired(statement.table)) # <<>>

Spaced(row) == [row EXCEPT !.space = IF @ = None THEN Space ELSE @]

Assigned(row, owners) ==
    [row EXCEPT !.owner = owners[row.id], !.space = Space,
                !.blob = IF @ = None THEN owners[row.id] ELSE @]

MapRows(table, Op(_)) ==
    [table EXCEPT !.rows = [i \in DOMAIN @ |-> Op(@[i])]]

Effect(statement) ==
    LET t == statement.table
    IN  CASE statement.op = "add_space" ->
               [live EXCEPT ![t].cols = @ \cup {"space"}]
          [] statement.op = "add_subject" ->
               [live EXCEPT ![t].cols = @ \cup {"subject"}]
          [] statement.op = "fill" -> [live EXCEPT ![t] = MapRows(@, Spaced)]
          [] statement.op = "assign" ->
               [live EXCEPT ![t] = MapRows(@, LAMBDA row : Assigned(row, read[t]))]
          [] statement.op = "rename" ->
               [u \in (DOMAIN live \ {t}) \cup {Retired(t)} |->
                  IF u = Retired(t) THEN live[t] ELSE live[u]]
          [] statement.op = "create" -> Created(live, t)
          [] statement.op = "copy" ->
               [live EXCEPT ![t] = MapRows(live[Retired(t)], Spaced),
                            ![t].cols = {"space", "subject"}]
          [] statement.op = "drop" ->
               [u \in DOMAIN live \ {Retired(t)} |-> live[u]]
          [] statement.op \in {"patch", "flush", "stamp"} -> live

----------------------------------------------------------------------------
Unread == [t \in ToSet(Owned) |-> <<>>]

Init ==
    /\ legacy \in Legacy
    /\ disk = [tables |-> legacy, version |-> 0]
    /\ live = legacy
    /\ pending = FALSE /\ phase = "closed" /\ cursor = 0 /\ todo = <<>>
    /\ read = Unread
    /\ spent = [interactions |-> 0, crashes |-> 0, faults |-> 0, reset |-> FALSE]

\* A database of the current version only has missing tables created.
Open ==
    /\ phase = "closed"
    /\ phase' = "opening" /\ live' = disk.tables /\ pending' = FALSE
    /\ cursor' = IF disk.version = 0 THEN 1 ELSE Len(Migration) + 1
    /\ read' = [t \in ToSet(Owned) |-> Recovered(disk.tables, t)]
    /\ UNCHANGED <<disk, todo, legacy, spent>>

\* Mutant: every statement is committed by itself.
ExecuteAutocommitting(statement) ==
    /\ live' = Effect(statement)
    /\ pending' = FALSE
    /\ disk' = [tables |-> live',
                version |-> IF statement.op = "stamp" THEN 1 ELSE disk.version]

\* What the connection sees changes; the disk does unless a transaction is open.
Execute(statement) ==
    LET open == statement.op # "flush" /\ (pending \/ Changes(statement))
    IN  /\ live' = Effect(statement)
        /\ pending' = open
        /\ disk' = IF open THEN disk
                   ELSE [tables |-> live',
                         version |-> IF statement.op = "stamp" THEN 1
                                     ELSE disk.version]

Run ==
    /\ phase = "opening" /\ cursor =< Len(Script)
    /\ LET statement == Script[cursor]
       IN  IF Skips(statement)
           THEN /\ cursor' = cursor + SkipLength(statement)
                /\ UNCHANGED <<disk, live, pending>>
           ELSE cursor' = cursor + 1 /\ Execute(statement)
    /\ UNCHANGED <<phase, read, todo, legacy, spent>>

Opened ==
    /\ phase = "opening" /\ cursor > Len(Script)
    /\ phase' = "ready" /\ cursor' = 0 /\ read' = Unread
    /\ UNCHANGED <<disk, live, pending, todo, legacy, spent>>

----------------------------------------------------------------------------
\* Queries, all by subject and space: the positions of the rows in stored order,
\* and the rows.
Positions(tables, t, s) ==
    LET rows == Rows(tables, t)
    IN  {i \in DOMAIN rows : rows[i].owner = s /\ rows[i].space = Space}

Of(tables, t, s) ==
    LET rows == Rows(tables, t)
    IN  {rows[i] : i \in Positions(tables, t, s)}
Ids(rows) == {row.id : row \in rows}

\* The row of a query that finds at most one, its columns being the key.
Only(rows) == CHOOSE row \in rows : TRUE

Decodes(row) == row.blob # None

LatestPerId(tables, t, s) ==
    LET mine == Positions(tables, t, s)
        rows == Rows(tables, t)
        lineage(id) == {i \in mine : rows[i].id = id}
    IN  [id \in Ids(Of(tables, t, s)) |-> rows[Max(lineage(id))]]

HypothesesOf(tables, s) == LatestPerId(tables, "hypotheses", s)
InquiriesOf(tables, s) == LatestPerId(tables, "inquiries", s)
EvidenceOf(tables, s) == Ids(Of(tables, "evidence", s))

\* Its order is that of the seq each entry has.
Ledger(tables, s) == {row.data : row \in Of(tables, "ledger", s)}
LedgerLength(tables, s) == Cardinality(Positions(tables, "ledger", s))

CurrentPointer(tables, s) ==
    LET rows == Of(tables, "current_pointer", s)
    IN  IF rows = {} THEN 0 ELSE Only(rows).data

VersionOf(tables, s, v) == {row \in Of(tables, "world_models", s) : row.id = v}

\* None, if there is no pointer or no such version.
CurrentModel(tables, s) == VersionOf(tables, s, CurrentPointer(tables, s))

\* What a reader is shown of a subject: ids of the current model that are found.
ActiveHypotheses(tables, s) ==
    LET model == CurrentModel(tables, s)
        held == DOMAIN HypothesesOf(tables, s)
    IN  IF model = {} THEN held ELSE Only(model).data.hypotheses \cap held

ActivePredictions(tables, s) ==
    LET model == CurrentModel(tables, s)
    IN  IF model = {} THEN {}
        ELSE Only(model).data.predictions \cap Ids(Of(tables, "predictions", s))

ActiveInquiries(tables, s) ==
    LET model == CurrentModel(tables, s)
    IN  IF model = {} THEN {}
        ELSE Only(model).data.inquiries \cap DOMAIN InquiriesOf(tables, s)

----------------------------------------------------------------------------
\* A plan for one subject, with n for every identifier it mints: it holds, or
\* commits one event, on a new hypothesis (0) or one of those held.
Row(s, id, data) == [id |-> id, writer |-> s, owner |-> s, space |-> Space,
                     blob |-> s, data |-> data]

Event(s, n, h, outcome, anomaly) ==
    [seq |-> LedgerLength(live, s), outcome |-> outcome, affected |-> h,
     evidence |-> {n}, from |-> CurrentPointer(live, s), to |-> n,
     anomaly |-> anomaly]

Write(t, row) == [table |-> t, row |-> row]

Held(s, n) ==
    <<Write("evidence", Row(s, n, {}))>>

HeldWithAnomaly(s, n) ==
    Held(s, n) \o <<Write("anomalies", Row(s, n, n))>>

Committed(s, n, chosen, outcome) ==
    LET h == IF chosen = 0 THEN n ELSE chosen
        active == ActiveHypotheses(live, s) \cup DOMAIN HypothesesOf(live, s) \cup {h}
        foreseen == IF outcome = "strengthen" THEN {n} ELSE {}
        asked == IF Cardinality(active) > 1 THEN {n} ELSE {}
        if(condition, writes) == IF condition THEN writes ELSE <<>>
    IN  Held(s, n)
        \o if(outcome = "contradict", <<Write("anomalies", Row(s, n, n))>>)
        \o <<Write("hypotheses", Row(s, h, {n})),
             Write("ledger", Row(s, n, Event(s, n, h, outcome,
                                   IF outcome = "contradict" THEN n ELSE 0))),
             Write("dependencies", Row(s, n, h))>>
        \o if(foreseen # {}, <<Write("predictions", Row(s, n, h))>>)
        \o if(asked # {}, <<Write("inquiries", Row(s, n, n))>>)
        \o <<Write("provenance", Row(s, n, {n})),
             Write("world_models", Row(s, n, [hypotheses |-> active,
                                 predictions |-> foreseen, inquiries |-> asked])),
             Write("current_pointer", Row(s, s, n))>>

\* Identifiers are unique for the life of the database.
Fresh == 100 + spent.interactions

Plan ==
    /\ phase = "ready" /\ spent.interactions < MaxInteractions
    /\ \E s \in Subjects :
         \/ todo' = Held(s, Fresh)
         \/ todo' = HeldWithAnomaly(s, Fresh)
         \/ todo' = Committed(s, Fresh, 0, "hypothesize")
         \/ \E h \in DOMAIN HypothesesOf(live, s),
               outcome \in {"strengthen", "contradict"} :
              todo' = Committed(s, Fresh, h, outcome)
    /\ phase' = "writing"
    /\ spent' = [spent EXCEPT !.interactions = @ + 1]
    /\ UNCHANGED <<disk, live, pending, cursor, read, legacy>>

\* The pointer has one row per subject, replaced in place.
Inserted(tables, t, row) ==
    LET same == {i \in DOMAIN tables[t].rows :
                   t = "current_pointer" /\ tables[t].rows[i].id = row.id}
    IN  [tables EXCEPT ![t].rows =
           IF same = {} THEN Append(@, row)
           ELSE [i \in DOMAIN @ |-> IF i \in same THEN row ELSE @[i]]]

WriteRow ==
    /\ phase = "writing" /\ todo # <<>>
    /\ live' = Inserted(live, Head(todo).table, Head(todo).row)
    /\ disk' = [disk EXCEPT !.tables = live'] /\ pending' = FALSE
    /\ todo' = Tail(todo)
    /\ phase' = IF todo' = <<>> THEN "ready" ELSE "writing"
    /\ UNCHANGED <<cursor, read, legacy, spent>>

\* There is no rollback on this path: what was written stays.
WriteRaises ==
    /\ phase = "writing" /\ spent.crashes + spent.faults < MaxFailures
    /\ phase' = "ready" /\ todo' = <<>>
    /\ spent' = [spent EXCEPT !.faults = @ + 1]
    /\ UNCHANGED <<disk, live, pending, cursor, read, legacy>>

\* reset(): every table cleared in one transaction.
BeginReset ==
    /\ phase = "ready" /\ ~spent.reset
    /\ phase' = "resetting" /\ cursor' = 1
    /\ spent' = [spent EXCEPT !.reset = TRUE]
    /\ UNCHANGED <<disk, live, pending, read, todo, legacy>>

Clear ==
    /\ phase = "resetting" /\ cursor =< Len(Schema)
    /\ live' = [live EXCEPT ![Schema[cursor]].rows = <<>>]
    /\ pending' = TRUE
    /\ cursor' = cursor + 1
    /\ UNCHANGED <<disk, phase, read, todo, legacy, spent>>

EndReset ==
    /\ phase = "resetting" /\ cursor > Len(Schema)
    /\ disk' = [disk EXCEPT !.tables = live] /\ pending' = FALSE
    /\ phase' = "ready" /\ cursor' = 0
    /\ UNCHANGED <<live, read, todo, legacy, spent>>

Crash ==
    /\ phase # "closed" /\ spent.crashes + spent.faults < MaxFailures
    /\ phase' = "closed" /\ live' = disk.tables /\ pending' = FALSE
    /\ cursor' = 0 /\ read' = Unread /\ todo' = <<>>
    /\ spent' = [spent EXCEPT !.crashes = @ + 1]
    /\ UNCHANGED <<disk, legacy>>

Next == \/ Open \/ Run \/ Opened \/ Plan \/ WriteRow \/ WriteRaises
        \/ BeginReset \/ Clear \/ EndReset \/ Crash

Spec == Init /\ [][Next]_vars
=============================================================================
