--------------------------- MODULE StoreProperties ---------------------------
(***************************************************************************)
(* What the durable stores promise over a migration, a crash and a reset.  *)
(***************************************************************************)
EXTENDS SqliteStore

Migrated == disk.version = 1
Key(row) == <<row.id, row.writer>>
Keys(tables, t) == [i \in DOMAIN Rows(tables, t) |-> Key(Rows(tables, t)[i])]

\* No row is dropped: whatever the moment of a crash, the disk holds every row
\* of the legacy table in its order, in the table or, while that is being
\* rekeyed, in the retired one; and once migrated every row is in place, has
\* its space and can be decoded ("Existing data is preserved",
\* sqlite_migration.py).  Only a reset, all of it or none, clears them.
LegacyRowsKept ==
    \A t \in DOMAIN legacy :
        LET was == Keys(legacy, t)
        IN  \/ spent.reset
            \/ IsPrefix(was, Keys(disk.tables, t))
            \/ /\ ~Migrated /\ t \in ToSet(Rekeyed)
               /\ was = Keys(disk.tables, Retired(t))

MigratedRowsDecode ==
    Migrated => \A t \in DOMAIN disk.tables :
                  LET rows == ToSet(disk.tables[t].rows)
                  IN  /\ \A row \in rows : Decodes(row)
                      /\ t \in ToSet(Owned) => \A row \in rows : row.owner = row.blob
                      /\ t \in Scoped => \A row \in rows : row.space = Space

MigrationPreservesRows == LegacyRowsKept /\ MigratedRowsDecode

\* A hypothesis or prediction belongs to the subject it was written for, or is
\* put aside; it is never leaked to another subject (the migration's third
\* guarantee).  It holds as long as no two subjects have used the same id.
OwnersRecovered ==
    Migrated => \A t \in ToSet(Owned) :
                  \A row \in ToSet(Rows(disk.tables, t)) :
                     row.owner \in {row.writer, Unknown}

\* The legacy databases of which that is so: a version that names a hypothesis or
\* prediction is its writer's own, and who wrote one has evidence stored too
\* (commit_plan writes evidence first, and a reset clears all or nothing).
SubjectsApart(tables) ==
    \A t \in ToSet(Owned) :
        \A row \in ToSet(Rows(tables, t)) :
            /\ \A model \in ToSet(Rows(tables, "world_models")) :
                  row.id \in model.data[t] => model.writer = row.writer
            /\ \E item \in ToSet(Rows(tables, "evidence")) : item.owner = row.writer

\* Whatever the moment of a crash or of a failing write, what the disk holds of
\* a subject can be read back: the pointer leads to a version, everything that
\* version holds is found, the ledger has no gap, evidence cited is there, and
\* the lineage graph has no edge to nowhere (the order of commit_plan's writes,
\* the queries of views.py, build_graph).  Of a legacy database that goes for the
\* coherent ones, see Coherent.
Drawn(s) ==
    [ledger |-> Ledger(disk.tables, s),
     evidence |-> EvidenceOf(disk.tables, s),
     hypotheses |-> Ids(Of(disk.tables, "hypotheses", s)),
     predictions |-> {[id |-> row.id, from |-> row.data] :
                        row \in Of(disk.tables, "predictions", s)},
     inquiries |-> {[id |-> row.id, raisedBy |-> row.data] :
                      row \in Of(disk.tables, "inquiries", s)},
     versions |-> Ids(Of(disk.tables, "world_models", s))]

DrawnAnomalies(s) ==
    {[id |-> row.id, evidence |-> row.data] :
       row \in {x \in ToSet(Rows(disk.tables, "anomalies")) : x.writer = s}}

Readable(s) ==
    LET model == CurrentModel(disk.tables, s)
        ledger == Ledger(disk.tables, s)
        evidence == EvidenceOf(disk.tables, s)
    IN  /\ CurrentPointer(disk.tables, s) # 0 => model # {}
        /\ model # {} =>
             LET shown == Only(model).data
             IN  /\ ActiveHypotheses(disk.tables, s) = shown.hypotheses
                 /\ ActivePredictions(disk.tables, s) = shown.predictions
                 /\ ActiveInquiries(disk.tables, s) = shown.inquiries
        /\ {event.seq : event \in ledger} = 0..(LedgerLength(disk.tables, s) - 1)
        /\ \A row \in Of(disk.tables, "hypotheses", s) :
             row.data \subseteq evidence
        /\ Closed(Drawn(s), DrawnAnomalies(s))

StoreReadable == Migrated => \A s \in Subjects : Readable(s)

\* What a row is known by, and what it cites by those names.
Citable == {"evidence", "hypotheses", "predictions", "inquiries", "ledger",
            "world_models"}
NameOf(t, row) == <<t, IF t = "ledger" THEN row.data.to ELSE row.id>>

Cites(t, row) ==
    CASE t = "hypotheses" -> {"evidence"} \X row.data
      [] t = "predictions" -> {<<"hypotheses", row.data>>}
      [] t = "inquiries" -> {"ledger"} \X ({row.data} \ {0})
      [] t = "anomalies" -> {<<"evidence", row.data>>}
      [] t = "ledger" -> ({"evidence"} \X row.data.evidence)
                         \cup ({"ledger"} \X ({row.data.from} \ {0}))
                         \cup {<<"hypotheses", row.data.affected>>}
      [] t = "world_models" -> ({"hypotheses"} \X row.data.hypotheses)
                               \cup ({"predictions"} \X row.data.predictions)
                               \cup ({"inquiries"} \X row.data.inquiries)
      [] t = "current_pointer" -> {<<"world_models", row.data>>, <<"ledger", row.data>>}
      [] OTHER -> {}

\* The legacy databases that are readable once migrated: what a subject's rows
\* cite that subject wrote, its ledger has no gap, and nothing that is cited has to
\* be quarantined (commit_plan leaves no other, except that an interaction cut
\* short before its version may have founded a hypothesis no version holds).
WrittenBy(tables, t, s) == {row \in ToSet(Rows(tables, t)) : row.writer = s}

Entries(tables, s) ==
    {i \in DOMAIN Rows(tables, "ledger") : Rows(tables, "ledger")[i].writer = s}

Coherent(tables) ==
    /\ SubjectsApart(tables)
    /\ \A s \in Subjects :
         LET names == UNION {{NameOf(t, row) : row \in WrittenBy(tables, t, s)} :
                               t \in Citable}
         IN  /\ \A t \in ToSet(Schema) : \A row \in WrittenBy(tables, t, s) :
                  \A cited \in Cites(t, row) :
                     /\ cited \in names
                     /\ cited[1] \in ToSet(Owned)
                          => Recovered(tables, cited[1])[cited[2]] # Unknown
             /\ {row.data.seq : row \in WrittenBy(tables, "ledger", s)}
                  = 0..(Cardinality(Entries(tables, s)) - 1)
=============================================================================
