------------------------------- MODULE Schema -------------------------------
(***************************************************************************)
(* The database file: sql.js keeps the whole database in memory and writes *)
(* all of it to the file after each statement; opening it brings databases *)
(* of earlier versions to the schema of this one.  The process may stop at *)
(* any time, also while it writes the file, which writing first empties.   *)
(*                                                                         *)
(* Of a schema the model keeps what opening can add or trip over: tables,  *)
(* the columns that came later, and indexes with the columns they need.    *)
(***************************************************************************)
EXTENDS Naturals

CONSTANTS
  Record,      \* what statements insert
  Earlier,     \* what databases of earlier versions hold
  Torn,        \* a file whose writing was cut
  MaxStops     \* bound: times the process stops

VARIABLES
  dbFile,      \* the file: a database or Torn; no file is an empty database
  dbMemory,    \* the database in memory
  dbAt,        \* where the process is
  dbNext,      \* where it goes on once the file is written
  dbKept,      \* a history: records whose insertion returned
  everOpened,  \* a history: this version has opened the database
  cutShort,    \* a history: the process stopped while it wrote the file
  dbStops
schemaVars == <<dbFile, dbMemory, dbAt, dbNext, dbKept, everOpened, cutShort, dbStops>>

-----------------------------------------------------------------------------
(* The schema: initialMigrationSql *)
FileTables == {"workspaces", "files", "blobs", "extracted_sources", "file_artifacts", "file_events"}

MemoryTables == {"memory_nodes", "memory_links", "memory_graph_edges", "recall_traces",
                 "memory_embeddings", "audit_events", "protected_paths"}

ReviewTables == {"memory_promotions", "memory_reviews", "snapshots", "snapshot_items",
                 "memory_health_reports"}

RunTables == {"agent_runs", "agent_run_events", "run_memory_usages", "handoff_summaries",
              "archive_entries"}

TeamTables == {"organizations", "users", "roles", "permissions", "memberships",
               "workspace_members", "sync_cursors", "sync_events", "conflict_records"}

Tables == FileTables \cup MemoryTables \cup ReviewTables \cup RunTables \cup TeamTables

ScopeColumns == {"scope", "project_id", "project_slug", "repo_id", "repo_path", "session_id",
                 "agent_id", "contact_id", "run_id"}

NodeColumns == {"memory_nodes"} \X
  ({"source_location_json", "trust_level", "status", "ttl_expires_at", "valid_from", "valid_until",
    "last_confirmed_at", "last_used_at", "stale_reason", "duplicate_of", "conflicts_with_json",
    "conflict_reason"} \cup ScopeColumns)

LinkColumns == {"memory_links"} \X {"confidence", "reason"}

PromotionColumns == {"memory_promotions"} \X ScopeColumns

Columns == NodeColumns \cup LinkColumns \cup PromotionColumns

\* What an index is over: its table, and the columns that came later.
Index(table, columns) == [on |-> table, needs |-> {table} \X columns]

NodeIndexes == {Index("memory_nodes", {"trust_level", "status"}), Index("memory_nodes", {"scope"}),
                Index("memory_nodes", {"status", "valid_until", "last_confirmed_at"})}

\* Tables with an index that needs none of them (those of one table count as one).
PlainlyIndexed ==
  Tables \ {"workspaces", "blobs", "file_events", "protected_paths", "organizations", "users",
            "roles", "permissions", "memberships", "sync_cursors"}

Indexes == NodeIndexes \cup {Index(table, {}) : table \in PlainlyIndexed}

NoShape == [tables |-> {}, columns |-> {}, indexes |-> {}]

Current == [tables |-> Tables, columns |-> Columns, indexes |-> Indexes]

Shape == [tables : SUBSET Tables, columns : SUBSET Columns, indexes : SUBSET Indexes]
Database == [shape : Shape, rows : SUBSET Record]

ASSUME SchemaAssumption == Earlier \subseteq Record /\ Torn \notin Database

-----------------------------------------------------------------------------
(* Statements on a schema *)

\* CREATE TABLE IF NOT EXISTS: a table that exists gets no column.
CreateTables(shape, tables, columns) ==
  [shape EXCEPT !.tables  = @ \cup tables,
                !.columns = @ \cup {c \in columns : c[1] \in tables \ shape.tables}]

Indexable(shape, index) == index.on \in shape.tables /\ index.needs \subseteq shape.columns

\* CREATE INDEX IF NOT EXISTS under tryRun, which goes on when it fails.
TryIndexes(shape, indexes) ==
  [shape EXCEPT !.indexes = @ \cup {i \in indexes : Indexable(shape, i)}]

\* ALTER TABLE ADD COLUMN under tryRun: fails on a column that is there.
TryColumns(shape, columns) ==
  [shape EXCEPT !.columns = @ \cup {c \in columns : c[1] \in shape.tables}]

\* initialMigrationSql stops at its first statement that fails, an index on
\* a column of a table of an earlier version.
ScriptFails(shape) ==
  \E i \in Indexes \ shape.indexes : ~Indexable(CreateTables(shape, Tables, Columns), i)

Scripted(shape) ==
  LET made == CreateTables(shape, Tables, Columns)
  IN  [made EXCEPT !.indexes = @ \cup Indexes]

\* applyCompatibilityMigrations: columns and tables of the memory and of its review.
CompatMemory(shape) ==
  LET altered == TryColumns(shape, NodeColumns \cup LinkColumns)
      graph   == CreateTables(altered, {"memory_graph_edges", "recall_traces", "extracted_sources",
                                        "file_artifacts"}, {})
  IN  TryIndexes(graph, {Index(t, {}) : t \in {"memory_links", "extracted_sources",
                                               "file_artifacts", "recall_traces"}})

CompatReview(shape) ==
  LET made    == CreateTables(shape, {"memory_promotions", "memory_reviews"}, {})
      altered == TryColumns(made, PromotionColumns)
      all     == CreateTables(altered, {"snapshots", "snapshot_items", "memory_health_reports"}, {})
  IN  TryIndexes(all, NodeIndexes \cup
        {Index(t, {}) : t \in {"memory_graph_edges", "memory_promotions", "memory_reviews",
                               "snapshots", "snapshot_items", "memory_health_reports"}})

CompatRuns(shape) ==
  TryIndexes(CreateTables(shape, RunTables, {}), {Index(t, {}) : t \in RunTables})

CompatTeam(shape) ==
  TryIndexes(CreateTables(shape, TeamTables, {}),
             {Index(t, {}) : t \in {"workspace_members", "sync_events", "conflict_records"}})

\* In error: the columns of promotions are added before their table is there,
\* and those of memories are forgotten.
CompatibleShuffled(shape) ==
  CompatTeam(CompatRuns(CompatReview(TryColumns(shape, LinkColumns \cup PromotionColumns))))

Compatible(shape) == CompatTeam(CompatRuns(CompatReview(CompatMemory(shape))))

-----------------------------------------------------------------------------
(* The file: SqliteDatabase and SqliteStatement *)
Empty == [shape |-> NoShape, rows |-> {}]

\* persist: a step follows when the file is written.
Persist(step) == dbAt' = "writing" /\ dbNext' = step

Written ==
  /\ dbAt = "writing"
  /\ dbFile' = dbMemory
  /\ dbAt' = dbNext
  /\ dbKept' = IF dbNext = "open" THEN dbKept \cup dbMemory.rows ELSE dbKept
  /\ everOpened' = (everOpened \/ dbNext = "open")
  /\ UNCHANGED <<dbMemory, dbNext, cutShort, dbStops>>

Refuse == dbAt' = "failed" /\ dbMemory' = Empty /\ dbNext' = "failed"

\* openMemoryDatabase: the file is read and its pragmas are set.
OpenMemoryDatabase ==
  /\ dbAt = "closed"
  /\ IF dbFile = Torn THEN Refuse ELSE dbMemory' = dbFile /\ Persist("script")
  /\ UNCHANGED <<dbFile, dbKept, everOpened, cutShort, dbStops>>

RunScript ==
  /\ dbAt = "script"
  /\ IF ScriptFails(dbMemory.shape) THEN Refuse
     ELSE dbMemory' = [dbMemory EXCEPT !.shape = Scripted(@)] /\ Persist("compatibility")
  /\ UNCHANGED <<dbFile, dbKept, everOpened, cutShort, dbStops>>

ApplyCompatibilityMigrations ==
  /\ dbAt = "compatibility"
  /\ dbMemory' = [dbMemory EXCEPT !.shape = Compatible(@)]
  /\ Persist("open")
  /\ UNCHANGED <<dbFile, dbKept, everOpened, cutShort, dbStops>>

\* In error: a statement returns and the file is written by the next one.
AfterRunLater == dbAt' = "open" /\ dbNext' = dbNext

AfterRun == Persist("open")

\* SqliteStatement.run
RunStatement(r) ==
  /\ dbAt = "open" /\ r \notin dbMemory.rows
  /\ dbMemory' = [dbMemory EXCEPT !.rows = @ \cup {r}]
  /\ AfterRun
  /\ dbKept' = IF dbAt' = "open" THEN dbKept \cup {r} ELSE dbKept
  /\ UNCHANGED <<dbFile, everOpened, cutShort, dbStops>>

Close ==
  /\ dbAt = "open"
  /\ Persist("closed")
  /\ UNCHANGED <<dbFile, dbMemory, dbKept, everOpened, cutShort, dbStops>>

\* The process stops.  While it writes, the file may still be what it was, be
\* emptied, hold a part, or be complete.
Stop ==
  /\ dbAt # "closed" /\ dbStops < MaxStops
  /\ dbStops' = dbStops + 1
  /\ dbAt' = "closed" /\ dbNext' = "closed" /\ dbMemory' = Empty
  /\ IF dbAt = "writing"
     THEN /\ dbFile' \in {dbFile, Empty, Torn, dbMemory}
          /\ cutShort' = (cutShort \/ dbFile' \notin {dbFile, dbMemory})
     ELSE UNCHANGED <<dbFile, cutShort>>
  /\ UNCHANGED <<dbKept, everOpened>>

-----------------------------------------------------------------------------
\* A database of an earlier version: it lacks a table or a column that came
\* later, or all of them, and the indexes that need them.
Without(tables, columns) ==
  LET there == Tables \ tables
      has   == {c \in Columns \ columns : c[1] \in there}
  IN  [tables |-> there, columns |-> has,
       indexes |-> {i \in Indexes : i.on \in there /\ i.needs \subseteq has}]

LaterTables == {"memory_graph_edges", "recall_traces", "extracted_sources", "file_artifacts",
                "memory_promotions", "memory_reviews", "snapshots", "snapshot_items",
                "memory_health_reports"} \cup RunTables \cup TeamTables

EarlierShapes ==
  {Without(ts, cs) : ts \in {{}, LaterTables} \cup {{t} : t \in LaterTables},
                     cs \in {{}, Columns} \cup {{c} : c \in Columns}}

Databases == {Empty} \cup {[shape |-> s, rows |-> Earlier] : s \in EarlierShapes}

SchemaInit(files) ==
  /\ dbFile \in files
  /\ dbMemory = Empty /\ dbAt = "closed" /\ dbNext = "closed"
  /\ dbKept = dbFile.rows /\ everOpened = FALSE /\ cutShort = FALSE /\ dbStops = 0

SchemaNext ==
  \/ Written \/ OpenMemoryDatabase \/ RunScript \/ ApplyCompatibilityMigrations
  \/ \E r \in Record : RunStatement(r)
  \/ Close \/ Stop

SchemaTypeOK ==
  /\ dbFile = Torn \/ dbFile \in Database
  /\ dbMemory \in Database
  /\ {dbAt, dbNext} \subseteq {"closed", "writing", "script", "compatibility", "open", "failed"}
  /\ dbKept \subseteq Record /\ {everOpened, cutShort} \subseteq BOOLEAN /\ dbStops \in 0..MaxStops

-----------------------------------------------------------------------------
\* A database that was opened, from whatever version and however often opening
\* it was cut short, has every table, column and index of this version
\* (openMemoryDatabase, applyCompatibilityMigrations).
OpenedIsCurrent == dbAt = "open" => dbMemory.shape = Current

\* Unless the process stopped in the middle of writing the file, a database this
\* version has opened opens again, and holds all that was ever stored in it
\* (SqliteStatement.run, SqliteDatabase.persist).
AcknowledgedSurvive ==
  everOpened /\ ~cutShort => dbAt # "failed" /\ (dbAt = "open" => dbKept \subseteq dbMemory.rows)
=============================================================================
