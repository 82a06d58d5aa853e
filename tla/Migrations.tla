----------------------------- MODULE Migrations -----------------------------
(***************************************************************************)
(* The numbered schema migrations of the SQLite store (MigrationRunner and *)
(* v001..v008), run by every server process that opens the database file.  *)
(*                                                                         *)
(* Python's sqlite3 module opens a transaction before INSERT and UPDATE    *)
(* only: every CREATE, ALTER and DROP commits on its own unless a          *)
(* transaction is already open.  A migration is therefore a sequence of    *)
(* statements that take effect one by one, and a last transaction that     *)
(* begins at its first UPDATE and ends with the new version number.        *)
(***************************************************************************)
EXTENDS Naturals, Sequences

CONSTANTS
  Servers,         \* server processes, each started at most once
  StartVersions,   \* schema versions an older release may have left
  LegacyStatuses   \* values of the status column of before v003

ASSUME StartVersionsAssumption == StartVersions \subseteq 0..8

VARIABLES
  schema,     \* tables, columns and indexes that exist in the file
  version,    \* schema_version.version
  row,        \* a workspace saved before the upgrade: status, runtime_state
  phase,      \* phase[s]: what server s is doing
  at,         \* at[s]: the migration and the statement s runs next
  disturbed   \* history: a server died, or two migrated at a time

dbVars == <<schema, version, row>>
vars == <<schema, version, row, phase, at, disturbed>>

-----------------------------------------------------------------------------
(* The statements. *)

Table(o, columns) == [op |-> "table", obj |-> o, on |-> o, brings |-> columns]
Index(o, column)  == [op |-> "index", obj |-> o, on |-> column, brings |-> {}]
Add(column)       == [op |-> "add", obj |-> column, on |-> column, brings |-> {}]
Drop(column)      == [op |-> "drop", obj |-> column, on |-> column, brings |-> {}]
DropIndex(o)      == [op |-> "dropindex", obj |-> o, on |-> o, brings |-> {}]

(* v001..v008 up to the first UPDATE of each.  Columns no migration touches *)
(* stand for their table, indexes on them are left out.                     *)
V001 ==
  << Table("workspaces", {"status", "pr_url", "pr_number", "ci_status"}),
     Index("idx_status", "status"),
     Table("conversations", {}),
     Table("events", {}) >>
V002 == << Index("idx_events_type", "events") >>
V003 == << Add("runtime_state"), Add("workflow_state") >>
V004 == << DropIndex("idx_status"), Drop("status") >>
V005 == << Add("agent_session_id") >>
V006 == << Drop("workflow_state"), Drop("pr_url"), Drop("pr_number"), Drop("ci_status") >>
V007 == << Table("projects", {}), Add("project_id"), Index("idx_project", "project_id") >>
V008 == << Add("workspace_settings_json") >>

Upgrades == << V001, V002, V003, V004, V005, V006, V007, V008 >>

Split == 3   \* the migration whose transaction converts the rows
Latest == Len(Upgrades)

(* The tables and columns the queries of the backend name. *)
Queried == {"workspaces", "conversations", "events", "runtime_state",
            "agent_session_id", "projects", "project_id",
            "workspace_settings_json"}

Makes(st) == IF st.op \in {"table", "index", "add"} THEN {st.obj} \cup st.brings ELSE {}
Unmakes(st) == IF st.op \in {"drop", "dropindex"} THEN {st.obj} ELSE {}

(* IF NOT EXISTS and IF EXISTS forgive; ALTER TABLE does not: a column is   *)
(* added once, and dropped only while it exists and no index reads it.      *)
Fails(st) ==
  CASE st.op = "index" -> st.obj \notin schema /\ st.on \notin schema
    [] st.op = "add"   -> st.obj \in schema
    [] st.op = "drop"  -> \/ st.obj \notin schema
                          \/ st.obj = "status" /\ "idx_status" \in schema
    [] OTHER           -> FALSE

(* CREATE TABLE IF NOT EXISTS leaves an existing table as it is. *)
Apply(st) ==
  (IF st.obj \in schema /\ st.op \in {"table", "index"}
     THEN schema ELSE schema \cup Makes(st)) \ Unmakes(st)

(* The CASE of v003 that derives runtime_state from status. *)
ToRuntime(status) ==
  CASE status \in {"starting", "active", "paused", "ending", "failed"} -> status
    [] status \in {"backlog", "merged", "archived"} -> "ended"
    [] status = "in_review" -> "paused"
    [] OTHER -> "failed"

NoRow == [status |-> "none", runtime |-> "none"]

(* ADD COLUMN gives the row its default, the transaction of v003 converts it. *)
Defaulted(r) == IF r = NoRow THEN r ELSE [r EXCEPT !.runtime = "active"]
Converted(r) == IF r = NoRow THEN r ELSE [r EXCEPT !.runtime = ToRuntime(r.status)]

Statements(i) == {Upgrades[i][k] : k \in DOMAIN Upgrades[i]}

(* What an undisturbed upgrade to version v leaves: no object is dropped    *)
(* and created again.                                                       *)
SchemaAt(v) ==
  (UNION {UNION {Makes(st) : st \in Statements(i)} : i \in 1..v})
    \ (UNION {UNION {Unmakes(st) : st \in Statements(i)} : i \in 1..v})

-----------------------------------------------------------------------------
Migrating == {s \in Servers : phase[s] = "migrating"}

Init ==
  /\ version \in StartVersions
  /\ schema = SchemaAt(version)
  /\ IF version = 0
       THEN row = NoRow
       ELSE \E status \in LegacyStatuses :
              row = [status |-> status,
                     runtime |-> IF version < Split THEN "none" ELSE ToRuntime(status)]
  /\ phase = [s \in Servers |-> "off"]
  /\ at = [s \in Servers |-> <<1, 1>>]
  /\ disturbed = FALSE

(* Variant: i <= current + 1 in the loop of run_pending. *)
OpenSkipping(s) ==
  /\ phase[s] = "off"
  /\ phase' = [phase EXCEPT ![s] = "migrating"]
  /\ at' = [at EXCEPT ![s] = <<version + 2, 1>>]
  /\ disturbed' = (disturbed \/ Migrating # {})
  /\ UNCHANGED dbVars

(* Variant: i < current in the loop of run_pending. *)
OpenRepeating(s) ==
  /\ phase[s] = "off"
  /\ phase' = [phase EXCEPT ![s] = "migrating"]
  /\ at' = [at EXCEPT ![s] = <<IF version = 0 THEN 1 ELSE version, 1>>]
  /\ disturbed' = (disturbed \/ Migrating # {})
  /\ UNCHANGED dbVars

(* SQLiteBackend.initialize: open the file, make sure of the version row,   *)
(* read the version once.                                                   *)
Open(s) ==
  /\ phase[s] = "off"
  /\ phase' = [phase EXCEPT ![s] = "migrating"]
  /\ at' = [at EXCEPT ![s] = <<version + 1, 1>>]
  /\ disturbed' = (disturbed \/ Migrating # {})
  /\ UNCHANGED dbVars

(* Variant: the version is written before upgrade(). *)
ExecuteClaiming(s) ==
  LET i == at[s][1]  k == at[s][2] IN
  /\ phase[s] = "migrating" /\ i <= Latest
  /\ k <= Len(Upgrades[i])
  /\ version' = i
  /\ IF Fails(Upgrades[i][k])
       THEN phase' = [phase EXCEPT ![s] = "failed"] /\ UNCHANGED <<schema, at>>
       ELSE /\ schema' = Apply(Upgrades[i][k])
            /\ at' = [at EXCEPT ![s] = <<i, k + 1>>]
            /\ UNCHANGED phase
  /\ UNCHANGED <<row, disturbed>>

(* One autocommitted statement of upgrade(), or the error it raises: the    *)
(* runner rolls back nothing that is committed and the start fails.         *)
Execute(s) ==
  LET i == at[s][1]  k == at[s][2] IN
  /\ phase[s] = "migrating" /\ i <= Latest
  /\ k <= Len(Upgrades[i])
  /\ IF Fails(Upgrades[i][k])
       THEN /\ phase' = [phase EXCEPT ![s] = "failed"]
            /\ UNCHANGED <<dbVars, at>>
       ELSE /\ schema' = Apply(Upgrades[i][k])
            /\ row' = IF Upgrades[i][k] = Add("runtime_state")
                        THEN Defaulted(row) ELSE row
            /\ at' = [at EXCEPT ![s] = <<i, k + 1>>]
            /\ UNCHANGED <<version, phase>>
  /\ UNCHANGED disturbed

(* Variant: v003 adds the column and keeps its default. *)
CommitUnconverted(s) ==
  LET i == at[s][1]  k == at[s][2] IN
  /\ phase[s] = "migrating" /\ i <= Latest
  /\ k = Len(Upgrades[i]) + 1
  /\ version' = i
  /\ at' = [at EXCEPT ![s] = <<i + 1, 1>>]
  /\ UNCHANGED <<schema, row, phase, disturbed>>

(* The transaction that ends a migration: the rows (v003) and the version. *)
Commit(s) ==
  LET i == at[s][1]  k == at[s][2] IN
  /\ phase[s] = "migrating" /\ i <= Latest
  /\ k = Len(Upgrades[i]) + 1
  /\ version' = i
  /\ row' = IF i = Split THEN Converted(row) ELSE row
  /\ at' = [at EXCEPT ![s] = <<i + 1, 1>>]
  /\ UNCHANGED <<schema, phase, disturbed>>

(* run_pending has returned: the workspaces are loaded, requests answered. *)
Serve(s) ==
  /\ phase[s] = "migrating" /\ at[s][1] > Latest
  /\ phase' = [phase EXCEPT ![s] = "serving"]
  /\ UNCHANGED <<dbVars, at, disturbed>>

(* The process is killed (hbox does it after 15 seconds), or a statement    *)
(* finds the database locked for longer than busy_timeout.                  *)
Die(s) ==
  /\ phase[s] \in {"off", "migrating", "serving"}
  /\ phase' = [phase EXCEPT ![s] = "dead"]
  /\ disturbed' = (disturbed \/ phase[s] = "migrating")
  /\ UNCHANGED <<dbVars, at>>

RunMigrations(s) == Open(s) \/ Execute(s) \/ Commit(s) \/ Serve(s)

Next == \E s \in Servers : RunMigrations(s) \/ Die(s)

Spec == Init /\ [][Next]_vars

-----------------------------------------------------------------------------
TypeOK ==
  /\ schema \subseteq UNION {SchemaAt(v) : v \in 0..Latest}
  /\ version \in 0..Latest
  /\ row.status \in LegacyStatuses \cup {"none"}
  /\ phase \in [Servers -> {"off", "migrating", "serving", "failed", "dead"}]
  /\ at \in [Servers -> (1..Latest + 1) \X Nat]
  /\ disturbed \in BOOLEAN

(* What the migrations before position <<i, k>> must have left behind. *)
DoneBefore(i, k) ==
  /\ \A j \in 1..Latest : j < i =>
       \A st \in Statements(j) : Makes(st) \cap Queried \subseteq schema
  /\ i <= Latest =>
       \A l \in DOMAIN Upgrades[i] :
          l < k => Makes(Upgrades[i][l]) \cap Queried \subseteq schema

RowConverted == row = NoRow \/ row.runtime = ToRuntime(row.status)

(* The version never promises more than the file holds: every table and    *)
(* column that a migration up to the recorded version provides exists,     *)
(* whatever servers race, die half way or write their version late.        *)
VersionSound == DoneBefore(version + 1, 1)

(* A server that answers requests does so on a complete schema: each table *)
(* and column its queries name exists.                                     *)
ServingHasSchema == \A s \in Servers : phase[s] = "serving" => Queried \subseteq schema

(* No server answers requests with the default 'active' that ADD COLUMN    *)
(* gave the rows of before v003: their runtime_state is derived from the   *)
(* status they had.                                                        *)
RowsConverted == \A s \in Servers : phase[s] = "serving" => RowConverted

(* From every version an older release left, a start that nobody disturbs  *)
(* succeeds: no statement of v001..v008 fails on what the earlier ones     *)
(* left (a column still read by an index, a column already there).         *)
AloneSucceeds == disturbed \/ \A s \in Servers : phase[s] # "failed"

(* The promise of migrations/__init__.py that each migration runs in a     *)
(* transaction: while nobody migrates, the file is exactly what the        *)
(* recorded version says.  It does not hold (see README.md).               *)
MigrationsAtomic == Migrating = {} => schema = SchemaAt(version)
=============================================================================
