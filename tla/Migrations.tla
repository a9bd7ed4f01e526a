----------------------------- MODULE Migrations -----------------------------
(***************************************************************************)
(* runMigrations (src/kernel-impl/postgres/migrations/runner.ts), which     *)
(* PostgresStorage.initialize calls in every process that starts.  A        *)
(* process reads the applied versions, once, and applies what is missing in *)
(* the order of the versions, each by a transaction that runs the SQL of    *)
(* the migration and inserts its version.                                   *)
(*                                                                          *)
(* Postgres (external): the version is the primary key of its table, so an  *)
(* insert waits for an uncommitted insert of the same version, and fails    *)
(* when that commits.  CREATE TABLE IF NOT EXISTS may fail too when two run *)
(* it at once.  Processes of several releases start, each of which knows    *)
(* the migrations up to some version; the SQL of a migration is abstracted  *)
(* to how often it has taken effect.                                        *)
(***************************************************************************)
EXTENDS Naturals, FiniteSets

CONSTANTS
    Servers,        \* processes, each of which starts once
    LastVersion     \* the migrations there are: 1 .. LastVersion

ASSUME MigrationAssumption == Servers # {} /\ IsFiniteSet(Servers) /\ LastVersion \in Nat

Versions == 1 .. LastVersion

VARIABLES
    migrated,       \* the rows of schema_migrations
    effects,        \* how often the SQL of a migration is committed
    server,         \* the processes
    outages         \* auxiliary: processes that something else made fail

migrationvars == <<migrated, effects, server, outages>>

MigrationTypeOK ==
    /\ migrated \subseteq Versions /\ outages \subseteq Servers
    /\ effects \in [Versions -> 0 .. Cardinality(Servers)]
    /\ server \in [Servers -> [release : Versions, todo : SUBSET Versions,
          at : {"new", "table", "next", "sql", "inserted", "started", "threw"}]]

MigrationInit ==
    /\ migrated = {} /\ outages = {}
    /\ effects = [v \in Versions |-> 0]
    /\ server \in [Servers -> [release : Versions, todo : {{}}, at : {"new"}]]

----------------------------------------------------------------------------
Step(p, at) == server' = [server EXCEPT ![p].at = at]

\* The migration that p applies.
Current(p) == CHOOSE v \in server[p].todo : \A u \in server[p].todo : v <= u

EnsureMigrationsTable(p) ==
    /\ server[p].at = "new"
    /\ Step(p, "table")
    /\ UNCHANGED <<migrated, effects, outages>>

GetAppliedVersions(p) ==
    /\ server[p].at = "table"
    /\ server' = [server EXCEPT ![p].todo = (1 .. server[p].release) \ migrated, ![p].at = "next"]
    /\ UNCHANGED <<migrated, effects, outages>>

\* applyMigration: the transaction begins, and runs the SQL.
RunSql(p) ==
    /\ server[p].at = "next" /\ server[p].todo # {}
    /\ Step(p, "sql")
    /\ UNCHANGED <<migrated, effects, outages>>

\* applyMigration: the insert, which throws when the version is there.
InsertVersion(p) ==
    /\ server[p].at = "sql"
    /\ \A q \in Servers : server[q].at = "inserted" => Current(q) # Current(p)
    /\ Step(p, IF Current(p) \in migrated THEN "threw" ELSE "inserted")
    /\ UNCHANGED <<migrated, effects, outages>>

CommitMigration(p) ==
    /\ server[p].at = "inserted"
    /\ migrated' = migrated \cup {Current(p)}
    /\ effects' = [effects EXCEPT ![Current(p)] = @ + 1]
    /\ server' = [server EXCEPT ![p].todo = @ \ {Current(p)}, ![p].at = "next"]
    /\ UNCHANGED outages

\* runMigrations returns, and initialize goes on.
ServerStarts(p) ==
    /\ server[p].at = "next" /\ server[p].todo = {}
    /\ Step(p, "started")
    /\ UNCHANGED <<migrated, effects, outages>>

\* A statement fails for another reason, or the process crashes: its transaction
\* is rolled back.
ServerFails(p) ==
    /\ server[p].at \notin {"started", "threw"}
    /\ Step(p, "threw") /\ outages' = outages \cup {p}
    /\ UNCHANGED <<migrated, effects>>

MigrationNext ==
    \E p \in Servers :
        \/ EnsureMigrationsTable(p) \/ GetAppliedVersions(p) \/ RunSql(p)
        \/ InsertVersion(p) \/ CommitMigration(p) \/ ServerStarts(p) \/ ServerFails(p)

MigrationSpec == MigrationInit /\ [][MigrationNext]_migrationvars

----------------------------------------------------------------------------
\* However many processes start and fail at once, the SQL of a migration has
\* taken effect once if its version is recorded, and never otherwise.
MigratedOnce == \A v \in Versions : effects[v] = IF v \in migrated THEN 1 ELSE 0

\* Migrations are applied in their order, also by processes of several releases
\* that take turns, and a process that has started has all that it knows.
MigratedInOrder ==
    /\ \A v \in migrated : 1 .. v \subseteq migrated
    /\ \A p \in Servers : server[p].at = "started" => 1 .. server[p].release \subseteq migrated

\* A process that finds its migration applied by another fails to start.  Not all
\* do: one gets through, unless something else makes it fail.
SomeServerStarts ==
    (\A p \in Servers : server[p].at = "threw") => outages # {}

\* Migrations take effect once and in order, and do not stop all processes.
MigrationsHold == MigratedOnce /\ MigratedInOrder /\ SomeServerStarts
=============================================================================
