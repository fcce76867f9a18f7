---------------------------- MODULE DbBootstrap ----------------------------
(***************************************************************************)
(* How the database comes by its roles and privileges: the SQL commands of *)
(* the bootstrap lambda and of db_setup.sql, each committed on its own,    *)
(* run by invocations that may overlap and may break off anywhere;         *)
(* Terraform, which opens the firewall and invokes the lambda; and Flyway, *)
(* which migrates as tmpower whenever a task of the service starts, each   *)
(* migration in a transaction.                                             *)
(*                                                                         *)
(* The state of the database is a set of facts: schemas, roles,            *)
(* memberships, privileges.  The group developer_grp, which no user of the *)
(* deployed database belongs to, and search paths are left out.  Of the    *)
(* connection an invocation uses, this module assumes what CommandChannel  *)
(* promises.                                                               *)
(***************************************************************************)
EXTENDS Naturals, Sequences

CONSTANTS
    ByHand,       \* runs of db_setup.sql, in psql
    Lambda,       \* invocations of the lambda
    TerraformRun, \* the one that Terraform makes
    MayAbandon,   \* those that may leave a command behind (all may: a bound)
    Migrations    \* the tables each Flyway migration creates, in order

ASSUME InvocationsAssumption == TerraformRun \in Lambda /\ ByHand \cap Lambda = {}

TablesOf(v) == {Migrations[v][j] : j \in 1..Len(Migrations[v])}

\* No two of the migrations create the same table.
ASSUME MigrationsAssumption ==
    /\ Len(Migrations) \in Nat
    /\ \A v \in 1..Len(Migrations) : Len(Migrations[v]) \in Nat
    /\ \A v, u \in 1..Len(Migrations) : v # u => TablesOf(v) \cap TablesOf(u) = {}

VARIABLES
    db,        \* facts that hold in the database
    tables,    \* tables of tmschema
    version,   \* migrations applied
    created,   \* how many tables the migration under way has created
    granted,   \* privileges on them, which nobody sees until it commits
    reachable, \* does the firewall let the lambda through to the database?
    next,      \* next command of each invocation, 0 while it has no connection
    result     \* what has become of each invocation

migrationVars == <<tables, version, created, granted>>
vars == <<db, migrationVars, reachable, next, result>>

Invocations == Lambda \cup ByHand

-----------------------------------------------------------------------------
(***************************************************************************)
(* SQL commands: the facts they need, the facts they add and remove, the   *)
(* privilege they grant on all existing tables, and whether they fail      *)
(* where a fact they add is there already.                                 *)
(***************************************************************************)
Command(needs, adds) ==
    [needs |-> needs, adds |-> adds, removes |-> {}, onAll |-> {}, guarded |-> TRUE]

CreateSchema == Command({}, {<<"schema">>})
CreateRoles(rs) == Command({}, {<<"role", r>> : r \in rs})
CreateRole(r) == CreateRoles({r})
GrantSchema(r) == Command({<<"schema">>, <<"role", r>>}, {<<"schema to", r>>})
GrantRole(r, u) == Command({<<"role", r>>, <<"role", u>>}, {<<"member", u, r>>})
\* The master is no superuser on RDS: it acts for tmpower as its member only.
DefaultPrivileges(kind) ==
    Command({<<"schema">>, <<"role", "application_grp">>, <<"member", "postgres", "tmpower">>},
            {<<"default", kind>>})
GrantOnAll(kind) ==
    [Command({<<"schema">>, <<"role", "application_grp">>, <<"member", "postgres", "tmpower">>}, {})
        EXCEPT !.onAll = {kind}]
\* Privileges on what the master itself creates, which is nothing.
OwnDefaultPrivileges == Command({<<"schema">>, <<"role", "application_grp">>}, {})

Users == {"tmpower", "tmapp"}
GrantConnect ==
    Command({<<"role", u>> : u \in Users}, {<<"connect", u>> : u \in Users})
RevokeConnect == [Command({}, {}) EXCEPT !.removes = {<<"connect", "public">>}]

Kinds == {"tables", "sequences"}

RolesAndUsers ==
    << CreateSchema, CreateRole("migration_grp"), CreateRole("application_grp"),
       GrantSchema("migration_grp"), GrantSchema("application_grp"),
       CreateRole("tmpower"), CreateRole("tmapp"),
       GrantRole("migration_grp", "tmpower"), GrantRole("application_grp", "tmapp") >>

ActForUsers == Command({<<"role", u>> : u \in Users}, {<<"member", "postgres", u>> : u \in Users})

\* Faulty variant: existing tables first, then default privileges.
DefaultsLast ==
    RolesAndUsers \o
    << ActForUsers,
       GrantOnAll("tables"), GrantOnAll("sequences"),
       DefaultPrivileges("tables"), DefaultPrivileges("sequences"), GrantConnect >>

\* Faulty variant: default privileges without FOR ROLE tmpower, as in db_setup.sql.
NotForTmpower ==
    RolesAndUsers \o
    << ActForUsers, OwnDefaultPrivileges,
       GrantOnAll("tables"), GrantOnAll("sequences"), GrantConnect >>

\* Faulty variant: without the check for an existing role.
UncheckedRoles ==
    [i \in DOMAIN RolesAndUsers |-> [RolesAndUsers[i] EXCEPT !.guarded = i # 6]] \o
    << ActForUsers,
       DefaultPrivileges("tables"), DefaultPrivileges("sequences"),
       GrantOnAll("tables"), GrantOnAll("sequences"), GrantConnect >>

\* Faulty variant: tmpower is not made a member of migration_grp.
NoMigrator ==
    SelectSeq(RolesAndUsers, LAMBDA c : c # GrantRole("migration_grp", "tmpower")) \o
    << ActForUsers, OwnDefaultPrivileges,
       DefaultPrivileges("tables"), DefaultPrivileges("sequences"),
       GrantOnAll("tables"), GrantOnAll("sequences"), GrantConnect >>

\* Faulty variant: everybody may connect anyway, so nobody is granted it.
NoGrantConnect ==
    RolesAndUsers \o
    << ActForUsers, OwnDefaultPrivileges,
       DefaultPrivileges("tables"), DefaultPrivileges("sequences"),
       GrantOnAll("tables"), GrantOnAll("sequences") >>

\* sql_commands of the lambda.
LambdaScript ==
    RolesAndUsers \o
    << ActForUsers, OwnDefaultPrivileges,
       DefaultPrivileges("tables"), DefaultPrivileges("sequences"),
       GrantOnAll("tables"), GrantOnAll("sequences"), GrantConnect >>

\* scripts/db_setup.sql.  A DO block is one command; what it does beside
\* "CREATE ROLE" is left out.
SetupScript ==
    << CreateSchema, CreateRoles({"migration_grp", "application_grp"}),
       GrantSchema("migration_grp"), GrantSchema("application_grp"),
       [OwnDefaultPrivileges EXCEPT !.onAll = {"tables"}],
       CreateRoles({"tmpower", "tmapp"}),
       GrantRole("migration_grp", "tmpower"), GrantRole("application_grp", "tmapp"),
       RevokeConnect, GrantConnect >>

ScriptOf(i) == IF i \in Lambda THEN LambdaScript ELSE SetupScript

-----------------------------------------------------------------------------
Init ==
    /\ db = {<<"connect", "public">>}
    /\ tables = {} /\ version = 0 /\ created = 0 /\ granted = {}
    /\ reachable = FALSE
    /\ next = [i \in Invocations |-> 0]
    /\ result = [i \in Invocations |-> "none"]

Pending(i) == next[i] \in DOMAIN ScriptOf(i)

Refused(c) == ~(c.needs \subseteq db) \/ (~c.guarded /\ c.adds \subseteq db)

Execute(c) ==
    /\ ~Refused(c)
    /\ db' = (db \ c.removes) \cup c.adds \cup c.onAll \X tables

\* Terraform's rule lambda_to_rds.  Nothing orders it and the invocation.
OpenFirewall ==
    /\ ~reachable
    /\ reachable' = TRUE
    /\ UNCHANGED <<db, migrationVars, next, result>>

\* The lambda starts: by Terraform, by EventBridge or by a retry of Lambda's.
\* Or somebody starts psql.
Invoke(i) ==
    /\ result[i] = "none"
    /\ result' = [result EXCEPT ![i] = "running"]
    /\ UNCHANGED <<db, migrationVars, reachable, next>>

Connect(i) ==
    /\ result[i] = "running" /\ next[i] = 0
    /\ i \in Lambda => reachable
    /\ next' = [next EXCEPT ![i] = 1]
    /\ UNCHANGED <<db, migrationVars, reachable, result>>

\* The connection's timeout of 10 seconds ends.
ConnectTimesOut(i) ==
    /\ result[i] = "running" /\ next[i] = 0
    /\ i \in Lambda /\ ~reachable
    /\ result' = [result EXCEPT ![i] = "failed"]
    /\ UNCHANGED <<db, migrationVars, reachable, next>>

\* con.run(cmd), which commits.
Run(i) ==
    /\ result[i] = "running" /\ Pending(i)
    /\ Execute(ScriptOf(i)[next[i]])
    /\ next' = [next EXCEPT ![i] = @ + 1]
    /\ UNCHANGED <<migrationVars, reachable, result>>

\* psql goes on after a command that fails; if it breaks off, it skips the rest.
Skip(i) ==
    /\ i \in ByHand
    /\ result[i] = "running" /\ Pending(i)
    /\ next' = [next EXCEPT ![i] = @ + 1]
    /\ UNCHANGED <<db, migrationVars, reachable, result>>

Complete(i) ==
    /\ result[i] = "running" /\ next[i] = Len(ScriptOf(i)) + 1
    /\ result' = [result EXCEPT ![i] = "completed"]
    /\ next' = [next EXCEPT ![i] = 0]
    /\ UNCHANGED <<db, migrationVars, reachable>>

\* No secret, a connection that breaks, a command that fails (on its own account, or
\* colliding with that of another invocation), or the lambda's timeout.
Fail(i) ==
    /\ result[i] = "running"
    /\ result' = [result EXCEPT ![i] = "failed"]
    /\ next' = [next EXCEPT ![i] = 0]
    /\ UNCHANGED <<db, migrationVars, reachable>>

\* As Fail, but the server has the command, and may execute it yet: the
\* driver's timeout of 10 seconds does not cancel what waits for a lock.
Abandon(i) ==
    /\ i \in MayAbandon
    /\ result[i] = "running" /\ Pending(i)
    /\ result' = [result EXCEPT ![i] = "abandoned"]
    /\ UNCHANGED <<db, migrationVars, reachable, next>>

RunAbandoned(i) ==
    /\ result[i] = "abandoned" /\ Pending(i)
    /\ Execute(ScriptOf(i)[next[i]])
    /\ result' = [result EXCEPT ![i] = "failed"]
    /\ next' = [next EXCEPT ![i] = 0]
    /\ UNCHANGED <<migrationVars, reachable>>

-----------------------------------------------------------------------------
(***************************************************************************)
(* Flyway.  tmpower owns the tables it creates, so its default privileges  *)
(* apply to them: those that are there at CREATE TABLE.  Until it commits, *)
(* no other session sees the tables, GRANT ... ON ALL TABLES neither.      *)
(***************************************************************************)
MayMigrate ==
    /\ version < Len(Migrations)
    /\ {<<"member", "tmpower", "migration_grp">>, <<"schema to", "migration_grp">>} \subseteq db

CreatedTables == {Migrations[version + 1][j] : j \in 1..created}

\* CREATE TABLE, by the next migration.
CreateTable(t) ==
    /\ MayMigrate
    /\ created < Len(Migrations[version + 1]) /\ t = Migrations[version + 1][created + 1]
    /\ created' = created + 1
    /\ granted' = granted \cup {k \in Kinds : <<"default", k>> \in db} \X {t}
    /\ UNCHANGED <<db, tables, version, reachable, next, result>>

\* Faulty variant: a migration that breaks off before it is recorded.
CommitUnrecorded ==
    /\ MayMigrate
    /\ created = Len(Migrations[version + 1])
    /\ tables' = tables \cup CreatedTables
    /\ db' = db \cup granted
    /\ created' = 0 /\ granted' = {}
    /\ UNCHANGED <<version, reachable, next, result>>

CommitMigration ==
    /\ MayMigrate
    /\ created = Len(Migrations[version + 1])
    /\ version' = version + 1
    /\ tables' = tables \cup CreatedTables
    /\ db' = db \cup granted
    /\ created' = 0 /\ granted' = {}
    /\ UNCHANGED <<reachable, next, result>>

\* The migration fails, or its task stops.
RollBack ==
    /\ created' = 0 /\ granted' = {}
    /\ UNCHANGED <<db, tables, version, reachable, next, result>>

AllTables == UNION {TablesOf(v) : v \in 1..Len(Migrations)}

Migrate == CommitMigration \/ \E t \in AllTables : CreateTable(t)

-----------------------------------------------------------------------------
\* Nothing goes wrong of itself.
Faultless(i) ==
    Invoke(i) \/ Connect(i) \/ ConnectTimesOut(i) \/ Run(i) \/ Complete(i)

Bootstrap ==
    \/ OpenFirewall
    \/ \E i \in Invocations :
          Faultless(i) \/ Skip(i)
    \/ \E i \in Lambda :
          Fail(i) \/ Abandon(i) \/ RunAbandoned(i)

Next == Bootstrap \/ Migrate \/ RollBack

Spec == Init /\ [][Next]_vars

-----------------------------------------------------------------------------
Completed == {i \in Lambda : result[i] = "completed"}

CanConnect(u) ==
    /\ <<"role", u>> \in db
    /\ <<"connect", u>> \in db \/ <<"connect", "public">> \in db

\* tmapp can log in and see the schema.
AppEnters ==
    /\ CanConnect("tmapp")
    /\ {<<"member", "tmapp", "application_grp">>, <<"schema to", "application_grp">>} \subseteq db

\* It can read and write every table, and draw ids, as well.
AppReady == AppEnters /\ Kinds \X tables \subseteq db

\* Tables on which tmapp has not all privileges, or will not have when the
\* migration under way commits.
Lacking ==
    {t \in tables : \E k \in Kinds : <<k, t>> \notin db} \cup
    {t \in CreatedTables : \E k \in Kinds : <<k, t>> \notin granted}

\* No table will come to lack them: the default privileges are there, or
\* there is nothing more to migrate.
NoneAtRisk ==
    /\ Kinds \X CreatedTables \subseteq granted
    /\ version = Len(Migrations) \/ {<<"default", k>> : k \in Kinds} \subseteq db

TypeOK ==
    /\ version \in 0..Len(Migrations)
    /\ tables = UNION {TablesOf(v) : v \in 1..version}
    /\ created \in 0..(IF version < Len(Migrations) THEN Len(Migrations[version + 1]) ELSE 0)
    /\ granted \subseteq Kinds \X CreatedTables
    /\ reachable \in BOOLEAN
    /\ \A i \in Invocations : next[i] \in 0..Len(ScriptOf(i)) + 1
    /\ result \in [Invocations -> {"none", "running", "completed", "failed", "abandoned"}]

\* Once an invocation of the lambda has completed, tmapp can log in, and what
\* it lacks privileges on are the tables of a single migration, the one whose
\* transaction was open when the default privileges had come and the grants on
\* existing tables went by; all others it can work with, wherever they were
\* migrated, and whatever invocations that overlapped it, broke off, or left a
\* command behind, and a db_setup.sql run by hand, have done.
MissesOneMigration ==
    Completed # {} =>
        /\ AppEnters
        /\ \A t, u \in Lacking : \E v \in 1..Len(Migrations) : {t, u} \subseteq TablesOf(v)

\* From then on no table comes to lack them that did not: not one that a later
\* migration creates, nor one whose migration was rolled back and is repeated.
NothingNewLacks == [][Completed # {} => Lacking' \subseteq Lacking]_vars

\* Running the lambda again repairs the rest: if it starts when no table is at
\* risk, tmapp can work with every table once it has completed.
RunAgainRepairs ==
    \A i \in Lambda :
        [](result[i] = "none" /\ NoneAtRisk => [](result[i] = "completed" => AppReady))

\* The scripts can be run again, and beside each other: no command is refused
\* because of what other invocations, finished or broken off, left behind.
NoCommandRefused ==
    \A i \in Lambda :
        result[i] \in {"running", "abandoned"} /\ Pending(i) => ~Refused(ScriptOf(i)[next[i]])

-----------------------------------------------------------------------------
FaultlessSpec ==
    Init /\ [][OpenFirewall \/ Migrate \/ \E i \in Lambda : Faultless(i)]_vars

\* docs/aws_deploy.md:60 "The system is ready immediately after Terraform
\* completes": when the firewall rule is there and the invocation has ended,
\* the roles are there.  "aws lambda invoke" succeeds also if the lambda failed.
ReadyAfterTerraform ==
    reachable /\ result[TerraformRun] \in {"completed", "failed"} => AppReady

\* bootstrap_lambda.py:77 "Ensure groups have permissions on future tables
\* created by tmpower (Flyway)" and :82 "Grant permissions on existing tables":
\* once the lambda has completed, tmapp has them on every table.  A table that
\* is created, and not committed, is neither.
PrivilegesComplete == Completed # {} => AppReady
=============================================================================
