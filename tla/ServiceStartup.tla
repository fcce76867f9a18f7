--------------------------- MODULE ServiceStartup ---------------------------
(***************************************************************************)
(* The service's task beside the bootstrap of its database.  A task starts *)
(* as soon as ECS has it, ready or not: it connects as tmpower, lets       *)
(* Flyway migrate, and comes up.  A task that cannot connect or migrate    *)
(* exits, and ECS starts another.                                          *)
(***************************************************************************)
EXTENDS DbBootstrap

VARIABLE task \* "off", "starting", "migrating" or "up"

startupVars == <<vars, task>>

StartupInit == Init /\ task = "off"

\* desired_count = 1.
StartTask ==
    /\ task = "off"
    /\ task' = "starting"
    /\ UNCHANGED vars

\* Flyway connects, and goes on with this connection.
ConnectAtStart ==
    /\ task = "starting" /\ CanConnect("tmpower")
    /\ task' = "migrating"
    /\ UNCHANGED vars

CreateAtStart(t) == task = "migrating" /\ CreateTable(t) /\ UNCHANGED task

CommitAtStart == task = "migrating" /\ CommitMigration /\ UNCHANGED task

\* Flyway has nothing left to do.
ComesUp ==
    /\ task = "migrating" /\ version = Len(Migrations)
    /\ task' = "up"
    /\ UNCHANGED vars

\* Flyway is refused, the health check fails, the task is replaced or dies.  A
\* migration under way is rolled back before another task can go on with it.
TaskStops ==
    /\ task # "off"
    /\ task' = "off"
    /\ RollBack

TaskProceeds ==
    \/ ConnectAtStart
    \/ \E t \in AllTables : CreateAtStart(t)
    \/ CommitAtStart \/ ComesUp

StartupNext ==
    \/ Bootstrap /\ UNCHANGED task
    \/ StartTask \/ TaskProceeds \/ TaskStops

\* ECS starts tasks, and does not go on for ever to stop those that could
\* connect, migrate or come up.  Nothing is assumed of the bootstrap.
StartupSpec ==
    /\ StartupInit /\ [][StartupNext]_startupVars
    /\ WF_startupVars(StartTask) /\ WF_startupVars(TaskProceeds)
    /\ <>[][TaskStops => ~ENABLED TaskProceeds]_startupVars

-----------------------------------------------------------------------------
\* Once an invocation of the lambda has completed, no task is refused at its
\* start: tmpower can log in and migrate, also while db_setup.sql, which takes
\* the right to connect from PUBLIC before it gives it to the users, is run by
\* hand and breaks off in between.
NotRefusedAtStart ==
    Completed # {} =>
        /\ CanConnect("tmpower")
        /\ {<<"member", "tmpower", "migration_grp">>, <<"schema to", "migration_grp">>} \subseteq db

\* One complete run of the lambda is enough for the service to come up, however
\* early the tasks began to start, and whatever the other invocations do; and
\* tmapp can then use the tables of all migrations, or of all but one.
ServiceUsable ==
    Completed # {} ~>
        /\ task = "up" /\ AppEnters
        /\ \E v \in 1..Len(Migrations) : Kinds \X (tables \ TablesOf(v)) \subseteq db
=============================================================================
