------------------------------ MODULE Deployment ------------------------------
(***************************************************************************)
(* The processes around one database schema: the API server, which checks  *)
(* that its tables exist before it serves; runs of cmd/db-migrate; and     *)
(* programs that use the client library, which can do both.                *)
(*                                                                         *)
(* No process waits for another.  A migration looks at a table and then    *)
(* creates or alters it, in two statements, while others do the same; any  *)
(* statement may fail, before or after it took effect, and then the whole  *)
(* run is over, with the tables before it done.  Each process works on the *)
(* database its own configuration names.                                   *)
(*                                                                         *)
(* What AutoMigrate and HasTable of GORM do is external.  Tables are not   *)
(* dropped, and what is "current" stays so while this version is deployed. *)
(***************************************************************************)
EXTENDS ApiServer, Startup, Sequences

CONSTANTS
    Api,        \* the API server
    Migrators,  \* runs of cmd/db-migrate
    Rerun,      \* those an operator repeats
    Clients,    \* users of NewClient
    Casts,      \* which of them may be there together; the others never start
    Settings,   \* the configuration of each of them
    Found       \* how the tables of a database may be found at first

Processes == {Api} \cup Migrators \cup Clients

ASSUME DeploymentAssumption ==
    /\ Api \notin Migrators \cup Clients
    /\ Migrators \cap Clients = {}
    /\ Rerun \subseteq Migrators
    /\ Casts \subseteq SUBSET Processes
    /\ DOMAIN Settings = Processes
    /\ Found \subseteq [{"prompt_configs", "token_jobs"} -> {"missing", "old", "current"}]

VARIABLES
    schema,  \* schema[d][m]: table m of database d is "missing", "old", "current"
    at,      \* where each process is
    todo,    \* the tables a process has still to check or migrate
    seen     \* what a migration found of the first of them, "nothing" yet

deployVars == <<schema, at, todo, seen>>
deploymentVars == <<serverVars, deployVars>>

MigrationModels == <<"prompt_configs", "token_jobs">>
Tables == {MigrationModels[i] : i \in DOMAIN MigrationModels}

\* A process can connect to its database, which is this one.
Connects(p) == IF p \in Clients THEN ClientStarts(Settings[p]) ELSE Opens(Settings[p])
DatabaseFor(p) == IF p \in Clients THEN ClientDatabaseOf(Settings[p]) ELSE DatabaseOf(Settings[p])
Databases == {DatabaseFor(p) : p \in {q \in Processes : Connects(q)}}

\* The table process p has come to, as it is now.
ComesTo(p, m) == todo[p] # << >> /\ Head(todo[p]) = m
Table(p) == schema[DatabaseFor(p)][Head(todo[p])]

Tabled(p) == \A m \in Tables : schema[DatabaseFor(p)][m] # "missing"
Migrated(p) == \A m \in Tables : schema[DatabaseFor(p)][m] = "current"

DeploymentInit ==
    /\ ServerInit
    /\ schema \in [Databases -> Found]
    /\ \E cast \in Casts : at = [p \in Processes |-> IF p \in cast THEN "off" ELSE "absent"]
    /\ todo = [p \in Processes |-> << >>]
    /\ seen = [p \in Processes |-> "nothing"]

Goto(p, where) == at' = [at EXCEPT ![p] = where]

\* Process p has nothing more to check or migrate, and comes to where.
GiveUp(p, where) ==
    /\ Goto(p, where)
    /\ todo' = [todo EXCEPT ![p] = << >>]
    /\ seen' = [seen EXCEPT ![p] = "nothing"]

\* A process that fails is over; a client's call returns the error.
Fail(p) == GiveUp(p, IF p \in Clients THEN "ready" ELSE "off")

\* Process p is through with its first table, and comes to where if it was the last.
Proceed(p, where) ==
    /\ todo' = [todo EXCEPT ![p] = Tail(todo[p])]
    /\ IF Len(todo[p]) = 1 THEN Goto(p, where) ELSE UNCHANGED at

-----------------------------------------------------------------------------
\* A process is not there: never started, failed, killed, or over.
Off(p) ==
    \/ at[p] = "off"
    \/ p \in Migrators /\ at[p] = "migrated"
    \/ p = Api /\ at[p] = "up" /\ ~Alive

\* A process is started, again maybe, and gets its database connection:
\* LoadConfig, ResolveSQLConfig, Open.  NewClient opens Redis as well.
Connect(p) ==
    /\ Off(p)
    /\ Connects(p)
    /\ Goto(p, IF p = Api THEN "checking" ELSE IF p \in Migrators THEN "migrating" ELSE "ready")
    /\ todo' = [todo EXCEPT ![p] = IF p \in Clients THEN << >> ELSE MigrationModels]
    /\ UNCHANGED <<serverVars, schema, seen>>

\* A client's program calls CheckMigration or Migrate.
Call(p) ==
    /\ p \in Clients
    /\ at[p] \in {"ready", "checked", "migrated"}
    /\ \E what \in {"checking", "migrating"} : Goto(p, what)
    /\ todo' = [todo EXCEPT ![p] = MigrationModels]
    /\ UNCHANGED <<serverVars, schema, seen>>

\* ensureSchema and CheckMigration: the table exists, whatever its columns ...
CheckTable_FirstOnly(p) ==
    /\ at[p] = "checking"
    /\ Table(p) # "missing"
    /\ GiveUp(p, "checked")
    /\ UNCHANGED <<serverVars, schema>>
CheckTable(p) ==
    /\ at[p] = "checking"
    /\ Table(p) # "missing"
    /\ Proceed(p, "checked")
    /\ UNCHANGED <<serverVars, schema, seen>>

\* ... or it does not, for which a query that fails is taken, too.
CheckFails(p) ==
    /\ at[p] = "checking"
    /\ Fail(p)
    /\ UNCHANGED <<serverVars, schema>>

\* AutoMigrate looks at the next table.  It, too, takes a query that fails for
\* a table that is not there.
LookUp_NeverThere(p) ==
    /\ at[p] = "migrating"
    /\ seen[p] = "nothing"
    /\ seen' = [seen EXCEPT ![p] = "missing"]
    /\ UNCHANGED <<serverVars, schema, at, todo>>
LookUp(p) ==
    /\ at[p] = "migrating"
    /\ seen[p] = "nothing"
    /\ \E s \in {Table(p), "missing"} : seen' = [seen EXCEPT ![p] = s]
    /\ UNCHANGED <<serverVars, schema, at, todo>>

\* It creates or alters the table, if need be.  CREATE TABLE and ADD COLUMN
\* fail when somebody else was faster.
Current(p) == [schema EXCEPT ![DatabaseFor(p)][Head(todo[p])] = "current"]
Apply_ErrorIgnored(p) ==
    /\ at[p] = "migrating"
    /\ seen[p] # "nothing"
    /\ schema' = IF seen[p] = Table(p) THEN Current(p) ELSE schema
    /\ seen' = [seen EXCEPT ![p] = "nothing"]
    /\ Proceed(p, "migrated")
    /\ UNCHANGED serverVars
Apply(p) ==
    /\ at[p] = "migrating"
    /\ seen[p] = Table(p)
    /\ schema' = Current(p)
    /\ seen' = [seen EXCEPT ![p] = "nothing"]
    /\ Proceed(p, "migrated")
    /\ UNCHANGED serverVars

\* An error, maybe of a statement that took effect: log.Fatalf, or returned.
ApplyFails(p) ==
    /\ at[p] = "migrating"
    /\ seen[p] # "nothing"
    /\ schema' \in {schema} \cup {Current(p) : s \in {seen[p]} \cap {Table(p)}}
    /\ Fail(p)
    /\ UNCHANGED serverVars

\* The API server gets Redis, the provider and its port, and serves.
Assemble ==
    /\ at[Api] = "checked"
    /\ RedisAndProvider(Settings[Api])
    /\ Goto(Api, "up")
    /\ main' = "notify" /\ signalled' = FALSE /\ health' = "SERVING"
    /\ serving' = "starting" /\ serveErr' = "empty" /\ draining' = "off"
    /\ quit' = FALSE /\ done' = FALSE
    /\ handler' = [c \in Calls |-> "none"]
    /\ UNCHANGED <<schema, todo, seen>>

\* The API server does not get that far, or db-migrate or it is killed.  (A
\* client's program that ends is one that makes no more calls.)
Kill(p) ==
    /\ p \notin Clients
    /\ at[p] \in {"checking", "checked", "migrating"}
    /\ GiveUp(p, "off")
    /\ UNCHANGED <<serverVars, schema>>

ProcessStep(p) ==
    \/ Connect(p) \/ Call(p)
    \/ CheckTable(p) \/ CheckFails(p)
    \/ LookUp(p) \/ Apply(p) \/ ApplyFails(p)
    \/ Kill(p)

\* A step of the API server that is up.
Serving(step) == at[Api] = "up" /\ step /\ UNCHANGED deployVars

DeploymentNext ==
    \/ \E p \in Processes : ProcessStep(p)
    \/ Assemble
    \/ Serving(ServerNext)

DeploymentSpec == DeploymentInit /\ [][DeploymentNext]_deploymentVars

-----------------------------------------------------------------------------
\* The API server is restarted, and somebody repeats db-migrate, when they are
\* over; statements return, and what is tried again and again succeeds.  Other
\* runs of db-migrate and clients owe nothing.  In the server itself it is as
\* in ServerFairness.
DeploymentFairness ==
    /\ \A p \in {Api} \cup Rerun : WF_deploymentVars(Connect(p))
    /\ \A m \in Tables : SF_deploymentVars(ComesTo(Api, m) /\ CheckTable(Api))
    /\ SF_deploymentVars(Assemble)
    /\ \A p \in Rerun : WF_deploymentVars(LookUp(p) \/ Apply(p) \/ ApplyFails(p))
    /\ \A p \in Rerun, m \in Tables :
        /\ SF_deploymentVars(ComesTo(p, m) /\ LookUp(p) /\ seen'[p] = Table(p))
        /\ SF_deploymentVars(ComesTo(p, m) /\ Apply(p))
    /\ WF_deploymentVars(Serving(MainStep))
    /\ WF_deploymentVars(Serving(ServeStep))
    /\ WF_deploymentVars(Serving(DrainStep))
    /\ \A c \in Calls \ Stubborn :
        WF_deploymentVars(Serving(Alive /\ handler[c] = "cancelled" /\ HandlerReturns(c)))

DeploymentFairSpec == DeploymentSpec /\ DeploymentFairness

-----------------------------------------------------------------------------
\* A migration that reports success, cmd/db-migrate's last line or the nil of
\* Migrate, leaves every table current in the database of the process that
\* ran it, whoever migrated alongside and whatever failed before.
MigratedMeansCurrent == \A p \in Processes : at[p] = "migrated" => Migrated(p)

\* No RPC is handled, and no CheckMigration succeeds, unless every table of
\* MigrationModels exists in the database of that very process.
TablesBeforeCalls ==
    /\ at[Api] = "up" => Tabled(Api)
    /\ \A p \in Clients : at[p] = "checked" => Tabled(p)

\* "run `make db-migrate` and restart the API": with a complete configuration,
\* and a db-migrate told of the same database repeated, that gets the API server up
\* again and again, whatever died in the middle of a migration.
ServesInTheEnd ==
    /\ Opens(Settings[Api]) /\ RedisAndProvider(Settings[Api])
    /\ at[Api] # "absent"
    /\ \E p \in Rerun :
        at[p] # "absent" /\ Connects(p) /\ DatabaseFor(p) = DatabaseFor(Api)
    => []<>(at[Api] = "up")
=============================================================================
