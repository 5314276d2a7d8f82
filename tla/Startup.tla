-------------------------------- MODULE Startup --------------------------------
(***************************************************************************)
(* From a configuration to the stores a process works with: LoadConfig,    *)
(* ResolveSQLConfig, and what Open, NewRedis and newGoogleProvider refuse  *)
(* before they connect to anything.                                        *)
(*                                                                         *)
(* A configuration is a function from keys to texts; "" stands for a key   *)
(* that is absent, empty or 0.  A connection string is what it addresses.  *)
(***************************************************************************)
CONSTANTS
    Normalized,    \* strings.ToLower and TrimSpace, of the spellings of db_type here
    NotANumber,    \* a port, or Redis database, that does not parse
    Unreadable,    \* a file that is missing or no YAML, and what is loaded from it
    BadSchedules   \* schedules that are blank or that cron does not parse

SQLFields == {"host", "port", "username", "password", "dbname"}
SQLTypes == {"postgres", "mysql"}
Keys ==
    {<<"datastores", "db_type">>, <<"gemini", "api_key">>, <<"scheduler", "cron">>}
        \cup SQLTypes \X SQLFields
        \cup {"redis"} \X {"host", "port", "password", "database"}

\* LoadConfig, given one file as every main does: a variable of the
\* environment overrides the file's value, unless it is empty.
LoadConfig(file, env) ==
    IF file = Unreadable
    THEN Unreadable
    ELSE [k \in Keys |-> IF k \in DOMAIN env /\ env[k] # "" THEN env[k]
                         ELSE IF k \in DOMAIN file THEN file[k] ELSE ""]

\* It fails where the file cannot be read, or a field that is an int gets no number.
Numbers == (SQLTypes \cup {"redis"}) \X {"port"} \cup {<<"redis", "database">>}
Loads(cfg) == cfg # Unreadable /\ \A k \in Numbers : cfg[k] # NotANumber

\* ResolveSQLConfig: the type, "postgres" if none is given, and its section.
DBType(cfg) ==
    LET given == Normalized[cfg[<<"datastores", "db_type">>]]
    IN  IF given = "" THEN "postgres" ELSE given
ResolveSQLConfig(cfg) == [f \in SQLFields |-> cfg[<<DBType(cfg), f>>]]

\* validateSQLConfig.
ValidSQLConfig(sql) == \A f \in {"host", "port", "username", "dbname"} : sql[f] # ""

\* buildPostgresDSN and buildMySQLDSN: the database that is opened.
Database(type, sql) ==
    [type |-> type, host |-> sql["host"], port |-> sql["port"], dbname |-> sql["dbname"]]

\* Open gets as far as connecting to DatabaseOf(cfg).
Opens(cfg) == Loads(cfg) /\ DBType(cfg) \in SQLTypes /\ ValidSQLConfig(ResolveSQLConfig(cfg))
DatabaseOf(cfg) == Database(DBType(cfg), ResolveSQLConfig(cfg))

\* So far get NewRedis and newGoogleProvider.
RedisOpens(cfg) == cfg[<<"redis", "host">>] # "" /\ cfg[<<"redis", "port">>] # ""
RedisOf(cfg) == [f \in {"host", "port", "database"} |-> cfg[<<"redis", f>>]]
ProviderOpens(cfg) == cfg[<<"gemini", "api_key">>] # ""
RedisAndProvider(cfg) == RedisOpens(cfg) /\ ProviderOpens(cfg)

\* NewClient, which knows only MySQL and reads no file, gets as far as that.
ClientStarts(cfg) == ValidSQLConfig([f \in SQLFields |-> cfg[<<"mysql", f>>]]) /\ RedisAndProvider(cfg)
ClientDatabaseOf(cfg) == Database("mysql", [f \in SQLFields |-> cfg[<<"mysql", f>>]])

\* cmd/scheduler gets as far as starting its cron.
SchedulerStarts(cfg) ==
    Opens(cfg) /\ RedisAndProvider(cfg) /\ cfg[<<"scheduler", "cron">>] \notin BadSchedules
=============================================================================
