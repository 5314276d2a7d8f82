----------------------------- MODULE MCDeployment -----------------------------
(***************************************************************************)
(* Instances of Deployment for TLC.                                        *)
(***************************************************************************)
EXTENDS Deployment, TLC

CONSTANTS c1, c2, api, m1, m2, k1

\* config/default.yaml, in part, and what the environment adds for each process.
File ==
    (<<"postgres", "host">> :> "pg") @@ (<<"postgres", "port">> :> "5432")
    @@ (<<"postgres", "username">> :> "hupla") @@ (<<"postgres", "dbname">> :> "ai_gateway")
    @@ (<<"mysql", "host">> :> "my") @@ (<<"mysql", "port">> :> "3306")
    @@ (<<"mysql", "username">> :> "hupla") @@ (<<"mysql", "dbname">> :> "ai_gateway")
    @@ (<<"redis", "host">> :> "red") @@ (<<"redis", "port">> :> "6379")
    @@ (<<"gemini", "api_key">> :> "key")
MySQL == <<"datastores", "db_type">> :> "MySQL"

\* All on MySQL, but for one db-migrate that nobody told of it.
Told == [p \in Processes |-> LoadConfig(File, IF p = m2 THEN << >> ELSE MySQL)]

\* An older prompt_configs, and no token_jobs yet.
Older == {[prompt_configs |-> "old", token_jobs |-> "missing"]}

Spellings == ("" :> "") @@ ("MySQL" :> "mysql")
=============================================================================
