-------------------------- MODULE MCSchedulerProcess --------------------------
(***************************************************************************)
(* Instances of SchedulerProcess for TLC.                                  *)
(***************************************************************************)
EXTENDS SchedulerProcess, TLC

CONSTANTS j1, j2, t1, t2, t3, p1, p2, p3

\* Each tick in a process of its own: a crash takes one and spares the other.
PodOfTick == (t1 :> p1) @@ (t2 :> p2)

\* Two overlapping ticks of one process and one tick of another.
PodOfThree == (t1 :> p1) @@ (t2 :> p1) @@ (t3 :> p2)

\* Counts of some types only, as in buildTokenJobs's "partial non-zero" test.
SomeUsage == [j \in Jobs |-> [input |-> 1, output |-> 0, total |-> 1]]

\* One job with counts and one without any.
MixedUsage == [j \in Jobs |->
    IF j = j1 THEN [input |-> 1, output |-> 0, total |-> 1] ELSE NoTokens]

\* config/default.yaml, in part; and what the environment of each pod says.
File ==
    (<<"postgres", "host">> :> "pg") @@ (<<"postgres", "port">> :> "5432")
    @@ (<<"postgres", "username">> :> "hupla") @@ (<<"postgres", "dbname">> :> "ai_gateway")
    @@ (<<"mysql", "host">> :> "my") @@ (<<"redis", "host">> :> "red")
    @@ (<<"redis", "port">> :> "6379") @@ (<<"gemini", "api_key">> :> "key")
    @@ (<<"scheduler", "cron">> :> "* * * * *")
Environment ==
    (p1 :> (<<"datastores", "db_type">> :> " Postgres"))
    @@ (p2 :> (<<"scheduler", "cron">> :> "*/5 * * * *"))
    @@ (p3 :> (<<"datastores", "db_type">> :> "mysql"))
PodSettings == [p \in Pods |-> LoadConfig(File, Environment[p])]

Spellings == ("" :> "") @@ (" Postgres" :> "postgres") @@ ("mysql" :> "mysql")
=============================================================================
