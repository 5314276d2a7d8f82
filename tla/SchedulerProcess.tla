--------------------------- MODULE SchedulerProcess ---------------------------
(***************************************************************************)
(* The processes the ticks of BatchJobSync run in: cmd/scheduler from its  *)
(* start to its orderly stop, and pods that are replaced one after the     *)
(* other, as in a rolling update.                                          *)
(*                                                                         *)
(* The cron starts a goroutine for each tick, and counts it, before that   *)
(* goroutine gets to do anything: a tick is fired first, and reads its     *)
(* rows some time after.  On SIGTERM main calls the cron's Stop, which     *)
(* fires no more ticks, and returns when those that were fired are over.   *)
(* Further signals end up in the channel nobody reads any more.            *)
(***************************************************************************)
EXTENDS BatchJobSync, Startup

CONSTANT Settings  \* the configuration each pod loads

\* Locks and rows are shared only by pods that are told of the same stores.
ASSUME ProcessAssumption ==
    /\ DOMAIN Settings = Pods
    /\ \A p, q \in Pods :
        SchedulerStarts(Settings[p]) /\ SchedulerStarts(Settings[q])
            => /\ DatabaseOf(Settings[p]) = DatabaseOf(Settings[q])
               /\ RedisOf(Settings[p]) = RedisOf(Settings[q])

VARIABLES
    up,     \* "down", "running", or "stopping" after a signal, for each pod
    fired   \* the ticks whose goroutine has yet to read its rows

processVars == <<vars, up, fired>>

TicksOf(p) == {t \in Ticks : PodOf[t] = p}

ProcessInit ==
    /\ Init
    /\ up = [p \in Pods |-> "down"]
    /\ fired = {}

\* None of its ticks is fired or under way: the cron's jobWaiter is at zero.
Over(p) == \A t \in TicksOf(p) : pc[t] = "idle" /\ t \notin fired

\* main up to c.Start.  A pod that cannot start stays down and is tried again.
Start(p) ==
    /\ up[p] = "down"
    /\ SchedulerStarts(Settings[p])
    /\ up' = [up EXCEPT ![p] = "running"]
    /\ UNCHANGED <<vars, fired>>

\* The cron of a running pod fires; Stop keeps it from doing so.
MayFire(t) == up[PodOf[t]] = "running" /\ pc[t] = "idle" /\ t \notin fired
Fire_StopUnheard(t) ==
    /\ up[PodOf[t]] # "down" /\ pc[t] = "idle" /\ t \notin fired
    /\ fired' = fired \cup {t}
    /\ UNCHANGED <<vars, up>>
Fire(t) ==
    /\ MayFire(t)
    /\ fired' = fired \cup {t}
    /\ UNCHANGED <<vars, up>>

\* Its goroutine gets to GetActiveBatchJobs, be the pod stopping by then or not.
Begin(t) ==
    /\ t \in fired
    /\ ListActive(t)
    /\ fired' = fired \ {t}
    /\ UNCHANGED up

\* A signal: c.Stop().
Terminate(p) ==
    /\ up[p] = "running"
    /\ up' = [up EXCEPT ![p] = "stopping"]
    /\ UNCHANGED <<vars, fired>>

\* <-c.Stop().Done(): the last tick is over, and main returns.  A process that
\* ends takes the ticks it still has with it.
Return_AtOnce(p) ==
    /\ up[p] = "stopping"
    /\ up' = [up EXCEPT ![p] = "down"]
    /\ fired' = fired \ TicksOf(p)
    /\ pc' = [t \in Ticks |-> IF PodOf[t] = p THEN "idle" ELSE pc[t]]
    /\ cur' = [t \in Ticks |-> IF PodOf[t] = p THEN NoJob ELSE cur[t]]
    /\ result' = [t \in Ticks |-> IF PodOf[t] = p THEN "none" ELSE result[t]]
    /\ snap' = [t \in Ticks |-> IF PodOf[t] = p THEN [j \in Jobs |-> Absent] ELSE snap[t]]
    /\ UNCHANGED <<rows, tokenJobs, locks, remote>>
Return(p) ==
    /\ up[p] = "stopping"
    /\ Over(p)
    /\ up' = [up EXCEPT ![p] = "down"]
    /\ UNCHANGED <<vars, fired>>

\* The pod dies, with or without ticks, maybe because it took too long to stop.
Die(p) ==
    /\ "crash" \in Faults
    /\ up[p] # "down"
    /\ up' = [up EXCEPT ![p] = "down"]
    /\ fired' = fired \ TicksOf(p)
    /\ \/ Crash(p)
       \/ (\A t \in TicksOf(p) : pc[t] = "idle") /\ UNCHANGED vars

\* What a tick does once it has its rows, and what becomes of rows and locks meanwhile.
TickStep(t) == Step(t) /\ UNCHANGED <<up, fired>>
StoreStep ==
    /\ \E j \in Jobs : LockExpires(j) \/ CreateBatchJob(j) \/ ProviderAdvances(j)
    /\ UNCHANGED <<up, fired>>

ProcessNext ==
    \/ \E p \in Pods : Start(p) \/ Terminate(p) \/ Return(p) \/ Die(p)
    \/ \E t \in Ticks : Fire(t) \/ Begin(t) \/ TickStep(t)
    \/ StoreStep

ProcessSpec == ProcessInit /\ [][ProcessNext]_processVars

\* Pods are started again when they are down, and live long enough, now and then,
\* for their cron to fire and the tick to get to its rows; a stopped pod whose
\* ticks are over returns.  For the calls of ticks, and for keys, see Fairness
\* of BatchJobSync.
ProcessCallsSucceed(t) ==
    \A j \in Jobs \ Nameless :
        /\ SF_processVars(Acquire(t, j) /\ UNCHANGED <<up, fired>>)
        /\ SF_processVars(Poll(t, j) /\ UNCHANGED <<up, fired>>)
        /\ SF_processVars(Save(t, j) /\ UNCHANGED <<up, fired>>)

ProcessFairness ==
    /\ \A p \in Pods : WF_processVars(Start(p)) /\ WF_processVars(Return(p))
    /\ \A t \in Healthy :
        /\ []<>MayFire(t) => []<><<Begin(t)>>_processVars
        /\ WF_processVars(Begin(t))
        /\ WF_processVars(TickStep(t))
        /\ ProcessCallsSucceed(t)
    /\ \A t \in Ticks \ Healthy :
        []<><<TickStep(t)>>_processVars => ProcessCallsSucceed(t)
    /\ \A j \in Jobs \ Nameless : WF_processVars(LockExpires(j) /\ UNCHANGED <<up, fired>>)

ProcessFairSpec == ProcessSpec /\ ProcessFairness

-----------------------------------------------------------------------------
\* The calls a tick has ahead of it, for each job it still lists: those of the
\* job it is at from where it is, those of the others all.  A tick that has yet
\* to read its rows may have them all ahead, and the reading.
CallsFrom(label) ==
    CASE label \in {"idle", "next"} -> Working \cup {"next"}
      [] label = "poll" -> Working
      [] label = "save" -> Working \ {"poll"}
      [] label = "tokens" -> {"tokens", "release"}
      [] label = "release" -> {"release"}
Ahead(t) ==
    IF t \in fired
    THEN Jobs \X (Working \cup {"next"}) \cup {<<NoJob, "list">>}
    ELSE {c \in Listed(t) \X (Working \cup {"next"}) :
            c[1] = cur[t] => c[2] \in CallsFrom(pc[t])}

\* A step leaves tick t of a stopping pod with less to do, or alone.
GetsNearer(t) ==
    up[PodOf[t]] = "stopping" /\ up'[PodOf[t]] = "stopping" =>
        \/ UNCHANGED <<pc[t], cur[t], snap[t]>> /\ (t \in fired') = (t \in fired)
        \/ Ahead(t)' \subseteq Ahead(t) /\ Ahead(t)' # Ahead(t)

\* After the signal, whatever a tick does leaves it less to do: none is fired
\* any more, one fired before it may still read the rows, once, and no tick
\* reads them again or comes back to a job it was through with.  So with every
\* call that returns a stopping pod gets nearer to its end.
StopGetsNearer == [][\A t \in Ticks : GetsNearer(t)]_processVars

\* An orderly stop comes to its end, however busy the table keeps the cron: a
\* pod all of whose calls return goes down some time after its signal, since
\* no more ticks are fired.  (One hanging call is enough to keep a pod up for
\* ever, and a second signal does not help.)
StopCompletes ==
    \A p \in Pods :
        TicksOf(p) \subseteq Healthy => (up[p] = "stopping" ~> up[p] # "stopping")
=============================================================================
