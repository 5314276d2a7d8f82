------------------------------- MODULE Gateway -------------------------------
(***************************************************************************)
(* The API server and the scheduler together.  They never call each other; *)
(* they share the table batch_jobs and the provider's jobs.                *)
(*                                                                         *)
(* A row is one row to the database and two halves here: table[i] has the  *)
(* columns a submission writes, by the row's id, and rows[n] those the     *)
(* scheduler works on, by the name the provider gave the job, which is     *)
(* what reference_id holds.  That a name has at most one row, so that the  *)
(* scheduler's view makes sense, is not assumed: an insert just writes     *)
(* both halves, and SchedulerSpec says that it looks to the scheduler as   *)
(* BatchJobSync takes for granted.                                         *)
(***************************************************************************)
EXTENDS BatchJobSubmit

CONSTANTS
    Ticks, Pods, PodOf, Usage, Outcomes, CancelEnds, Faults, LockOutlivesWork, Healthy,
    Never                                               \* of BatchJobSync
VARIABLES
    rows, tokenJobs, locks, remote, pc, cur, result, snap

Scheduler == INSTANCE BatchJobSync WITH Jobs <- Names, Nameless <- {}, NoJob <- NoName

\* What BatchJobSync assumes of its constants.
ASSUME GatewayAssumption ==
    /\ PodOf \in [Ticks -> Pods]
    /\ Usage \in [Names -> [Scheduler!TokenTypes -> Nat]]
    /\ Outcomes \subseteq Scheduler!EndStates
    /\ CancelEnds \subseteq {"CANCELLED", "FAILED", "SUCCEEDED"}
    /\ Faults \subseteq {"crash", "acquire", "poll", "save", "tokens", "release"}
    /\ LockOutlivesWork \in BOOLEAN
    /\ Healthy \subseteq Ticks
    /\ Never \notin Ticks

schedulerOnly == <<tokenJobs, locks, remote, pc, cur, result, snap>>
gatewayVars == <<submitVars, rows, schedulerOnly>>

GatewayInit == SubmitInit /\ Scheduler!Init

\* A handler moves; where it inserts its row, the scheduler's half is pending.
SubmissionStep ==
    /\ \E c \in Calls :
        /\ Handle(c)
        /\ rows' = IF table' = table THEN rows ELSE [rows EXCEPT ![name[c]] = Scheduler!PendingRow]
    /\ UNCHANGED schedulerOnly

\* Somebody changes a prompt config.
PromptStep ==
    /\ PromptNext
    /\ UNCHANGED <<table, jobs, handlerVars, rows, schedulerOnly>>

\* A tick moves, a scheduler dies, or a lock lapses.
SchedulerStep ==
    /\ \/ \E t \in Ticks : Scheduler!ListActive(t) \/ Scheduler!Step(t)
       \/ \E p \in Pods : Scheduler!Crash(p)
       \/ \E n \in Names : Scheduler!LockExpires(n)
    /\ UNCHANGED submitVars

\* The provider gets on with a job it has, row or no row.
ProviderStep ==
    /\ \E n \in Created : Scheduler!ProviderAdvances(n)
    /\ UNCHANGED submitVars

GatewayNext == SubmissionStep \/ PromptStep \/ SchedulerStep \/ ProviderStep

GatewaySpec == GatewayInit /\ [][GatewayNext]_gatewayVars

\* As for the scheduler alone; nothing is asked of handlers or the provider.
GatewayFairSpec == GatewaySpec /\ Scheduler!Fairness

-----------------------------------------------------------------------------
\* To the scheduler, submissions look as it takes for granted: a row appears
\* once for a job, pending, and whatever handlers do, retry or fail to learn
\* never touches a row that is there.
SchedulerSpec == Scheduler!Spec

\* End to end: a job whose name a client was given is recorded final, for
\* good, once the provider is done with it, and with the requests that the
\* provider ran and the client sent, templates filled in.
AcceptedJobsSettle ==
    \A c \in Calls, n \in Names :
        (answer[c] = n /\ remote[n] \in Scheduler!EndStates)
            ~> [](/\ rows[n].status \in Scheduler!FinalStatuses
                  /\ jobs[n] = Inlined(resolved[c])
                  /\ \E i \in Ids :
                        /\ table[i] # NoRow
                        /\ table[i].reference = n
                        /\ ReadsAs(table[i].requestProto, Wires(resolved[c])))

\* What the table says of a job whose name a client was given is about that
\* client's requests and comes from the provider: the scheduler has the row
\* before the client has the name, and a final status is the job's own.
AcceptedJobsAreTracked ==
    \A c \in Calls :
        answer[c] \in Names =>
            LET n == answer[c] IN
            /\ rows[n] # Scheduler!Absent
            /\ jobs[n] = Inlined(resolved[c])
            /\ rows[n].status = "completed" => remote[n] \in {"SUCCEEDED", "PARTIALLY_SUCCEEDED"}
            /\ rows[n].status = "failed" => remote[n] \in {"FAILED", "CANCELLED", "CANCELLING"}

\* Token counts are stored for jobs whose submission is on record only, and
\* only once the provider has run them: a job the API server lost is never
\* charged to anybody.
LostJobsAreNotBilled ==
    \A n \in Names :
        tokenJobs[n] # Scheduler!NoTokens =>
            Recorded(n) /\ remote[n] \in {"SUCCEEDED", "PARTIALLY_SUCCEEDED"}
=============================================================================
