----------------------------- MODULE BatchJobSync -----------------------------
(***************************************************************************)
(* The scheduler's cron job sync-batch-job-status, on any number of pods:  *)
(* Usecase.SyncBatchJobStatus and everything it calls that changes state.  *)
(*                                                                         *)
(* Each tick of the cron schedule is a goroutine of its own (cron.New()    *)
(* neither skips nor delays a tick while an earlier one still runs), so    *)
(* ticks overlap, between pods and inside one.  A tick reads the active    *)
(* rows once and then, job after job, takes the job's Redis lock, asks the *)
(* provider, saves the row it read at the start with the answer folded in, *)
(* records token counts and deletes the lock key.  Every one of these      *)
(* calls is a step: anything may happen between two of them, the process   *)
(* may die, and the call may fail before or after it took effect.          *)
(*                                                                         *)
(* The provider and the insertion of rows by the API server are the        *)
(* environment here.                                                       *)
(***************************************************************************)
EXTENDS Naturals

CONSTANTS
    Jobs,              \* batch jobs, rows of batch_jobs and provider jobs alike
    Nameless,          \* those whose row has no reference_id
    Ticks,             \* cron goroutines that may be running at one time
    Pods,              \* scheduler processes
    PodOf,             \* the process a tick runs in
    Usage,             \* Usage[j][k]: tokens of type k the provider reports for j
    Outcomes,          \* how the provider may end a job
    CancelEnds,        \* what a job being cancelled may become
    Faults,            \* the calls that may fail here, and "crash"
    LockOutlivesWork,  \* does a lock live longer than the work done under it?
    Healthy,           \* the ticks whose calls all return; others may hang
    NoJob,
    Never              \* a finished_timestamp that is NULL

TokenTypes == {"input", "output", "total"}

InFlight == "RUNNING"
EndStates == {"SUCCEEDED", "PARTIALLY_SUCCEEDED", "FAILED", "CANCELLED", "EXPIRED"}
RemoteStates == {InFlight, "CANCELLING"} \cup EndStates

ASSUME ConstantsAssumption ==
    /\ Nameless \subseteq Jobs
    /\ PodOf \in [Ticks -> Pods]
    /\ Usage \in [Jobs -> [TokenTypes -> Nat]]
    /\ Outcomes \subseteq EndStates
    /\ CancelEnds \subseteq {"CANCELLED", "FAILED", "SUCCEEDED"}
    /\ Faults \subseteq {"crash", "acquire", "poll", "save", "tokens", "release"}
    /\ LockOutlivesWork \in BOOLEAN
    /\ Healthy \subseteq Ticks
    /\ NoJob \notin Jobs
    /\ Never \notin Ticks

VARIABLES
    rows,       \* batch_jobs: rows[j], Absent before the insert
    tokenJobs,  \* token_jobs: tokenJobs[j][k], 0 where there is no row
    locks,      \* the lock keys present in Redis; their value is always 1
    remote,     \* the provider's state of each job
    pc,         \* where each tick is
    cur,        \* the job a tick holds the lock of, or believes it does
    result,     \* the provider's answer a tick has yet to save
    snap        \* the rows a tick read at its start and has not handled yet

vars == <<rows, tokenJobs, locks, remote, pc, cur, result, snap>>

-----------------------------------------------------------------------------
\* models.BatchJob: the columns the scheduler decides on or writes.
ActiveStatuses == {"pending", "submitted", "processing"}
FinalStatuses == {"completed", "failed"}
\* A finished_timestamp, time.Now() at the save that set it, is told apart by the
\* tick that saved: between two final saves of a row by one tick, that tick has
\* read the row active, so no value is ever set over its like.
Absent == [status |-> "absent", results |-> FALSE, finished |-> Never]
Row == [status   : ActiveStatuses \cup FinalStatuses,
        results  : BOOLEAN,
        finished : Ticks \cup {Never}]
PendingRow == [status |-> "pending", results |-> FALSE, finished |-> Never]

NoTokens == [k \in TokenTypes |-> 0]

\* gormRepository.GetActiveBatchJobs.
ActiveJobs == {j \in Jobs : rows[j].status \in ActiveStatuses}

\* The jobs a tick has still to handle.
Listed(t) == {j \in Jobs : snap[t][j] # Absent}

\* Tick t is past Acquire and not yet past Release for job j.
Working == {"poll", "save", "tokens", "release"}
Holds(t, j) == pc[t] \in Working /\ cur[t] = j

\* GoogleProvider.GetBatchJobStatus: the provider's state, in our terms.
StatusOf_UnknownFails(s) ==
    IF s \in {"SUCCEEDED", "PARTIALLY_SUCCEEDED"} THEN "completed" ELSE "failed"
StatusOf_Verbatim(s) ==
    CASE s \in {"SUCCEEDED", "PARTIALLY_SUCCEEDED"} -> "completed"
      [] s = "FAILED" -> "failed"
      [] s \in {"CANCELLED", "CANCELLING"} -> "cancelled"
      [] OTHER -> "processing"
StatusOf(s) ==
    IF s \in {"SUCCEEDED", "PARTIALLY_SUCCEEDED"} THEN "completed"
    ELSE IF s \in {"FAILED", "CANCELLED", "CANCELLING"} THEN "failed"
    ELSE "processing"

\* The row as tick t read it, with the answer folded in.  A completed answer
\* always brings results: even no responses at all are serialised, as "null".
\* A final one is stamped with the time, whatever stamp the row may have by now.
Updated_OnlyCompletedFinish(job, s, t) ==
    [status |-> s, results |-> job.results \/ s = "completed",
     finished |-> IF s = "completed" THEN t ELSE job.finished]
Updated(job, s, t) ==
    [status   |-> s,
     results  |-> job.results \/ s = "completed",
     finished |-> IF s \in FinalStatuses THEN t ELSE job.finished]

\* buildTokenJobs: a record per token type with a count.
TokenRows(j) == {k \in TokenTypes : Usage[j][k] # 0}

\* UpsertTokenJobs: one statement, overwriting the counts already there.
Upserted(j) == [k \in TokenTypes |-> IF k \in TokenRows(j) THEN Usage[j][k] ELSE tokenJobs[j][k]]

-----------------------------------------------------------------------------
Init ==
    /\ rows = [j \in Jobs |-> Absent]
    /\ tokenJobs = [j \in Jobs |-> NoTokens]
    /\ locks = {}
    /\ remote = [j \in Jobs |-> InFlight]
    /\ pc = [t \in Ticks |-> "idle"]
    /\ cur = [t \in Ticks |-> NoJob]
    /\ result = [t \in Ticks |-> "none"]
    /\ snap = [t \in Ticks |-> [j \in Jobs |-> Absent]]

Goto(t, label) == pc' = [pc EXCEPT ![t] = label]

\* Tick t is through with job j: on to the next one, or the tick is over.
Finish(t, j) ==
    /\ snap' = [snap EXCEPT ![t][j] = Absent]
    /\ Goto(t, IF Listed(t) = {j} THEN "idle" ELSE "next")

\* The cron fires and SyncBatchJobStatus reads the active rows; with none, or
\* when the read fails, the tick is over at once.
ListActive(t) ==
    /\ pc[t] = "idle"
    /\ snap' = [snap EXCEPT ![t] = [j \in Jobs |-> IF j \in ActiveJobs THEN rows[j] ELSE Absent]]
    /\ Goto(t, IF ActiveJobs = {} THEN "idle" ELSE "next")
    /\ UNCHANGED <<rows, tokenJobs, locks, remote, cur, result>>

\* The loop takes up job j (the query has no ORDER BY, so any of them).
TakesUp(t, j) == pc[t] = "next" /\ j \in Listed(t)

\* syncJobStatus: "empty reference_id, skipping".
SkipNameless_Waits(t, j) ==
    /\ TakesUp(t, j)
    /\ j \in Nameless
    /\ UNCHANGED vars
SkipNameless(t, j) ==
    /\ TakesUp(t, j)
    /\ j \in Nameless
    /\ Finish(t, j)
    /\ UNCHANGED <<rows, tokenJobs, locks, remote, cur, result>>

\* distributedLock.Acquire: SET key 1 NX with a TTL.
Acquire_NoNX(t, j) ==
    /\ TakesUp(t, j)
    /\ j \notin Nameless
    /\ locks' = locks \cup {j}
    /\ cur' = [cur EXCEPT ![t] = j]
    /\ Goto(t, "poll")
    /\ UNCHANGED <<rows, tokenJobs, remote, result, snap>>
Acquire(t, j) ==
    /\ TakesUp(t, j)
    /\ j \notin Nameless
    /\ j \notin locks
    /\ locks' = locks \cup {j}
    /\ cur' = [cur EXCEPT ![t] = j]
    /\ Goto(t, "poll")
    /\ UNCHANGED <<rows, tokenJobs, remote, result, snap>>

\* "lock already held, skipping".
LockHeld(t, j) ==
    /\ TakesUp(t, j)
    /\ j \in locks \ Nameless
    /\ Finish(t, j)
    /\ UNCHANGED <<rows, tokenJobs, locks, remote, cur, result>>

\* Redis answers with an error, or its answer is lost after it set the key.
AcquireError(t, j) ==
    /\ "acquire" \in Faults
    /\ TakesUp(t, j)
    /\ j \notin Nameless
    /\ locks' \in {locks, locks \cup {j}}
    /\ Finish(t, j)
    /\ UNCHANGED <<rows, tokenJobs, remote, cur, result>>

\* provider.GetBatchJobStatus answers.  The answer is compared with the row
\* read at the start of the tick, not with the row as it is now.
Poll_ReleaseEarly(t, j) ==
    /\ pc[t] = "poll"
    /\ cur[t] = j
    /\ locks' = locks \ {j}
    /\ LET s == StatusOf(remote[j]) IN
       IF s = snap[t][j].status
       THEN Goto(t, "release") /\ UNCHANGED result
       ELSE Goto(t, "save") /\ result' = [result EXCEPT ![t] = s]
    /\ UNCHANGED <<rows, tokenJobs, remote, cur, snap>>
Poll(t, j) ==
    /\ pc[t] = "poll"
    /\ cur[t] = j
    /\ LET s == StatusOf(remote[j]) IN
       IF s = snap[t][j].status
       THEN Goto(t, "release") /\ UNCHANGED result
       ELSE Goto(t, "save") /\ result' = [result EXCEPT ![t] = s]
    /\ UNCHANGED <<rows, tokenJobs, locks, remote, cur, snap>>

PollError(t) ==
    /\ "poll" \in Faults
    /\ pc[t] = "poll"
    /\ Goto(t, "release")
    /\ UNCHANGED <<rows, tokenJobs, locks, remote, cur, result, snap>>

\* The row UpdateBatchJob writes: GORM's Save writes every column of it.
SavedRows(t) == [rows EXCEPT ![cur[t]] = Updated(snap[t][cur[t]], result[t], t)]

\* repository.UpdateBatchJob.  Token counts follow for a completed job only,
\* and only when there are some.
Save_NoTokens(t, j) ==
    /\ pc[t] = "save"
    /\ cur[t] = j
    /\ rows' = SavedRows(t)
    /\ Goto(t, "release")
    /\ result' = [result EXCEPT ![t] = "none"]
    /\ UNCHANGED <<tokenJobs, locks, remote, cur, snap>>
Save_TokensAlways(t, j) ==
    /\ pc[t] = "save"
    /\ cur[t] = j
    /\ rows' = SavedRows(t)
    /\ Goto(t, IF TokenRows(j) # {} THEN "tokens" ELSE "release")
    /\ result' = [result EXCEPT ![t] = "none"]
    /\ UNCHANGED <<tokenJobs, locks, remote, cur, snap>>
Save(t, j) ==
    /\ pc[t] = "save"
    /\ cur[t] = j
    /\ rows' = SavedRows(t)
    /\ Goto(t, IF result[t] = "completed" /\ TokenRows(j) # {} THEN "tokens" ELSE "release")
    /\ result' = [result EXCEPT ![t] = "none"]
    /\ UNCHANGED <<tokenJobs, locks, remote, cur, snap>>

\* The update fails, or it is committed and the confirmation is lost.
SaveError(t) ==
    /\ "save" \in Faults
    /\ pc[t] = "save"
    /\ rows' \in {rows, SavedRows(t)}
    /\ Goto(t, "release")
    /\ result' = [result EXCEPT ![t] = "none"]
    /\ UNCHANGED <<tokenJobs, locks, remote, cur, snap>>

\* repository.UpsertTokenJobs.
UpsertTokens(t) ==
    /\ pc[t] = "tokens"
    /\ tokenJobs' = [tokenJobs EXCEPT ![cur[t]] = Upserted(cur[t])]
    /\ Goto(t, "release")
    /\ UNCHANGED <<rows, locks, remote, cur, result, snap>>

\* A failed upsert is logged and nothing else.  (One that took effect before it
\* failed is UpsertTokens: the tick goes on the same way.)
UpsertTokensError(t) ==
    /\ "tokens" \in Faults
    /\ pc[t] = "tokens"
    /\ Goto(t, "release")
    /\ UNCHANGED <<rows, tokenJobs, locks, remote, cur, result, snap>>

\* The deferred Release: DEL key, whoever set it.
Release(t) ==
    /\ pc[t] = "release"
    /\ locks' = locks \ {cur[t]}
    /\ cur' = [cur EXCEPT ![t] = NoJob]
    /\ Finish(t, cur[t])
    /\ UNCHANGED <<rows, tokenJobs, remote, result>>

\* Its error is ignored; the key stays until its TTL runs out.
ReleaseError(t) ==
    /\ "release" \in Faults
    /\ pc[t] = "release"
    /\ cur' = [cur EXCEPT ![t] = NoJob]
    /\ Finish(t, cur[t])
    /\ UNCHANGED <<rows, tokenJobs, locks, remote, result>>

\* Everything a tick does between two calls of the environment.
Step(t) ==
    \/ \E j \in Jobs : \/ SkipNameless(t, j) \/ Acquire(t, j) \/ LockHeld(t, j)
                       \/ AcquireError(t, j) \/ Poll(t, j) \/ Save(t, j)
    \/ PollError(t)
    \/ SaveError(t)
    \/ UpsertTokens(t)
    \/ UpsertTokensError(t)
    \/ Release(t)
    \/ ReleaseError(t)

-----------------------------------------------------------------------------
\* A pod dies and all its ticks with it; deferred calls do not run.
Crash(p) ==
    /\ "crash" \in Faults
    /\ \E t \in Ticks : PodOf[t] = p /\ pc[t] # "idle"
    /\ pc' = [t \in Ticks |-> IF PodOf[t] = p THEN "idle" ELSE pc[t]]
    /\ cur' = [t \in Ticks |-> IF PodOf[t] = p THEN NoJob ELSE cur[t]]
    /\ result' = [t \in Ticks |-> IF PodOf[t] = p THEN "none" ELSE result[t]]
    /\ snap' = [t \in Ticks |-> IF PodOf[t] = p THEN [j \in Jobs |-> Absent] ELSE snap[t]]
    /\ UNCHANGED <<rows, tokenJobs, locks, remote>>

\* The lock's TTL runs out.  Nothing in the code bounds the calls made under
\* the lock, so this may happen at any time; that it happens to no lock whose
\* work is under way is an assumption, made by LockOutlivesWork.
LockExpires_Never(j) ==
    /\ j \in locks
    /\ FALSE
    /\ UNCHANGED vars
LockExpires(j) ==
    /\ j \in locks
    /\ LockOutlivesWork => \A t \in Ticks : ~Holds(t, j)
    /\ locks' = locks \ {j}
    /\ UNCHANGED <<rows, tokenJobs, remote, pc, cur, result, snap>>

\* SubmitBulkChatCompletions inserts its row, after the provider took the job.
CreateBatchJob(j) ==
    /\ rows[j] = Absent
    /\ rows' = [rows EXCEPT ![j] = PendingRow]
    /\ UNCHANGED <<tokenJobs, locks, remote, pc, cur, result, snap>>

\* The provider gets on with job j.  A row without a reference is of no job there.
ProviderAdvances(j) ==
    /\ j \notin Nameless
    /\ \/ /\ remote[j] = InFlight
          /\ \E s \in Outcomes : remote' = [remote EXCEPT ![j] = s]
       \/ /\ remote[j] = InFlight
          /\ CancelEnds # {}
          /\ remote' = [remote EXCEPT ![j] = "CANCELLING"]
       \/ /\ remote[j] = "CANCELLING"
          /\ \E s \in CancelEnds : remote' = [remote EXCEPT ![j] = s]
    /\ UNCHANGED <<rows, tokenJobs, locks, pc, cur, result, snap>>

Next ==
    \/ \E t \in Ticks : ListActive(t) \/ Step(t)
    \/ \E p \in Pods : Crash(p)
    \/ \E j \in Jobs : LockExpires(j) \/ CreateBatchJob(j) \/ ProviderAdvances(j)

Spec == Init /\ [][Next]_vars

\* The cron keeps producing ticks whose calls return, and keys expire.  Nothing
\* in the code bounds a call, so any other tick may hang for ever wherever it
\* is; but a call that is made again and again for a job succeeds in the end.
CallsSucceed(t) ==
    \A j \in Jobs \ Nameless :
        SF_vars(Acquire(t, j)) /\ SF_vars(Poll(t, j)) /\ SF_vars(Save(t, j))

Fairness ==
    /\ \A t \in Healthy : WF_vars(ListActive(t)) /\ WF_vars(Step(t)) /\ CallsSucceed(t)
    /\ \A t \in Ticks \ Healthy : []<><<Step(t)>>_vars => CallsSucceed(t)
    /\ \A j \in Jobs \ Nameless : WF_vars(LockExpires(j))

FairSpec == Spec /\ Fairness

-----------------------------------------------------------------------------
\* Every variable holds a value of its kind (the columns of batch_jobs and
\* token_jobs, the tick's locals).
TypeOK ==
    /\ rows \in [Jobs -> Row \cup {Absent}]
    /\ tokenJobs \in [Jobs -> [TokenTypes -> Nat]]
    /\ locks \subseteq Jobs
    /\ remote \in [Jobs -> RemoteStates]
    /\ pc \in [Ticks -> {"idle", "next"} \cup Working]
    /\ cur \in [Ticks -> Jobs \cup {NoJob}]
    /\ result \in [Ticks -> {"none", "processing"} \cup FinalStatuses]
    /\ snap \in [Ticks -> [Jobs -> Row \cup {Absent}]]

\* No two ticks work on one job at a time: a tick that finds the lock held
\* leaves the job to the "pod already processing" it.
MutualExclusion ==
    \A t, u \in Ticks, j \in Jobs : Holds(t, j) /\ Holds(u, j) => t = u

\* A job once recorded completed or failed keeps that status, and its results:
\* it never shows up among the active jobs again, and does not change from one
\* to the other.  (Of its row only finished_timestamp may move: a tick that read
\* the row before it was final stamps it again, as SavesOnlyActiveRows denies.)
TerminalIsFinal ==
    [][\A j \in Jobs :
        rows[j].status \in FinalStatuses =>
            rows'[j].status = rows[j].status /\ rows'[j].results = rows[j].results]_vars

\* The three columns written together stay consistent, whatever two ticks do
\* to a row: finished_timestamp is set on a final row and on no other,
\* results_json on a completed row and on no other.
RowCoherent ==
    \A j \in Jobs :
        /\ rows[j].finished # Never <=> rows[j].status \in FinalStatuses
        /\ rows[j].results <=> rows[j].status = "completed"

\* A final status is never recorded on a guess or from an old answer: a
\* completed row means the provider has succeeded, a failed one that it has
\* failed or is cancelling the job.
VerdictMatchesProvider ==
    \A j \in Jobs :
        /\ rows[j].status = "completed" => remote[j] \in {"SUCCEEDED", "PARTIALLY_SUCCEEDED"}
        /\ rows[j].status = "failed" => remote[j] \in {"FAILED", "CANCELLED", "CANCELLING"}

\* Token counts are recorded for completed jobs only, all types at once and
\* as the provider reported them, however often the upsert is repeated.
TokensOnlyWhenCompleted ==
    \A j \in Jobs :
        tokenJobs[j] # NoTokens => rows[j].status = "completed" /\ tokenJobs[j] = Usage[j]

\* The states in which a job has responses, and with them token counts.
Successes == {"SUCCEEDED", "PARTIALLY_SUCCEEDED"}

\* Whatever lapses, dies or is saved stale, nobody is charged but for a row and
\* for a job that the provider ended with success: a row may be set back by a
\* stale save, and a verdict be early, but not so that counts come of it.
ChargesAreBacked ==
    \A j \in Jobs : tokenJobs[j] # NoTokens => rows[j] # Absent /\ remote[j] \in Successes

\* A completed row is never revisited, so its token counts are recorded or
\* the tick that completed it is about to record them.  (True only while no
\* process dies and no save or upsert fails: those lose the counts for good.)
CompletedJobsAreBilled ==
    \A j \in Jobs :
        rows[j].status = "completed" =>
            \/ tokenJobs[j] = Usage[j]
            \/ \E t \in Ticks : pc[t] = "tokens" /\ cur[t] = j

\* A tick only saves rows that are still active: once a final state is
\* recorded "the job will no longer appear in GetActiveBatchJobs".
SavesOnlyActiveRows ==
    \A t \in Ticks : pc[t] = "save" => rows[cur[t]].status \in ActiveStatuses

\* A job the provider is done with, one way or the other, ends up recorded
\* final and stays so, whatever crashed, failed, hung, lapsed or was overwritten meanwhile.
EndedJobSettles ==
    \A j \in Jobs \ Nameless :
        (rows[j] # Absent /\ remote[j] \in EndStates) ~> [](rows[j].status \in FinalStatuses)

\* The lock of each job is JobLock, although Release deletes the key whoever
\* set it: no tick ever deletes, or runs out of, a key another one works under.
Lock(j) == INSTANCE JobLock WITH
    Workers <- Ticks,
    working <- {t \in Ticks : Holds(t, j)},
    key <- j \in locks

\* (Each job's Lock(j)!Spec, taken together in one formula.)
LocksSpec ==
    /\ \A j \in Jobs : Lock(j)!Init
    /\ [][\A j \in Jobs : UNCHANGED Lock(j)!vars \/ Lock(j)!Next]_vars

\* The rows and token counts a reader sees go through the life of a batch job.
Lifecycle == INSTANCE BatchJobLifecycle WITH
    status <- [j \in Jobs |-> rows[j].status],
    billed <- {j \in Jobs : tokenJobs[j] # NoTokens}

LifecycleSpec == Lifecycle!Spec
=============================================================================
