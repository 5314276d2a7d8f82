# aigateway-core in TLA+

aigateway-core accepts batches of chat completions over gRPC, hands them to a
provider (Google's batch API), keeps a row per batch in a SQL database, and has
a scheduler poll the provider until every batch is over and its token counts
are recorded. This directory models that system, checks it with TLC and proves
what matters most with TLAPS.

Contents: [the system](#the-system), [modules](#modules), [runs](#runs),
[disagreements](#disagreements-found), [proofs](#proofs),
[limits](#what-is-not-covered), [plan](#plan). Paths are relative to the
repository; `usecase.go`, `gorm.go` etc. are in `internal/aigateway/`.

## The system

| component | state it keeps | operations that change it | talks to |
|---|---|---|---|
| bulk submission (`grpcserver/server.go`, `usecase.go:59-134`) | a handler's locals: requests, looked-up templates, the provider's answer | one RPC: receive the stream, fill in templates, `SubmitBatchJob`, `CreateBatchJob`, answer | client stream, `prompt_configs`, provider, `batch_jobs` |
| prompt configs (`usecase.go:302-432`, `gorm.go:54-85`) | table `prompt_configs` | `UpsertPromptConfig`, `DeletePromptConfig` | submissions read it |
| scheduler (`cmd/scheduler/main.go`) | running ticks; one goroutine per tick, none skipped | start, a tick, a signal, return, death | synchronisation, configuration |
| synchronisation (`usecase.go:144-225`) | the rows a tick read at its start | list active rows; per job: lock, poll, save, record tokens, unlock | `batch_jobs`, Redis, provider, `token_jobs` |
| distributed lock (`repository/redis.go`) | a Redis key per job, with a TTL | `Acquire` (`SET NX`), `Release` (`DEL`), expiry | shared by all pods |
| token accounting (`usecase.go:227-251`, `gorm.go:42-52`) | table `token_jobs` | one upsert per completed job | synchronisation |
| provider adapter (`providers/google.go`) | none; the provider keeps its jobs | `Batches.Create`, `Batches.Get` | the provider |
| request codec (`usecase.go:434-456`) | none: a blob in `request_proto` | write a job's requests into one blob | submission |
| API server (`cmd/api/main.go`) | running handlers, health status | check the tables, serve, drain, stop | handlers, schema |
| schema (`models/migration.go`, `cmd/db-migrate`) | which tables exist, in which version | migrate, check | API server, client library |
| client library (`client.go`) | none | migrate or check the schema, pass a call on | schema, provider |
| configuration (`internal/platform`) | none: file and environment | from texts to a database, a Redis and a provider | every process |
| job queries (`usecase.go:136-142`) | none: not implemented, both panic | | end the API process |

The components meet in four places: the tables, the Redis keys, the provider's
jobs and the process a handler or a tick runs in. No transaction spans two of
their calls. So the hard part is what happens *between* two calls:

* ticks overlap, in one process and between pods, over the same job;
* a tick decides on a row it read before it took the lock, and saves all its columns;
* a lock lapses while the work under it goes on, and is deleted by whoever ends first;
* any call may fail after it took effect, any call may never return, any process may die;
* the provider has a job before the table does;
* a template changes while a submission that uses it twice is being filled in.

What makes each component correct:

* **synchronisation**: one tick per job; a final row keeps its status and
  results; a final status is the provider's; the three columns written together agree; every job the
  provider ended is recorded in the end; one job's failure spares the others;
* **token accounting**: counts are complete, belong to completed jobs, and
  are recorded for each of them;
* **submission**: an accepted job is in the table; a row holds what the
  provider runs, once; a lost job is an error some client saw; one version of
  a template per submission;
* **prompt configs**: a request's own fields win; a config is replaced as a
  whole, so what is filled in was sent by one upsert;
* **request codec**: a blob can be read back, whatever the bytes in it;
* **scheduler**: an orderly stop ends, and loses nothing;
* **API server**: it serves no call without its tables; it stops, unless a
  handler ignores its cancellation, and leaves nothing behind;
* **schema**: a migration that says it succeeded has, however many run at
  once; repeating one gets the server up.

`PROJECT.json` lists the hazards at their lines, each with the properties that
would catch it, or the reason why none does.

## Modules

| module | what it is |
|---|---|
| `BatchJobLifecycle` | abstract: what a reader of `batch_jobs` and `token_jobs` may ever see |
| `BatchJobSync` | scheduler ticks over any number of pods, implementing it |
| `JobLock` | abstract: what the lock of one job is for, without clock or ticks |
| `Startup` | from configuration texts to the stores a process opens |
| `SchedulerProcess` | the processes ticks run in; extends `BatchJobSync` and `Startup` |
| `BatchService` | abstract: what a client that submits batches is promised |
| `PromptConfigs` | the table of templates and the filling in of a request |
| `RequestCodec` | the blob a job's requests are stored in, and a reader of it |
| `BatchJobSubmit` | concurrent submissions; extends `PromptConfigs` and `RequestCodec` |
| `Gateway` | extends `BatchJobSubmit` by an instance of `BatchJobSync`: the two processes over one table |
| `LockTiming` | one job's lock against the clock |
| `ApiServer` | the API process from serving to its end |
| `Deployment` | API server, migrations and clients around a schema; extends `ApiServer` and `Startup` |
| `MCBatchJobSync`, `MCSchedulerProcess`, `MCBatchJobSubmit`, `MCGateway`, `MCLockTiming`, `MCDeployment` | instances for TLC |
| `BatchJobSync_proofs`, `SchedulerProcess_proofs`, `RequestCodec_proofs`, `BatchJobSubmit_proofs`, `Gateway_proofs`, `LockTiming_proofs`, `ApiServer_proofs`, `Deployment_proofs` | theorems |

### BatchJobSync

One action per call a tick makes, so that anything can happen between two.
`pc[t]` is where tick `t` is; a `...Error` action is the same call failing,
before or after it took effect.

| state | in the code |
|---|---|
| `rows` | `batch_jobs`: status, whether `results_json` is set, `finished_timestamp` as the tick that set it (`Never` for none) |
| `tokenJobs` | `token_jobs`: count by type |
| `locks` | the keys present in Redis; a key's value is always 1, so it has no owner |
| `remote` | the provider's state of each job (environment) |
| `snap[t]` | the rows `SyncBatchJobStatus` read and its loop has not handled yet |
| `cur[t]`, `result[t]` | the job in hand, the answer that is to be saved |

| action | in the code |
|---|---|
| `ListActive` | a tick begins with `GetActiveBatchJobs` |
| `SkipNameless` | a row without `reference_id` is left alone |
| `Acquire`, `LockHeld`, `AcquireError` | the three answers of `distributedLock.Acquire` |
| `Poll`, `PollError` | `GetBatchJobStatus`; compared with the row as read |
| `Save`, `SaveError` | `UpdateBatchJob`, every column of the row as read |
| `UpsertTokens`, `UpsertTokensError` | `UpsertTokenJobs` |
| `Release`, `ReleaseError` | the deferred `Release` |
| `Crash` | a pod dies, all its ticks with it, deferred calls included |
| `LockExpires` | the TTL runs out |
| `CreateBatchJob`, `ProviderAdvances` | environment: a submission's insert, the provider's progress |

Three constants state what the code takes for granted and does not enforce:

* `LockOutlivesWork` — no lock lapses while a tick works under it. The TTL is
  two minutes and no call has a deadline (`context.Background()`).
* `CancelEnds` — what a job being cancelled may become. The code records it
  failed at once, so it had better not succeed (`CancelIsFinal` in the proofs).
* `Faults` — which calls may fail, and whether processes may die.

Listed rows carry no order, since the query has none; a job being listed is
handled in any order. The list failing is the same as nothing being active.

`finished_timestamp` is `time.Now()` at every save of a final status, so a tick
with an old copy moves it even where locks never lapse (`SyncStaleRow`).
`TerminalIsFinal` therefore speaks of status and results, and `RowCoherent` of
the timestamp being there.

`BatchJobLifecycle` is the promise behind it: rows appear pending, only active
rows change, counts come all at once and only to completed jobs. `LifecycleSpec`
is that module under the mapping that hides locks, ticks and the provider.

`JobLock` is the promise behind the lock of one job: whoever works took its key
when there was none, and the key stays for as long as somebody works. The code
has no owner in a key, so that a release can delete another tick's;
`LocksSpec` says that under `LockOutlivesWork` none does, for each job. It is
one formula made of the parts of each job's `Lock(j)!Spec`.

### BatchJobSubmit and PromptConfigs

A handler goes `recv` → `resolve` → `submit` → `persist` → `reply` → `over`.

| state | in the code |
|---|---|
| `configs` | `prompt_configs` |
| `table` | `batch_jobs`: `reference_id`, `request_proto`, `length_data` |
| `jobs` | what the provider was asked to run, by the name it gave |
| `stream`, `resolved`, `cache`, `name` | a handler's `requests`, `resolved`, `promptConfigs`, `resp` |
| `answer` | what the client was told |

| action | in the code |
|---|---|
| `Receive` | `recvSubmitBulkChatCompletionsRequests` up to the end of the stream |
| `ResolvePlain`, `ResolveCached`, `ResolveLookup`, `TemplateNotFound` | one iteration of `resolveSubmitRequests` |
| `SubmitRefused` | no requests, or a schema that does not parse |
| `SubmitBatchJob`, `SubmitError` | `Batches.Create` |
| `Persist`, `PersistError` | `CreateBatchJob` under an id drawn by `BeforeCreate`, which may be taken |
| `Reply` | `SendAndClose` |
| `Crash` | the process dies under a handler |
| `UpsertPromptConfig`, `DeletePromptConfig` | the RPCs of that name |

`BatchService` is the promise behind it: jobs are taken, then recorded, then a
client is told, once and of no job another client was told of; a failed
submission may leave a job that is taken or recorded, and its client is told
of an error. `ServiceSpec` is that module with `Created` for the jobs taken,
the references of `table` for those recorded, and `answer` for what was told.
It hides streams, templates, ids and the stages a handler is in.

Data are cut down to what the properties tell apart. A request is its template
and a value for three fields that stand for all: `model` for the scalar
fields, `schema` for the one the adapter parses, `label` for a metadata key.
In a message `Unset` is "", 0 and a missing key alike, as it is in the code; in
a column that becomes `Null`. A row's `created` says whether `created_at` holds
a time or Go's zero time. `Saved` is GORM's `Save`: an update of every column
and, when it finds no row, an insert that replaces a row put there meanwhile.
`Inserted` is an insert under an id nobody has. `Shown` is what clients read.

### RequestCodec

`marshalRequests` writes each message behind its length, four bytes, highest
first, into one buffer; `request_proto` keeps it and `length_data` the number
of messages. A message is the sequence of its bytes, which the constant `Wire`
gives: what `proto.Marshal` makes of a request is external. Nothing in the
repository reads a blob. `ReadsAs` is the reference: what a reader does who
follows the format, entry after entry until the blob is over.

A request with the value `v2` is a message of more than 255 bytes in `Submit`,
so that its length takes more than one byte. `BlobReadsAsWritten` covers any.

### Gateway

The API server and the scheduler share a row of `batch_jobs` and a job of the
provider. `Gateway` is `BatchJobSubmit` with an instance of `BatchJobSync` over
the same names, none of which is `Nameless`: `table` has the half of a row a submission writes, `rows` the half the scheduler works on,
found by what `reference_id` holds. A step in which a handler changes `table`
makes the other half pending; every other step belongs to one side and leaves
the other's variables alone.

`SchedulerSpec` is `BatchJobSync`'s specification, so the run shows that
`CreateBatchJob`, which `BatchJobSync` takes from its environment, is what
submissions do to it. `AcceptedJobsSettle` is the promise to a client, end to
end, and `AcceptedJobsAreTracked` its part that needs no fairness: from the
answer on the scheduler has the client's row, and no verdict in it is other
than the provider's. `LostJobsAreNotBilled` is what it means to lose a job.

### LockTiming

A lock and the ticks that ask for it, with lengths of time: `TTL` (`lockTTL`),
`Period` (the schedule), `MaxDelay` (what a tick may take to get to this job)
and `MaxWork` (what it may do under the lock). `Elapse` is one unit of time; it
waits for a tick whose time is up, which is how the two bounds bound. `Fire`
starts a goroutine on every pod that is up, on one of the `Sturdy` ones at
least. `spent`, `untilTick` and `untried` are clocks, not program state.

It gives `BatchJobSync`'s constant `LockOutlivesWork` a meaning: it is
`LockOutlivesItsWork`, which holds when `MaxWork < TTL`. The code has no such
bound, see `SyncLapse`. `LockSpec` says that then this lock, too, is `JobLock`:
the lock the ticks rely on and the one that runs against the clock have one
abstraction.

### Startup

A configuration is a function from keys to texts, "" being a key that is
absent or empty. `LoadConfig` lays the environment over one file, an empty
variable counting as none; `DBType` and `ResolveSQLConfig` choose the section;
`Opens`, `RedisOpens`, `ProviderOpens`, `ClientStarts` and `SchedulerStarts` say
how far a process gets with it, and `DatabaseOf` to where. `Loads` leaves out a
file that cannot be read and a port, or Redis database, that is no number. They have no state;
`SchedulerProcess` and `Deployment` decide with them which processes start and
which share a database. What reaches no property is left out: passwords, TLS,
pool sizes and driver parameters. `OpenFromEnv` is called by nothing.

### SchedulerProcess

`up[p]` is "down", "running" or "stopping"; `fired` are the ticks whose goroutine
was started and has yet to read its rows.

| action | in `cmd/scheduler/main.go` |
|---|---|
| `Start` | `main` up to `c.Start()`; a pod whose configuration is not complete stays down |
| `Fire` | the cron fires and counts a goroutine; it does so while the pod is running only |
| `Begin` | that goroutine gets to `GetActiveBatchJobs`, maybe after the signal |
| `TickStep` | any later call of a tick |
| `StoreStep` | what happens to rows, jobs and keys meanwhile |
| `Terminate` | a signal: `c.Stop()` |
| `Return` | its context is done, the last of the ticks that were fired being over |
| `Die` | the process is killed, or panics; `Crash` of its ticks |

A signal before `main` asks for signals ends the process on the spot, which is
`Die`. `StopGetsNearer` measures how far a stop is from its end: `Ahead(t)` is
the set of calls tick `t` has before it, for each job it still lists. A tick that
is fired and has not read its rows may find every job there is, so it has all
their calls ahead, and the reading.
`ProcessAssumption` has the pods that start share one database and one
Redis. The scheduler does not check the schema.

### ApiServer

| state | in `cmd/api/main.go` |
|---|---|
| `main` | which select, receive or call `main` is at |
| `signalled`, `health` | `sigCtx.Done()`, the health service's answer |
| `serving`, `serveErr` | the goroutine of line 83, its channel (one place) |
| `draining` | the goroutine of line 111; `"done"` is `shutdownDone` closed |
| `quit`, `done` | gRPC: a stop has begun, a stop has returned |
| `handler` | of each RPC |

The goroutine that serves is started before `NotifyContext`: between the two a
signal is fatal. `TimeOut` is the ten seconds, untimed. Of gRPC there is what
decides who waits for whom: `Serve` returns when a stop has returned;
`GracefulStop` waits for connections, then for handlers, the latter with the
server's mutex locked; `Stop` needs that mutex, closes connections and does not
wait for handlers. `draining = "handlers"` is the mutex being held.

### Deployment

| state | in the code |
|---|---|
| `schema[d][m]` | table `m` of database `d`: missing, of an older version, current |
| `at[p]` | where each process is |
| `todo[p]` | what is left of `MigrationModels` in the loop it is in |
| `seen[p]` | what `AutoMigrate` found when it looked at the first of them |

| action | in the code |
|---|---|
| `Connect` | `LoadConfig`, `ResolveSQLConfig`, `Open`; for a client `NewClient` |
| `Call` | a program calls `CheckMigration` or `Migrate` of its `Client` |
| `CheckTable`, `CheckFails` | one iteration of `ensureSchema` or `CheckMigration` |
| `LookUp`, `Apply`, `ApplyFails` | `AutoMigrate` of one table: look, then create or alter |
| `Assemble` | the API server gets its stores and its port, and serves: `ServerInit` anew |
| `Kill` | a process is killed between two statements |

No process waits for another, so two migrations may find the same table
missing, and the second statement fails. `AutoMigrate` and `HasTable` are
GORM's and external: what is taken for granted is that they look before they
write and that a query that fails counts as a table that is not there. Tables
are not dropped while a version is deployed. While the server is up its steps
are those of `ApiServer`; when it is over it may be started again.

## Runs

| run | bounds | question |
|---|---|---|
| `SyncSafety` | 2 ticks of 2 pods, 2 jobs and a row without reference, all faults, locks that outlive the work | types, one tick per job, final rows keep status and results, counts complete, `BatchJobLifecycle` and, job by job, `JobLock` implemented |
| `SyncBilling` | 3 ticks (2 in one process) of pods that are stopped and started, a pod that cannot start, a job and one without reference, locks that lapse; no crash, no failing write | every completed job gets its counts, orderly stops included |
| `SyncLiveness` | 2 pods: one whose tick is healthy, one whose tick may hang for ever; a job and a row without reference, all faults, locks that lapse | rows coherent and truthful; counts belong to jobs that succeeded; an ended job settles, the other row beside it for ever; a stop gets nearer to its end with each step of a tick, and comes to it |
| `Submit` | 2 submissions, 1 template with 2 versions, 2 job names, 2 ids, all faults | types, accepted jobs recorded, rows match the provider and can be read, one version per template and that as upserted, losses reported, `BatchService` implemented |
| `Gateway` | 1 submission that needs a template, 1 name, 2 ids, 2 ticks; the submission fails or dies, saves fail, schedulers die, locks lapse | submissions are what `BatchJobSync` expects, accepted jobs are tracked and settle, lost jobs are not billed |
| `LockTimed` | units of 20 s: TTL 6, period 3, delay ≤ 2, work ≤ 5; 4 goroutines, 2 of pods that stay up; all faults | the lock outlives its work and implements `JobLock`, a job is tried in time |
| `Shutdown` | the API server with one of two runs of db-migrate, or both runs with a client; one run told of another database, one repeated; an older schema; 2 RPCs, one of which ignores its cancellation; the listener may fail, a handler may panic | success means current, tables before calls, `main` returns last, the stop is announced, no client holds it up once `Stop` was called, the process ends, the server gets up |
| `SyncLapse` | 2 ticks, 1 job, no fault but a lapsing lock | violated: `TerminalIsFinal` |
| `SyncStaleRow` | 2 ticks, 1 job, no fault at all | violated: `SavesOnlyActiveRows` |
| `SyncExpired` | 2 ticks, 1 job that may expire | violated: `EndedJobSettles` |
| `PromptCreatedAt` | 1 template | violated: `CreatedAtIsKept` |
| `LockNextTick` | as `LockTimed`, no delay, short work, a pod dies | violated: `DeadLockGoneByNextTick` |

Why the bounds are enough. The code treats jobs independently of one another
except that one tick handles several in turn: two jobs show a tick that leaves
one for the other, with one job having counts and the other none. Two ticks
are every race of a lock; a third one is there where locks lapse, so that a
tick can free a lock that a second one took over and let a third one in. For
submissions, two handlers, two names and two ids allow each collision and each
loss; streams of up to three requests use a template twice with a plain
request in between. One submission and one name are enough for `Gateway`,
whose question is what one row sees of two processes; how submissions collide
is the business of `Submit`. In `LockTimed` four goroutines are more than can
be busy with one job: one works, and those of one tick are past it before the
next. In `Shutdown` two RPCs are one that ends when it is cancelled and one
that does not; a migration and a client beside it are enough for two to race
for a table. The server is checked beside one migration at a time, since with
two of its own database the run takes too long: `ServesInTheEnd` says nothing
of a server that waits for two that race, `MigratedMeansCurrent` covers the race.
The casts keep those two questions apart. Its `m2` is told of no MySQL, so it
migrates a database nobody serves from. Nothing counts without bound: `untried`
is bounded because `TriedInTime` holds, and the only other bounds are the sets
given to the constants. No symmetry is used.

Both ways to a verdict are in each of the first three runs: a success and a
failure, the latter after a cancellation in `SyncSafety` and `SyncLiveness`.

Streams that reach the provider adapter in `Submit` include one that is empty
and one whose schema, after a template is filled in, does not parse.
All runs but `Shutdown` check deadlock too: a handler that is over can always
be followed by a change of a template, a tick by the next one, and a pod that
is down by its start. In `Shutdown` a cast without the server or a run that is
repeated may come to an end; that the server itself does not stop before its
end is part of `EndsOnceSignalled`.

### Fairness

`EndedJobSettles` needs ticks that get somewhere. `Fairness` asks for

* a tick among `Healthy` to go on as long as it can and to be followed by
  another one: the cron fires for ever, whatever earlier ticks do
  (`cmd/scheduler/main.go:68`);
* of every other tick nothing. It may hang wherever it is, lock in hand, since
  no call has a deadline. Only *if* it keeps taking steps do its calls count as calls;
* a call made again and again for one job to succeed in the end (strong
  fairness of `Acquire`, `Poll`, `Save`). Without it Redis, the provider or
  the database may be down for good;
* a key to expire (Redis' TTL).

Nothing is asked of the upsert of token counts, of `Release` or of the
provider; none of the fairness conditions forbids a crash. That a job settles
*although* locks lapse and stale rows are saved over final ones is the point
of the run: such a job is active again and polled again. "For good" follows
because a hung tick that holds a stale row saves it at most once.
`AcceptedJobsSettle` is checked under the same conditions; nothing is asked of
submissions.

In `SyncLiveness` the same is asked of ticks within their processes
(`ProcessFairness`). Pods are started again when they are down, and live long
enough, now and then, for the cron to fire and that tick to read its rows: if
time and again it may fire (`MayFire`), time and again a tick begins. Fairness
of `Fire` and `Begin` alone would not do, since a pod may be stopped, or die,
each time between the two. A stopped pod whose ticks are over returns, the
channel it waits for being closed then. Nothing forces a signal or a death.
`StopCompletes` needs no more than this: no more ticks are fired, and what a
healthy tick calls returns, with an error maybe.

`EndsOnceSignalled` asks of `main` and its goroutines that they go on when they
can, of the timer that it fires, and of a cancelled handler that it returns,
unless it is `Stubborn`: every call a handler makes is given its context. A
client may keep its stream open for ever, and the listener need not fail.
`ServesInTheEnd` asks that both halves of the server's own advice are followed,
"run `make db-migrate` and restart the API" (`cmd/api/main.go:50`), whenever
either is over (`Rerun` is who repeats the former), that statements return and that
one tried again and again succeeds: strong fairness per table, as two
migrations can make each other fail now and then. Other migrations and clients owe
nothing and may stop anywhere, between two tables included.

## Disagreements found

* **`SyncLapse`**. `usecase.go:25-27` trusts the TTL to outlive the work
  under the lock, and `usecase.go:185` a final row to be out of the scheduler's
  reach. A tick that outlives its lock saves its old copy over a row another
  tick completed: the results are gone until a later poll brings them back.
* **`SyncStaleRow`**. Without any lapse: rows are read before locks are taken,
  so a tick takes the lock of a job completed since and saves it once more.
  The results are the same; the finishing time moves.
* **`SyncExpired`**. `google.go:178-180` takes every state it does not name
  for one in flight. A job that expired is polled for ever.
* **`LockNextTick`**. `usecase.go:26-27` has a dead pod's lock expire "before
  the next cron tick". The TTL is two minutes and `config/default.yaml:30`
  schedules a tick every minute. What holds instead is `TriedInTime`.
* **`PromptCreatedAt`**. `gorm.go:55` saves every column of a config that was
  built without `created_at` (`usecase.go:308`), declared `autoCreateTime`.

Not a disagreement, as no document promises otherwise, but worth knowing:
`CompletedJobsAreBilled` is checked without crashes and failing writes because
with them it fails. The code logs a failed upsert and never returns to the job.
Likewise `LossesAreReported` is the most a submission promises: a job can run at
the provider with no row, provided its client got an error.

## Proofs

All theorems hold for any number of jobs, ticks, pods, submissions, templates,
names, ids, RPCs, processes and databases, for any TTL, schedule and delays, for
any configurations and for requests of any content. Only the number of
submissions is taken to be finite, as `LossesAreReported` counts them.

| theorem | property | assumes |
|---|---|---|
| `TypeCorrect` | `TypeOK` | |
| `RowsStayCoherent` | `RowCoherent` | |
| `VerdictsMatchProvider` | `VerdictMatchesProvider` | `CancelIsFinal` |
| `OneTickPerJob` | `MutualExclusion` | `LockOutlivesWork` |
| `RecordedVerdictsAreFinal` | `TerminalIsFinal` | both |
| `OnlyCompletedJobsAreBilled` | `TokensOnlyWhenCompleted` | both |
| `ImplementsLifecycle` | `LifecycleSpec` | both |
| `ImplementsJobLocks` | `LocksSpec` | `LockOutlivesWork` |
| `ChargedJobsSucceeded` | `ChargesAreBacked` | |
| `CompletedJobsGetBilled` | `CompletedJobsAreBilled` | `NothingIsLost`: no crash, no failing save or upsert |
| `SubmitTypeCorrect` | `SubmitTypeOK` | |
| `SubmissionUsesOneVersion` | `OneVersionPerTemplate` | |
| `AcceptedJobsStayRecorded` | `AcceptedJobsAreRecorded` | |
| `ImplementsService` | `ServiceSpec` | |
| `RowsStayFaithful` | `RowsMatchProvider` | |
| `ConfigsAreFilledInAsUpserted` | `FilledAsUpserted` | |
| `NoSilentLoss` | `LossesAreReported` | |
| `BlobsCanBeRead` | `BlobsReadBack` | |
| `BlobReadsAsWritten` | every sequence of messages reads back from its blob | |
| `SubmitsAsAlone` | `GatewaySpec => SubmitSpec` | |
| `SchedulesAsAlone` | `SchedulerSpec`, of the two processes | |
| `LostJobsCostNothing` | `LostJobsAreNotBilled` | |
| `AcceptedJobsStayTracked` | `AcceptedJobsAreTracked` | `CancelIsFinal` |
| `SubmittedJobsLiveOn` | `LifecycleSpec`, of the two processes | both |
| `ProcessesRunTicks` | `ProcessSpec => Spec` | |
| `StopsGetNearer` | `StopGetsNearer` | |
| `StopsLoseNoCounts` | `CompletedJobsAreBilled`, of processes | `NothingIsLost` |
| `RowsStayCoherentInProcesses` | `RowCoherent`, of processes | |
| `VerdictsMatchProviderInProcesses` | `VerdictMatchesProvider`, of processes | `CancelIsFinal` |
| `TimingTypeCorrect` | `TimingTypeOK` | |
| `LockOutlivesWorkThatFits` | `LockOutlivesItsWork` | `WorkFits`: `MaxWork < TTL` |
| `ImplementsJobLock` | `LockSpec` | `WorkFits` |
| `JobIsTriedInTime` | `TriedInTime` | |
| `ServerTypeCorrect` | `ServerTypeOK` | |
| `MainReturnsLast` | `NothingLeftBehind` | |
| `EndIsOutOfClientsHands` | `NoClientHoldsUpTheEnd` | |
| `ClosingComesAnnounced` | `ClosingIsAnnounced` | |
| `RestartsKeepOrder` | these three, of a server that is restarted | |
| `SuccessMeansCurrent` | `MigratedMeansCurrent` | |
| `TablesComeFirst` | `TablesBeforeCalls` | |

The other assumptions are those of the modules themselves
(`ConstantsAssumption`, `GatewayAssumption`, `ProcessAssumption`, `PromptAssumption`,
`SubmitAssumption`, `TimingAssumption`, `ServerAssumption`,
`DeploymentAssumption`): constants are of their kinds and special values are
apart from ordinary ones. `SubmitAssumption` has a message's length fit four
bytes, as `uint32(len(b))` needs; gRPC's own limit on messages is far below.

**BatchJobSync.** The invariants come in layers, each inductive relative to
those before it.

1. `RowInv`: types, coherence of rows, and of the *copies* a tick holds
   (`TickInv`): a copy was active when it was read. A save of an active copy
   yields a coherent row whatever the row has become, so this layer needs no
   assumption on locks.
2. `VerdictInv`: an answer waiting to be saved is one the provider's state
   still supports. It rests on the provider's final states being final.
3. `LockInv`, `AloneInv`: whoever works on a job holds its key, hence works
   alone, so no other tick changes the row while an answer waits to be saved.
   This is where `LockOutlivesWork` is used. A tick that saves may still be
   saving a final row (`SyncStaleRow`); that this leaves its status and results
   as they were needs the second layer: both answers are the provider's final one.
4. `TokenInv`: a tick about to record counts has just completed the row.
5. `ChargeInv`, over the first layer alone: an answer "completed" that waits to
   be saved, counts that wait to be recorded and counts that are recorded all
   stand for a success at the provider, which is never taken back. Hence
   `ChargedJobsSucceeded` needs no assumption, where
   `OnlyCompletedJobsAreBilled`, which speaks of the row, needs two.

For `JobLock`, `Acquire` is `Take`, an acquisition whose answer is lost
`TakeInVain`, a release or a crash `Leave`, an expiry `Lapse`. That the key
deleted by a release is the releasing tick's own is `LockInv`; that a crash,
which takes several ticks at once, takes at most one from a job, is
`MutualExclusion`.

The refinement of `BatchJobLifecycle` maps `Save` and `SaveError` to `Record` or a stutter,
`UpsertTokens` to `Bill`, `CreateBatchJob` to `Create`, the rest to stutters.

**SchedulerProcess.** Starting, firing and returning touch no store, a death is
`Crash`, and `Begin` is `ListActive`: every step is one of `BatchJobSync`, or a
stutter, under the identity. So its invariants hold of processes. `FiredInv`
adds that a tick that is fired and has not read its rows is idle.
`StopsGetNearer` goes action by action: a call that returns takes its own name
out of `Ahead(t)`, a job that is finished whatever it has left, and the reading
of rows, be it after the signal, takes itself out and puts nothing in, as all
jobs were ahead of a tick that had not read them. Only `Fire` puts anything in,
and a stopping pod does not take it. That the set gets *smaller* needs
`TickInv`: the job in hand is still listed.

**RequestCodec.** By induction over the entries, as a least element of a set of
numbers (`SetInduction`): what is written stays where it is (`WrittenGrows`),
the four bytes give the length back (`PrefixTells`), so each entry is found
where the one before it ends.

**BatchJobSubmit.** `FormInv` follows one handler's requests: what is filled in
so far came from the handler's own map, one version per template. `RecordInv`
ties stage, table and provider together: a handler with a name is alone with
it, before its insert no row has the name and after it one has. `ContentInv` has
every config, in the table or in a handler's map, be what one upsert left.
`LossInv` keeps an injection from the provider's jobs to handlers that answer
for them: one about to insert its row, one whose row is there, or one whose
client got an error. Orphans therefore map into the clients that got one, which
is how two cardinalities compare. For `BatchService`, `AnswerInv` adds that the
answer a client was given is the name its handler had, whose row is there:
names are not shared (`RecordInv`), so no two clients are told of one job.

**Gateway.** Each half is implemented by the whole. For the handlers this is a
projection. For the scheduler, `HalvesAgree` is the invariant: it has its half
of a row just where `table` has the other. Since a handler about to insert
finds no row of its name (`RecordInv`), the scheduler's half is absent then,
and the insert is `CreateBatchJob`; every other step of a handler is a stutter.
With that, theorems on each side hold of both together, and `HalvesAgree`
joins them: `AcceptedJobsAreTracked` is `AcceptedJobsAreRecorded` on one side
and `VerdictMatchesProvider` on the other, `LostJobsAreNotBilled` comes from
`ChargesAreBacked`. `Gateway_proofs` has an instance of `BatchJobSync_proofs`
beside the instance of `BatchJobSync` that `Gateway` has; `SameSpec` says that
the two are one.

**LockTiming.** `WaitInv` says how long a job has waited at worst. While there
is a key, its age is the wait, since only an attempt sets one. Without a key,
either the next tick of the schedule is close enough, or a tick of a sturdy pod
is on its way and has used part of its `MaxDelay`; the step between the two
is `Fire`, which is why one sturdy tick must be idle then. With `Fire` a sturdy
tick is demanded even if all of them are busy, in which case time stands still:
the constant `Ticks` has to be large enough, as it is in the run.

**ApiServer.** `StopInv`: nothing of a stop precedes `main`'s leaving its first
select, so the channel cannot hold `nil` there. `DrainInv`: once drained, no
handler is left, and none begins. `ChannelInv`: what the channel holds, `Serve`
left there on its return, and while `main` goes on it takes nothing out; so its
last receive finds a value, or a `Serve` that will return. `ClientInv`: closed
connections stay closed, and what holds the mutex has no client any more.

**Deployment.** `RunInv`: the tables a process has left behind are there, or
current, and stay so, since a step changes no table but to make it current
(`Improves`). Of the server, each step is one of `ServerNext`, or `ServerInit`
anew when it is started again.

Left to TLC: liveness (`EndedJobSettles`, `AcceptedJobsSettle`,
`EndsOnceSignalled`, `StopCompletes`, `ServesInTheEnd`), which TLAPS cannot
prove under fairness. Every other property of a passing run is the statement of
a theorem. Of `StopCompletes`, `AcceptedJobsSettle` and `EndsOnceSignalled` the
parts that need no fairness are theorems: `StopsGetNearer`,
`AcceptedJobsStayTracked` and `EndIsOutOfClientsHands`.

## What is not covered

* **Time**, outside `LockTiming`: elsewhere locks lapse or they do not and
  timeouts fire or they do not. The length of one tick over many jobs, each
  with its calls, is the constant `MaxDelay` there.
* **The table `batch_jobs` itself.** The list of tables leaves it out
  (`models/migration.go:6`), so nothing here migrates or checks it; to a
  submission that is an insert that fails, which `PersistError` covers.
* **What a migration does to a table.** Columns are "old" or "current".
* **Summing of token counts** over a job's responses: the constant `Usage`.
* **Bytes of a message**: `proto.Marshal`; the JSON of metadata.
* **Content.** Prompts, system instructions, temperatures and result texts.
  That temperature 0 counts as not set is the code's reading of a message.
* **Driver parameters** of a connection string, TLS modes, passwords, and
  `OpenFromEnv`, which nothing calls.
* **Two databases failing over, Redis losing keys.** A lost key is a lapsed lock.
* **ChatCompletion**, of server and client library: one stateless call.
* **Webhooks**: columns and a field no code touches.
* **Generated message types and mocks.** Of the generated gRPC code there is
  the handing of an RPC to its handler.

## Plan

Every safety property and every refinement that is checked is proved. What
would say more, most important first:

1. `aggregateTokenCounts` and `buildTokenJobs` as functions of a job's
   responses, in place of the constant `Usage`.
2. `LockTiming` with several jobs per tick, so that `MaxDelay` follows from
   the number of jobs and the length of their calls instead of being given.
3. The process lifecycle of the scheduler in `Gateway`, which now has its pods
   die but not stop: `ProcessesRunTicks` says that nothing changes for the tables.
