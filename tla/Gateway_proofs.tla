---------------------------- MODULE Gateway_proofs ----------------------------
(***************************************************************************)
(* The API server and the scheduler together: what each guarantees alone   *)
(* it guarantees beside the other, for any calls, ticks, pods and faults.  *)
(*                                                                         *)
(* The two halves of a row are kept apart in Gateway.  HalvesAgree ties    *)
(* them together, and with it every step of a handler is to the scheduler  *)
(* the insertion of a row that was not there, or nothing.                  *)
(***************************************************************************)
EXTENDS Gateway, BatchJobSubmit_proofs

\* BatchJobSync with the facts proved about it.
Sync == INSTANCE BatchJobSync_proofs WITH Jobs <- Names, Nameless <- {}, NoJob <- NoName

\* Its constants are as it assumes.
LEMMA SyncConstants ==
    /\ {} \subseteq Names
    /\ PodOf \in [Ticks -> Pods]
    /\ Usage \in [Names -> [Sync!TokenTypes -> Nat]]
    /\ Outcomes \subseteq Sync!EndStates
    /\ CancelEnds \subseteq {"CANCELLED", "FAILED", "SUCCEEDED"}
    /\ Faults \subseteq {"crash", "acquire", "poll", "save", "tokens", "release"}
    /\ LockOutlivesWork \in BOOLEAN
    /\ Healthy \subseteq Ticks
    /\ NoName \notin Names
    /\ Never \notin Ticks
BY GatewayAssumption, SubmitAssumption
   DEF Sync!TokenTypes, Sync!EndStates, Scheduler!TokenTypes, Scheduler!EndStates

-----------------------------------------------------------------------------
\* Both instances of BatchJobSync, Gateway's and the one with the facts, are one.
LEMMA SameInit == Scheduler!Init <=> Sync!Init
BY DEF Scheduler!Init, Scheduler!Absent, Scheduler!NoTokens, Scheduler!TokenTypes,
       Scheduler!InFlight, Sync!Init, Sync!Absent, Sync!NoTokens, Sync!TokenTypes, Sync!InFlight

LEMMA SameSteps ==
    /\ \A t \in Ticks : Scheduler!ListActive(t) <=> Sync!ListActive(t)
    /\ \A t \in Ticks : Scheduler!Step(t) <=> Sync!Step(t)
    /\ \A p \in Pods : Scheduler!Crash(p) <=> Sync!Crash(p)
    /\ \A n \in Names : Scheduler!LockExpires(n) <=> Sync!LockExpires(n)
BY DEF Scheduler!Step, Scheduler!ListActive, Scheduler!SkipNameless, Scheduler!Acquire,
       Scheduler!LockHeld, Scheduler!AcquireError, Scheduler!Poll, Scheduler!PollError,
       Scheduler!Save, Scheduler!SaveError, Scheduler!UpsertTokens, Scheduler!UpsertTokensError,
       Scheduler!Release, Scheduler!ReleaseError, Scheduler!Crash, Scheduler!LockExpires,
       Scheduler!Goto, Scheduler!Finish, Scheduler!TakesUp, Scheduler!Listed, Scheduler!ActiveJobs,
       Scheduler!ActiveStatuses, Scheduler!FinalStatuses, Scheduler!Absent, Scheduler!StatusOf,
       Scheduler!Updated, Scheduler!SavedRows, Scheduler!Upserted, Scheduler!TokenRows,
       Scheduler!TokenTypes, Scheduler!InFlight, Scheduler!Holds, Scheduler!Working, Sync!Step,
       Sync!ListActive, Sync!SkipNameless, Sync!Acquire, Sync!LockHeld, Sync!AcquireError,
       Sync!Poll, Sync!PollError, Sync!Save, Sync!SaveError, Sync!UpsertTokens,
       Sync!UpsertTokensError, Sync!Release, Sync!ReleaseError, Sync!Crash, Sync!LockExpires,
       Sync!Goto, Sync!Finish, Sync!TakesUp, Sync!Listed, Sync!ActiveJobs, Sync!ActiveStatuses,
       Sync!FinalStatuses, Sync!Absent, Sync!StatusOf, Sync!Updated, Sync!SavedRows, Sync!Upserted,
       Sync!TokenRows, Sync!TokenTypes, Sync!InFlight, Sync!Holds, Sync!Working

LEMMA SameNext == [Scheduler!Next]_(Scheduler!vars) <=> [Sync!Next]_(Sync!vars)
<1>1. /\ \A n \in Names : Scheduler!CreateBatchJob(n) <=> Sync!CreateBatchJob(n)
      /\ \A n \in Names : Scheduler!ProviderAdvances(n) <=> Sync!ProviderAdvances(n)
  BY DEF Scheduler!CreateBatchJob, Scheduler!Absent, Scheduler!PendingRow,
         Scheduler!ProviderAdvances, Scheduler!InFlight, Sync!CreateBatchJob, Sync!Absent,
         Sync!PendingRow, Sync!ProviderAdvances, Sync!InFlight
<1>2. Scheduler!vars = Sync!vars /\ (UNCHANGED Scheduler!vars <=> UNCHANGED Sync!vars)
  BY DEF Scheduler!vars, Sync!vars
<1>3. Scheduler!Next <=> Sync!Next
  BY <1>1, SameSteps DEF Scheduler!Next, Sync!Next
<1>. QED
  BY <1>2, <1>3

LEMMA SameSpec == Scheduler!Spec <=> Sync!Spec
BY SameInit, SameNext, PTL DEF Scheduler!Spec, Sync!Spec

-----------------------------------------------------------------------------
\* To the handlers, the scheduler is not there.
LEMMA SubmitStep == [GatewayNext]_gatewayVars => [SubmitNext]_submitVars
BY DEF GatewayNext, SubmissionStep, PromptStep, SchedulerStep, ProviderStep, gatewayVars, SubmitNext

\* Whatever holds of every behaviour of the handlers alone, AcceptedJobsAreRecorded
\* and ServiceSpec among it, holds of them beside a scheduler.
THEOREM SubmitsAsAlone == GatewaySpec => SubmitSpec
<1>1. GatewayInit => SubmitInit
  BY DEF GatewayInit
<1>. QED
  BY <1>1, SubmitStep, PTL DEF GatewaySpec, SubmitSpec

-----------------------------------------------------------------------------
\* The scheduler has its half of a row exactly where the handlers have theirs.
HalvesAgree == \A n \in Names : rows[n] # Sync!Absent <=> Recorded(n)

GatewayInv == FormInv /\ RecordInv /\ Sync!RowInv /\ HalvesAgree

\* Only an insert changes the table.
LEMMA TableChanges ==
    ASSUME NEW c \in Calls, Handle(c), table' # table
    PROVE  stage[c] = "persist" /\ \E i \in Ids : Inserted(c, i)
BY DEF Handle, Receive, ReceiveOrLookupError, ResolvePlain, ResolveCached, ResolveLookup,
       TemplateNotFound, SubmitRefused, SubmitBatchJob, SubmitError, Persist, PersistError, Reply, Crash

\* The halves of an inserted row appear together, for a job without a row.
LEMMA RowAppears ==
    ASSUME GatewayInv, NEW c \in Calls, Handle(c), table' # table,
           rows' = [rows EXCEPT ![name[c]] = Scheduler!PendingRow]
    PROVE  /\ name[c] \in Names
           /\ rows[name[c]] = Sync!Absent
           /\ rows' = [rows EXCEPT ![name[c]] = Sync!PendingRow]
           /\ HalvesAgree'
<1>1. PICK i \in Ids : stage[c] = "persist" /\ Inserted(c, i)
  BY TableChanges
<1>2. /\ name[c] \in Created \ RecordedJobs
      /\ RecordedJobs' = RecordedJobs \cup {name[c]}
  BY <1>1, JobRecorded DEF GatewayInv
<1>3. name[c] \in Names /\ ~Recorded(name[c])
  BY <1>2 DEF Created, RecordedJobs
<1>4. rows[name[c]] = Sync!Absent
  BY <1>3 DEF GatewayInv, HalvesAgree
<1>5. rows' = [rows EXCEPT ![name[c]] = Sync!PendingRow]
  BY DEF Scheduler!PendingRow, Sync!PendingRow
<1>6. \A n \in Names : rows'[n] = IF n = name[c] THEN Sync!PendingRow ELSE rows[n]
  BY <1>5 DEF GatewayInv, Sync!RowInv, Sync!TypeOK
<1>7. Sync!PendingRow # Sync!Absent
  BY DEF Sync!PendingRow, Sync!Absent
<1>8. \A n \in Names : Recorded(n)' <=> (Recorded(n) \/ n = name[c])
  BY <1>2 DEF RecordedJobs
<1>9. HalvesAgree'
  BY <1>6, <1>7, <1>8 DEF GatewayInv, HalvesAgree, Sync!Absent
<1>. QED
  BY <1>3, <1>4, <1>5, <1>9

LEMMA NoRowAppears == HalvesAgree /\ UNCHANGED <<table, rows>> => HalvesAgree'
BY DEF HalvesAgree, Recorded, Sync!Absent

\* What a step of either side is to the scheduler.
LEMMA SyncStep ==
    ASSUME GatewayInv, [GatewayNext]_gatewayVars
    PROVE  [Sync!Next]_(Sync!vars) /\ HalvesAgree'
<1>1. CASE SubmissionStep
  <2>1. PICK c \in Calls : /\ Handle(c)
                           /\ rows' = IF table' = table THEN rows ELSE [rows EXCEPT ![name[c]] = Scheduler!PendingRow]
    BY <1>1 DEF SubmissionStep
  <2>2. UNCHANGED <<tokenJobs, locks, remote, pc, cur, result, snap>>
    BY <1>1 DEF SubmissionStep, schedulerOnly
  <2>3. CASE table' = table
    BY <2>1, <2>2, <2>3, NoRowAppears DEF GatewayInv, Sync!vars
  <2>4. CASE table' # table
    <3>1. /\ name[c] \in Names
          /\ rows[name[c]] = Sync!Absent
          /\ rows' = [rows EXCEPT ![name[c]] = Sync!PendingRow]
          /\ HalvesAgree'
      BY <2>1, <2>4, RowAppears
    <3>2. Sync!CreateBatchJob(name[c])
      BY <2>2, <3>1 DEF Sync!CreateBatchJob
    <3>. QED
      BY <3>1, <3>2 DEF Sync!Next
  <2>. QED
    BY <2>3, <2>4
<1>2. CASE PromptStep
  <2>1. UNCHANGED <<table, rows, tokenJobs, locks, remote, pc, cur, result, snap>>
    BY <1>2 DEF PromptStep, schedulerOnly
  <2>. QED
    BY <2>1, NoRowAppears DEF GatewayInv, Sync!vars
<1>3. CASE SchedulerStep
  <2>1. \/ \E t \in Ticks : Sync!ListActive(t) \/ Sync!Step(t)
        \/ \E p \in Pods : Sync!Crash(p)
        \/ \E n \in Names : Sync!LockExpires(n)
    BY <1>3, SameSteps DEF SchedulerStep
  <2>2. \A n \in Names : rows'[n] = Sync!Absent <=> rows[n] = Sync!Absent
    BY <2>1, Sync!TicksKeepRows, SyncConstants DEF GatewayInv
  <2>3. UNCHANGED table
    BY <1>3 DEF SchedulerStep, submitVars
  <2>4. HalvesAgree'
    BY <2>2, <2>3 DEF GatewayInv, HalvesAgree, Recorded, Sync!Absent
  <2>. QED
    BY <2>1, <2>4 DEF Sync!Next
<1>4. CASE ProviderStep
  <2>1. PICK n \in Names : Scheduler!ProviderAdvances(n)
    BY <1>4 DEF ProviderStep, Created
  <2>2. [Sync!Next]_(Sync!vars) /\ UNCHANGED rows
    BY <2>1, SameNext DEF Scheduler!Next, Scheduler!ProviderAdvances
  <2>3. UNCHANGED table
    BY <1>4 DEF ProviderStep, submitVars
  <2>. QED
    BY <2>2, <2>3, NoRowAppears DEF GatewayInv
<1>5. CASE UNCHANGED gatewayVars
  BY <1>5, NoRowAppears DEF gatewayVars, submitVars, schedulerOnly, GatewayInv, Sync!vars
<1>. QED
  BY <1>1, <1>2, <1>3, <1>4, <1>5 DEF GatewayNext

LEMMA GatewayInvInit == GatewayInit => GatewayInv
<1>. SUFFICES ASSUME GatewayInit PROVE GatewayInv
  OBVIOUS
<1>1. FormInv /\ RecordInv
  BY FormInvInit, RecordInvInit DEF GatewayInit
<1>2. Sync!Init
  BY SameInit DEF GatewayInit
<1>3. Sync!RowInv
  BY <1>2, Sync!RowInvInit, SyncConstants
<1>4. HalvesAgree
  BY <1>2 DEF GatewayInit, SubmitInit, Sync!Init, HalvesAgree, Recorded
<1>. QED
  BY <1>1, <1>3, <1>4 DEF GatewayInv

LEMMA GatewayInvNext == GatewayInv /\ [GatewayNext]_gatewayVars => GatewayInv'
<1>. SUFFICES ASSUME GatewayInv, [GatewayNext]_gatewayVars PROVE GatewayInv'
  OBVIOUS
<1>1. FormInv' /\ RecordInv'
  BY SubmitStep, FormInvNext, RecordInvNext DEF GatewayInv
<1>2. Sync!RowInv'
  BY SyncStep, Sync!RowInvNext, SyncConstants DEF GatewayInv
<1>. QED
  BY <1>1, <1>2, SyncStep DEF GatewayInv

LEMMA GatewayInvariant == GatewaySpec => []GatewayInv
BY GatewayInvInit, GatewayInvNext, PTL DEF GatewaySpec

LEMMA SyncsAsAlone == GatewaySpec => Sync!Spec
<1>1. GatewayInit => Sync!Init
  BY SameInit DEF GatewayInit
<1>2. GatewayInv /\ [GatewayNext]_gatewayVars => [Sync!Next]_(Sync!vars)
  BY SyncStep
<1>. QED
  BY <1>1, <1>2, GatewayInvariant, PTL DEF GatewaySpec, Sync!Spec

\* Whatever handlers do, retry or fail to learn, to the scheduler a row appears
\* once, pending, and is never touched by them again: what BatchJobSync takes
\* for granted of them, and so all that is proved of it, holds beside them.
THEOREM SchedulesAsAlone == GatewaySpec => SchedulerSpec
BY SyncsAsAlone, SameSpec, PTL DEF SchedulerSpec

\* Nobody is charged for a job that was lost between the provider and the
\* table, or that has not succeeded, however locks lapse and processes die.
THEOREM LostJobsCostNothing == GatewaySpec => []LostJobsAreNotBilled
<1>1. GatewaySpec => []Sync!ChargesAreBacked
  BY SyncsAsAlone, Sync!ChargedJobsSucceeded, SyncConstants, PTL
<1>2. GatewayInv /\ Sync!ChargesAreBacked => LostJobsAreNotBilled
  BY DEF GatewayInv, HalvesAgree, Sync!ChargesAreBacked, Sync!Successes, LostJobsAreNotBilled,
         Sync!NoTokens, Sync!TokenTypes, Scheduler!NoTokens, Scheduler!TokenTypes
<1>. QED
  BY <1>1, <1>2, GatewayInvariant, PTL

\* Once a client has a job's name, the scheduler has its row, and what it makes
\* final there is the provider's verdict on that client's own requests, locks
\* or no locks, as long as the provider sticks to a cancellation.
THEOREM AcceptedJobsStayTracked ==
    ASSUME Sync!CancelIsFinal
    PROVE  GatewaySpec => []AcceptedJobsAreTracked
<1>1. GatewaySpec => []Sync!VerdictMatchesProvider
  BY SyncsAsAlone, Sync!VerdictsMatchProvider, SyncConstants, PTL
<1>2. GatewaySpec => []AcceptedJobsAreRecorded
  BY SubmitsAsAlone, AcceptedJobsStayRecorded, PTL
<1>3. GatewayInv /\ Sync!VerdictMatchesProvider /\ AcceptedJobsAreRecorded => AcceptedJobsAreTracked
  BY DEF GatewayInv, HalvesAgree, Recorded, Sync!VerdictMatchesProvider, AcceptedJobsAreRecorded,
         AcceptedJobsAreTracked, Sync!Absent, Scheduler!Absent
<1>. QED
  BY <1>1, <1>2, <1>3, GatewayInvariant, PTL

\* With locks that outlive the work, what readers of batch_jobs and token_jobs
\* see of jobs that clients submit, from the insert on, is BatchJobLifecycle.
THEOREM SubmittedJobsLiveOn ==
    ASSUME LockOutlivesWork, Sync!CancelIsFinal
    PROVE  GatewaySpec => Sync!LifecycleSpec
BY SyncsAsAlone, Sync!ImplementsLifecycle, SyncConstants, PTL
=============================================================================
