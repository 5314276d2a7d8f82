------------------------ MODULE SchedulerProcess_proofs ------------------------
(***************************************************************************)
(* What was proved of the ticks holds in the processes they run in.        *)
(*                                                                         *)
(* Starting, stopping and replacing pods adds no step to the stores that   *)
(* BatchJobSync does not have: a pod's start, the firing of a tick and an  *)
(* orderly return touch nothing, a pod's death is Crash.  So ProcessSpec   *)
(* implements Spec under the identity, where a tick that was fired and has *)
(* not read its rows yet is one that is idle, and inherits each of its     *)
(* invariants.                                                             *)
(***************************************************************************)
EXTENDS SchedulerProcess, BatchJobSync_proofs

\* Every step of a process is a step of a tick, of the environment, or none.
LEMMA ProcessStep == [ProcessNext]_processVars => [Next]_vars
<1>. SUFFICES ASSUME [ProcessNext]_processVars
              PROVE  [Next]_vars
  OBVIOUS
<1>1. CASE UNCHANGED processVars
  BY <1>1 DEF processVars
<1>2. ASSUME NEW p \in Pods, Start(p) \/ Terminate(p) \/ Return(p)
      PROVE  [Next]_vars
  BY <1>2 DEF Start, Terminate, Return
<1>3. ASSUME NEW p \in Pods, Die(p)
      PROVE  [Next]_vars
  BY <1>3 DEF Die, Next
<1>4. ASSUME NEW t \in Ticks, Fire(t) \/ Begin(t) \/ TickStep(t)
      PROVE  [Next]_vars
  BY <1>4 DEF Fire, Begin, TickStep, Next
<1>5. CASE StoreStep
  BY <1>5 DEF StoreStep, Next
<1>. QED
  BY <1>1, <1>2, <1>3, <1>4, <1>5 DEF ProcessNext

\* cmd/scheduler, started, stopped and replaced in any order, does to the
\* tables, the locks and the provider what ticks on their own do.
THEOREM ProcessesRunTicks == ProcessSpec => Spec
<1>1. ProcessInit => Init
  BY DEF ProcessInit
<1>. QED
  BY <1>1, ProcessStep, PTL DEF ProcessSpec, Spec

\* An orderly stop loses no token counts: where no process dies and no write
\* fails, a completed row has its counts or a tick about to record them,
\* however many pods are being replaced.
THEOREM StopsLoseNoCounts ==
    ASSUME NothingIsLost
    PROVE  ProcessSpec => []CompletedJobsAreBilled
BY ProcessesRunTicks, CompletedJobsGetBilled, PTL

\* Rows stay coherent while pods come and go.
THEOREM RowsStayCoherentInProcesses == ProcessSpec => []RowCoherent
BY ProcessesRunTicks, RowsStayCoherent, PTL

\* Recorded verdicts stay true to the provider while pods come and go.
THEOREM VerdictsMatchProviderInProcesses ==
    ASSUME CancelIsFinal
    PROVE  ProcessSpec => []VerdictMatchesProvider
BY ProcessesRunTicks, VerdictsMatchProvider, PTL
-----------------------------------------------------------------------------
\* A tick that has yet to read its rows holds none of them.
FiredInv == fired \subseteq {t \in Ticks : pc[t] = "idle"}

\* The calls ahead of a tick that is on its way from one job to the next.
LEMMA AheadOfNext ==
    ASSUME NEW t \in Ticks, t \notin fired, pc[t] \in {"idle", "next"}
    PROVE  Ahead(t) = Listed(t) \X (Working \cup {"next"})
BY DEF Ahead, CallsFrom

\* A tick that is through with a job never comes back to it.
LEMMA FinishedJobIsBehind ==
    ASSUME RowInv, NEW t \in Ticks, t \notin fired, UNCHANGED fired, NEW j \in Listed(t), Finish(t, j),
           pc[t] = "next" \/ (pc[t] = "release" /\ j = cur[t])
    PROVE  Ahead(t)' \subseteq Ahead(t) /\ Ahead(t)' # Ahead(t)
<1>1. j \in Jobs /\ pc'[t] \in {"idle", "next"}
  BY FinishTick DEF Listed
<1>2. Listed(t)' = Listed(t) \ {j}
  BY <1>1 DEF Finish, Listed, RowInv, TypeOK
<1>3. Ahead(t)' = (Listed(t) \ {j}) \X (Working \cup {"next"})
  BY <1>1, <1>2 DEF Ahead, CallsFrom
<1>4. (Listed(t) \ {j}) \X (Working \cup {"next"}) \subseteq Ahead(t)
  BY DEF Ahead, CallsFrom
<1>5. <<j, "release">> \in Ahead(t)
  BY DEF Ahead, CallsFrom, Working
<1>. QED
  BY <1>3, <1>4, <1>5

\* A call that returns to a tick leaves it at a later one for the same job.
LEMMA LaterCallIsAhead ==
    ASSUME RowInv, NEW t \in Ticks, t \notin fired, pc[t] \in Working, UNCHANGED <<cur, snap, fired>>,
           NEW label \in Working, Goto(t, label),
           CallsFrom(label) \subseteq CallsFrom(pc[t]) \ {pc[t]}
    PROVE  Ahead(t)' \subseteq Ahead(t) /\ Ahead(t)' # Ahead(t)
<1>1. pc'[t] = label
  BY DEF Goto, RowInv, TypeOK
<1>2. Listed(t)' = Listed(t)
  BY DEF Listed
<1>3. Ahead(t)' \subseteq Ahead(t)
  BY <1>1, <1>2 DEF Ahead
<1>4. cur[t] \in Listed(t)
  BY DEF RowInv, TickInv, Listed
<1>5. pc[t] \in CallsFrom(pc[t])
  BY DEF CallsFrom, Working
<1>6. <<cur[t], pc[t]>> \in Ahead(t)
  BY <1>4, <1>5 DEF Ahead
<1>7. <<cur[t], pc[t]>> \notin Ahead(t)'
  BY <1>1 DEF Ahead
<1>. QED
  BY <1>3, <1>6, <1>7

\* Once it has read its rows, a tick that was fired has at most the calls for
\* these ahead, and the reading behind it.
LEMMA BeginGetsNearer ==
    ASSUME NEW t \in Ticks, Begin(t)
    PROVE  Ahead(t)' \subseteq Ahead(t) /\ Ahead(t)' # Ahead(t)
<1>1. Ahead(t) = Jobs \X (Working \cup {"next"}) \cup {<<NoJob, "list">>}
  BY DEF Begin, Ahead
<1>2. Ahead(t)' \subseteq Jobs \X (Working \cup {"next"})
  BY DEF Begin, Ahead, Listed
<1>3. <<NoJob, "list">> \notin Jobs \X (Working \cup {"next"})
  BY ConstantsAssumption
<1>. QED
  BY <1>1, <1>2, <1>3

\* Every step of a tick that has read its rows leaves less ahead of it.
LEMMA StepGetsNearer ==
    ASSUME RowInv, NEW t \in Ticks, t \notin fired, TickStep(t)
    PROVE  Ahead(t)' \subseteq Ahead(t) /\ Ahead(t)' # Ahead(t)
<1>0. Step(t) /\ UNCHANGED fired
  BY DEF TickStep
<1>1. ASSUME NEW j \in Jobs, SkipNameless(t, j) \/ LockHeld(t, j) \/ AcquireError(t, j)
      PROVE  Ahead(t)' \subseteq Ahead(t) /\ Ahead(t)' # Ahead(t)
  BY <1>0, <1>1, FinishedJobIsBehind DEF SkipNameless, LockHeld, AcquireError, TakesUp
<1>2. ASSUME NEW j \in Jobs, Acquire(t, j)
      PROVE  Ahead(t)' \subseteq Ahead(t) /\ Ahead(t)' # Ahead(t)
  <2>1. pc[t] = "next" /\ j \in Listed(t) /\ pc'[t] = "poll" /\ cur'[t] = j /\ UNCHANGED snap
    BY <1>2 DEF Acquire, TakesUp, Goto, RowInv, TypeOK
  <2>2. Ahead(t) = Listed(t) \X (Working \cup {"next"})
    BY <2>1, AheadOfNext
  <2>3. Listed(t)' = Listed(t)
    BY <2>1 DEF Listed
  <2>4. Ahead(t)' \subseteq Ahead(t)
    BY <1>0, <2>2, <2>3 DEF Ahead
  <2>5. <<j, "next">> \in Ahead(t)
    BY <2>1, <2>2
  <2>6. <<j, "next">> \notin Ahead(t)'
    BY <1>0, <2>1 DEF Ahead, CallsFrom, Working
  <2>. QED
    BY <2>4, <2>5, <2>6
<1>3. ASSUME NEW j \in Jobs, Poll(t, j)
      PROVE  Ahead(t)' \subseteq Ahead(t) /\ Ahead(t)' # Ahead(t)
  <2>1. pc[t] = "poll" /\ UNCHANGED <<cur, snap>> /\ (Goto(t, "release") \/ Goto(t, "save"))
    BY <1>3 DEF Poll
  <2>. QED
    BY <1>0, <2>1, LaterCallIsAhead DEF CallsFrom, Working
<1>4. ASSUME NEW j \in Jobs, Save(t, j)
      PROVE  Ahead(t)' \subseteq Ahead(t) /\ Ahead(t)' # Ahead(t)
  <2>1. pc[t] = "save" /\ UNCHANGED <<cur, snap>> /\ (Goto(t, "tokens") \/ Goto(t, "release"))
    BY <1>4 DEF Save
  <2>. QED
    BY <1>0, <2>1, LaterCallIsAhead DEF CallsFrom, Working
<1>5. CASE PollError(t) \/ SaveError(t) \/ UpsertTokens(t) \/ UpsertTokensError(t)
  <2>1. pc[t] \in {"poll", "save", "tokens"} /\ UNCHANGED <<cur, snap>> /\ Goto(t, "release")
    BY <1>5 DEF PollError, SaveError, UpsertTokens, UpsertTokensError
  <2>. QED
    BY <1>0, <2>1, LaterCallIsAhead DEF CallsFrom, Working
<1>6. CASE Release(t) \/ ReleaseError(t)
  <2>1. pc[t] = "release" /\ Finish(t, cur[t])
    BY <1>6 DEF Release, ReleaseError
  <2>2. cur[t] \in Listed(t)
    BY <2>1 DEF RowInv, TickInv, Listed, Working
  <2>. QED
    BY <1>0, <2>1, <2>2, FinishedJobIsBehind
<1>. QED
  BY <1>0, <1>1, <1>2, <1>3, <1>4, <1>5, <1>6 DEF Step

\* Of another tick's step a tick takes no notice.
LEMMA StepIsLocal ==
    ASSUME RowInv, NEW t \in Ticks, NEW u \in Ticks, u # t, Step(u) \/ ListActive(u)
    PROVE  UNCHANGED <<pc[t], cur[t], snap[t]>>
BY DEF Step, ListActive, SkipNameless, Acquire, LockHeld, AcquireError, Poll, Save, PollError,
       SaveError, UpsertTokens, UpsertTokensError, Release, ReleaseError, Finish, Goto,
       RowInv, TypeOK

\* A pod is down, running, or on its way down.
UpOK == up \in [Pods -> {"down", "running", "stopping"}]

ProcessInv == UpOK /\ FiredInv

LEMMA FiredInvNext ==
    ASSUME RowInv, FiredInv, [ProcessNext]_processVars
    PROVE  FiredInv'
<1>1. CASE UNCHANGED processVars
  BY <1>1 DEF processVars, vars, FiredInv
<1>2. ASSUME NEW p \in Pods, Start(p) \/ Terminate(p) \/ Return(p) PROVE FiredInv'
  BY <1>2 DEF Start, Terminate, Return, vars, FiredInv
<1>3. ASSUME NEW p \in Pods, Die(p) PROVE FiredInv'
  BY <1>3 DEF Die, Crash, vars, FiredInv
<1>4. ASSUME NEW t \in Ticks, Fire(t) PROVE FiredInv'
  BY <1>4 DEF Fire, MayFire, vars, FiredInv
<1>5. ASSUME NEW t \in Ticks, Begin(t) PROVE FiredInv'
  <2>1. \A u \in Ticks : u # t => pc'[u] = pc[u]
    BY <1>5, StepIsLocal DEF Begin
  <2>. QED
    BY <1>5, <2>1 DEF Begin, FiredInv
<1>6. ASSUME NEW t \in Ticks, TickStep(t) PROVE FiredInv'
  <2>1. \A u \in Ticks : u # t => pc'[u] = pc[u]
    BY <1>6, StepIsLocal DEF TickStep
  <2>2. pc[t] # "idle"
    BY <1>6
       DEF TickStep, Step, SkipNameless, Acquire, LockHeld, AcquireError, TakesUp, Poll, PollError,
           Save, SaveError, UpsertTokens, UpsertTokensError, Release, ReleaseError
  <2>. QED
    BY <1>6, <2>1, <2>2 DEF TickStep, FiredInv
<1>7. CASE StoreStep
  BY <1>7 DEF StoreStep, LockExpires, CreateBatchJob, ProviderAdvances, FiredInv
<1>. QED
  BY <1>1, <1>2, <1>3, <1>4, <1>5, <1>6, <1>7 DEF ProcessNext

LEMMA ProcessInvNext == RowInv /\ ProcessInv /\ [ProcessNext]_processVars => ProcessInv'
<1>1. UpOK /\ [ProcessNext]_processVars => UpOK'
  BY DEF UpOK, ProcessNext, Start, Terminate, Return, Die, Fire, Begin, TickStep, StoreStep, processVars
<1>. QED
  BY <1>1, FiredInvNext DEF ProcessInv

\* No step leaves a tick of a stopping pod with more to do, or with other calls.
LEMMA StoppingTickGetsNearer ==
    ASSUME RowInv, ProcessInv, [ProcessNext]_processVars, NEW t \in Ticks
    PROVE  GetsNearer(t)
<1>. USE DEF ProcessInv
<1>1. ASSUME UNCHANGED <<vars, fired>> PROVE GetsNearer(t)
  BY <1>1 DEF vars, GetsNearer
<1>2. ASSUME NEW p \in Pods, Die(p) PROVE GetsNearer(t)
  <2>1. CASE PodOf[t] = p
    BY <1>2, <2>1 DEF Die, UpOK, GetsNearer
  <2>2. CASE PodOf[t] # p
    <3>1. (t \in fired') = (t \in fired)
      BY <1>2, <2>2 DEF Die, TicksOf
    <3>2. UNCHANGED <<pc[t], cur[t], snap[t]>>
      BY <1>2, <2>2 DEF Die, Crash, vars
    <3>. QED
      BY <3>1, <3>2 DEF GetsNearer
  <2>. QED
    BY <2>1, <2>2
<1>3. ASSUME NEW u \in Ticks, Fire(u) PROVE GetsNearer(t)
  <2>1. CASE u = t
    BY <1>3, <2>1 DEF Fire, MayFire, GetsNearer
  <2>2. CASE u # t
    <3>1. (t \in fired') = (t \in fired)
      BY <1>3, <2>2 DEF Fire
    <3>. QED
      BY <1>3, <3>1 DEF Fire, vars, GetsNearer
  <2>. QED
    BY <2>1, <2>2
<1>4. ASSUME NEW u \in Ticks, Begin(u) PROVE GetsNearer(t)
  <2>1. CASE u = t
    BY <1>4, <2>1, BeginGetsNearer DEF GetsNearer
  <2>2. CASE u # t
    <3>1. (t \in fired') = (t \in fired)
      BY <1>4, <2>2 DEF Begin
    <3>2. UNCHANGED <<pc[t], cur[t], snap[t]>>
      BY <1>4, <2>2, StepIsLocal DEF Begin
    <3>. QED
      BY <3>1, <3>2 DEF GetsNearer
  <2>. QED
    BY <2>1, <2>2
<1>5. ASSUME NEW u \in Ticks, TickStep(u) PROVE GetsNearer(t)
  <2>1. CASE u = t
    <3>1. CASE t \notin fired
      BY <1>5, <2>1, <3>1, StepGetsNearer DEF GetsNearer
    <3>2. CASE t \in fired
      BY <1>5, <2>1, <3>2
         DEF FiredInv, TickStep, Step, SkipNameless, Acquire, LockHeld, AcquireError, TakesUp, Poll,
             PollError, Save, SaveError, UpsertTokens, UpsertTokensError, Release, ReleaseError
    <3>. QED
      BY <3>1, <3>2
  <2>2. CASE u # t
    BY <1>5, <2>2, StepIsLocal DEF TickStep, GetsNearer
  <2>. QED
    BY <2>1, <2>2
<1>6. CASE StoreStep
  BY <1>6 DEF StoreStep, LockExpires, CreateBatchJob, ProviderAdvances, GetsNearer
<1>. QED
  BY <1>1, <1>2, <1>3, <1>4, <1>5, <1>6 DEF ProcessNext, Start, Terminate, Return, processVars

\* Whatever a tick does in a pod that was told to stop brings the stop nearer,
\* the reading of its rows, where the signal came before it, included.
THEOREM StopsGetNearer == ProcessSpec => StopGetsNearer
<1>1. ProcessInit => ProcessInv
  BY DEF ProcessInv, UpOK, FiredInv, ProcessInit
<1>2. RowInv /\ ProcessInv /\ [ProcessNext]_processVars => [\A t \in Ticks : GetsNearer(t)]_processVars
  BY StoppingTickGetsNearer
<1>. QED
  BY <1>1, <1>2, ProcessInvNext, ProcessesRunTicks, RowInvariant, PTL DEF ProcessSpec, StopGetsNearer
=============================================================================
