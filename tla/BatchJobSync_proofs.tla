-------------------------- MODULE BatchJobSync_proofs --------------------------
(***************************************************************************)
(* What BatchJobSync guarantees for any jobs, ticks, pods, faults and      *)
(* provider outcomes.                                                      *)
(*                                                                         *)
(* The argument is in layers.  TickInv ties a tick's locals together and   *)
(* to the table, whatever the locks do.  VerdictInv adds what an answer    *)
(* that has yet to be saved says about the provider.  LockInv needs locks  *)
(* that outlive the work done under them: it says that a tick which works  *)
(* on a job is alone with its row.  ChargeInv, on the first layer alone,   *)
(* follows token counts back to the provider.                              *)
(***************************************************************************)
EXTENDS BatchJobSync, TLAPS

Answers == {"processing"} \cup FinalStatuses

\* A snapshot holds rows as they are while active: no results, not finished.
FreshRow(row) == row.status \in ActiveStatuses /\ row.results = FALSE /\ row.finished = Never

\* A tick's locals agree with one another and with the table.
TickInv ==
    /\ \A t \in Ticks :
        /\ pc[t] \in Working => cur[t] \in Jobs /\ snap[t][cur[t]] # Absent
        /\ pc[t] = "save" => result[t] \in Answers
        /\ \A j \in Jobs : snap[t][j] # Absent => FreshRow(snap[t][j]) /\ rows[j] # Absent

RowInv == TypeOK /\ TickInv /\ RowCoherent

-----------------------------------------------------------------------------
\* The row a tick saves is well formed, and coherent since the row it read was.
LEMMA UpdatedRow ==
    ASSUME NEW job \in Row, FreshRow(job), NEW s \in Answers, NEW t \in Ticks
    PROVE  /\ Updated(job, s, t) \in Row
           /\ Updated(job, s, t).status = s
           /\ Updated(job, s, t).finished # Never <=> s \in FinalStatuses
           /\ Updated(job, s, t).results <=> s = "completed"
BY ConstantsAssumption DEF FreshRow, Updated, Row, Answers, ActiveStatuses, FinalStatuses

\* A poll's answer is one of the three statuses the code knows.
LEMMA StatusOfAnswer ==
    ASSUME NEW s \in RemoteStates
    PROVE  StatusOf(s) \in Answers
BY DEF StatusOf, Answers, FinalStatuses

\* The table as a save leaves it.
LEMMA SavedRowsType ==
    ASSUME RowInv, NEW t \in Ticks, pc[t] = "save"
    PROVE  /\ cur[t] \in Jobs
           /\ rows[cur[t]] # Absent
           /\ SavedRows(t) = [rows EXCEPT ![cur[t]] = Updated(snap[t][cur[t]], result[t], t)]
           /\ SavedRows(t) \in [Jobs -> Row \cup {Absent}]
           /\ SavedRows(t)[cur[t]] \in Row
           /\ SavedRows(t)[cur[t]].status = result[t]
           /\ SavedRows(t)[cur[t]].finished # Never <=> result[t] \in FinalStatuses
           /\ SavedRows(t)[cur[t]].results <=> result[t] = "completed"
           /\ result[t] \in Answers
           /\ SavedRows(t)[cur[t]] # Absent
           /\ \A j \in Jobs : j # cur[t] => SavedRows(t)[j] = rows[j]
<1>1. cur[t] \in Jobs /\ snap[t][cur[t]] # Absent /\ result[t] \in Answers
  BY DEF RowInv, TickInv, Working
<1>2. snap[t][cur[t]] \in Row /\ FreshRow(snap[t][cur[t]]) /\ rows[cur[t]] # Absent
  BY <1>1 DEF RowInv, TypeOK, TickInv
<1>3. SavedRows(t)[cur[t]] = Updated(snap[t][cur[t]], result[t], t)
  BY <1>1 DEF RowInv, TypeOK, SavedRows
<1>4. /\ SavedRows(t)[cur[t]] \in Row
      /\ SavedRows(t)[cur[t]].status = result[t]
      /\ SavedRows(t)[cur[t]].finished # Never <=> result[t] \in FinalStatuses
      /\ SavedRows(t)[cur[t]].results <=> result[t] = "completed"
  BY <1>1, <1>2, <1>3, UpdatedRow
<1>5. SavedRows(t)[cur[t]] # Absent
  BY <1>1, <1>4 DEF Absent, Answers, FinalStatuses
<1>6. /\ SavedRows(t) \in [Jobs -> Row \cup {Absent}]
      /\ \A j \in Jobs : j # cur[t] => SavedRows(t)[j] = rows[j]
  BY <1>1, <1>3, <1>4 DEF RowInv, TypeOK, SavedRows
<1>. QED
  BY <1>1, <1>2, <1>4, <1>5, <1>6 DEF SavedRows

LEMMA RowInvInit == Init => RowInv
<1>. SUFFICES ASSUME Init PROVE RowInv
  OBVIOUS
<1>1. TypeOK
  BY ConstantsAssumption DEF Init, TypeOK, NoTokens, RemoteStates, InFlight
<1>2. TickInv
  BY DEF Init, TickInv, Working
<1>3. RowCoherent
  BY DEF Init, RowCoherent, Absent, FinalStatuses
<1>. QED
  BY <1>1, <1>2, <1>3 DEF RowInv

\* Removing a job from a snapshot keeps the tick's locals in order.
LEMMA FinishTick ==
    ASSUME RowInv, NEW t \in Ticks, NEW j \in Jobs, Finish(t, j)
    PROVE  /\ pc' \in [Ticks -> {"idle", "next"} \cup Working]
           /\ pc'[t] \in {"idle", "next"}
           /\ \A u \in Ticks : u # t => pc'[u] = pc[u] /\ snap'[u] = snap[u]
           /\ snap' \in [Ticks -> [Jobs -> Row \cup {Absent}]]
           /\ \A i \in Jobs : snap'[t][i] \in {snap[t][i], Absent}
<1>1. pc' = [pc EXCEPT ![t] = IF Listed(t) = {j} THEN "idle" ELSE "next"]
  BY DEF Finish, Goto
<1>2. snap' = [snap EXCEPT ![t][j] = Absent]
  BY DEF Finish
<1>. QED
  BY <1>1, <1>2 DEF RowInv, TypeOK

LEMMA FinishKeepsTickInv ==
    ASSUME RowInv, NEW t \in Ticks, NEW j \in Jobs, Finish(t, j),
           \/ UNCHANGED cur
           \/ cur' = [cur EXCEPT ![t] = NoJob],
           UNCHANGED <<rows, result>>
    PROVE  TickInv'
<1>. SUFFICES ASSUME NEW u \in Ticks
     PROVE  /\ pc'[u] \in Working => cur'[u] \in Jobs /\ snap'[u][cur'[u]] # Absent
            /\ pc'[u] = "save" => result'[u] \in Answers
            /\ \A i \in Jobs : snap'[u][i] # Absent => FreshRow(snap'[u][i]) /\ rows'[i] # Absent
  BY DEF TickInv
<1>1. \A i \in Jobs : snap'[u][i] \in {snap[u][i], Absent}
  BY FinishTick
<1>2. \A i \in Jobs : snap'[u][i] # Absent => FreshRow(snap'[u][i]) /\ rows'[i] # Absent
  BY <1>1 DEF RowInv, TickInv
<1>3. CASE u = t
  BY <1>2, <1>3, FinishTick DEF Working
<1>4. CASE u # t
  <2>1. cur'[u] = cur[u] /\ pc'[u] = pc[u] /\ snap'[u] = snap[u] /\ result'[u] = result[u]
    BY <1>4, FinishTick DEF RowInv, TypeOK
  <2>. QED
    BY <1>2, <2>1 DEF RowInv, TickInv
<1>. QED
  BY <1>3, <1>4

\* An active row has neither results nor a finished_timestamp.
LEMMA ActiveRowIsFresh ==
    ASSUME RowInv, NEW j \in Jobs, rows[j].status \in ActiveStatuses
    PROVE  FreshRow(rows[j])
<1>1. rows[j] \in Row
  BY DEF RowInv, TypeOK, Absent, ActiveStatuses
<1>2. rows[j].results \in BOOLEAN
  BY <1>1 DEF Row
<1>3. ~rows[j].results /\ rows[j].finished = Never
  BY DEF RowInv, RowCoherent, ActiveStatuses, FinalStatuses
<1>. QED
  BY <1>2, <1>3 DEF FreshRow

\* Every step of the program and of its environment preserves RowInv.
LEMMA RowInvNext == RowInv /\ [Next]_vars => RowInv'
<1>. SUFFICES ASSUME RowInv, [Next]_vars PROVE RowInv'
  OBVIOUS
<1>. USE DEF RowInv
<1>1. ASSUME NEW t \in Ticks, ListActive(t) PROVE RowInv'
  <2>1. TypeOK'
    BY <1>1 DEF ListActive, Goto, TypeOK, Working
  <2>2. \A j \in Jobs : snap'[t][j] # Absent => snap'[t][j] = rows[j] /\ rows[j].status \in ActiveStatuses
    BY <1>1 DEF ListActive, TypeOK, ActiveJobs
  <2>3. \A j \in Jobs : snap'[t][j] # Absent => FreshRow(snap'[t][j])
    BY <2>2, ActiveRowIsFresh
  <2>4. TickInv'
    BY <1>1, <2>2, <2>3 DEF ListActive, Goto, TypeOK, TickInv, Working
  <2>. QED
    BY <1>1, <2>1, <2>4 DEF ListActive, RowCoherent
<1>2. ASSUME NEW t \in Ticks, NEW j \in Jobs,
             SkipNameless(t, j) \/ LockHeld(t, j) \/ AcquireError(t, j)
      PROVE  RowInv'
  <2>1. /\ Finish(t, j)
        /\ UNCHANGED <<rows, tokenJobs, remote, cur, result>>
        /\ locks' \subseteq Jobs
    BY <1>2 DEF SkipNameless, LockHeld, AcquireError, TypeOK
  <2>2. TypeOK'
    BY <2>1, FinishTick DEF TypeOK
  <2>3. TickInv'
    BY <2>1, FinishKeepsTickInv
  <2>. QED
    BY <2>1, <2>2, <2>3 DEF RowCoherent
<1>3. ASSUME NEW t \in Ticks, NEW j \in Jobs, Acquire(t, j) PROVE RowInv'
  BY <1>3 DEF Acquire, TakesUp, Listed, Goto, TypeOK, TickInv, Working, RowCoherent
<1>4. ASSUME NEW t \in Ticks, NEW j \in Jobs, Poll(t, j) PROVE RowInv'
  <2>1. StatusOf(remote[j]) \in Answers
    BY StatusOfAnswer DEF TypeOK
  <2>. QED
    BY <1>4, <2>1 DEF Poll, Goto, TypeOK, TickInv, Working, RowCoherent, Answers
<1>5. ASSUME NEW t \in Ticks, PollError(t) PROVE RowInv'
  BY <1>5 DEF PollError, Goto, TypeOK, TickInv, Working, RowCoherent
<1>6. ASSUME NEW t \in Ticks, (\E j \in Jobs : Save(t, j)) \/ SaveError(t) PROVE RowInv'
  <2>1. /\ pc[t] = "save"
        /\ rows' \in {rows, SavedRows(t)}
        /\ pc' \in [Ticks -> {"idle", "next"} \cup Working]
        /\ pc'[t] \in {"tokens", "release"}
        /\ \A u \in Ticks : u # t => pc'[u] = pc[u] /\ result'[u] = result[u]
        /\ result' = [result EXCEPT ![t] = "none"]
        /\ UNCHANGED <<tokenJobs, locks, remote, cur, snap>>
    BY <1>6 DEF Save, SaveError, Goto, TypeOK, Working
  <2>2. /\ rows' \in [Jobs -> Row \cup {Absent}]
        /\ \A j \in Jobs : rows[j] # Absent => rows'[j] # Absent
    BY <2>1, SavedRowsType DEF TypeOK
  <2>3. TypeOK'
    BY <2>1, <2>2 DEF TypeOK
  <2>4. TickInv'
    BY <2>1, <2>2 DEF TickInv, Working
  <2>5. RowCoherent'
    BY <2>1, SavedRowsType DEF RowCoherent
  <2>. QED
    BY <2>3, <2>4, <2>5
<1>7. ASSUME NEW t \in Ticks, UpsertTokens(t) PROVE RowInv'
  <2>1. cur[t] \in Jobs
    BY <1>7 DEF UpsertTokens, TickInv, Working
  <2>2. Upserted(cur[t]) \in [TokenTypes -> Nat]
    BY <2>1, ConstantsAssumption DEF Upserted, TypeOK
  <2>. QED
    BY <1>7, <2>2 DEF UpsertTokens, Goto, TypeOK, TickInv, Working, RowCoherent
<1>8. ASSUME NEW t \in Ticks, UpsertTokensError(t) PROVE RowInv'
  BY <1>8 DEF UpsertTokensError, Goto, TypeOK, TickInv, Working, RowCoherent
<1>9. ASSUME NEW t \in Ticks, Release(t) \/ ReleaseError(t) PROVE RowInv'
  <2>1. /\ cur[t] \in Jobs
        /\ Finish(t, cur[t])
        /\ cur' = [cur EXCEPT ![t] = NoJob]
        /\ UNCHANGED <<rows, tokenJobs, remote, result>>
        /\ locks' \subseteq Jobs
    BY <1>9 DEF Release, ReleaseError, TickInv, Working, TypeOK
  <2>2. TypeOK'
    BY <2>1, FinishTick DEF TypeOK
  <2>3. TickInv'
    BY <2>1, FinishKeepsTickInv
  <2>. QED
    BY <2>1, <2>2, <2>3 DEF RowCoherent
<1>10. ASSUME NEW p \in Pods, Crash(p) PROVE RowInv'
  BY <1>10 DEF Crash, TypeOK, TickInv, Working, RowCoherent
<1>11. ASSUME NEW j \in Jobs, LockExpires(j) PROVE RowInv'
  BY <1>11 DEF LockExpires, TypeOK, TickInv, RowCoherent
<1>12. ASSUME NEW j \in Jobs, CreateBatchJob(j) PROVE RowInv'
  <2>1. PendingRow \in Row /\ PendingRow # Absent
    BY DEF PendingRow, Row, ActiveStatuses, Absent
  <2>. QED
    BY <1>12, <2>1 DEF CreateBatchJob, TypeOK, TickInv, RowCoherent, PendingRow, FinalStatuses
<1>13. ASSUME NEW j \in Jobs, ProviderAdvances(j) PROVE RowInv'
  <2>1. PICK s \in RemoteStates : remote' = [remote EXCEPT ![j] = s]
    BY <1>13, ConstantsAssumption DEF ProviderAdvances, RemoteStates, EndStates
  <2>2. remote' \in [Jobs -> RemoteStates]
    BY <2>1 DEF RowInv, TypeOK
  <2>. QED
    BY <1>13, <2>2 DEF ProviderAdvances, TypeOK, TickInv, RowCoherent
<1>14. ASSUME UNCHANGED vars PROVE RowInv'
  BY <1>14 DEF vars, TypeOK, TickInv, RowCoherent
<1>. QED
  BY <1>1, <1>2, <1>3, <1>4, <1>5, <1>6, <1>7, <1>8, <1>9, <1>10, <1>11, <1>12, <1>13, <1>14
     DEF Next, Step

\* Only a submission puts a row in the table, and nothing takes one out.
LEMMA TicksKeepRows ==
    ASSUME RowInv, NEW j \in Jobs,
           \/ \E t \in Ticks : ListActive(t) \/ Step(t)
           \/ \E p \in Pods : Crash(p)
           \/ \E i \in Jobs : LockExpires(i)
    PROVE  rows'[j] = Absent <=> rows[j] = Absent
<1>1. ASSUME NEW t \in Ticks, pc[t] = "save", rows' \in {rows, SavedRows(t)}
      PROVE  rows'[j] = Absent <=> rows[j] = Absent
  BY <1>1, SavedRowsType
<1>2. CASE UNCHANGED rows
  BY <1>2
<1>. QED
  BY <1>1, <1>2
     DEF Step, ListActive, SkipNameless, Acquire, LockHeld, AcquireError, Poll, PollError,
         Save, SaveError, UpsertTokens, UpsertTokensError, Release, ReleaseError, Crash, LockExpires

LEMMA RowInvariant == Spec => []RowInv
BY RowInvInit, RowInvNext, PTL DEF Spec

\* Every variable holds a value of its kind, whatever fails and whatever lapses.
THEOREM TypeCorrect == Spec => []TypeOK
<1>1. RowInv => TypeOK
  BY DEF RowInv
<1>. QED
  BY <1>1, RowInvariant, PTL

\* finished_timestamp and results_json go with the status in every row, even
\* when ticks overlap on a job and save rows they read long ago.
THEOREM RowsStayCoherent == Spec => []RowCoherent
<1>1. RowInv => RowCoherent
  BY DEF RowInv
<1>. QED
  BY <1>1, RowInvariant, PTL

-----------------------------------------------------------------------------
\* The provider does not take a final answer back: a cancelled job ends cancelled or failed.
CancelIsFinal == "SUCCEEDED" \notin CancelEnds

\* Final answers, those in the table and those about to be saved, are what the
\* provider would still say now.
VerdictInv ==
    /\ \A j \in Jobs : rows[j].status \in FinalStatuses => rows[j].status = StatusOf(remote[j])
    /\ \A t \in Ticks :
        pc[t] = "save" /\ result[t] \in FinalStatuses => result[t] = StatusOf(remote[cur[t]])

LEMMA FinalAnswerStays ==
    ASSUME CancelIsFinal, RowInv, NEW j \in Jobs, ProviderAdvances(j),
           NEW i \in Jobs, StatusOf(remote[i]) \in FinalStatuses
    PROVE  StatusOf(remote'[i]) = StatusOf(remote[i])
<1>1. remote \in [Jobs -> RemoteStates]
  BY DEF RowInv, TypeOK
<1>2. CASE remote[j] = InFlight
  <2>1. i # j
    BY <1>2 DEF StatusOf, InFlight, FinalStatuses
  <2>. QED
    BY <1>1, <2>1 DEF ProviderAdvances
<1>3. CASE remote[j] = "CANCELLING"
  <2>1. PICK s \in CancelEnds : remote' = [remote EXCEPT ![j] = s]
    BY <1>3 DEF ProviderAdvances, InFlight
  <2>2. s \in {"CANCELLED", "FAILED"}
    BY <2>1, ConstantsAssumption DEF CancelIsFinal
  <2>. QED
    BY <1>1, <1>3, <2>1, <2>2 DEF StatusOf
<1>. QED
  BY <1>2, <1>3 DEF ProviderAdvances

LEMMA VerdictInvNext ==
    ASSUME CancelIsFinal, RowInv, VerdictInv, [Next]_vars
    PROVE  VerdictInv'
<1>. USE DEF RowInv
<1>1. ASSUME NEW t \in Ticks, ListActive(t) PROVE VerdictInv'
  BY <1>1 DEF ListActive, Goto, TypeOK, VerdictInv
<1>2. ASSUME NEW t \in Ticks, NEW j \in Jobs,
             SkipNameless(t, j) \/ LockHeld(t, j) \/ AcquireError(t, j)
      PROVE  VerdictInv'
  <2>1. Finish(t, j) /\ UNCHANGED <<rows, remote, cur, result>>
    BY <1>2 DEF SkipNameless, LockHeld, AcquireError
  <2>. QED
    BY <2>1, FinishTick DEF VerdictInv
<1>3. ASSUME NEW t \in Ticks, NEW j \in Jobs, Acquire(t, j) PROVE VerdictInv'
  BY <1>3 DEF Acquire, TakesUp, Goto, TypeOK, VerdictInv
<1>4. ASSUME NEW t \in Ticks, NEW j \in Jobs, Poll(t, j) PROVE VerdictInv'
  BY <1>4 DEF Poll, Goto, TypeOK, VerdictInv
<1>5. ASSUME NEW t \in Ticks, PollError(t) PROVE VerdictInv'
  BY <1>5 DEF PollError, Goto, TypeOK, VerdictInv
<1>6. ASSUME NEW t \in Ticks, (\E j \in Jobs : Save(t, j)) \/ SaveError(t) PROVE VerdictInv'
  <2>1. /\ pc[t] = "save"
        /\ rows' \in {rows, SavedRows(t)}
        /\ pc'[t] # "save"
        /\ \A u \in Ticks : u # t => pc'[u] = pc[u] /\ result'[u] = result[u]
        /\ UNCHANGED <<remote, cur>>
    BY <1>6 DEF Save, SaveError, Goto, TypeOK, Working
  <2>2. \A j \in Jobs : rows'[j].status \in FinalStatuses => rows'[j].status = StatusOf(remote[j])
    BY <2>1, SavedRowsType DEF VerdictInv
  <2>. QED
    BY <2>1, <2>2 DEF VerdictInv
<1>7. ASSUME NEW t \in Ticks, UpsertTokens(t) \/ UpsertTokensError(t) PROVE VerdictInv'
  BY <1>7 DEF UpsertTokens, UpsertTokensError, Goto, TypeOK, VerdictInv
<1>8. ASSUME NEW t \in Ticks, Release(t) \/ ReleaseError(t) PROVE VerdictInv'
  <2>1. /\ cur[t] \in Jobs
        /\ Finish(t, cur[t])
        /\ cur' = [cur EXCEPT ![t] = NoJob]
        /\ UNCHANGED <<rows, remote, result>>
    BY <1>8 DEF Release, ReleaseError, TickInv, Working
  <2>. QED
    BY <2>1, FinishTick DEF VerdictInv, TypeOK
<1>9. ASSUME NEW p \in Pods, Crash(p) PROVE VerdictInv'
  BY <1>9 DEF Crash, TypeOK, VerdictInv
<1>10. ASSUME NEW j \in Jobs, LockExpires(j) PROVE VerdictInv'
  BY <1>10 DEF LockExpires, VerdictInv
<1>11. ASSUME NEW j \in Jobs, CreateBatchJob(j) PROVE VerdictInv'
  BY <1>11 DEF CreateBatchJob, TypeOK, VerdictInv, PendingRow, FinalStatuses
<1>12. ASSUME NEW j \in Jobs, ProviderAdvances(j) PROVE VerdictInv'
  <2>1. UNCHANGED <<rows, pc, cur, result>>
    BY <1>12 DEF ProviderAdvances
  <2>2. \A t \in Ticks : pc[t] = "save" => cur[t] \in Jobs
    BY DEF TickInv, Working
  <2>. QED
    BY <1>12, <2>1, <2>2, FinalAnswerStays DEF VerdictInv
<1>13. ASSUME UNCHANGED vars PROVE VerdictInv'
  BY <1>13 DEF vars, VerdictInv
<1>. QED
  BY <1>1, <1>2, <1>3, <1>4, <1>5, <1>6, <1>7, <1>8, <1>9, <1>10, <1>11, <1>12, <1>13
     DEF Next, Step

LEMMA VerdictInvariant ==
    ASSUME CancelIsFinal
    PROVE  Spec => []VerdictInv
<1>1. Init => VerdictInv
  BY DEF Init, VerdictInv, Absent, FinalStatuses
<1>2. RowInv /\ VerdictInv /\ [Next]_vars => VerdictInv'
  BY VerdictInvNext
<1>. QED
  BY <1>1, <1>2, RowInvariant, PTL DEF Spec

\* As long as a job being cancelled never turns out to have succeeded, no
\* final status in the table contradicts the provider, stale answers included.
THEOREM VerdictsMatchProvider ==
    ASSUME CancelIsFinal
    PROVE  Spec => []VerdictMatchesProvider
<1>1. VerdictInv => VerdictMatchesProvider
  BY DEF VerdictInv, VerdictMatchesProvider, StatusOf, FinalStatuses
<1>. QED
  BY <1>1, VerdictInvariant, PTL

-----------------------------------------------------------------------------
\* With locks that outlive the work, a tick that works on a job has its key.
LockInv ==
    /\ \A t \in Ticks, j \in Jobs : Holds(t, j) => j \in locks
    /\ MutualExclusion

\* A tick's progress never takes a lock from a tick it leaves alone.
LEMMA LockInvNext ==
    ASSUME LockOutlivesWork, RowInv, LockInv, [Next]_vars
    PROVE  LockInv'
<1>. USE DEF RowInv, Holds
<1>1. ASSUME NEW t \in Ticks, ListActive(t) PROVE LockInv'
  BY <1>1 DEF ListActive, Goto, TypeOK, LockInv, MutualExclusion, Working
<1>2. ASSUME NEW t \in Ticks, NEW j \in Jobs,
             SkipNameless(t, j) \/ LockHeld(t, j) \/ AcquireError(t, j)
      PROVE  LockInv'
  <2>1. Finish(t, j) /\ UNCHANGED cur /\ locks \subseteq locks'
    BY <1>2 DEF SkipNameless, LockHeld, AcquireError
  <2>2. \A u \in Ticks, i \in Jobs : Holds(u, i)' => Holds(u, i)
    BY <2>1, FinishTick DEF Working
  <2>. QED
    BY <2>1, <2>2 DEF LockInv, MutualExclusion
<1>3. ASSUME NEW t \in Ticks, NEW j \in Jobs, Acquire(t, j) PROVE LockInv'
  <2>1. /\ j \notin locks
        /\ locks' = locks \cup {j}
        /\ \A u \in Ticks, i \in Jobs : Holds(u, i)' => Holds(u, i) \/ (u = t /\ i = j)
    BY <1>3 DEF Acquire, Goto, TypeOK
  <2>. QED
    BY <2>1 DEF LockInv, MutualExclusion
<1>4. ASSUME NEW t \in Ticks,
             \/ \E j \in Jobs : Poll(t, j) \/ Save(t, j)
             \/ PollError(t) \/ SaveError(t) \/ UpsertTokens(t) \/ UpsertTokensError(t)
      PROVE  LockInv'
  <2>1. UNCHANGED <<locks, cur>> /\ \A u \in Ticks : pc'[u] \in Working => pc[u] \in Working
    BY <1>4 DEF Poll, Save, PollError, SaveError, UpsertTokens, UpsertTokensError, Goto, TypeOK, Working
  <2>. QED
    BY <2>1 DEF LockInv, MutualExclusion
<1>5. ASSUME NEW t \in Ticks, Release(t) \/ ReleaseError(t) PROVE LockInv'
  <2>1. /\ Holds(t, cur[t])
        /\ cur[t] \in Jobs
        /\ Finish(t, cur[t])
        /\ cur' = [cur EXCEPT ![t] = NoJob]
        /\ locks \ {cur[t]} \subseteq locks'
    BY <1>5 DEF Release, ReleaseError, TickInv, Working
  <2>2. \A u \in Ticks, i \in Jobs : Holds(u, i)' => u # t /\ Holds(u, i)
    BY <2>1, FinishTick DEF Working, TypeOK
  <2>3. \A u \in Ticks, i \in Jobs : Holds(u, i)' => i # cur[t]
    BY <2>1, <2>2 DEF LockInv, MutualExclusion
  <2>. QED
    BY <2>1, <2>2, <2>3 DEF LockInv, MutualExclusion
<1>6. ASSUME NEW p \in Pods, Crash(p) PROVE LockInv'
  <2>1. \A u \in Ticks, i \in Jobs : Holds(u, i)' => Holds(u, i)
    BY <1>6, ConstantsAssumption DEF Crash, Working
  <2>. QED
    BY <1>6, <2>1 DEF Crash, LockInv, MutualExclusion
<1>7. ASSUME NEW j \in Jobs, LockExpires(j) PROVE LockInv'
  BY <1>7 DEF LockExpires, LockInv, MutualExclusion
<1>8. ASSUME NEW j \in Jobs, CreateBatchJob(j) \/ ProviderAdvances(j) PROVE LockInv'
  BY <1>8 DEF CreateBatchJob, ProviderAdvances, LockInv, MutualExclusion
<1>9. ASSUME UNCHANGED vars PROVE LockInv'
  BY <1>9 DEF vars, LockInv, MutualExclusion
<1>. QED
  BY <1>1, <1>2, <1>3, <1>4, <1>5, <1>6, <1>7, <1>8, <1>9 DEF Next, Step

LEMMA LockInvariant ==
    ASSUME LockOutlivesWork
    PROVE  Spec => []LockInv
<1>1. Init => LockInv
  BY DEF Init, LockInv, MutualExclusion, Holds, Working
<1>2. RowInv /\ LockInv /\ [Next]_vars => LockInv'
  BY LockInvNext
<1>. QED
  BY <1>1, <1>2, RowInvariant, PTL DEF Spec

\* What a step is to the lock of one job.
LEMMA LocksNext ==
    ASSUME LockOutlivesWork, RowInv, LockInv, [Next]_vars, NEW j \in Jobs
    PROVE  UNCHANGED Lock(j)!vars \/ Lock(j)!Next
<1>. USE DEF RowInv
<1>. DEFINE atWork == {t \in Ticks : Holds(t, j)}
<1>0. ASSUME atWork' = atWork, (j \in locks') = (j \in locks)
      PROVE  UNCHANGED Lock(j)!vars
  BY <1>0 DEF Lock!vars
<1>1. ASSUME NEW t \in Ticks, NEW i \in Jobs,
             SkipNameless(t, i) \/ LockHeld(t, i) \/ AcquireError(t, i)
      PROVE  UNCHANGED Lock(j)!vars \/ Lock(j)!Next
  <2>1. Finish(t, i) /\ UNCHANGED cur /\ pc[t] = "next" /\ locks' \in {locks, locks \cup {i}}
    BY <1>1 DEF SkipNameless, LockHeld, AcquireError, TakesUp
  <2>2. atWork' = atWork
    BY <2>1, FinishTick DEF Holds, Working
  <2>3. CASE j \notin locks /\ j \in locks'
    <3>1. Lock(j)!TakeInVain
      BY <2>2, <2>3 DEF Lock!TakeInVain
    <3>. QED
      BY <3>1 DEF Lock!Next
  <2>. QED
    BY <1>0, <2>1, <2>2, <2>3
<1>2. ASSUME NEW t \in Ticks, NEW i \in Jobs, Acquire(t, i)
      PROVE  UNCHANGED Lock(j)!vars \/ Lock(j)!Next
  <2>1. /\ pc' = [pc EXCEPT ![t] = "poll"] /\ cur' = [cur EXCEPT ![t] = i]
        /\ pc[t] = "next" /\ i \notin locks /\ locks' = locks \cup {i}
    BY <1>2 DEF Acquire, TakesUp, Goto
  <2>2. CASE i = j
    <3>1. Lock(j)!Take(t)
      BY <2>1, <2>2 DEF Lock!Take, Holds, Working, TypeOK
    <3>. QED
      BY <3>1 DEF Lock!Next
  <2>3. CASE i # j
    <3>1. atWork' = atWork
      BY <2>1, <2>3 DEF Holds, Working, TypeOK
    <3>. QED
      BY <1>0, <2>1, <2>3, <3>1
  <2>. QED
    BY <2>2, <2>3
<1>3. ASSUME NEW t \in Ticks, Release(t) \/ ReleaseError(t)
      PROVE  UNCHANGED Lock(j)!vars \/ Lock(j)!Next
  <2>1. /\ Holds(t, cur[t]) /\ cur[t] \in Jobs
        /\ Finish(t, cur[t])
        /\ cur' = [cur EXCEPT ![t] = NoJob]
        /\ locks' \in {locks, locks \ {cur[t]}}
    BY <1>3 DEF Release, ReleaseError, TickInv, Working, Holds
  <2>2. \A u \in Ticks : Holds(u, j)' <=> u # t /\ Holds(u, j)
    BY <2>1, FinishTick DEF Holds, Working, TypeOK
  <2>3. CASE cur[t] = j
    <3>1. Lock(j)!Leave(t)
      BY <2>1, <2>2, <2>3 DEF Lock!Leave
    <3>. QED
      BY <3>1 DEF Lock!Next
  <2>4. CASE cur[t] # j
    <3>1. atWork' = atWork
      BY <2>2, <2>4 DEF Holds
    <3>. QED
      BY <1>0, <2>1, <2>4, <3>1
  <2>. QED
    BY <2>3, <2>4
<1>4. ASSUME NEW p \in Pods, Crash(p) PROVE UNCHANGED Lock(j)!vars \/ Lock(j)!Next
  <2>1. \A u \in Ticks : Holds(u, j)' <=> PodOf[u] # p /\ Holds(u, j)
    BY <1>4 DEF Crash, Holds, Working
  <2>2. ASSUME NEW t \in Ticks, Holds(t, j), PodOf[t] = p
        PROVE  UNCHANGED Lock(j)!vars \/ Lock(j)!Next
    <3>1. atWork = {t}
      BY <2>2 DEF LockInv, MutualExclusion
    <3>2. atWork' = atWork \ {t}
      BY <2>1, <2>2, <3>1
    <3>3. Lock(j)!Leave(t)
      BY <1>4, <2>2, <3>2 DEF Crash, Lock!Leave
    <3>. QED
      BY <3>3 DEF Lock!Next
  <2>3. ASSUME \A t \in Ticks : Holds(t, j) => PodOf[t] # p
        PROVE  UNCHANGED Lock(j)!vars \/ Lock(j)!Next
    <3>1. atWork' = atWork
      BY <2>1, <2>3
    <3>. QED
      BY <1>0, <1>4, <3>1 DEF Crash
  <2>. QED
    BY <2>2, <2>3
<1>5. ASSUME NEW i \in Jobs, LockExpires(i) PROVE UNCHANGED Lock(j)!vars \/ Lock(j)!Next
  <2>1. i \in locks /\ locks' = locks \ {i} /\ (\A t \in Ticks : ~Holds(t, i)) /\ UNCHANGED <<pc, cur>>
    BY <1>5 DEF LockExpires
  <2>2. atWork' = atWork
    BY <2>1 DEF Holds
  <2>3. CASE i = j
    <3>1. Lock(j)!Lapse
      BY <2>1, <2>2, <2>3 DEF Lock!Lapse
    <3>. QED
      BY <3>1 DEF Lock!Next
  <2>. QED
    BY <1>0, <2>1, <2>2, <2>3
<1>6. ASSUME NEW t \in Ticks,
             \/ ListActive(t) \/ PollError(t) \/ SaveError(t) \/ UpsertTokens(t) \/ UpsertTokensError(t)
             \/ \E i \in Jobs : Poll(t, i) \/ Save(t, i)
      PROVE  UNCHANGED Lock(j)!vars \/ Lock(j)!Next
  <2>1. UNCHANGED <<locks, cur>> /\ \A u \in Ticks : pc'[u] \in Working <=> pc[u] \in Working
    BY <1>6
       DEF ListActive, Poll, Save, PollError, SaveError, UpsertTokens, UpsertTokensError,
           Goto, TypeOK, Working
  <2>2. atWork' = atWork
    BY <2>1 DEF Holds
  <2>. QED
    BY <1>0, <2>1, <2>2
<1>7. CASE UNCHANGED <<pc, cur, locks>>
  BY <1>0, <1>7 DEF Holds
<1>. QED
  BY <1>1, <1>2, <1>3, <1>4, <1>5, <1>6, <1>7
     DEF Next, Step, vars, CreateBatchJob, ProviderAdvances

\* Where locks outlive the work, the keys in Redis are locks as JobLock
\* describes them, one for each job: the deferred Release never deletes the
\* key of another tick.
THEOREM ImplementsJobLocks ==
    ASSUME LockOutlivesWork
    PROVE  Spec => LocksSpec
<1>1. Init => \A j \in Jobs : Lock(j)!Init
  <2>. SUFFICES ASSUME Init, NEW j \in Jobs PROVE Lock(j)!Init
    OBVIOUS
  <2>1. \A t \in Ticks : ~Holds(t, j)
    BY DEF Init, Holds, Working
  <2>2. (j \in locks) = FALSE
    BY DEF Init
  <2>. QED
    BY <2>1, <2>2 DEF Lock!Init
<1>2. RowInv /\ LockInv /\ [Next]_vars => [\A j \in Jobs : UNCHANGED Lock(j)!vars \/ Lock(j)!Next]_vars
  BY LocksNext
<1>. QED
  BY <1>1, <1>2, RowInvariant, LockInvariant, PTL DEF Spec, LocksSpec

\* Redis's SET NX keeps ticks of all pods apart, through crashes, lost answers
\* and failed releases, as long as no lock lapses under the work.
THEOREM OneTickPerJob ==
    ASSUME LockOutlivesWork
    PROVE  Spec => []MutualExclusion
<1>1. LockInv => MutualExclusion
  BY DEF LockInv
<1>. QED
  BY <1>1, LockInvariant, PTL

-----------------------------------------------------------------------------
\* What a tick has in hand agrees with the row it works on, as nobody else
\* writes that row meanwhile.
AloneInv ==
    /\ \A t \in Ticks :
        /\ pc[t] = "save" /\ rows[cur[t]].status \in FinalStatuses => result[t] = rows[cur[t]].status
        /\ pc[t] = "tokens" => rows[cur[t]].status = "completed"
    /\ TokensOnlyWhenCompleted

\* Two rows a reader cannot tell apart but by when they were finished.
SameRecord(r, q) == r.status = q.status /\ r.results = q.results

\* Saving over a final row changes nothing of it but the time.
LEMMA FinalRowSavedAgain ==
    ASSUME RowInv, NEW t \in Ticks, pc[t] = "save",
           rows[cur[t]].status \in FinalStatuses, result[t] = rows[cur[t]].status
    PROVE  \A j \in Jobs : SameRecord(SavedRows(t)[j], rows[j])
<1>1. cur[t] \in Jobs /\ rows[cur[t]] \in Row
  BY SavedRowsType DEF RowInv, TypeOK, FinalStatuses
<1>2. /\ SavedRows(t)[cur[t]] \in Row
      /\ SavedRows(t)[cur[t]].status = rows[cur[t]].status
      /\ SavedRows(t)[cur[t]].results <=> rows[cur[t]].results
  BY <1>1, SavedRowsType DEF RowInv, RowCoherent
<1>3. SavedRows(t)[cur[t]].results = rows[cur[t]].results
  BY <1>1, <1>2 DEF Row
<1>. QED
  BY <1>2, <1>3, SavedRowsType DEF SameRecord

\* No step changes more of a final row than the time.
LEMMA FinalRowKept ==
    ASSUME RowInv, AloneInv, [Next]_vars, NEW j \in Jobs, rows[j].status \in FinalStatuses
    PROVE  SameRecord(rows'[j], rows[j])
<1>1. ASSUME NEW t \in Ticks, pc[t] = "save", rows' \in {rows, SavedRows(t)}
      PROVE  SameRecord(rows'[j], rows[j])
  <2>1. CASE cur[t] = j
    BY <1>1, <2>1, FinalRowSavedAgain DEF AloneInv, SameRecord
  <2>2. CASE cur[t] # j
    BY <1>1, <2>2, SavedRowsType DEF SameRecord
  <2>. QED
    BY <2>1, <2>2
<1>2. ASSUME NEW i \in Jobs, CreateBatchJob(i) PROVE SameRecord(rows'[j], rows[j])
  BY <1>2 DEF CreateBatchJob, RowInv, TypeOK, Absent, FinalStatuses, SameRecord
<1>3. CASE UNCHANGED rows
  BY <1>3 DEF SameRecord
<1>. QED
  BY <1>1, <1>2, <1>3
     DEF Next, Step, vars, ListActive, SkipNameless, Acquire, LockHeld, AcquireError, Poll,
         PollError, Save, SaveError, UpsertTokens, UpsertTokensError, Release, ReleaseError,
         Crash, LockExpires, ProviderAdvances

\* The upsert leaves the provider's counts, on a first or a repeated run.
LEMMA UpsertedIsUsage ==
    ASSUME NEW j \in Jobs, tokenJobs[j] \in {NoTokens, Usage[j]}
    PROVE  Upserted(j) = Usage[j]
<1>1. Usage[j] \in [TokenTypes -> Nat]
  BY ConstantsAssumption
<1>2. \A k \in TokenTypes : Upserted(j)[k] = Usage[j][k]
  BY DEF Upserted, TokenRows, NoTokens
<1>. QED
  BY <1>1, <1>2 DEF Upserted

\* Where a tick is about to save or to record tokens and the step is not its
\* own, neither its locals nor its row change.
LEMMA OthersLeaveAlone ==
    ASSUME RowInv, LockInv, [Next]_vars,
           NEW t \in Ticks, pc[t] \in {"save", "tokens"}, pc'[t] = pc[t]
    PROVE  cur'[t] = cur[t] /\ result'[t] = result[t] /\ rows'[cur[t]] = rows[cur[t]]
<1>. USE DEF RowInv
<1>0. cur[t] \in Jobs /\ rows[cur[t]] # Absent /\ Holds(t, cur[t])
  BY DEF TickInv, Working, Holds
<1>1. ASSUME NEW u \in Ticks, (\E j \in Jobs : Save(u, j)) \/ SaveError(u)
      PROVE  cur'[t] = cur[t] /\ result'[t] = result[t] /\ rows'[cur[t]] = rows[cur[t]]
  <2>1. /\ pc[u] = "save"
        /\ rows' \in {rows, SavedRows(u)}
        /\ pc'[u] \in {"tokens", "release"}
        /\ result' = [result EXCEPT ![u] = "none"]
        /\ UNCHANGED cur
    BY <1>1 DEF Save, SaveError, Goto, TypeOK
  <2>2. u # t
    BY <2>1
  <2>3. cur[u] # cur[t]
    BY <1>0, <2>1, <2>2 DEF LockInv, MutualExclusion, Holds, Working
  <2>. QED
    BY <1>0, <2>1, <2>2, <2>3, SavedRowsType DEF TypeOK
<1>2. ASSUME NEW u \in Ticks, NEW j \in Jobs, Finish(u, j),
             cur' = cur \/ cur' = [cur EXCEPT ![u] = NoJob],
             UNCHANGED <<rows, result>>
      PROVE  cur'[t] = cur[t] /\ result'[t] = result[t] /\ rows'[cur[t]] = rows[cur[t]]
  <2>1. u # t
    BY <1>2, FinishTick
  <2>. QED
    BY <1>2, <2>1 DEF TypeOK
<1>3. ASSUME NEW u \in Ticks,
             \/ \E j \in Jobs : SkipNameless(u, j) \/ LockHeld(u, j) \/ AcquireError(u, j)
             \/ Release(u) \/ ReleaseError(u)
      PROVE  cur'[t] = cur[t] /\ result'[t] = result[t] /\ rows'[cur[t]] = rows[cur[t]]
  BY <1>2, <1>3
     DEF SkipNameless, LockHeld, AcquireError, Release, ReleaseError, TickInv, Working
<1>4. ASSUME NEW u \in Ticks,
             \/ \E j \in Jobs : Acquire(u, j) \/ Poll(u, j)
             \/ ListActive(u) \/ PollError(u) \/ UpsertTokens(u) \/ UpsertTokensError(u)
      PROVE  cur'[t] = cur[t] /\ result'[t] = result[t] /\ rows'[cur[t]] = rows[cur[t]]
  <2>1. /\ UNCHANGED rows
        /\ pc[u] # pc'[u] \/ UNCHANGED <<cur, result>>
        /\ cur' = cur \/ \E j \in Jobs : cur' = [cur EXCEPT ![u] = j]
        /\ result' = result \/ \E s : result' = [result EXCEPT ![u] = s]
    BY <1>4
       DEF ListActive, Acquire, TakesUp, Poll, PollError, UpsertTokens, UpsertTokensError, Goto, TypeOK
  <2>. QED
    BY <2>1 DEF TypeOK
<1>5. ASSUME NEW p \in Pods, Crash(p)
      PROVE  cur'[t] = cur[t] /\ result'[t] = result[t] /\ rows'[cur[t]] = rows[cur[t]]
  BY <1>5 DEF Crash
<1>6. ASSUME NEW j \in Jobs, CreateBatchJob(j)
      PROVE  cur'[t] = cur[t] /\ result'[t] = result[t] /\ rows'[cur[t]] = rows[cur[t]]
  BY <1>0, <1>6 DEF CreateBatchJob, TypeOK
<1>. QED
  BY <1>1, <1>3, <1>4, <1>5, <1>6 DEF Next, Step, vars, LockExpires, ProviderAdvances

\* Only a poll gets a tick to "save", with the answer the provider gives now.
LEMMA EntersSave ==
    ASSUME RowInv, [Next]_vars, NEW t \in Ticks, pc'[t] = "save", pc[t] # "save"
    PROVE  UNCHANGED <<rows, remote, cur>> /\ result'[t] = StatusOf(remote[cur[t]])
<1>. USE DEF RowInv
<1>1. PICK j \in Jobs : Poll(t, j)
  <2>1. ASSUME NEW u \in Ticks, NEW j \in Jobs, Finish(u, j) PROVE FALSE
    BY <2>1, FinishTick
  <2>. QED
    BY <2>1
       DEF Next, Step, vars, ListActive, SkipNameless, Acquire, LockHeld, AcquireError, Poll,
           PollError, Save, SaveError, UpsertTokens, UpsertTokensError, Release, ReleaseError,
           Crash, LockExpires, CreateBatchJob, ProviderAdvances, Goto, TypeOK, TickInv, Working
<1>. QED
  BY <1>1 DEF Poll, Goto, TypeOK

\* Only a save of a completed job gets a tick to "tokens".
LEMMA EntersTokens ==
    ASSUME RowInv, [Next]_vars, NEW t \in Ticks, pc'[t] = "tokens", pc[t] # "tokens"
    PROVE  cur'[t] = cur[t] /\ cur[t] \in Jobs /\ rows'[cur[t]].status = "completed"
<1>. USE DEF RowInv
<1>1. PICK j \in Jobs : Save(t, j)
  <2>1. ASSUME NEW u \in Ticks, NEW j \in Jobs, Finish(u, j) PROVE FALSE
    BY <2>1, FinishTick
  <2>. QED
    BY <2>1
       DEF Next, Step, vars, ListActive, SkipNameless, Acquire, LockHeld, AcquireError, Poll,
           PollError, Save, SaveError, UpsertTokens, UpsertTokensError, Release, ReleaseError,
           Crash, LockExpires, CreateBatchJob, ProviderAdvances, Goto, TypeOK, TickInv, Working
<1>. QED
  BY <1>1, SavedRowsType DEF Save, Goto, TypeOK

\* Token counts change by an upsert only.
LEMMA TokenJobsChange ==
    ASSUME [Next]_vars, tokenJobs' # tokenJobs
    PROVE  \E t \in Ticks : UpsertTokens(t)
BY DEF Next, Step, vars, ListActive, SkipNameless, Acquire, LockHeld, AcquireError, Poll,
       PollError, Save, SaveError, UpsertTokensError, Release, ReleaseError,
       Crash, LockExpires, CreateBatchJob, ProviderAdvances

LEMMA AloneInvNext ==
    ASSUME RowInv, VerdictInv, LockInv, AloneInv, [Next]_vars
    PROVE  AloneInv'
<1>1. ASSUME NEW t \in Ticks, pc'[t] = "save", rows'[cur'[t]].status \in FinalStatuses
      PROVE  result'[t] = rows'[cur'[t]].status
  <2>1. CASE pc[t] = "save"
    BY <1>1, <2>1, OthersLeaveAlone DEF AloneInv
  <2>2. CASE pc[t] # "save"
    <3>1. UNCHANGED <<rows, remote, cur>> /\ result'[t] = StatusOf(remote[cur[t]])
      BY <1>1, <2>2, EntersSave
    <3>2. rows[cur[t]].status \in FinalStatuses /\ cur[t] \in Jobs
      BY <1>1, <3>1, RowInvNext DEF RowInv, TickInv, Working
    <3>. QED
      BY <3>1, <3>2 DEF VerdictInv
  <2>. QED
    BY <2>1, <2>2
<1>2. ASSUME NEW t \in Ticks, pc'[t] = "tokens" PROVE rows'[cur'[t]].status = "completed"
  <2>1. CASE pc[t] = "tokens"
    BY <1>2, <2>1, OthersLeaveAlone DEF AloneInv
  <2>2. CASE pc[t] # "tokens"
    BY <1>2, <2>2, EntersTokens
  <2>. QED
    BY <2>1, <2>2
<1>3. ASSUME NEW j \in Jobs, tokenJobs'[j] # NoTokens
      PROVE  rows'[j].status = "completed" /\ tokenJobs'[j] = Usage[j]
  <2>1. CASE tokenJobs'[j] = tokenJobs[j]
    <3>1. rows[j].status = "completed" /\ tokenJobs[j] = Usage[j]
      BY <1>3, <2>1 DEF AloneInv, TokensOnlyWhenCompleted
    <3>. QED
      BY <2>1, <3>1, FinalRowKept DEF SameRecord, FinalStatuses
  <2>2. CASE tokenJobs'[j] # tokenJobs[j]
    <3>1. PICK t \in Ticks : UpsertTokens(t)
      BY <2>2, TokenJobsChange
    <3>2. cur[t] = j /\ tokenJobs'[j] = Upserted(j) /\ rows' = rows
      BY <2>2, <3>1 DEF UpsertTokens, RowInv, TypeOK
    <3>3. rows[j].status = "completed"
      BY <3>1, <3>2 DEF UpsertTokens, AloneInv
    <3>4. tokenJobs[j] \in {NoTokens, Usage[j]}
      BY DEF AloneInv, TokensOnlyWhenCompleted
    <3>. QED
      BY <3>2, <3>3, <3>4, UpsertedIsUsage
  <2>. QED
    BY <2>1, <2>2
<1>. QED
  BY <1>1, <1>2, <1>3 DEF AloneInv, TokensOnlyWhenCompleted

LEMMA AloneInvariant ==
    ASSUME LockOutlivesWork, CancelIsFinal
    PROVE  Spec => []AloneInv
<1>1. Init => AloneInv
  BY DEF Init, AloneInv, TokensOnlyWhenCompleted
<1>2. RowInv /\ VerdictInv /\ LockInv /\ AloneInv /\ [Next]_vars => AloneInv'
  BY AloneInvNext
<1>. QED
  BY <1>1, <1>2, RowInvariant, VerdictInvariant, LockInvariant, PTL DEF Spec

\* A job recorded completed is never recorded otherwise and loses none of its
\* results, nor is one recorded failed, as long as no lock lapses under the work.
\* When it was finished is all that a tick with an old copy of the row rewrites.
THEOREM RecordedVerdictsAreFinal ==
    ASSUME LockOutlivesWork, CancelIsFinal
    PROVE  Spec => TerminalIsFinal
<1>1. RowInv /\ AloneInv /\ [Next]_vars
      => [\A j \in Jobs :
            rows[j].status \in FinalStatuses =>
                rows'[j].status = rows[j].status /\ rows'[j].results = rows[j].results]_vars
  BY FinalRowKept DEF SameRecord
<1>. QED
  BY <1>1, RowInvariant, AloneInvariant, PTL DEF Spec, TerminalIsFinal

\* Token counts are those of a completed job, complete, and counted once
\* however often the upsert is repeated.
THEOREM OnlyCompletedJobsAreBilled ==
    ASSUME LockOutlivesWork, CancelIsFinal
    PROVE  Spec => []TokensOnlyWhenCompleted
<1>1. AloneInv => TokensOnlyWhenCompleted
  BY DEF AloneInv
<1>. QED
  BY <1>1, AloneInvariant, PTL

-----------------------------------------------------------------------------
\* Token counts are missing or complete, lock or no lock.
TokenInv == \A j \in Jobs : tokenJobs[j] \in {NoTokens, Usage[j]}

\* No process dies, and no save or upsert fails.
NothingIsLost == Faults \cap {"crash", "save", "tokens"} = {}

LEMMA TokenInvNext ==
    ASSUME RowInv, TokenInv, [Next]_vars
    PROVE  TokenInv'
<1>1. ASSUME NEW t \in Ticks, UpsertTokens(t) PROVE TokenInv'
  <2>1. cur[t] \in Jobs /\ tokenJobs' = [tokenJobs EXCEPT ![cur[t]] = Upserted(cur[t])]
    BY <1>1 DEF UpsertTokens, RowInv, TickInv, Working
  <2>2. Upserted(cur[t]) = Usage[cur[t]]
    BY <2>1, UpsertedIsUsage DEF TokenInv
  <2>. QED
    BY <2>1, <2>2 DEF TokenInv, RowInv, TypeOK
<1>2. CASE tokenJobs' = tokenJobs
  BY <1>2 DEF TokenInv
<1>. QED
  BY <1>1, <1>2, TokenJobsChange

\* A step leaves no completed job without its counts and without a tick to record them.
LEMMA BillingNext ==
    ASSUME NothingIsLost, RowInv, TokenInv, CompletedJobsAreBilled, [Next]_vars
    PROVE  CompletedJobsAreBilled'
<1>. SUFFICES ASSUME NEW j \in Jobs, rows'[j].status = "completed", tokenJobs'[j] # Usage[j]
     PROVE  \E t \in Ticks : pc'[t] = "tokens" /\ cur'[t] = j
  BY DEF CompletedJobsAreBilled
<1>. USE DEF RowInv
<1>1. ASSUME NEW t \in Ticks, NEW i \in Jobs, Save(t, i)
      PROVE  \E u \in Ticks : pc'[u] = "tokens" /\ cur'[u] = j
  <2>1. CASE i = j
    <3>1. result[t] = "completed"
      BY <1>1, <2>1, SavedRowsType DEF Save
    <3>2. tokenJobs[j] = NoTokens /\ tokenJobs[j] # Usage[j]
      BY <1>1 DEF Save, TokenInv
    <3>3. TokenRows(j) # {}
      BY <3>2, ConstantsAssumption DEF TokenRows, NoTokens
    <3>. QED
      BY <1>1, <2>1, <3>1, <3>3 DEF Save, Goto, TypeOK
  <2>2. CASE i # j
    <3>1. rows'[j] = rows[j] /\ tokenJobs' = tokenJobs
      BY <1>1, <2>2, SavedRowsType DEF Save
    <3>2. PICK u \in Ticks : pc[u] = "tokens" /\ cur[u] = j
      BY <3>1 DEF CompletedJobsAreBilled
    <3>. QED
      BY <1>1, <3>2 DEF Save, Goto, TypeOK
  <2>. QED
    BY <2>1, <2>2
<1>2. ASSUME NEW t \in Ticks, UpsertTokens(t)
      PROVE  \E u \in Ticks : pc'[u] = "tokens" /\ cur'[u] = j
  <2>1. cur[t] \in Jobs /\ Upserted(cur[t]) = Usage[cur[t]]
    BY <1>2, UpsertedIsUsage DEF UpsertTokens, TickInv, Working, TokenInv
  <2>2. cur[t] # j /\ tokenJobs'[j] = tokenJobs[j] /\ rows' = rows
    BY <1>2, <2>1 DEF UpsertTokens, TypeOK
  <2>3. PICK u \in Ticks : pc[u] = "tokens" /\ cur[u] = j
    BY <2>2 DEF CompletedJobsAreBilled
  <2>. QED
    BY <1>2, <2>2, <2>3 DEF UpsertTokens, Goto, TypeOK
<1>3. ASSUME ~ \E t \in Ticks : UpsertTokens(t) \/ \E i \in Jobs : Save(t, i)
      PROVE  \E u \in Ticks : pc'[u] = "tokens" /\ cur'[u] = j
  <2>1. rows'[j] = rows[j] \/ rows'[j] = PendingRow
    BY <1>3
       DEF NothingIsLost, Next, Step, vars, ListActive, SkipNameless, Acquire, LockHeld, AcquireError,
           Poll, PollError, SaveError, UpsertTokensError, Release, ReleaseError,
           Crash, LockExpires, CreateBatchJob, ProviderAdvances, TypeOK
  <2>2. rows[j].status = "completed" /\ tokenJobs[j] # Usage[j]
    BY <1>3, <2>1, TokenJobsChange DEF PendingRow
  <2>3. PICK u \in Ticks : pc[u] = "tokens" /\ cur[u] = j
    BY <2>2 DEF CompletedJobsAreBilled
  <2>4. pc'[u] = "tokens" /\ cur'[u] = j
    <3>1. ASSUME NEW t \in Ticks, NEW i \in Jobs, Finish(t, i), pc[t] # "tokens",
                 cur' = cur \/ cur' = [cur EXCEPT ![t] = NoJob]
          PROVE  pc'[u] = "tokens" /\ cur'[u] = j
      BY <2>3, <3>1, FinishTick DEF TypeOK
    <3>2. ASSUME NEW t \in Ticks,
                 \/ \E i \in Jobs : SkipNameless(t, i) \/ LockHeld(t, i) \/ AcquireError(t, i)
                 \/ Release(t) \/ ReleaseError(t)
          PROVE  pc'[u] = "tokens" /\ cur'[u] = j
      BY <3>1, <3>2
         DEF SkipNameless, LockHeld, AcquireError, TakesUp, Release, ReleaseError, TickInv, Working
    <3>. QED
      BY <1>3, <2>3, <3>2
         DEF NothingIsLost, Next, Step, vars, ListActive, Acquire, TakesUp, Poll, PollError,
             SaveError, UpsertTokensError, Crash, LockExpires, CreateBatchJob, ProviderAdvances,
             Goto, TypeOK
  <2>. QED
    BY <2>4
<1>. QED
  BY <1>1, <1>2, <1>3

\* Unless a process dies or a write fails, no completed job is left without
\* its token counts, even when locks lapse and ticks overlap on a job.
THEOREM CompletedJobsGetBilled ==
    ASSUME NothingIsLost
    PROVE  Spec => []CompletedJobsAreBilled
<1>1. Init => TokenInv /\ CompletedJobsAreBilled
  BY DEF Init, TokenInv, CompletedJobsAreBilled, Absent
<1>2. RowInv /\ TokenInv /\ [Next]_vars => TokenInv'
  BY TokenInvNext
<1>3. RowInv /\ TokenInv /\ CompletedJobsAreBilled /\ [Next]_vars => CompletedJobsAreBilled'
  BY BillingNext
<1>. QED
  BY <1>1, <1>2, <1>3, RowInvariant, PTL DEF Spec

-----------------------------------------------------------------------------
\* An answer that brings token counts, while it waits to be saved and they to
\* be recorded, comes from a job that succeeded; the provider takes none back.
ChargeInv ==
    /\ \A t \in Ticks :
        /\ pc[t] = "save" /\ result[t] = "completed" => remote[cur[t]] \in Successes
        /\ pc[t] = "tokens" => remote[cur[t]] \in Successes
    /\ ChargesAreBacked

\* Ticks that do not get to "save" or "tokens", and jobs that keep what success they had.
LEMMA ChargeKept ==
    ASSUME RowInv, ChargeInv, UNCHANGED tokenJobs,
           \A j \in Jobs : rows[j] # Absent => rows'[j] # Absent,
           \A j \in Jobs : remote[j] \in Successes => remote'[j] \in Successes,
           \A t \in Ticks :
                \/ pc'[t] \notin {"save", "tokens"}
                \/ pc'[t] = pc[t] /\ cur'[t] = cur[t] /\ result'[t] = result[t]
    PROVE  ChargeInv'
<1>1. \A t \in Ticks : pc[t] \in {"save", "tokens"} => cur[t] \in Jobs
  BY DEF RowInv, TickInv, Working
<1>. QED
  BY <1>1 DEF ChargeInv, ChargesAreBacked

LEMMA ChargeInvNext ==
    ASSUME RowInv, ChargeInv, [Next]_vars
    PROVE  ChargeInv'
<1>. USE DEF RowInv
<1>1. ASSUME NEW t \in Ticks, ListActive(t) \/ PollError(t) \/ UpsertTokensError(t) PROVE ChargeInv'
  BY <1>1, ChargeKept DEF ListActive, PollError, UpsertTokensError, Goto, TypeOK
<1>2. ASSUME NEW t \in Ticks, NEW j \in Jobs,
             SkipNameless(t, j) \/ LockHeld(t, j) \/ AcquireError(t, j)
      PROVE  ChargeInv'
  <2>1. Finish(t, j) /\ UNCHANGED <<rows, tokenJobs, remote, cur, result>>
    BY <1>2 DEF SkipNameless, LockHeld, AcquireError
  <2>. QED
    BY <2>1, FinishTick, ChargeKept
<1>3. ASSUME NEW t \in Ticks, NEW j \in Jobs, Acquire(t, j) PROVE ChargeInv'
  BY <1>3, ChargeKept DEF Acquire, Goto, TypeOK
<1>4. ASSUME NEW t \in Ticks, NEW j \in Jobs, Poll(t, j) PROVE ChargeInv'
  <2>1. StatusOf(remote[j]) = "completed" => remote[j] \in Successes
    BY DEF StatusOf, Successes
  <2>2. pc'[t] = "save" => result'[t] = StatusOf(remote[j])
    BY <1>4 DEF Poll, Goto, TypeOK
  <2>3. /\ pc'[t] # "tokens" /\ cur[t] = j /\ UNCHANGED <<rows, tokenJobs, remote, cur>>
        /\ \A u \in Ticks \ {t} : pc'[u] = pc[u] /\ result'[u] = result[u]
    BY <1>4 DEF Poll, Goto, TypeOK
  <2>. QED
    BY <2>1, <2>2, <2>3 DEF ChargeInv, ChargesAreBacked
<1>5. ASSUME NEW t \in Ticks, (\E j \in Jobs : Save(t, j)) \/ SaveError(t) PROVE ChargeInv'
  <2>1. /\ pc[t] = "save"
        /\ rows' \in {rows, SavedRows(t)}
        /\ pc'[t] # "save"
        /\ pc'[t] = "tokens" => result[t] = "completed"
        /\ \A u \in Ticks \ {t} : pc'[u] = pc[u] /\ result'[u] = result[u]
        /\ UNCHANGED <<tokenJobs, remote, cur>>
    BY <1>5 DEF Save, SaveError, Goto, TypeOK, Working
  <2>2. \A j \in Jobs : rows[j] # Absent => rows'[j] # Absent
    BY <2>1, SavedRowsType
  <2>. QED
    BY <2>1, <2>2 DEF ChargeInv, ChargesAreBacked
<1>6. ASSUME NEW t \in Ticks, UpsertTokens(t) PROVE ChargeInv'
  <2>1. /\ cur[t] \in Jobs /\ rows[cur[t]] # Absent /\ remote[cur[t]] \in Successes
        /\ \A j \in Jobs : j # cur[t] => tokenJobs'[j] = tokenJobs[j]
        /\ pc'[t] = "release" /\ \A u \in Ticks \ {t} : pc'[u] = pc[u]
        /\ UNCHANGED <<rows, remote, cur, result>>
    BY <1>6 DEF UpsertTokens, Goto, TypeOK, TickInv, Working, ChargeInv
  <2>. QED
    BY <2>1 DEF ChargeInv, ChargesAreBacked
<1>7. ASSUME NEW t \in Ticks, Release(t) \/ ReleaseError(t) PROVE ChargeInv'
  <2>1. /\ cur[t] \in Jobs
        /\ Finish(t, cur[t])
        /\ cur' = [cur EXCEPT ![t] = NoJob]
        /\ UNCHANGED <<rows, tokenJobs, remote, result>>
    BY <1>7 DEF Release, ReleaseError, TickInv, Working
  <2>. QED
    BY <2>1, FinishTick, ChargeKept DEF TypeOK
<1>8. ASSUME NEW p \in Pods, Crash(p) PROVE ChargeInv'
  BY <1>8, ChargeKept DEF Crash, TypeOK
<1>9. ASSUME NEW j \in Jobs, LockExpires(j) PROVE ChargeInv'
  BY <1>9, ChargeKept DEF LockExpires
<1>10. ASSUME NEW j \in Jobs, CreateBatchJob(j) PROVE ChargeInv'
  BY <1>10, ChargeKept DEF CreateBatchJob, TypeOK, PendingRow, Absent
<1>11. ASSUME NEW j \in Jobs, ProviderAdvances(j) PROVE ChargeInv'
  <2>1. \A i \in Jobs : remote[i] \in Successes => remote'[i] = remote[i]
    BY <1>11 DEF ProviderAdvances, Successes, InFlight, TypeOK
  <2>. QED
    BY <1>11, <2>1, ChargeKept DEF ProviderAdvances
<1>12. CASE UNCHANGED vars
  BY <1>12, ChargeKept DEF vars
<1>. QED
  BY <1>1, <1>2, <1>3, <1>4, <1>5, <1>6, <1>7, <1>8, <1>9, <1>10, <1>11, <1>12 DEF Next, Step

\* Whatever lapses, overlaps or fails, and even if the provider ends a cancelled
\* job otherwise than it said: tokens are only ever counted for a job on record
\* that has succeeded.
THEOREM ChargedJobsSucceeded == Spec => []ChargesAreBacked
<1>1. Init => ChargeInv
  BY DEF Init, ChargeInv, ChargesAreBacked
<1>2. RowInv /\ ChargeInv /\ [Next]_vars => ChargeInv'
  BY ChargeInvNext
<1>3. ChargeInv => ChargesAreBacked
  BY DEF ChargeInv
<1>. QED
  BY <1>1, <1>2, <1>3, RowInvariant, PTL DEF Spec

-----------------------------------------------------------------------------
\* What a reader of the tables sees of the initial state, and of every step.
LEMMA LifecycleInit == Init => Lifecycle!Init
BY DEF Init, Lifecycle!Init, Absent, NoTokens

\* A save is a recorded poll result, or changes nothing a reader sees.
LEMMA SaveRecords ==
    ASSUME RowInv, AloneInv, NEW t \in Ticks, pc[t] = "save",
           rows' \in {rows, SavedRows(t)}, UNCHANGED tokenJobs
    PROVE  [Lifecycle!Next]_(Lifecycle!vars)
<1>0. PICK i \in Jobs : i = cur[t] /\ rows[i] # Absent
  BY SavedRowsType
<1>1. result[t] \in Answers
  BY SavedRowsType
<1>2. CASE rows' = rows
  BY <1>2 DEF Lifecycle!vars
<1>3. CASE rows' = SavedRows(t) /\ rows[i].status \in FinalStatuses
  <2>1. \A j \in Jobs : rows'[j].status = rows[j].status
    BY <1>0, <1>3, FinalRowSavedAgain DEF AloneInv, SameRecord
  <2>2. [j \in Jobs |-> rows'[j].status] = [j \in Jobs |-> rows[j].status]
    BY <2>1
  <2>. QED
    BY <2>2 DEF Lifecycle!vars
<1>4. CASE rows' = SavedRows(t) /\ rows[i].status \notin FinalStatuses
  <2>1. rows[i].status \in ActiveStatuses
    BY <1>0, <1>4 DEF RowInv, TypeOK, Row
  <2>2. \A j \in Jobs : rows'[j].status = IF j = i THEN result[t] ELSE rows[j].status
    BY <1>0, <1>4, SavedRowsType
  <2>3. CASE rows[i].status = result[t]
    <3>1. [j \in Jobs |-> rows'[j].status] = [j \in Jobs |-> rows[j].status]
      BY <2>2, <2>3
    <3>. QED
      BY <3>1 DEF Lifecycle!vars
  <2>4. CASE rows[i].status # result[t]
    <3>1. [j \in Jobs |-> rows'[j].status] = [[j \in Jobs |-> rows[j].status] EXCEPT ![i] = result[t]]
      BY <2>2
    <3>. QED
      BY <1>0, <1>1, <2>1, <2>4, <3>1
         DEF Lifecycle!Next, Lifecycle!Record, Lifecycle!ActiveStatuses, ActiveStatuses,
             Answers, Lifecycle!FinalStatuses, FinalStatuses
  <2>. QED
    BY <2>3, <2>4
<1>. QED
  BY <1>2, <1>3, <1>4

LEMMA LifecycleNext ==
    ASSUME RowInv, AloneInv, [Next]_vars
    PROVE  [Lifecycle!Next]_(Lifecycle!vars)
<1>1. ASSUME NEW t \in Ticks, (\E j \in Jobs : Save(t, j)) \/ SaveError(t)
      PROVE  [Lifecycle!Next]_(Lifecycle!vars)
  BY <1>1, SaveRecords DEF Save, SaveError
<1>2. ASSUME NEW t \in Ticks, UpsertTokens(t) PROVE [Lifecycle!Next]_(Lifecycle!vars)
  <2>1. PICK i \in Jobs : i = cur[t] /\ rows[i].status = "completed" /\ rows' = rows
    BY <1>2 DEF UpsertTokens, RowInv, TickInv, AloneInv, Working
  <2>2. Upserted(i) = Usage[i]
    BY <2>1, UpsertedIsUsage DEF AloneInv, TokensOnlyWhenCompleted
  <2>3. \A j \in Jobs : tokenJobs'[j] = IF j = i THEN Usage[i] ELSE tokenJobs[j]
    BY <1>2, <2>1, <2>2 DEF UpsertTokens, RowInv, TypeOK
  <2>4. CASE Usage[i] = NoTokens
    <3>1. \A j \in Jobs : tokenJobs'[j] # NoTokens <=> tokenJobs[j] # NoTokens
      BY <2>3, <2>4 DEF AloneInv, TokensOnlyWhenCompleted
    <3>. QED
      BY <2>1, <3>1 DEF Lifecycle!vars
  <2>5. CASE Usage[i] # NoTokens
    <3>1. {j \in Jobs : tokenJobs'[j] # NoTokens} = {j \in Jobs : tokenJobs[j] # NoTokens} \cup {i}
      BY <2>1, <2>3, <2>5
    <3>. QED
      BY <2>1, <3>1 DEF Lifecycle!Next, Lifecycle!Bill
  <2>. QED
    BY <2>4, <2>5
<1>3. ASSUME NEW j \in Jobs, CreateBatchJob(j) PROVE [Lifecycle!Next]_(Lifecycle!vars)
  <2>1. rows[j].status = "absent" /\ tokenJobs' = tokenJobs
    BY <1>3 DEF CreateBatchJob, Absent
  <2>2. \A i \in Jobs : rows'[i].status = IF i = j THEN "pending" ELSE rows[i].status
    BY <1>3 DEF CreateBatchJob, RowInv, TypeOK, PendingRow
  <2>3. [i \in Jobs |-> rows'[i].status] = [[i \in Jobs |-> rows[i].status] EXCEPT ![j] = "pending"]
    BY <2>2
  <2>. QED
    BY <2>1, <2>3 DEF Lifecycle!Next, Lifecycle!Create
<1>4. CASE UNCHANGED <<rows, tokenJobs>>
  BY <1>4 DEF Lifecycle!vars
<1>. QED
  BY <1>1, <1>2, <1>3, <1>4
     DEF Next, Step, vars, ListActive, SkipNameless, Acquire, LockHeld, AcquireError, Poll,
         PollError, UpsertTokensError, Release, ReleaseError, Crash, LockExpires, ProviderAdvances

\* To a reader of batch_jobs and token_jobs, any number of overlapping ticks
\* on any number of pods is one careful scheduler, as long as no lock lapses
\* under the work: the code implements BatchJobLifecycle.
THEOREM ImplementsLifecycle ==
    ASSUME LockOutlivesWork, CancelIsFinal
    PROVE  Spec => LifecycleSpec
<1>1. RowInv /\ AloneInv /\ [Next]_vars => [Lifecycle!Next]_(Lifecycle!vars)
  BY LifecycleNext
<1>. QED
  BY <1>1, LifecycleInit, RowInvariant, AloneInvariant, PTL DEF Spec, LifecycleSpec, Lifecycle!Spec
=============================================================================
