--------------------------- MODULE LockTiming_proofs ---------------------------
(***************************************************************************)
(* What LockTiming guarantees for any number of ticks, any TTL, schedule   *)
(* and delays.                                                             *)
(***************************************************************************)
EXTENDS LockTiming, TLAPS

\* Nobody overruns the time it has.
ClockInv ==
    \A t \in Ticks :
        /\ phase[t] = "due" => spent[t] <= MaxDelay
        /\ phase[t] = "working" => spent[t] <= MaxWork

TimingInv == TimingTypeOK /\ ClockInv

\* While there is a key, untried is its age.  Without one, the next tick of
\* the schedule is near, or a tick of a pod that is up is already on its way.
WaitInv ==
    /\ ttl > 0 => untried = TTL - ttl
    /\ ttl = 0 =>
        \/ untried + untilTick < TTL + Period
        \/ \E t \in Sturdy : phase[t] = "due" /\ untried < TTL + Period + spent[t]

\* The work under a lock is shorter than its TTL.
WorkFits == MaxWork < TTL

-----------------------------------------------------------------------------
LEMMA TimingInvInit == TimingInit => TimingInv
BY TimingAssumption DEF TimingInit, TimingInv, TimingTypeOK, ClockInv

LEMMA TimingInvNext == TimingInv /\ [TimingNext]_timingVars => TimingInv'
<1>. SUFFICES ASSUME TimingInv, [TimingNext]_timingVars PROVE TimingInv'
  OBVIOUS
<1>. USE TimingAssumption DEF TimingInv, TimingTypeOK, ClockInv
<1>1. CASE Fire
  BY <1>1 DEF Fire
<1>2. CASE Elapse
  BY <1>2 DEF Elapse
<1>3. ASSUME NEW t \in Ticks, Acquire(t) PROVE TimingInv'
  BY <1>3 DEF Acquire, Enter
<1>4. ASSUME NEW t \in Ticks, LockHeld(t) PROVE TimingInv'
  BY <1>4 DEF LockHeld, Enter
<1>5. ASSUME NEW t \in Ticks, AcquireError(t) PROVE TimingInv'
  BY <1>5 DEF AcquireError, Enter
<1>6. ASSUME NEW t \in Ticks, Release(t) PROVE TimingInv'
  BY <1>6 DEF Release, Enter
<1>7. ASSUME NEW t \in Ticks, Crash(t) PROVE TimingInv'
  BY <1>7 DEF Crash, Enter
<1>8. CASE UNCHANGED timingVars
  BY <1>8 DEF timingVars
<1>. QED
  BY <1>1, <1>2, <1>3, <1>4, <1>5, <1>6, <1>7, <1>8 DEF TimingNext

LEMMA TimingInvariant == TimingSpec => []TimingInv
BY TimingInvInit, TimingInvNext, PTL DEF TimingSpec

\* Every variable holds a value of its kind; no clock runs past its end.
THEOREM TimingTypeCorrect == TimingSpec => []TimingTypeOK
<1>1. TimingInv => TimingTypeOK
  BY DEF TimingInv
<1>. QED
  BY <1>1, TimingInvariant, PTL

-----------------------------------------------------------------------------
LEMMA LockKept ==
    ASSUME WorkFits, TimingInv, LockOutlivesItsWork, [TimingNext]_timingVars
    PROVE  LockOutlivesItsWork'
<1>. USE TimingAssumption DEF TimingInv, TimingTypeOK, LockOutlivesItsWork
<1>1. CASE Fire
  BY <1>1 DEF Fire
<1>2. CASE Elapse
  <2>. SUFFICES ASSUME NEW t \in Ticks, phase[t] = "working"
       PROVE  ttl' = TTL - spent'[t] /\ ttl' > 0
    BY <1>2 DEF Elapse
  <2>1. ttl = TTL - spent[t] /\ ttl > 0 /\ spent[t] < MaxWork /\ spent'[t] = spent[t] + 1
    BY <1>2 DEF Elapse
  <2>2. ttl' = ttl - 1
    BY <1>2, <2>1 DEF Elapse
  <2>. QED
    BY <2>1, <2>2 DEF WorkFits
<1>3. ASSUME NEW t \in Ticks, Acquire(t) PROVE LockOutlivesItsWork'
  BY <1>3 DEF Acquire, Enter
<1>4. ASSUME NEW t \in Ticks, LockHeld(t) PROVE LockOutlivesItsWork'
  BY <1>4 DEF LockHeld, Enter
<1>5. ASSUME NEW t \in Ticks, AcquireError(t) PROVE LockOutlivesItsWork'
  BY <1>5 DEF AcquireError, Enter
<1>6. ASSUME NEW t \in Ticks, Release(t) PROVE LockOutlivesItsWork'
  BY <1>6 DEF Release, Enter
<1>7. ASSUME NEW t \in Ticks, Crash(t) PROVE LockOutlivesItsWork'
  BY <1>7 DEF Crash, Enter
<1>8. CASE UNCHANGED timingVars
  BY <1>8 DEF timingVars
<1>. QED
  BY <1>1, <1>2, <1>3, <1>4, <1>5, <1>6, <1>7, <1>8 DEF TimingNext

\* If what is done under a lock takes less than its TTL, nobody works on a job
\* without its lock, and nobody beside another one.
THEOREM LockOutlivesWorkThatFits == ASSUME WorkFits PROVE TimingSpec => []LockOutlivesItsWork
<1>1. TimingInit => LockOutlivesItsWork
  BY DEF TimingInit, LockOutlivesItsWork
<1>2. TimingInv /\ LockOutlivesItsWork /\ [TimingNext]_timingVars => LockOutlivesItsWork'
  BY LockKept
<1>. QED
  BY <1>1, <1>2, TimingInvariant, PTL DEF TimingSpec

\* What a step of the clock, of Redis or of a tick is to the lock.
LEMMA LockNext ==
    ASSUME WorkFits, TimingInv, LockOutlivesItsWork, [TimingNext]_timingVars
    PROVE  [Lock!Next]_(Lock!vars)
<1>. USE TimingAssumption DEF TimingInv, TimingTypeOK
<1>. DEFINE atWork == {t \in Ticks : phase[t] = "working"}
<1>1. CASE Fire
  <2>1. atWork' = atWork /\ ttl' = ttl
    BY <1>1 DEF Fire
  <2>. QED
    BY <2>1 DEF Lock!vars
<1>2. CASE Elapse
  <2>1. atWork' = atWork
    BY <1>2 DEF Elapse
  <2>2. CASE ttl > 0 /\ ttl' = 0
    <3>1. LockOutlivesItsWork'
      BY LockKept
    <3>2. atWork' = {}
      BY <2>2, <3>1 DEF LockOutlivesItsWork
    <3>3. Lock!Lapse
      BY <2>1, <2>2, <3>2 DEF Lock!Lapse
    <3>. QED
      BY <3>3 DEF Lock!Next
  <2>3. CASE ~(ttl > 0 /\ ttl' = 0)
    <3>1. (ttl' > 0) = (ttl > 0)
      BY <1>2, <2>3 DEF Elapse
    <3>. QED
      BY <2>1, <3>1 DEF Lock!vars
  <2>. QED
    BY <2>2, <2>3
<1>3. ASSUME NEW t \in Ticks, Acquire(t) PROVE [Lock!Next]_(Lock!vars)
  <2>1. atWork' = atWork \cup {t} /\ ttl = 0 /\ ttl' > 0
    BY <1>3 DEF Acquire, Enter
  <2>2. Lock!Take(t)
    BY <2>1 DEF Lock!Take
  <2>. QED
    BY <2>2 DEF Lock!Next
<1>4. ASSUME NEW t \in Ticks, LockHeld(t) PROVE [Lock!Next]_(Lock!vars)
  <2>1. atWork' = atWork /\ ttl' = ttl
    BY <1>4 DEF LockHeld, Enter
  <2>. QED
    BY <2>1 DEF Lock!vars
<1>5. ASSUME NEW t \in Ticks, AcquireError(t) PROVE [Lock!Next]_(Lock!vars)
  <2>1. atWork' = atWork /\ ttl = 0 /\ ttl' \in {0, TTL}
    BY <1>5 DEF AcquireError, Enter
  <2>2. CASE ttl' = 0
    BY <2>1, <2>2 DEF Lock!vars
  <2>3. CASE ttl' > 0
    <3>1. Lock!TakeInVain
      BY <2>1, <2>3 DEF Lock!TakeInVain
    <3>. QED
      BY <3>1 DEF Lock!Next
  <2>. QED
    BY <2>1, <2>2, <2>3
<1>6. ASSUME NEW t \in Ticks, Release(t) \/ Crash(t) PROVE [Lock!Next]_(Lock!vars)
  <2>1. CASE phase[t] = "working"
    <3>1. atWork' = atWork \ {t} /\ ttl' \in {0, ttl}
      BY <1>6 DEF Release, Crash, Enter
    <3>2. Lock!Leave(t)
      BY <2>1, <3>1 DEF Lock!Leave
    <3>. QED
      BY <3>2 DEF Lock!Next
  <2>2. CASE phase[t] # "working"
    <3>1. atWork' = atWork /\ ttl' = ttl
      BY <1>6, <2>2 DEF Release, Crash, Enter
    <3>. QED
      BY <3>1 DEF Lock!vars
  <2>. QED
    BY <2>1, <2>2
<1>7. CASE UNCHANGED timingVars
  BY <1>7 DEF timingVars, Lock!vars
<1>. QED
  BY <1>1, <1>2, <1>3, <1>4, <1>5, <1>6, <1>7 DEF TimingNext

\* With work that fits the TTL, a key with a clock is a lock as JobLock
\* describes it: time takes it from nobody.
THEOREM ImplementsJobLock == ASSUME WorkFits PROVE TimingSpec => LockSpec
<1>1. TimingInit => Lock!Init
  BY DEF TimingInit, Lock!Init
<1>2. TimingInv /\ LockOutlivesItsWork /\ [TimingNext]_timingVars => [Lock!Next]_(Lock!vars)
  BY LockNext
<1>. QED
  BY <1>1, <1>2, TimingInvariant, LockOutlivesWorkThatFits, PTL DEF TimingSpec, LockSpec, Lock!Spec

-----------------------------------------------------------------------------
LEMMA WaitInvNext == TimingInv /\ WaitInv /\ [TimingNext]_timingVars => WaitInv'
<1>. SUFFICES ASSUME TimingInv, WaitInv, [TimingNext]_timingVars PROVE WaitInv'
  OBVIOUS
<1>. USE TimingAssumption DEF TimingInv, TimingTypeOK, WaitInv
<1>1. CASE Fire
  <2>1. PICK S \in SUBSET {t \in Ticks : phase[t] = "idle"} :
            /\ S \cap Sturdy # {}
            /\ phase' = [t \in Ticks |-> IF t \in S THEN "due" ELSE phase[t]]
            /\ spent' = [t \in Ticks |-> IF t \in S THEN 0 ELSE spent[t]]
    BY <1>1 DEF Fire
  <2>2. PICK t \in Sturdy : t \in S
    BY <2>1
  <2>3. phase'[t] = "due" /\ spent'[t] = 0
    BY <2>1, <2>2
  <2>4. \A u \in Sturdy : phase[u] = "due" => phase'[u] = "due" /\ spent'[u] = spent[u]
    BY <2>1
  <2>. QED
    BY <1>1, <2>3, <2>4 DEF Fire
<1>2. CASE Elapse
  <2>1. \A t \in Sturdy : phase[t] = "due" => phase'[t] = "due" /\ spent'[t] = spent[t] + 1
    BY <1>2 DEF Elapse
  <2>2. untried' = untried + 1 /\ untilTick' = untilTick - 1 /\ untilTick > 0
    BY <1>2 DEF Elapse
  <2>3. CASE ttl = 0
    <3>1. ttl' = 0
      BY <1>2, <2>3 DEF Elapse
    <3>2. CASE untried + untilTick < TTL + Period
      BY <2>2, <3>1, <3>2
    <3>3. ASSUME NEW t \in Sturdy, phase[t] = "due", untried < TTL + Period + spent[t]
          PROVE  WaitInv'
      <4>1. phase'[t] = "due" /\ untried' < TTL + Period + spent'[t]
        BY <2>1, <2>2, <3>3
      <4>. QED
        BY <3>1, <4>1
    <3>. QED
      BY <2>3, <3>2, <3>3
  <2>4. CASE ttl > 0
    <3>1. ttl' = ttl - 1
      BY <1>2, <2>4 DEF Elapse
    <3>. QED
      BY <2>2, <2>4, <3>1
  <2>. QED
    BY <2>3, <2>4
<1>3. ASSUME NEW t \in Ticks, Acquire(t) PROVE WaitInv'
  BY <1>3 DEF Acquire
<1>4. ASSUME NEW t \in Ticks, LockHeld(t) PROVE WaitInv'
  BY <1>4 DEF LockHeld
<1>5. ASSUME NEW t \in Ticks, AcquireError(t) PROVE WaitInv'
  <2>1. untried' = 0 /\ untilTick' = untilTick /\ ttl' \in {0, TTL}
    BY <1>5 DEF AcquireError
  <2>2. untried' + untilTick' < TTL + Period
    BY <2>1
  <2>3. TTL - TTL = 0
    OBVIOUS
  <2>4. CASE ttl' = 0
    BY <2>2, <2>4
  <2>5. CASE ttl' = TTL
    BY <2>1, <2>3, <2>5
  <2>. QED
    BY <2>1, <2>4, <2>5
<1>6. ASSUME NEW t \in Ticks, Release(t) PROVE WaitInv'
  <2>1. \A u \in Sturdy : phase[u] = "due" => phase'[u] = "due" /\ spent'[u] = spent[u]
    BY <1>6 DEF Release, Enter
  <2>2. UNCHANGED <<untilTick, untried>> /\ ttl' \in {0, ttl}
    BY <1>6 DEF Release
  <2>3. CASE ttl' = ttl
    BY <2>1, <2>2, <2>3
  <2>4. CASE ttl > 0 /\ ttl' = 0
    <3>1. untried' + untilTick' < TTL + Period
      BY <2>2, <2>4
    <3>. QED
      BY <2>4, <3>1
  <2>5. ttl = 0 \/ ttl > 0
    OBVIOUS
  <2>. QED
    BY <2>2, <2>3, <2>4, <2>5
<1>7. ASSUME NEW t \in Ticks, Crash(t) PROVE WaitInv'
  <2>1. \A u \in Sturdy : phase[u] = "due" => phase'[u] = "due" /\ spent'[u] = spent[u]
    BY <1>7 DEF Crash, Enter
  <2>. QED
    BY <1>7, <2>1 DEF Crash
<1>8. CASE UNCHANGED timingVars
  BY <1>8 DEF timingVars
<1>. QED
  BY <1>1, <1>2, <1>3, <1>4, <1>5, <1>6, <1>7, <1>8 DEF TimingNext

\* However many pods die, releases fail and answers are lost, as long as one
\* pod is up no job is left alone for longer than the TTL of a lock nobody
\* releases, one period of the schedule and the delay of one tick.
THEOREM JobIsTriedInTime == TimingSpec => []TriedInTime
<1>1. TimingInit => WaitInv
  BY TimingAssumption DEF TimingInit, WaitInv
<1>2. TimingInv /\ WaitInv => TriedInTime
  BY TimingAssumption DEF TimingInv, TimingTypeOK, ClockInv, WaitInv, TriedInTime
<1>. QED
  BY <1>1, <1>2, TimingInvariant, WaitInvNext, PTL DEF TimingSpec
=============================================================================
