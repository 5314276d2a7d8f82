------------------------------ MODULE LockTiming ------------------------------
(***************************************************************************)
(* The lock of one batch job against the clock.  BatchJobSync lets a lock  *)
(* lapse or not; here its TTL (lockTTL), the cron schedule and the time    *)
(* calls take have a length, in whatever unit the constants are in.        *)
(*                                                                         *)
(* What a tick does under the lock is one stretch of time, and so is what  *)
(* it does before it gets to this job.  Time waits for a tick that has     *)
(* used up its time, which is how MaxWork and MaxDelay bound the calls.    *)
(***************************************************************************)
EXTENDS Naturals

CONSTANTS
    Ticks,     \* goroutines of the cron, of all pods
    Sturdy,    \* those of pods that stay up
    TTL,       \* lockTTL
    Period,    \* the time between two ticks of the schedule
    MaxDelay,  \* how long a tick may take to get to this job
    MaxWork,   \* how long a tick may hold the lock
    Faults     \* what may fail here: "crash", "acquire", "release"

ASSUME TimingAssumption ==
    /\ Sturdy \subseteq Ticks
    /\ TTL \in Nat \ {0}
    /\ Period \in Nat \ {0}
    /\ MaxDelay \in Nat
    /\ MaxWork \in Nat
    /\ Faults \subseteq {"crash", "acquire", "release"}

VARIABLES
    phase,      \* of each tick: "idle", "due" before it gets to the job, "working" under its lock
    spent,      \* the time it has spent in that phase
    ttl,        \* the time the key has left, 0 when there is no key
    untilTick,  \* the time to the next tick of the schedule
    untried     \* the time since a tick last found the key free and asked for it

timingVars == <<phase, spent, ttl, untilTick, untried>>

TimingInit ==
    /\ phase = [t \in Ticks |-> "idle"]
    /\ spent = [t \in Ticks |-> 0]
    /\ ttl = 0
    /\ untilTick = 0
    /\ untried = 0

\* Tick t enters phase p.
Enter(t, p) ==
    /\ phase' = [phase EXCEPT ![t] = p]
    /\ spent' = [spent EXCEPT ![t] = 0]

\* The cron fires, on every pod that is up; a goroutine for each, whether or
\* not the last one is done.
Fire ==
    /\ untilTick = 0
    /\ \E S \in SUBSET {t \in Ticks : phase[t] = "idle"} :
        /\ S \cap Sturdy # {}
        /\ phase' = [t \in Ticks |-> IF t \in S THEN "due" ELSE phase[t]]
        /\ spent' = [t \in Ticks |-> IF t \in S THEN 0 ELSE spent[t]]
    /\ untilTick' = Period
    /\ UNCHANGED <<ttl, untried>>

\* SET key 1 NX with the TTL.
Acquire_TTLOfSchedule(t) ==
    /\ phase[t] = "due"
    /\ ttl = 0
    /\ ttl' = Period
    /\ untried' = 0
    /\ Enter(t, "working")
    /\ UNCHANGED untilTick
Acquire_WrongUnit(t) ==
    /\ phase[t] = "due"
    /\ ttl = 0
    /\ ttl' = 60 * TTL
    /\ untried' = 0
    /\ Enter(t, "working")
    /\ UNCHANGED untilTick
Acquire(t) ==
    /\ phase[t] = "due"
    /\ ttl = 0
    /\ ttl' = TTL
    /\ untried' = 0
    /\ Enter(t, "working")
    /\ UNCHANGED untilTick

\* The key is there: the tick leaves the job alone, and the key as it is.
LockHeld_Renews(t) ==
    /\ phase[t] = "due"
    /\ ttl > 0
    /\ ttl' = TTL
    /\ Enter(t, "idle")
    /\ UNCHANGED <<untilTick, untried>>
LockHeld(t) ==
    /\ phase[t] = "due"
    /\ ttl > 0
    /\ Enter(t, "idle")
    /\ UNCHANGED <<ttl, untilTick, untried>>

\* Acquire fails, or Redis sets the key and its answer is lost.
AcquireError(t) ==
    /\ "acquire" \in Faults
    /\ phase[t] = "due"
    /\ ttl = 0
    /\ ttl' \in {0, TTL}
    /\ untried' = 0
    /\ Enter(t, "idle")
    /\ UNCHANGED untilTick

\* The work is done and the deferred Release deletes the key, or fails to.
Release(t) ==
    /\ phase[t] = "working"
    /\ \/ ttl' = 0
       \/ "release" \in Faults /\ UNCHANGED ttl
    /\ Enter(t, "idle")
    /\ UNCHANGED <<untilTick, untried>>

\* The process of tick t dies.
Crash(t) ==
    /\ "crash" \in Faults
    /\ t \notin Sturdy
    /\ phase[t] # "idle"
    /\ Enter(t, "idle")
    /\ UNCHANGED <<ttl, untilTick, untried>>

\* Time passes, one unit of it.
Elapse ==
    /\ untilTick > 0
    /\ \A t \in Ticks :
        /\ phase[t] = "due" => spent[t] < MaxDelay
        /\ phase[t] = "working" => spent[t] < MaxWork
    /\ untilTick' = untilTick - 1
    /\ ttl' = IF ttl = 0 THEN 0 ELSE ttl - 1
    /\ spent' = [t \in Ticks |-> IF phase[t] = "idle" THEN 0 ELSE spent[t] + 1]
    /\ untried' = untried + 1
    /\ UNCHANGED phase

TimingNext ==
    \/ Fire
    \/ Elapse
    \/ \E t \in Ticks :
        Acquire(t) \/ LockHeld(t) \/ AcquireError(t) \/ Release(t) \/ Crash(t)

TimingSpec == TimingInit /\ [][TimingNext]_timingVars

-----------------------------------------------------------------------------
\* Every variable holds a value of its kind; no clock runs past its end.
TimingTypeOK ==
    /\ phase \in [Ticks -> {"idle", "due", "working"}]
    /\ spent \in [Ticks -> Nat]
    /\ ttl \in 0..TTL
    /\ untilTick \in 0..Period
    /\ untried \in Nat

\* The lock is "long enough to outlive a single GetBatchJobStatus round-trip"
\* and the writes after it: whoever works under the lock still has it, all of
\* its time, and is the only one.  BatchJobSync's LockOutlivesWork is this.
LockOutlivesItsWork ==
    \A t \in Ticks :
        phase[t] = "working" =>
            /\ ttl = TTL - spent[t]
            /\ ttl > 0
            /\ \A u \in Ticks \ {t} : phase[u] # "working"

\* With its clock out of sight, the lock is JobLock: a key that runs out is
\* one nobody works under, and whoever deletes a key had it.
Lock == INSTANCE JobLock WITH
    Workers <- Ticks,
    working <- {t \in Ticks : phase[t] = "working"},
    key <- ttl > 0

LockSpec == Lock!Spec

\* A lock nobody will ever release (its pod died, its release failed, or the
\* answer to its acquisition was lost) keeps the job from being looked at for
\* its TTL and no longer: the next tick of a pod that is up takes the job.
TriedInTime == untried < TTL + Period + MaxDelay

\* A dead pod's lock "expires before the next cron tick": when the cron fires,
\* a key that is there is the key of a tick at work.
DeadLockGoneByNextTick ==
    untilTick = 0 /\ ttl > 0 => \E t \in Ticks : phase[t] = "working"
=============================================================================
