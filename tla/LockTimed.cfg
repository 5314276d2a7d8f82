SPECIFICATION TimingSpec
CONSTANTS
    t1 = t1
    t2 = t2
    t3 = t3
    t4 = t4
    Ticks = {t1, t2, t3, t4}
    Sturdy = {t1, t2}
    TTL = 6
    Period = 3
    MaxDelay = 2
    MaxWork = 5
    Faults = {"crash", "acquire", "release"}
INVARIANTS
    TimingTypeOK
    LockOutlivesItsWork
    TriedInTime
PROPERTIES
    LockSpec
