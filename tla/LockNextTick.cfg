SPECIFICATION TimingSpec
CONSTANTS
    t1 = t1
    t2 = t2
    t3 = t3
    t4 = t4
    Ticks = {t1, t2, t3, t4}
    Sturdy = {t1, t2}
    TTL = 6
    Period = 3
    MaxDelay = 0
    MaxWork = 1
    Faults = {"crash"}
INVARIANTS
    DeadLockGoneByNextTick
