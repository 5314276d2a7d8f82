SPECIFICATION Spec
CONSTANTS
    j1 = j1
    j2 = j2
    j3 = j3
    t1 = t1
    t2 = t2
    p1 = p1
    p2 = p2
    NoJob = NoJob
    Never = Never
    Jobs = {j1, j2, j3}
    Nameless = {j3}
    Ticks = {t1, t2}
    Pods = {p1, p2}
    PodOf <- PodOfTick
    Usage <- MixedUsage
    Outcomes = {"SUCCEEDED"}
    CancelEnds = {"CANCELLED"}
    Faults = {"crash", "acquire", "poll", "save", "tokens", "release"}
    Healthy = {t1, t2}
    LockOutlivesWork = TRUE
INVARIANTS
    TypeOK
    MutualExclusion
    TokensOnlyWhenCompleted
PROPERTIES
    TerminalIsFinal
    LifecycleSpec
    LocksSpec
