SPECIFICATION ProcessFairSpec
CONSTANTS
    j1 = j1
    j2 = j2
    t1 = t1
    t2 = t2
    t3 = t3
    p1 = p1
    p2 = p2
    p3 = p3
    NoJob = NoJob
    Never = Never
    Jobs = {j1, j2}
    Nameless = {j2}
    Ticks = {t1, t2}
    Pods = {p1, p2}
    PodOf <- PodOfTick
    Settings <- PodSettings
    Normalized <- Spellings
    NotANumber = "many"
    Unreadable = Unreadable
    BadSchedules = {"", "never"}
    Usage <- MixedUsage
    Outcomes = {"PARTIALLY_SUCCEEDED"}
    CancelEnds = {"FAILED"}
    Faults = {"crash", "acquire", "poll", "save", "tokens", "release"}
    Healthy = {t2}
    LockOutlivesWork = FALSE
INVARIANTS
    RowCoherent
    VerdictMatchesProvider
    ChargesAreBacked
PROPERTIES
    EndedJobSettles
    StopCompletes
    StopGetsNearer
