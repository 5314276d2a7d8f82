SPECIFICATION ProcessSpec
CONSTANTS
    j1 = j1
    j2 = j2
    t1 = t1
    t2 = t2
    t3 = t3
    p1 = p1
    p2 = p2
    p3 = p3
    NoJob = NoJob
    Never = Never
    Jobs = {j1, j2}
    Nameless = {j2}
    Ticks = {t1, t2, t3}
    Pods = {p1, p2, p3}
    PodOf <- PodOfThree
    Settings <- PodSettings
    Normalized <- Spellings
    NotANumber = "many"
    Unreadable = Unreadable
    BadSchedules = {"", "never"}
    Usage <- SomeUsage
    Outcomes = {"SUCCEEDED", "FAILED"}
    CancelEnds = {}
    Faults = {"acquire", "poll", "release"}
    Healthy = {t1, t2, t3}
    LockOutlivesWork = FALSE
INVARIANTS
    CompletedJobsAreBilled
