SPECIFICATION Spec
CONSTANTS
    j1 = j1
    j2 = j2
    j3 = j3
    t1 = t1
    t2 = t2
    p1 = p1
    p2 = p2
    NoJob = NoJob
    Never = Never
    Jobs = {j1}
    Nameless = {}
    Ticks = {t1, t2}
    Pods = {p1, p2}
    PodOf <- PodOfTick
    Usage <- SomeUsage
    Outcomes = {"SUCCEEDED"}
    CancelEnds = {}
    Faults = {}
    Healthy = {t1, t2}
    LockOutlivesWork = FALSE
PROPERTIES
    TerminalIsFinal
