SPECIFICATION GatewayFairSpec
CONSTANTS
    c1 = c1
    c2 = c2
    n1 = n1
    n2 = n2
    i1 = i1
    i2 = i2
    t1 = t1
    t2 = t2
    p1 = p1
    p2 = p2
    T = T
    v1 = v1
    BadSchema = BadSchema
    Unset = Unset
    Null = Null
    NoConfig = NoConfig
    NoTemplate = NoTemplate
    NoName = NoName
    Never = Never
    NoRow = NoRow
    Templates = {T}
    Values = {v1, BadSchema}
    Contents <- OneVersion
    Wire <- WireOf
    Streams <- OneStream
    Calls = {c1}
    Names = {n1}
    Ids = {i1, i2}
    Failures = {"crash", "submit", "persist"}
    Ticks = {t1, t2}
    Pods = {p1, p2}
    PodOf <- PodOfTick
    Usage <- SomeUsage
    Outcomes = {"SUCCEEDED", "FAILED"}
    CancelEnds = {}
    Faults = {"crash", "save"}
    LockOutlivesWork = FALSE
    Healthy = {t2}
INVARIANTS
    AcceptedJobsAreTracked
    LostJobsAreNotBilled
PROPERTIES
    SchedulerSpec
    AcceptedJobsSettle
