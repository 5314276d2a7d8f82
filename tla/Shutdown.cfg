SPECIFICATION DeploymentFairSpec
CONSTANTS
    c1 = c1
    c2 = c2
    api = api
    m1 = m1
    m2 = m2
    k1 = k1
    Calls = {c1, c2}
    Stubborn = {c2}
    Faults = {"serve", "panic"}
    Api = api
    Migrators = {m1, m2}
    Rerun = {m1}
    Clients = {k1}
    Casts = {{api, m1}, {api, m2}, {m1, m2, k1}}
    Settings <- Told
    Normalized <- Spellings
    NotANumber = "many"
    Unreadable = Unreadable
    BadSchedules = {""}
    Found <- Older
INVARIANTS
    ServerTypeOK
    NothingLeftBehind
    ClosingIsAnnounced
    NoClientHoldsUpTheEnd
    MigratedMeansCurrent
    TablesBeforeCalls
PROPERTIES
    EndsOnceSignalled
    ServesInTheEnd
CHECK_DEADLOCK FALSE
