SPECIFICATION SubmitSpec
CONSTANTS
    c1 = c1
    c2 = c2
    T = T
    v1 = v1
    v2 = v2
    BadSchema = BadSchema
    Unset = Unset
    Null = Null
    NoConfig = NoConfig
    NoTemplate = NoTemplate
    NoName = NoName
    NoRow = NoRow
    Templates = {T}
    Values = {v1, v2, BadSchema}
    Contents <- TwoVersions
    Wire <- WireOf
    Streams <- AllStreams
    Calls = {c1}
    Names = {n1, n2}
    Ids = {i1, i2}
    Failures = {"crash", "recv", "lookup", "submit", "persist", "reply", "collision"}
PROPERTIES
    CreatedAtIsKept
