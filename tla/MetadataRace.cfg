SPECIFICATION Spec
CONSTANTS
    Docs = {d1}
    d1 = d1
    ts = ts
    body = body
    Fields <- SomeFields
    TimeField = ts
    Body = body
    Sources <- SomeSources
    Retentions <- SomeRetentions
    Strict = FALSE
    Absent = Absent
    Torn = Torn
    NoJob = NoJob
    MaxFields = 2
    MaxTime = 2
    MaxFaults = 2
CHECK_DEADLOCK FALSE
INVARIANTS TypeOK DocsMatchMappings MappingsSurvive ExpiryIsOwn TailRemembers
