SPECIFICATION Spec
CONSTANTS
    Words <- MCWords
    MaxTags = 2
    MaxSecretHeaders = 2
    MaxQueryKeys = 2
    MaxHeaders = 2
    MaxParams = 2
    MaxJsonPaths = 2
    MaxInt = 2000000
    Keys = {k1, k2}
    HttpRegistrations <- MCHttpRegistrations
    SqlRegistrations <- MCSqlRegistrations
    ApiInputs <- MCApiInputs
    QueryInputs <- MCQueryInputs
    SchemaInputs <- MCSchemaInputs
    ApiOutputs <- MCApiOutputs
    QueryOutputs <- MCQueryOutputs
    Readings <- MCReadings
INVARIANTS
    AcceptedIsStored
    SentIsGranted
    RecordsAreKept
    RecordsAreSafe
