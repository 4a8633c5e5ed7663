SPECIFICATION Spec
CONSTANTS
    Requests = {r1, r2}
    Users = {u1, u2}
    Aliases = {a1}
    Categories = {"http", "sql"}
    Headers = {h1}
    Fields = {}
    Values = {v1}
    Null = Null
    Calls = {c1}
    MaxChanges = 3
SYMMETRY RowSymmetry
INVARIANTS
    CallsUseOwnCredentials
    RequestsAreGranted
    RecordsAreTruthful
    AnsweredIsRecorded
