SPECIFICATION Spec
CONSTANTS
    Requests = {r1, r2, r3, r4}
    Users = {u1}
    Aliases = {a1}
    Categories = {"http", "sql"}
    Headers = {h1}
    Fields = {}
    Values = {v1}
    Null = Null
    MaxConns = 3
SYMMETRY RequestSymmetry
INVARIANTS
    OneActivePerAlias
    HistoryIsLinear
    HistoryTellsActiveRow
    RepliesAreTruthful
PROPERTIES
    RowLifecycle
    OverlapOnlyFromStalePlan
