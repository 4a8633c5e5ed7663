SPECIFICATION Spec
CONSTANTS
    Requests = {r1, r2, r3, r4}
    Users = {u1}
    Aliases = {1, 2, 3}
    Categories = {"http"}
    Headers = {}
    Fields = {"tags"}
    Values = {{}, {t1}}
    Null = Null
    Readers = {d1}
    Tags = {t1}
    MaxListLimit = 2
    DefaultListLimit = 1
    MaxChanges = 5
SYMMETRY RowSymmetry
INVARIANTS
    ListingIsComplete
    SummaryAddsUp
VIEW ReadersView
