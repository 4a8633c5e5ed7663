SPECIFICATION FairSpec
CONSTANTS
    Requests = {r1, r2, r3}
    Users = {u1}
    Aliases = {a1}
    Categories = {"http"}
    Headers = {}
    Fields = {"description"}
    Values = {v1, v2}
    Null = Null
    MaxConns = 2
PROPERTIES
    ImplementsLedger
    EveryRequestIsAnswered
