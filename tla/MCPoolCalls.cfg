SPECIFICATION FairSpec
CONSTANTS
    Calls = {c1, c2}
    Databases = {d1, d2}
    Null = Null
    MaxConnections = 1
PROPERTY ReplacedPoolsDrain
INVARIANTS
    QueriesAreGuarded
    AnsweredLeavesNothing
    ConnectionsAreOwned
