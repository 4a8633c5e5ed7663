SPECIFICATION DialogSpec
CONSTANTS
    Docs <- MCDocs
    Selections <- MCSelections
    Projections <- MCProjections
    Budgets = {3, 12, 20}
    Caps = {0, 14}
    MemberNames = {"a", "count", "x..y", "x^y", "long"}
    NameBytes <- MCNameBytes
    DottedNames = {"x..y"}
    ControlNames = {"x^y"}
    MaxAllowedBytes = 24
    MaxJsonPaths = 3
    MaxJsonPathLen = 14
    MaxPreviewPaths = 4
    MaxPreviewBytes = 40
    MaxPreviewDepth = 2
    ArraySample = 2
    MaxCalls = 3
    None = None
INVARIANTS
    PreviewIsReliable
PROPERTIES
    RaisingLeads
