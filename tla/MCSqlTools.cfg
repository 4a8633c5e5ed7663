SPECIFICATION ToolsSpec
CONSTANTS
    BuiltinDenied = {"sleep"}
    MetadataSchemas = {"pg_catalog", "information_schema"}
    PgWords = {"pg_class"}
    SearchPath = {"pg_catalog", "public"}
    Functions <- MCFunctions
    ValueFunctions = {"user"}
    HiddenNamespaces <- MCHidden
    EnvelopeBytes = 8
    ItemBytes = 6
    MoreBytes = 6
    NumberBytes = 2
    MaxSchemaBytes = 80
    DefaultNamespace <- B
    Catalogs <- MCCatalogs
    Definitions <- MCDefinitions
    Limits = {1, 2, 3}
    SchemaBudgets = {31, 36, 80}
    Programs <- MCPrograms
    Policies <- MCPolicies
    Results <- MCResults
    RowLimits = {1, 2, 3}
    MaxTableChanges = 2
    MaxPages = 5
INVARIANTS
    TablesAreListed
    DetailIsOfTable
    
    ColumnsAreRows
