SPECIFICATION CommandsSpec
CONSTANTS
    Lines <- MCLines
    Commands <- MCCommands
    RcFiles <- MCRcFiles
    Names = {"v"}
    Values = {"a"}
    NoRef = NoRef
    Unset = Unset
    Empty = Empty
    OwnSql = OwnSql
    MaxTyped = 4
    Tables <- MCTables
    Specs <- MCSpecs
    Absent = Absent
    Objects <- MCObjects
    TableSets <- MCTableSets
    Members <- MCMembers
    Backends = {7}
    Patterns <- MCPatterns
    NamesTyped <- ObjectNames
    Schemas <- MCSchemas
    SchemaOrder <- MCSchemaOrder
    Spelling <- MCSpelling
INVARIANTS
    SettingsAgree
    ListingsSelect
    LookupsFind
    TypedRowsArrive
    FileRoundTrips
PROPERTIES
    ResultsAsChosen
    BufferIsSound
CHECK_DEADLOCK FALSE
