SPECIFICATION Deciding
CONSTANTS
    Nothing = nothing
    NoCall = nothing
    NotCompilable = not_compilable
    Expressions <- MCExpressions
    Fields <- MCFields
    CelRows <- MCCelRows
    ScopeSets <- MCScopeSets
    Contents <- MCContents
    Records <- MCRecords
    Computes <- MCComputes
    ReadApps <- MCReadApps
    Tables <- MCTables
    Callers <- MCCallers
    Queries <- MCQueries
    ClauseSchemas <- MCClauseSchemas
    Bodies <- MCBodies
    Stored <- MCStored
    BoundedApps <- MCBoundedApps
    IRs <- MCIRs
    Requests <- MCRequests
    Conversations <- MCConversations
    Chains <- MCChains
    BoundApps <- MCBoundApps
    Products <- MCProducts
    Packages <- MCPackages
    BaseContracts <- MCBaseContracts
    Default = "tailwind"
INVARIANTS  ConfidentialityHolds WhenClausesHold BoundariesHold RoutesGuarded ConversationTranslates BindingsResolve
CHECK_DEADLOCK FALSE
