SPECIFICATION Spec
CONSTANTS
    None = none
    Schemas <- MCSchemas
    RenameConfigs <- MCRenames
    MaxBoots = 2
INVARIANTS DiffExplains TiersSound IntrospectionAgrees
PROPERTIES NothingLost 
CHECK_DEADLOCK FALSE
