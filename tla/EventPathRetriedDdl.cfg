SPECIFICATION Spec
CONSTANTS
    Paths <- Nothing
    Registries <- Nothing
    Histories <- RetriedInPlace
    Servers <- Nothing
    Sessions <- Nothing
    Reported <- Nothing
INVARIANT SchemasFit
CHECK_DEADLOCK FALSE
