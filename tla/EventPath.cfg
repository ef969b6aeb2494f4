SPECIFICATION Spec
CONSTANTS
    Paths <- PathAll
    Registries <- RegistryAll
    Histories <- HistoryAll
    Servers <- ServerAll
    Sessions <- SessionAll
    Reported <- ReportedAll
INVARIANTS
    ReplicaIsSnapshot
    IdentityKept
    ReadAsWritten
    SchemasFit
PROPERTIES
    RecordsOfOthersStay
    EverythingArrives
CHECK_DEADLOCK FALSE
