SPECIFICATION Spec
CONSTANTS
    Scenarios <- Installations
    MaxCount = 2
    MaxFaults = 1
INVARIANTS OneWriter AcknowledgedSaveSurvives
PROPERTY RecordNeverMovesBack
CHECK_DEADLOCK FALSE
