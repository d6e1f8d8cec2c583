SPECIFICATION LiveSpec
CONSTANTS
    Callers <- TwoCallers
    MaxQueue = 4
INVARIANTS
    LegalQueue
    NoLostNotification
PROPERTIES
    RunEnds
CHECK_DEADLOCK FALSE
