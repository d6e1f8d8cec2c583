SPECIFICATION LiveSpec
CONSTANTS
    d1 = d1
    d2 = d2
    d3 = d3
    d4 = d4
    m1 = m1
    Devices <- TwoDevices
    Monitors <- OneMonitor
    CrashesAllowed = TRUE
PROPERTIES
    AbandonedCleanedUp
CHECK_DEADLOCK FALSE
