SPECIFICATION Spec
CONSTANTS
    d1 = d1
    d2 = d2
    d3 = d3
    d4 = d4
    m1 = m1
    Devices <- FourDevices
    Monitors = {}
    CrashesAllowed = FALSE
SYMMETRY DeviceSymmetry
INVARIANTS
    NeverUndercounts
    NoLeak
CHECK_DEADLOCK FALSE
