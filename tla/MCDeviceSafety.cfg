SPECIFICATION Spec
CONSTANTS
    Controllers = {c1, c2}
    Waiters = {q1}
    Requests <- AllRequests
    RunMayReturn = TRUE
    UserCodeMayThrow = TRUE
    ChannelsMayFail = TRUE
    RateLogging = TRUE
    NoThread = NoThread
INVARIANTS
    NoLostInterrupt
PROPERTIES
    LifecycleSpec
