SPECIFICATION ControlSpec
CONSTANTS
    Controllers <- WithPlugin
    Waiters = {}
    Requests <- AllRequests
    RunMayReturn = TRUE
    UserCodeMayThrow = TRUE
    ChannelsMayFail = TRUE
    RateLogging = FALSE
    NoThread = NoThread
    Interactive = TRUE
    Signals = TRUE
    MaxCalls = 3
INVARIANTS
    OwnerRequests
CHECK_DEADLOCK FALSE
