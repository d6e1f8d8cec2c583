SPECIFICATION ControlLiveSpec
CONSTANTS
    Controllers <- ControlOnly
    Waiters = {}
    Requests <- AllRequests
    RunMayReturn = TRUE
    UserCodeMayThrow = TRUE
    ChannelsMayFail = FALSE
    RateLogging = FALSE
    NoThread = NoThread
    Interactive = FALSE
    Signals = TRUE
    MaxCalls = 0
PROPERTIES
    StartupEnds
    ProcessEnds
    SignalEndsProcess
CHECK_DEADLOCK FALSE
