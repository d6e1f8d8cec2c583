SPECIFICATION LiveSpec
CONSTANTS
    Controllers = {c1}
    Waiters = {}
    Requests <- AllRequests
    RunMayReturn = TRUE
    UserCodeMayThrow = FALSE
    ChannelsMayFail = FALSE
    RateLogging = FALSE
    NoThread = NoThread
PROPERTIES
    SelfStopCompletes
