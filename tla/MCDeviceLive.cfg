SPECIFICATION LiveSpec
CONSTANTS
    Controllers = {c1, c2}
    Waiters = {}
    Requests <- AllRequests
    RunMayReturn = TRUE
    UserCodeMayThrow = TRUE
    ChannelsMayFail = TRUE
    RateLogging = FALSE
    NoThread = NoThread
PROPERTIES
    TransientStatesEnd
    WaitingCallReturns
    ExceptionReachesError
    EndTerminatesWorker
