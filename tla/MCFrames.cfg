SPECIFICATION Spec
CONSTANTS
    Configurations <- MCConfigurations
    HistoryMax = 2
    Validity = 1
INVARIANTS
    NoExtraParts
    SameSchedules
    SlotsAccounted
PROPERTIES
    ScheduleIsBest SchedulesArrive
CHECK_DEADLOCK FALSE
