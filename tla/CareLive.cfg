SPECIFICATION FairSpec
CONSTANTS
    Users = {ana, bo}
    None = None
    Workers = {w1}
    Serial = TRUE
    Failures = FALSE
    Operations = {"create", "accept", "checkin", "checkout", "cancel", "no_show", "suspend"}
    MaxSessions = 1
    SEED_POINTS = 1
    NumSlots = 1
    TicksPerSlot = 1
    DayStart = 1
    DeadlineLead = 1
    MaxTime = 2
    NEGATIVE_BALANCE_LIMIT <- MCLimit
    Schedules <- MCSchedules
    Acquainted <- MCStrangers
PROPERTIES
    HoldResolved
