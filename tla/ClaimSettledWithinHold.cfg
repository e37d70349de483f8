SPECIFICATION Spec
CHECK_DEADLOCK FALSE
CONSTANTS
    Users = {ana, bo}
    None = None
    Workers = {w1, w2}
    Serial = FALSE
    Failures = FALSE
    Operations = {"create", "accept", "checkin", "checkout"}
    MaxSessions = 1
    SEED_POINTS = 1
    NumSlots = 1
    TicksPerSlot = 1
    DayStart = 0
    DeadlineLead = 0
    MaxTime = 1
    NEGATIVE_BALANCE_LIMIT <- MCLimit
    Schedules <- MCSchedules
    Acquainted <- MCStrangers
INVARIANTS
    SettledWithinHold
