SPECIFICATION Spec
CHECK_DEADLOCK FALSE
SYMMETRY UserSymmetry
CONSTANTS
    Users = {ana, bo}
    None = None
    Workers = {w1}
    Serial = TRUE
    Failures = TRUE
    Operations = {"create", "accept", "reject", "checkin", "checkout", "cancel", "no_show"}
    MaxSessions = 2
    SEED_POINTS = 1
    NumSlots = 2
    TicksPerSlot = 1
    DayStart = 1
    DeadlineLead = 1
    MaxTime = 3
    NEGATIVE_BALANCE_LIMIT <- MCLimit
    Schedules <- MCSchedules
    Acquainted <- MCStrangers
INVARIANTS
    SerialInv
    HeldIsBacked
    BooksBalance
    NoDoubleBooking
    LedgerJustified
    FaultOnlyWithoutCare
PROPERTIES
    StatusForward
