SPECIFICATION Spec
SYMMETRY UserSymmetry
CONSTANTS
    Users = {ana, bo}
    None = None
    Workers = {w1}
    Serial = TRUE
    Failures = TRUE
    Operations = {"create", "accept", "checkin", "checkout", "suspend", "evaluate"}
    MaxSessions = 2
    SEED_POINTS = 1
    NumSlots = 2
    TicksPerSlot = 1
    DayStart = 1
    DeadlineLead = 1
    MaxTime = 1
    NEGATIVE_BALANCE_LIMIT <- MCLimit
    Schedules <- MCSchedules
    Acquainted <- MCStrangers
INVARIANTS
    SuspendedNotConfirmed
    CompletedMeansPaid
    LedgerJustified
