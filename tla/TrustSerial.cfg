SPECIFICATION Spec
CONSTANTS
    Users = {1, 2}
    MaxJoint = 2
    DEFAULT_REQUIRED_JOINT_COUNT = 2
    MIN_REQUIRED_JOINT_COUNT = 1
    Counts = {1, 2, 3}
    Workers = {w1}
    Serial = TRUE
    Failures = FALSE
    Operations = {"grant", "schedule", "confirm", "set", "demote", "solo"}
INVARIANTS
    CountExact
    LevelIsHistory
PROPERTIES
    UnlockMeetsBoth
    PromotedWhenDue
