SPECIFICATION Spec
SYMMETRY WorkerSymmetry
CONSTANTS
    Users = {1, 2}
    MaxJoint = 2
    DEFAULT_REQUIRED_JOINT_COUNT = 2
    MIN_REQUIRED_JOINT_COUNT = 2
    Counts = {1, 2}
    Workers = {w1, w2}
    Serial = FALSE
    Failures = TRUE
    Operations = {"grant", "schedule", "confirm", "set", "demote", "solo"}
INVARIANTS
    TrustInv
    CountBacked
    SoloEarned
