SPECIFICATION Spec
CONSTANTS
    Callers = {a, b}
    Nonces = {n}
    max_calls = 2
    window = 3
    ttl = 2
    Ticks = 2
    MaxTime = 6
SYMMETRY Symmetry
INVARIANTS
    RetryHonest
PROPERTIES
    LimitsKept
