SPECIFICATION Spec
SYMMETRY Symmetry
CONSTANTS
    None = None
    e1 = e1
    p1 = p1
    p2 = p2
    u1 = u1
    u2 = u2
    Emails = {e1}
    Phones = {p1, p2}
    Uids = {u1, u2}
    UidEmail <- UidEmails
    Nonces = {n1}
    Workers = {w1, w2}
    Mixes <- SmallMixes
    MaxAccounts = 2
    MaxTokens = 3
    MaxTime = 3
    MaxCodes = 2
    MaxLinks = 2
    MAX_LOGIN_ATTEMPTS = 2
    LOCKOUT_DURATION = 1
    MAX_CODE_ATTEMPTS = 2
    PHONE_VERIFICATION_TTL = 1
    EMAIL_VERIFICATION_TTL = 1
    NONCE_TTL = 1
    REFRESH_TOKEN_TTL = 2
    WITHDRAWAL_GRACE = 1
CHECK_DEADLOCK FALSE
INVARIANTS
    TypeOK
    NoOrphans
    OneLivePerLogin
    WithdrawnHasNoSession
    PhoneHeldOnce
    SanctionSealed
    LockedMeansFull
    GuessesBounded
PROPERTIES
    Registered
    LinkNeverMoves
    SuspensionHolds
