SPECIFICATION MCSpec
\* Every request may be over, and the clock stands still at its bound.
CHECK_DEADLOCK FALSE
CONSTANTS
    None = None
    seed = seed
    bob = bob
    Players = {seed, q1, q2}
    Tokens = {q1, q2}
    Requests = {q1, q2}
    RegisterInputs <- MCRegisterInputs
    LoginInputs <- MCLoginInputs
    Amounts = {0, 2, 12}
    MaxPermits = 1
    MaxModerations = 1
    MAX_LEVEL = 3
    EXP_PER_LEVEL = 1
    U64_MAX = 15
    I64_MAX = 5
    I32_MAX = 7
    Nobody = Nobody
    PlayerIds = {p1, p2}
    TokenStrings = {a, b, c}
    Callers = {c1, c2}
    Ttls = {0, 1, 9}
    MaxTtl = 5
    MaxNow = 2
INVARIANTS WholeRegistrations PermitsExact AnswersTrue ExpExact ServedInSession
PROPERTIES SessionsEarned AllAnswered StoreImplementsSessions
