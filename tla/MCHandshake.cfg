SPECIFICATION FairSpec
CONSTANTS
    c1 = c1
    c2 = c2
    t1 = t1
    t2 = t2
    Conns = {c1, c2}
    Tokens = {t1, t2}
    TokenOf <- TwoTokens
    Skew <- Ahead
    TicksPerSecond = 2
    Window = 1
    MaxTime = 4
INVARIANTS
    AdmittedSinceDial
PROPERTIES
    EndsAgree
    KeysAgree
    PunctualIsHeard
CHECK_DEADLOCK FALSE
