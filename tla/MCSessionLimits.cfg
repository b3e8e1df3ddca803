SPECIFICATION SessionFairSpec
CONSTANTS
    Users = {u1}
    StartsWith <- Unrelated
    Workers = {w1, w2}
    Limits = {1}
    MaxStartups = 2
    MaxPid = 3
    MaxEvents = 1
INVARIANTS
    LoginsBounded
PROPERTIES
    OnlyExcessIsKilled
    SomeRunCompletes
    LimitIsEnforced
    GhostRowsVanish
