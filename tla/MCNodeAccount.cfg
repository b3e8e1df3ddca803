CONSTANTS
    Workers = {w1, w2}
    Passwords = {p1, p2, p3, p4}
    None = None
    Grain = 2
    Limit = 1
    Mixes = {{"create", "reset", "delete", "activate"},
             {"create", "provision", "reset"},
             {"create", "sync", "activate", "delete"},
             {"provision", "sync", "activate"}}
    MaxTraffic = 2
    MaxFaults = 1

SPECIFICATION FairSpec

INVARIANTS
    ShownOpens
    ChargeBounded

PROPERTIES
    QuotaEnds
