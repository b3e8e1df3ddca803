SPECIFICATION FairSpec
CONSTANTS
    Servers = {s1}
    Procs = {p1, p2}
    None = None
    Ops = {"all", "single", "edit", "set", "delete"}
    Strikes = 3
INVARIANTS
    OrdersHold
PROPERTIES
    DeadIsMarkedDown
