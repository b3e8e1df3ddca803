SPECIFICATION Spec
CONSTANTS
    a1 = a1
    Accounts = {a1}
    Workers = {w1}
    None = None
    Protocol <- AllSsh
    Ops = {"create", "expire", "extend"}
    Faults = {}
    TicksPerDay = 1
    PlanDays = {1}
    DateInputs = {}
    GraceDays = 1
    MaxTime = 2
    MaxExpire = 4
INVARIANTS
    ActiveCanLogIn
CHECK_DEADLOCK FALSE
