SPECIFICATION FairSpec
CONSTANTS
    a1 = a1
    Accounts = {a1, a2}
    Workers = {w1, w2}
    None = None
    Protocol <- Mixed
    Ops = {"create", "expire", "cleanup", "suspend"}
    Faults = {"nonzero"}
    TicksPerDay = 1
    PlanDays = {1}
    DateInputs = {}
    GraceDays = 1
    MaxTime = 2
    MaxExpire = 2
PROPERTIES
    OverdueLosesAccess
    AutoCleanup
CHECK_DEADLOCK FALSE
