SPECIFICATION Spec
CONSTANTS
    a1 = a1
    Accounts = {a1, a2}
    Workers = {w1, w2}
    None = None
    Protocol <- Mixed
    Ops = {"suspend", "activate", "delete", "cleanup", "expire", "bandwidth",
           "extend", "update", "create", "provision", "reset"}
    Faults = {"nonzero", "lost", "unacked", "crash"}
    TicksPerDay = 1
    PlanDays = {1}
    DateInputs = {1}
    GraceDays = 0
    MaxTime = 1
    MaxExpire = 2
CONSTRAINT OneAccount
SYMMETRY WorkerSymmetry
INVARIANTS
    TypeOK
    BlockedIsLockedOut
    NoOrphanCredential
    ExpiryInStep
    AuditMatchesStatus
PROPERTIES
    CommitProvisioned
    OnlySalesMoveDates
CHECK_DEADLOCK FALSE
