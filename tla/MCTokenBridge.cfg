SPECIFICATION FairSpec
CONSTANTS
    Tokens = {t1, t2}
    Handlers = {h1, h2}
    None = None
    Torn = Torn
    DiskFaults = TRUE
INVARIANTS
    FailClosed
    RestartIsFaithful
PROPERTIES
    ImplementsTable
    RequestsEnd
