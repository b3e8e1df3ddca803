SPECIFICATION PaySpec
CONSTANTS
    None = None
    Servers = {s1, s2}
    Users = {u1, u2, u3}
    Workers = {w1, w2}
    MaxUsers <- Small
    MaxOrders = 3
    MaxChanges = 3
SYMMETRY PaymentSymmetry
INVARIANTS
    OvershootBounded
    PaymentsInStep
CHECK_DEADLOCK FALSE
