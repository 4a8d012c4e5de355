\* Two calculations that overlap, without crashes: what the admin is to pay.
CONSTANTS
    b1 = b1
    b2 = b2
    Requests = {r1, r2}
    Buyers = {b1, b2}
    Supply = 3
    Calls <- SomeCalls
    Calculations = {c1, c2}
    Readers = {}
    Scope <- Everyone
    Distributor = d
    MayCrash = FALSE
SPECIFICATION Spec
SYMMETRY Interchangeable
INVARIANTS PayoutsWithinNet
CHECK_DEADLOCK FALSE
