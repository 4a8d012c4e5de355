\* Two calculations and two readers, against two purchases and crashes.
CONSTANTS
    b1 = b1
    b2 = b2
    Requests = {r1, r2}
    Buyers = {b1, b2}
    Supply = 3
    Calls <- SomeCalls
    Calculations = {c1, c2}
    Readers = {g1, g2}
    Scope <- Everyone
    Distributor = d
    MayCrash = TRUE
SPECIFICATION Spec
SYMMETRY Interchangeable
INVARIANTS TypeOK RecordsEarned RecordsWithinNet
PROPERTIES RecalculationRepairs BackfillHeals
CHECK_DEADLOCK FALSE
