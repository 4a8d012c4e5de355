CONSTANTS
    r1 = r1
    r2 = r2
    r3 = r3
    Requests = {r1, r2, r3}
    b1 = b1
    b2 = b2
    Buyers = {b1, b2}
    Supply = 3
    Calls <- MCCalls
    NoOne = NoOne
SPECIFICATION FairSpec
INVARIANTS
    OneRowPerBuyer
PROPERTIES
    NotFoundOnlyWhenSoldOut
    ImplementsOwnershipLedger
    TransferEnds
CHECK_DEADLOCK FALSE
