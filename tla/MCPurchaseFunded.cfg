CONSTANTS
    r1 = r1
    r2 = r2
    Requests = {r1, r2}
    b1 = b1
    b2 = b2
    Buyers = {b1, b2}
    Supply = 2
    o1 = o1
    o2 = o2
    o3 = o3
    Orders = {o1, o2, o3}
    c1 = c1
    Cancels = {}
    x1 = x1
    x2 = x2
    Envelopes = {x1, x2}
    NoOrder = NoOrder
    NoEnvelope = NoEnvelope
    NoOne = NoOne
    Calls <- FundedCalls
SPECIFICATION FairSpec
PROPERTIES
    MovedCompletes
CHECK_DEADLOCK FALSE
