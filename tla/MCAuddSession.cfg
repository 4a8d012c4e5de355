CONSTANTS
    r1 = r1
    r2 = r2
    r3 = r3
    Requests = {r1, r2, r3}
    NoOne = NoOne
    MaxTroubles = 3
    MaxTokens = 12
SPECIFICATION FairSpec
INVARIANTS
    OneAuthenticationAtATime
    
    SurvivesTroubles
PROPERTIES
    RefreshTokenOnce
    RequestsEnd
CHECK_DEADLOCK FALSE
