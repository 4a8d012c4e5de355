CONSTANTS
  a1 = a1
  d1 = d1
  Admins <- OneAdmin
  Developers <- OneDeveloper
  Supply = 2
  MayCrash = FALSE
  MaxSeq = 3
  MaxSold = 2
SPECIFICATION Spec
INVARIANT
  FailedCanRetry
