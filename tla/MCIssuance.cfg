CONSTANTS
  a1 = a1
  d1 = d1
  Admins <- OneAdmin
  Developers <- OneDeveloper
  Supply = 2
  MayCrash = TRUE
  MaxSeq = 3
  MaxSold = 4
SPECIFICATION FairSpec
INVARIANTS
  
  InventoryIsComplete
  OfferedIsMinted
  LiveIsCompleted
PROPERTY
  CallsEnd
