CONSTANTS
  p1 = p1
  p2 = p2
  s1 = s1
  s2 = s2
  Projects <- TwoProjects
  Sessions <- TwoSessions
  NoProject = NoProject
  Modes = {"self_custody", "regenx_custody"}
  MaxCalls = 3
  Roles = {"sponsor"}
  Matching = {"sponsor"}
  Sponsor = "sponsor"
  MaxTries = 2
SPECIFICATION Spec
SYMMETRY Interchangeable
INVARIANTS
  TypeOK
  
  
  SymbolsCountUp
  GivesUpBeaten
  ApprovedIsApplied
  ModeWasApproved
  BlockedIsOpen
  LockedWasReady
CHECK_DEADLOCK FALSE
