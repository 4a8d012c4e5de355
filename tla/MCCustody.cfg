CONSTANTS
  s1 = s1
  r1 = r1
  t1 = t1
  Sessions <- OneSession
  Retries <- OneRetry
  Transfers <- OneTransfer
  Verdicts = {"approved", "rejected"}
  Decisions = {"approved"}
  OverrideEnabled = TRUE
  MaxApplicants = 1
  Connected = {"testnet"}
  Placeholders = {"fireblocks"}
  DefaultProvider = "testnet"
  TxStatuses = {"submitted", "confirmed"}
  a1 = a1
  a2 = a2
  Addresses = {a1, a2}
  NoAddress = NoAddress
  MaxTransfers = 1
SPECIFICATION CustodySpec
SYMMETRY Interchangeable
INVARIANTS
  
  
  FailClosed
  MovedToCreated
  BooksFollowMoves
