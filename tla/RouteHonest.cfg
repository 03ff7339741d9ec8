SPECIFICATION Spec
CONSTANTS
  SOL = SOL
  USDC = USDC
  RAY = RAY
  ProgramId = ProgramId
  Others = {ProgramId}
  NoLedger = NoLedger
  Mints <- MCMints
  NativeMint = SOL
  Token2022 = {RAY}
  Requests <- HonestRequests
  Ledgers <- MCLedgers
  ROUTE_WEIGHT_ALL = 2
  MAX_SWAPS = 3
  MAX_MINTS = 4
  BITMAP_BITS = 24
  HonestVenues = TRUE
  MaxTransactions = 2
INVARIANTS
  HonestNeverRejected
PROPERTIES
  NoResidue
  UserPaysExactly
  NoStrayAccounts
CHECK_DEADLOCK FALSE
