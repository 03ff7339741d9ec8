SPECIFICATION Spec
CONSTANTS
  SOL = SOL
  USDC = USDC
  RAY = RAY
  ProgramId = ProgramId
  Others = {ProgramId}
  NoLedger = NoLedger
  Mints <- MCMints
  NativeMint = SOL
  Token2022 = {RAY}
  Requests <- HostileRequests
  Ledgers <- RichLedgers
  ROUTE_WEIGHT_ALL = 2
  MAX_SWAPS = 3
  MAX_MINTS = 4
  BITMAP_BITS = 24
  HonestVenues = FALSE
  MaxTransactions = 2
INVARIANTS
  TypeOK
PROPERTIES
  CustodyKept
  OutputSwept
CHECK_DEADLOCK FALSE
