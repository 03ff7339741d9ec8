SPECIFICATION ClientSpec
CONSTANTS
  SOL = SOL
  USDC = USDC
  RAY = RAY
  TAX = TAX
  ProgramId = ProgramId
  TitanPda = TitanPda
  WrongAta = WrongAta
  OtherKey = OtherKey
  Others = {ProgramId, TitanPda, WrongAta, OtherKey}
  NoLedger = NoLedger
  NoFee = NoFee
  Mints <- MCMints
  NativeMint = SOL
  Token2022 = {RAY, TAX}
  FeeMints = {TAX}
  Requests <- MCRequests
  Ledgers <- MCLedgers
  Pools <- MCPools
  Paths <- MCPaths
  Fees = {0, 1}
  MaxEpoch = 2
  Amount = 1
  U8 = 256
  ROUTE_WEIGHT_ALL = 2
  MAX_SWAPS = 3
  MAX_MINTS = 4
  BITMAP_BITS = 256
  HonestVenues = TRUE
  MaxTransactions = 1
INVARIANTS
  SlicesAreLegs
  LegsTradeRouteAccounts
  NoFeeWithheld
  BuiltRoutesAreWellFormed
CHECK_DEADLOCK FALSE
