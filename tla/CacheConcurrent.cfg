SPECIFICATION FairSpec
CONSTANTS
  amm = amm
  mint = mint
  None = None
  Failed = Failed
  Keys = {amm, mint}
  Callers = {c1, c2}
  Contents <- MCContents
  Ledgers <- MCLedgers
  Queries <- MCQueries
  MaxWrites = 2
INVARIANTS
  TypeOK
  FreshSinceReset
PROPERTIES
  KeepsContract
  CallsReturn
CHECK_DEADLOCK FALSE
