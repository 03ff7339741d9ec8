SPECIFICATION Spec
CONSTANTS
  amm = amm
  mint = mint
  None = None
  Failed = Failed
  Keys = {amm, mint}
  Callers = {c1}
  Contents <- MCContents
  Ledgers <- MCLedgers
  Queries <- DocQueries
  MaxWrites = 2
INVARIANTS
  DocumentedSnapshot
CHECK_DEADLOCK FALSE
