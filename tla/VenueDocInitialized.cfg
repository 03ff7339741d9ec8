SPECIFICATION Spec
CONSTANTS
  None = None
  Failed = Failed
  Foreign = Foreign
  Garbage = Garbage
  Keys = {"pool", "amm", "mints", "bitmap", "clock", "vault0", "vault1", "pyth0", "pyth1", "tick1", "tick2", "tick3"}
  TickArrays <- MCTickArrays
  Callers = {"venue"}
  Requests = {}
  Contents <- MCContents
  Ledgers <- MCLedgers
  MaxWrites = 1
  MaxPythAge = 3
INVARIANTS
  DocumentedInitialized
