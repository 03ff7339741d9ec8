SPECIFICATION Spec
CONSTANTS
  tick_spacing = 2
  TICK_ARRAY_SIZE = 2
  MIN_TICK <- MCMinTick
  MAX_TICK = 7
  DefaultStarts <- MCDefaultStarts
  max_one_side_tick_arrays = 2
  Scale = 2
  Cores <- MCCores
  Amounts = {1, 2, 3, 5, 9, 14, 40}
  None = None
  Missing = Missing
INVARIANTS
  TypeOK
  LiquidityTracksTick
  QuoteExact
  IlliquidIsTrue
  QuotesUpToReach
  WalkedListed
PROPERTIES
  Terminates
