SPECIFICATION Spec
CONSTANTS
  MaxAmount = 6
  UnitTenth = 2
  StepDivisor = 2
  Curves <- MCCurves
  Prices <- MCPrices
  None = None
INVARIANTS
  TypeOK
  ProbesFailForCause
  PriceBracketsChords
