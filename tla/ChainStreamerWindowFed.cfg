SPECIFICATION Spec
CONSTANTS
  SPX = SPX
  None = None
  Underlyings <- MCUnderlyings
  Strikes <- MCStrikes
  Chains <- OneChain
  Prices <- MCPrices
  KindOrder <- TwoKinds
  LegSymbols <- InnerLegs
  SpotKinds = {"Summary", "Trade"}
  LegKinds = {"Quote"}
  StrikeCount = 1
  RefreshPts = 1
  MaxReconnects = 0
  MaxFaults = 0
  MaxTicks = 2
  MaxLegChanges = 2
INVARIANT WindowFed
