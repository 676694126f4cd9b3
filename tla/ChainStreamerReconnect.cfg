SPECIFICATION Spec
CONSTANTS
  SPX = SPX
  None = None
  Underlyings <- MCUnderlyings
  Strikes <- MCStrikes
  Chains <- OneChain
  Prices <- MCPrices
  KindOrder <- TwoKinds
  LegSymbols <- OuterLeg
  SpotKinds = {"Summary", "Trade"}
  LegKinds = {"Quote"}
  StrikeCount = 1
  RefreshPts = 1
  MaxReconnects = 1
  MaxFaults = 0
  MaxTicks = 1
  MaxLegChanges = 0
INVARIANT SpotFeedResumes
