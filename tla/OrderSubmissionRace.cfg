SPECIFICATION OrderSpec
CONSTANTS
  None = None
  c1 = c1
  c2 = c2
  Callers <- TwoCallers
  Capacity = 10
  InitialUsed = 2
  Consumes <- MCConsumes
  LimitPcts = {50}
  MaxCalls = 4
PROPERTY GovernedUnderCap
CHECK_DEADLOCK FALSE
