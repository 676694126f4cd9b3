SPECIFICATION FairSpec
CONSTANTS
  spy = spy
  vix = vix
  n1 = n1
  n2 = n2
  Symbols <- MCSymbols
  Numbers <- MCNumbers
  MaxEvents = 4
INVARIANTS
  TypeOK
  LatestWins
  EndsWithLastReport
PROPERTY OnlyFeedHoldsUp
CHECK_DEADLOCK FALSE
