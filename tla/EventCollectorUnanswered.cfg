SPECIFICATION ClosingSpec
CONSTANTS
  spy = spy
  vix = vix
  n1 = n1
  n2 = n2
  Symbols <- MCSymbols
  Numbers <- MCNumbers
  MaxEvents = 1
PROPERTY CallEnds
CHECK_DEADLOCK FALSE
