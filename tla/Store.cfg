SPECIFICATION FairSpec
CONSTANTS
  w1 = w1
  w2 = w2
  Writers <- MCWriters
  Limit = 2
  MaxID = 3
INVARIANT TypeOK
INVARIANT NewestKept
INVARIANT StaleIsSignalled
PROPERTY ChangesAreShown
PROPERTY SettledIsPrinted
CHECK_DEADLOCK FALSE
