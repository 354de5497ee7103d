SPECIFICATION Spec
CONSTANTS
  Filters <- MCFilters
  Matches <- MCMatches
  SavedFilter = "odd"
  Sizes <- MCSizes
  MaxFlows = 3
  MaxID = 4
INVARIANT TableInv
PROPERTY KeepsItsFlow
