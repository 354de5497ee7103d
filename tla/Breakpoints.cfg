SPECIFICATION FairSpec
CONSTANTS
  g1 = g1
  g2 = g2
  g3 = g3
  Exchanges <- MCExchanges
  MaxID = 3
  ClickAway = FALSE
INVARIANT HeldIsReachable
INVARIANT AnswerHasRoom
INVARIANT NoneForgotten
PROPERTY EditsKept
PROPERTY EveryHoldReturns
