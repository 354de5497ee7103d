SPECIFICATION FairSpec
CONSTANTS
  g1 = g1
  g2 = g2
  Exchanges <- One
  Plans <- EveryRule
  Limit = 1
  Faults = {"refused", "cut", "long", "gone", "clear"}
INVARIANT FlowInv
INVARIANT RefusedStaysLocal
PROPERTY KeepsRelay
PROPERTY SettledStaysSettled
PROPERTY EveryExchangeSettles
