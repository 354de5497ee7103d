SPECIFICATION Spec
CONSTANTS
  g1 = g1
  g2 = g2
  Exchanges <- Two
  Plans <- TwoRules
  Limit = 1
  Faults = {}
INVARIANT FlowInv
INVARIANT SettledAsAnswered
INVARIANT InterceptedIsHeld
