SPECIFICATION Spec
CONSTANTS
  g1 = g1
  g2 = g2
  Exchanges <- One
  Plans <- EveryRule
  Limit = 1
  Faults = {}
INVARIANT SentOverTls
