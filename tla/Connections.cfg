SPECIFICATION FairSpec
CONSTANTS
  c1 = c1
  c2 = c2
  Conns <- MCConns
  Asks <- MCAsks
  MaxListeners = 2
PROPERTY HangUpEndsHandler
PROPERTY SilentIsLeft
INVARIANT ConnectionsInv
INVARIANT TunnelsInv
CHECK_DEADLOCK FALSE
