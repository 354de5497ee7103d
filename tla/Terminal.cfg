SPECIFICATION Spec
CONSTANTS
  Keys <- XtermKeys
  Hasty <- XtermHasty
  Bytes <- Xterm
  Columns = 2
  Rows = 1
  Message <- Held
  ByteCap = 1
  EventCap = 1
  MaxSeq = 11
  MaxOwed = 2
  MaxText = 2
INVARIANT DecodesAsTyped
INVARIANT ScreenInv
PROPERTY WaitsEnd
CHECK_DEADLOCK FALSE
