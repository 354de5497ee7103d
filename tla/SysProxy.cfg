SPECIFICATION FairSpec
CONSTANTS
  p1 = p1
  u1 = u1
  u2 = u2
  t1 = t1
  t2 = t2
  Procs <- OneProc
  UserValues <- Users
  Targets <- Addrs
  NKeys = 3
  Faults <- SingleFaults
INVARIANT WriteInv
PROPERTY Recoverable
PROPERTY FirstWriteIsCovered
PROPERTY PointedAtListener
PROPERTY KeepsPromise
PROPERTY CrashIsUndone
