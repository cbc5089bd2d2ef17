\* Two processes, four calls, crashes at every point.
SPECIFICATION FairSpec

CONSTANTS
  p1 = p1
  p2 = p2
  NoProc = NoProc
  Proc <- MCProc
  Seen <- MCSeen
  MaxCalls = 4

INVARIANTS
  TypeOK
  IssuedOnce

PROPERTIES
  CallsReturn
  IsAtomic

\* Nothing is left to do once the calls of the bound are made.
CHECK_DEADLOCK FALSE
