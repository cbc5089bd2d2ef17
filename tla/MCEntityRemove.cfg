\* The entity is removed while it is edited, pulled and pushed.
SPECIFICATION Spec

CONSTANTS
  p1 = p1
  p2 = p2
  o1 = o1
  o2 = o2
  o3 = o3
  o4 = o4
  alice = alice
  bob = bob
  Proc <- MCProc
  Puller <- MCFirst
  Pusher <- MCSecond
  Remover <- MCSecond
  Op <- MCOp
  Author <- MCAuthor
  MaxStaged = 2
  MaxCommits = 4
  MaxTime = 5
  MaxSkew = 1
  MaxCrashes = 0

SYMMETRY Symmetry

INVARIANTS
  ClocksRespectDag
  AckedDurable

PROPERTIES
  IsSerial

\* Once the bounds are reached nothing may be left to do.
CHECK_DEADLOCK FALSE
