\* Two processes edit one entity and pull it, one pushes, one may crash.
SPECIFICATION Spec

CONSTANTS
  p1 = p1
  p2 = p2
  o1 = o1
  o2 = o2
  o3 = o3
  o4 = o4
  alice = alice
  bob = bob
  Proc <- MCProc
  Puller <- MCProc
  Pusher <- MCSecond
  Remover = {}
  Op <- MCOp
  Author <- MCAuthor
  MaxStaged = 2
  MaxCommits = 4
  MaxTime = 4
  MaxSkew = 1
  MaxCrashes = 1

SYMMETRY Symmetry

INVARIANTS
  TypeOK
  AckedDurable
  StagedInvisible

PROPERTIES
  RefOnlyAdvances
  IsSerial

\* Once the bounds are reached nothing may be left to do.
CHECK_DEADLOCK FALSE
