\* Both processes pull: one fetches while the other merges.
SPECIFICATION Spec

CONSTANTS
  p1 = p1
  p2 = p2
  o1 = o1
  o2 = o2
  o3 = o3
  o4 = o4
  alice = alice
  bob = bob
  Proc <- MCProc
  Puller <- MCProc
  Pusher <- MCSecond
  Remover = {}
  Op <- MCOp
  Author <- MCAuthor
  MaxStaged = 2
  MaxCommits = 4
  MaxTime = 5
  MaxSkew = 1
  MaxCrashes = 0

SYMMETRY Symmetry

INVARIANTS
  ClocksRespectDag

CHECK_DEADLOCK FALSE
