\* Two clones and a remote.
SPECIFICATION FairSpec
CONSTANTS
  alice = alice
  bob = bob
  Clone = {alice, bob}
  Origin = alice
  Habits <- SomeHabits
  Ahead <- SomeAhead
  Label = {1}
  MaxOps = 4
  MaxStaged = 2
  MaxCommits = 8
  MaxTime = 15
  MaxJump = 4
\* the bounds stop everything sooner or later
CHECK_DEADLOCK FALSE
INVARIANTS
  TypeOK
  MemoryIsHistory
  ViewIsFresh
  EditsLand
  LabelsAreLastMention
  CommentsAgree
PROPERTIES
  Converges
