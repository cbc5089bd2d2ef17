\* One person, one script, two bugs and three identities at most.
SPECIFICATION Spec
CONSTANTS
  human = human
  script = script
  ann = ann
  ben = ben
  cat = cat
  b1 = b1
  b2 = b2
  NoOne = NoOne
  NoBug = NoBug
  Proc = {human, script}
  Terminal = {human}
  Person = {ann, ben, cat}
  BugId = {b1, b2}
  Founder = ann
  FirstBug = b1
  Offered <- MCOffered
  MaxRuns = 3
\* the last run ends
CHECK_DEADLOCK FALSE
INVARIANTS
  TypeOK
  AnswersAreTrue
  ConflictMeansProgress
  LoadFailsOnlyOverRemoval
  TextIsTyped
PROPERTIES
  ActorsAsAsked
  TargetsAsAsked
  ConfigIsChosen
