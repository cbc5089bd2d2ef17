\* A pull joins two branches and caches the entity as it was before.
SPECIFICATION PullSpec
CONSTANTS
  a = a
  b = b
  Thread = {ui}
  Remover = {}
  Careful = {ui}
  Entity = {a, b}
  Existing <- OneExisting
  Op = {o1, o2, o3}
  MaxLoaded = 1
  MaxInstances = 8
INVARIANT
  CachedIsCurrent
