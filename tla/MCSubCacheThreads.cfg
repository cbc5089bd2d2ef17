\* Two goroutines, one of which also removes.
SPECIFICATION Spec
CONSTANTS
  a = a
  b = b
  Thread = {t1, t2}
  Remover = {t2}
  Careful = {}
  Entity = {a, b}
  Existing <- OneExisting
  Op = {o1, o2}
  MaxLoaded = 1
  MaxInstances = 8
\* when everything is removed nobody has anything to ask for
CHECK_DEADLOCK FALSE
SYMMETRY SymmetricOps
INVARIANTS
  LruLoaded
  AckedDurable
  LockProgress
