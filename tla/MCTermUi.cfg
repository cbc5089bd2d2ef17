\* The terminal interface: its one goroutine works, another pulls, and it may be started again.
SPECIFICATION FairUiSpec
CONSTANTS
  a = a
  b = b
  o1 = o1
  o2 = o2
  o3 = o3
  ui = ui
  Thread = {ui}
  Main = ui
  Remover = {}
  Careful = {ui}
  Entity = {a, b}
  Existing <- OneExisting
  Op = {o1, o2, o3}
  Closing = {o2}
  Joint = {o3}
  Opening = {}
  Created <- BNewer
  Height = {1, 2}
  MaxLoaded = 1
  MaxInstances = 8
INVARIANTS
  UiTypeOK
  NeverHangs
  ListedStored
  NoPhantomEdit
  TableMeansSaved
PROPERTIES
  CallsReturn
