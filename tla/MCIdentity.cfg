\* Two clones and two identities; in one of the clones a process edits while another pulls.
SPECIFICATION FairSpec
CONSTANTS
  here = here
  there = there
  editor = editor
  puller = puller
  other = other
  k1 = k1
  k2 = k2
  Clone = {here, there}
  Proc <- MCProc
  Home <- MCHome
  Syncing <- MCSyncing
  Person = {1, 2}
  Lasting <- MCLasting
  Makers <- MCMakers
  Authors <- MCAuthors
  Editors <- MCEditors
  Key = {}
  NoKey = NoKey
  Keyring <- NoKeyring
  MaxVersions = 4
  MaxPending = 1
  MaxBugs = 1
INVARIANTS
  TypeOK
  ChainsAreValid
PROPERTIES
  HistoryKept
  Converges
