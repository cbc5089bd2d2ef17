\* An identity gets new keys after it signed a bug.
SPECIFICATION Spec
CONSTANTS
  here = here
  there = there
  editor = editor
  puller = puller
  other = other
  k1 = k1
  k2 = k2
  Clone = {here, there}
  Proc <- MCProc
  Home <- MCHome
  Syncing <- MCSyncing
  Person = {1, 2}
  Lasting <- MCLasting
  Makers <- MCMakers
  Authors <- KeyAuthors
  Editors <- MCEditors
  Key = {k1, k2}
  NoKey = NoKey
  Keyring <- FullKeyring
  MaxVersions = 4
  MaxPending = 1
  MaxBugs = 1
PROPERTY
  RevokedKeysVerify
