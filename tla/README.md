# A TLA+ model of git-bug

git-bug keeps bugs and identities as chains and DAGs of git commits, one git
reference per entity, and lets several processes of one clone and several clones
edit them without a lock around the whole repository. What keeps that correct is
small and spread out: Lamport clocks in files, compare-and-swap of references,
a merge that resolves references several times, a reader that validates the
shape of the commits it finds. This directory models that core and what is built on
it - bugs, identities, the cache, the commands and the terminal interface -, checks it
with TLC on small instances and proves parts of it with TLAPS for all instances.

Line numbers below refer to the files of the repository.

## Inventory

| Component | State | Operations | What makes it correct |
| --- | --- | --- | --- |
| Lamport clocks (`util/lamport`) | a number in a file, an OS lock, a copy per process | `NewPersistedClock`, `LoadPersistedClock`, `Increment`, `Witness` | each call is atomic among processes; no time given twice; a crash leaves a clock that can be opened |
| References and objects (`repository/gogit.go`) | git objects, local and remote-tracking references, table of open clocks | `StoreCommit`, `ResolveRef`, `UpdateRefIfMatches`, `RemoveRefIfMatches`, `CopyRef`, `ListCommits`, `FetchRefs`, `PushRefs`, `GetOrCreateClock` | a reference moves only if it is what the caller saw; objects never change |
| Entity storage (`entity/dag`) | one `Entity` in memory per process: operations, staging, `lastCommit`, times; one reference per entity | `New`, `Append`, `Commit`, `Read`, `ReadAll`, `Fetch`, `Push`, `MergeAll`/`merge`, `Remove`, `RemoveAll`, clock recovery at startup | acknowledged operations survive; history only grows; edit times follow the DAG; what is stored can be read; clones converge |
| Operations (`entity/dag/op_*.go`) | operation, its author, nonce and metadata | `Apply`, set-metadata, no-op | an operation's id and first metadata never change |
| Bug (`entities/bug`) | a snapshot: status, title, comments, labels, actors, participants, timeline | `Apply` of seven operations, `Compile`, the helpers that build operations | the snapshot is a function of the ordered operations; edits of unknown comments are ignored; label changes are exact |
| Identity (`entities/identity`) | a chain of versions with keys and clocks | `Commit`, `Read`, `Mutate`, `MergeAll`, `Merge`, `ValidKeysAtTime`, `Remove` | linear history; fast-forward only; a key is valid exactly between two versions |
| Cache (`cache`) | cached entities, excerpts, text index, LRU list, observers; a lock per subcache and per entity | `Build`, `Resolve`, `New`, `Commit`, `MergeAll`, `Remove`, eviction, `Query` | one instance per entity; excerpts agree with entities; staged operations are never evicted; no deadlock |
| Query (`query`, `cache/filter.go`) | none | lexer, parser, matcher | pure functions |
| Commands (`commands`) | the selected bug, the draft in the editor's file, the user identity in `.git/config` | one command per use case; load, resolve, edit, answer | who acts and on which bug is what was asked; the answer is true; nothing is left that stops the next command |
| Terminal interface (`termui`) | the active window, the table and its cursor, the list of labels | keys, the editor in place of the interface, a pull in the background | what was edited is saved when the bug is left; the table shows what is stored |
| Git configuration, keyring, browsing, text index | wrappers of libraries | | outside the model |

How they interact: a command opens a `RepoCache`, which opens the repository
(recovering the clocks when a file is missing) and builds or loads the excerpts.
It resolves an entity through the subcache, which calls `dag.Read`; it appends
operations, and `Commit` takes a time from the clock, stores a pack as a commit
and moves the reference. `pull` fetches the remote references and merges each of
them; `push` sends the local ones. Two commands in two terminals share the
repository directory, with nothing between them but the clock locks and the
compare-and-swap of references.

What is hard: steps of two processes between the resolution of a reference and
its use; a crash inside the truncating write of a clock file; a conflict in the
middle of a commit that stores several packs; a fetch under a merge; the order in
which a DAG with a merge is read; goroutines of one process in the cache. Commands of several terminals add
the files they share and what they read before they act. Each such place is listed with
its line under `hazards` in PROJECT.json, with the properties that cover it or the
reason why none does.

## Modules

- **PersistedClock** - `util/lamport/persisted_clock.go` and the use
  `GoGitRepo.GetOrCreateClock`, `Increment` and `Witness` make of it, for any
  number of processes. A call is up to three sessions of the OS lock: load,
  create, and the operation itself. Inside a session the read, the two halves of
  `refreshUnlocked` and the two halves of the write (truncate, write) are separate
  steps, and a process may die before any of them. `file = 0` stands for a missing
  or unparsable file; both lead to the same branch.
- **AtomicClock** - what the clock promises: every call is one step. The refinement
  mapping of PersistedClock shows the write before it is finished (`AbsFile`) and
  hides the first half of the refresh (`AbsMem`). A death inside the write is the
  action `Tear`, which loses the file.
- **EntityDag** - pure operators on the commits of one entity: reachability, the
  breadth-first order of `dag.read`, its checks, the construction of a pack.
- **EntityStore** - one entity in one clone, edited by several processes, on top of
  `AtomicClock` (`EditClock == INSTANCE AtomicClock`). One action per step of
  `read`, `Commit`, `merge`, `Remove`, startup and shutdown between which another
  process can act; `Fetch` and `Push` move references; `Peer` is every other clone
  that pushes to the same remote.
- **SerialEntity** - what the storage promises: a set of operations to which a
  process adds only what it wrote on top of exactly what it had read.
- **SubCache** - `cache.SubCache` of one kind of entity in one process: the maps
  `cached` and `excerpts`, the text index, the LRU list, the subcache lock and one lock
  per instance, used by several goroutines and a pull. Git is atomic here, because
  EntityStore takes its steps apart.
- **Bug** - `entities/bug` as pure operators: the operations, what each applies to a
  snapshot, and `Compile`.
- **BugSync** - one bug in several clones with one remote, at the grain of one call of
  the cache: the order of operations that `dag.read` makes, the snapshot that
  `withSnapshot` keeps, label changes against a snapshot, pull and push.
- **Identity** - identities and the bugs they sign in several clones with one remote, with
  several processes per clone: versions, `Mutate`, `Commit`, the fast-forward-only merge,
  `MergeAll` in order, the keys valid at a Lamport time.
- **Commands** - commands run by several processes in one repository, from loading the
  cache to the answer, each step between two accesses to shared references and files.
- **TermUi** - EXTENDS SubCache: the windows, keys and background pull of the terminal
  interface, as the one goroutine that uses the cache, and starting it again.
- **MCPersistedClock**, **MCEntityStore**, **MCSubCache**, **MCTermUi**, **MCBugSync**,
  **MCIdentity**, **MCCommands** - values of the constants for TLC.
- **PersistedClock_proofs**, **EntityStore_proofs**, **BugSync_proofs**, **Identity_proofs**,
  **SubCache_proofs**, **TermUi_proofs** (on top of SubCache_proofs), **Commands_proofs** -
  theorems. **Numbers_proofs** - lemmas about least and greatest members of sets of numbers.

### Reading the model next to the code

`pc[p]` names the place inside a call; `idle` is between two calls of a running
process, `closed` is before one has opened the repository. `base[p]` is
`Entity.lastCommit` of the instance held by `p`, `staging[p]` is its
`Entity.staging`; `pending`, `last`, `localCommit` and `remoteCommit` are the
local variables of `Commit` and `merge`. A commit is its index in `dag`, 0 is
the empty hash, so that `local = 0` reads "the reference does not exist".

What is left out, and why it does not matter for the properties:

- The content of an operation: an operation is a model value. Each is staged at
  most once, which is what the random nonce of 20 bytes achieves (`Fresh`).
- The creation clock. Its time is written once, in the first pack; the model keeps
  only the fact that the first pack has one (`root`), which `read` checks.
- `read` witnesses the clocks of all packs one by one in map order. The checks it
  has just made put the largest edit time on the tip, so one `Witness` with that
  time has the effect of the loop. Times between the two are reached too, since
  clocks may run ahead (`MaxSkew`).
- A pack that cannot be decoded, and a failing disk or network: an error return
  that changes nothing, which is a stutter when it comes first and the end of the
  call when it comes later. A panic in `read` ends the process: not reading,
  followed by `Exit`.
- Other entities on the same edit clock. They only push it forward, as `Peer` does.
- The limit of 1,000,000 on the jump of a clock, and the order of operations inside a
  read entity: see BugSync.
- Two goroutines of one process. They share the cached instance under its lock; see
  SubCache.

The helper `Readable` calls the panic of `read` unreadable, too.

### Reading SubCache next to the code

A step of SubCache is a stretch of code between two places where a goroutine can be
held up: it ends where the code gives the subcache lock up, or waits for the lock of
an instance. `mu` is `SubCache.mu`; a step that takes it and gives it back is guarded
by `mu = "free"` and leaves no trace in it. `call[t]` holds the local variables of
the call that goroutine `t` is in, `held[t]` the instance its caller keeps between
calls, for instance the bug on the screen.

- `inst` is the heap. Go collects what is no longer referred to; `Heap` does the same
  at the end of every step, so that a few addresses are enough for any number of loads.
- A version of an entity is the set of commits in its history, and an entity's id is
  its first commit, as in git-bug. `stored` and `remote` are the two references.
- `Resolve` is `ResolveHit`, or `ResolveMiss`, `Read` (no lock), `Insert`, and an
  eviction. An eviction is `EvictNothing`, or `EvictBegin`, one `EvictScan` and
  `EvictLock` per entity, `EvictEnd`. An evicted instance is locked for ever
  (`lock = "evicted"`), as in subcache.go:583.
- `Edit` and `Commit` change an instance under its own lock and then write the excerpt
  of whatever instance the cache has by then (`ExcerptLock`, `ExcerptWrite`, `IndexOne`).
- `Fetch`, the three ends of `merge` and `Install` are the goroutine of a pull. At most
  `MaxInFlight` results are between `dag.MergeAll` and the cache, since the channel has no
  buffer: one is being handled, one is waiting.
- `Careful` callers leave an entity only when nothing is staged. That is what
  `saveAndBack` of the terminal interface does (show_bug.go:454-464) and what each command
  does before it ends; the cache itself does not demand it, so there are runs with
  and without.
- The identity cache is the same generic code; it is the one that the terminal interface
  and its pull goroutine both resolve through. Callers are several goroutines
  because the API allows it; only one run has two of them that also remove.
- `Init` is the cache after `Build` and `SetCacheSize`, which also `Restart` of TermUi
  uses.
- `Next` is the goroutines alone; `PullSpec` adds the pull.

Not in it: `Close`, the observers, and a merge that fails. `RemoveAll`, the user identity
and the actor are in Commands, `withSnapshot` in BugSync, `Query` in TermUi. Which excerpt
fields exist does not matter: an excerpt is the set of the operations it was made from.

### Reading TermUi next to the code

`window` is `termUI.activeWindow`, `table` is `bugTable`, `labels` is `labelSelect`. The
goroutine of gocui's main loop is the one thread of SubCache (`Main`): a key is an action
that needs `Main` to be idle, and a key that calls the cache leaves it busy until the call
has gone through its steps (`Goes`) or has failed (`Fails`). An error of a handler ends
`MainLoop` and the program (termui.go:66-80), except for the labels, which show it.

- A draw runs the query and cuts the page out of its result, with the height the terminal
  has by then. Keys of the table work on what was drawn; `cursorClamp` runs only in the
  draw. `NextPage` moves past what is left only if there is something.
- The editor closes the interface and starts it again inside the handler, so that
  for the cache it is one call (`EditText`).
- `AddItem` starts a goroutine that waits for a name (label_select.go:232). Between its two
  appends a draw would index past the marks: `DrawUnmarked` is that panic.
- `Restart` ends the process at any step, by a signal, `q` or a crash, and starts the next.

Left out: the pop-ups, which take the keys until they are closed; scrolling and the
selection inside a bug (any part may be the selected one); rendering; several keys that
gocui hands over before it draws again; terminals too small for a table; a second
pull started while one is under way. `push` does not touch the cache.

### Reading Bug and BugSync next to the code

An operation is a record whose id is its place in `ops`, the list of all operations ever
made, so that "which comment" is a number. Texts are the id of the operation that wrote
them. A snapshot has the fields of `bug.Snapshot`; `View` pairs it with the metadata that
`SetMetadataOperation.Apply` leaves on *other* operations (op_set_metadata.go:34), which is
why compiling again after a conflict could give another result and `ViewIsFresh` asks.

`packId` is the hash of a pack: any number not used before, since the order of two packs
of the same edit time is the order of their hashes (entity.go:208-219). `reading` keeps what
`dag.read` makes of each commit, which cannot change. `loaded`, `staging` and `view` are the
instance a clone has in memory; `Reload` is the next process, or the cache after an eviction.
`Habits` says which operations the user of each clone makes, so that those that can disturb
each other meet and the rest is not multiplied; `Ahead` says how far other bugs have moved
the edit clock of a clone before.

A pull is fetch and merge in one step and a commit is one step: EntityStore takes both
apart. The remote takes fast forwards only.

### Reading Identity next to the code

A version is its index in `version` and keeps its chain (`line`). `memory` holds the
instance each process has of each identity: the last committed version it knows and its
pending ones. `time` is the value of the `bugs-edit` clock in `version.times`, 0 when that
clock did not exist; the creation clock moves with it and the clocks of other
kinds play no part. `pull[p]` is where a process is in `MergeAll`: `MergeRead` reads the fetched
and the local identity, the next action writes. A merge that does not succeed ends
`MergeAll` (`MergeStops`, identity_actions.go:98-114), and the bugs are merged after it
(`MergeBugs`). `Lasting` processes go on with their instances after a pull, as the terminal
interface does; the others end.

A push sends all references at once, and one that is not a fast forward refuses all of
them, as identity_actions_test.go tests. A bug is one pack, never edited again.

### Reading Commands next to the code

`proc[p].at` is the place in the run; `runs` records what was asked, what was answered and
which runs overlapped (`beside`). A run lists and reads every identity and then every bug
(`buildCache`), one reference per step; chooses its actor (`--identity`, the configured user,
or none); resolves its target (the first argument, or the selected bug, which only
a person at a terminal has); asks for a text in the editor, whose file is shared;
makes its change with the compare-and-swap of a commit; and answers. A person
types at any step in which the editor is open; `Kill` ends a run at any step.

`named`, `over`, `configs`, `selected` are what was asked and what could have been read of the shared
files during the run: the properties compare with them. A text is the number of the run
that typed it.

## Runs

| Run | Question | Bounds |
| --- | --- | --- |
| `clock` | Do lock, refresh and truncating write act as one atomic call? Is a time issued twice? Does every call return, crashes included? | 2 processes, 4 calls, witnessed times 2 (behind) and 5 (ahead), any number of crashes |
| `store` | Both processes edit and pull, one pushes, one may die at any step: are acknowledged operations durable, commits all or nothing, history never discarded, and writes serial? | 3 operations of 2 authors, 2 staged at once, 4 commits, edit time 4, a peer's clock at most 1 ahead, 1 crash |
| `remove` | With one puller and `bug rm` in between: does a removal delete only what it saw? Do edit times follow the DAG? | the same with edit time 5, no crash |
| `bug_sync` | Do clones read the same operations in the same order, whatever the order of their merges? Is the snapshot in memory the one a fresh read gives? Do edits and label changes mean what their authors saw? Do clones converge? | 2 clones, 4 operations, 2 staged at once, four pairs of habits, clocks in step, 1 ahead, and 5 ahead where a jump of 4 is allowed |
| `commands` | Is each operation by whom and on what was asked? Is the answer true? Does a conflict mean that another command got through? Can everything stored still be loaded? | 2 processes, one at a terminal, 3 runs, 2 bugs, at most 3 identities; both processes run `user new` (3.9 million states) |
| `identity` | Are chains valid whatever clock, process and order they come from? Is a history ever cut? Do clones agree up to the first identity that diverged? | 2 clones, 3 processes, 2 identities, 4 versions, 1 pending, 1 bug, no keys |
| `ui` | Does every call return? Is the instance on the screen ever an evicted one? Is everything saved when the table is back? Do the lists show what is stored, and nothing that was lost? | 2 bugs, one of them there at the start, 3 operations, 1 bug loaded at most, a terminal of 1 or 2 rows |
| `threads` | With two goroutines of which one removes, both free to leave staged operations behind: is what the LRU list names loaded, are committed edits kept, and does the holder of the subcache lock get on? | 2 entities, one there at the start, 2 operations, 1 entity loaded at most, no pull |
| `stale_install` | Is a cached entity, when nothing is under way, at the stored version? Violated (see Findings). | 2 entities, 3 operations, 1 loaded at most, one goroutine and the pull |
| `two_pullers` | The schedule of `store` against the clock claim of doc/spec/dag-entity.md:67: violated (see Findings). | as `remove`, with two pullers and nobody who removes |
| `uneven_merge` | Does the breadth-first order of `dag.read` put parents before children? Violated (see Findings). | 4 operations, 5 commits, 1 staged at once, no skew |
| `rotated_keys` | Does a key that was replaced still verify what was signed before? Violated (see Findings). | as `identity`, with 2 keys |

Why the bounds are enough to be interesting. Every race in the table of hazards
is between two actors, so two processes, goroutines or clones meet them; in EntityStore a
third actor, the other clones, is `Peer`. There 4 commits and 3 operations hold a root,
a commit on each side and a merge of the two, or a root and a commit of two packs by
two authors that conflicts; 2 staged operations of 2 authors make `Commit` store two packs.
Edit time 4 is what the longest chain needs; in the runs about the times themselves
(`remove`, `two_pullers`) it is 5, one tick more, so a stale clock can collide with a
used time. One crash is enough to tear the clock file and start
again from the references. The bounds MaxStaged, MaxCommits, MaxTime, MaxSkew,
MaxCrashes and MaxCalls are guards of the actions that grow a counter; because the
bounds may stop everything, deadlock is not checked and the liveness of the
clock is stated as `CallsReturn`.

In SubCache and TermUi `MaxLoaded = 1` makes every second entity an eviction; 2 entities are
enough for one to be evicted while the other is used, and for a merge of one with
results for the other on their way. 3 operations give an edit here, an edit there
and the merge commit that joins them; in TermUi one closes a bug, so that it leaves the
default list, and 1 or 2 rows make pages of the two bugs. `MaxInstances = 8` is never the
limit: `Unused # {}` holds in every reachable state. In `ui` deadlock is checked; in
`threads` it is not, because when the last entity has been removed and no new one is
left to be made, nobody has anything to ask for.

In BugSync 4 operations are a creation, an operation that is the target, and one in each clone that
meet in a merge. MaxCommits and MaxTime are never the limit, MaxOps is. In Identity
4 versions are two creations, a version here and a version there; editing in two places with
one pending version each makes the chain diverge. In Commands 3 runs are one that changes what two
others have read; `MCOffered` gives the person the commands that need a terminal or
the configuration, and the script those that create a bug or an identity, label, edit a
comment, show and remove. Three identities let two runs of `user new` meet in one repository.

Operations of the same author are interchangeable, hence the symmetry; it is used
only in runs without liveness properties.

Fairness. `FairSpec` of PersistedClock assumes that a process inside a call goes on
(weak fairness of its steps) and that a process that waits for the OS lock gets it if it
is free again and again (strong fairness of `Lock`): the lock is a blocking `flock`
and its holders keep it for a read and a write. Nothing forces a call or a crash.
`FairUiSpec` of TermUi assumes strong fairness of the steps of a call: Go hands a
mutex to a waiter after at most a millisecond of being passed over, so a
goroutine whose lock is free again and again goes on. Nothing forces a key or the pull.
In BugSync and Identity nothing in the code repeats a pull or a push; the assumption is about
people: whoever uses a clone commits, reads, pulls and pushes again and again
(`Sync`; in Identity strong fairness of `Push`, since another push can refuse it time and
again). Nobody is made to edit. EntityStore and Commands have no liveness property: a commit
that conflicts returns an error and nothing in the code retries it; `ConflictMeansProgress`
says instead that somebody got through.

Every property has a mutant next to the definition it changes ("Mutant: ..."), listed in
PROJECT.json, with which TLC finds the property violated.

## Findings

1. **A merge may use a remote tip it never checked.** `merge` reads and witnesses
   the commit of the remote reference (entity_actions.go:101) and resolves the
   reference again at :138. When another process of the clone fetches in between, the
   merge commit gets a parent whose clock was not witnessed, and its edit time may
   not exceed that parent's; `read` then refuses the entity with "lamport clock
   ordering doesn't match the DAG". doc/spec/dag-entity.md:67 states the opposite.
   Run `two_pullers`; with one puller (`remove`) the property holds. In the
   same schedule nothing acknowledged is lost (`store`, where both pull).
2. **Breadth-first order is not topological.** entity.go:93-94 and :124-125 rely on it.
   With one commit on one side of a merge and two on the other, the common ancestor
   is met before the longer side's first commit, and `read` panics ("DFS failed",
   entity.go:169). Run `uneven_merge`.
3. **A merge leaves a stale instance in the cache.** entity_actions.go:228 does not update
   the local entity after a merge commit, "as we discard it entirely anyway".
   `SubCache.MergeAll` keeps exactly that entity: from then on the bug is shown without
   the operations that were pulled and no edit of it can be committed until it is loaded
   again. Run `stale_install`.
4. **A key that is replaced may stop verifying what it signed.** A new version of an
   identity holds the last edit time that was given out (version.go:62), and its keys are
   valid from that time on, the time itself included. A bug signed at that very time
   is checked against the new key and can no longer be read; a bug that cannot be read
   stops every command, since loading the cache reads all of them. doc/spec/identity.md:118
   states that a revoked key remains valid for what was signed before. Run
   `rotated_keys`. `Mutate` is reached from the API of the cache; no command calls it.

Met on the way, without a run of their own: a pull replaces the instance in the cache
while the screen keeps the old one, although repo_cache.go:40 promises a single instance
(the TODO at subcache.go:505 knows; `AckedDurable` shows that nothing acknowledged is lost, and
`stale_install` what the caller meets); a failed merge in the terminal interface formats
an error that is nil (bug_table.go:491); the goroutine that adds a label appends to
two slices that the main loop draws (label_select.go:257).

## What is proved

TLAPS 1.4.5 checks every proof from nothing.

**PersistedClock_proofs**, for every set of processes, every set of witnessed
times, any number of calls and crashes, from the assumptions `ProcAssumption`,
`SeenAssumption` and `BoundAssumption`:

- `TypeCorrect`: `TypeOK`, including that no operation counts from the invalid value 0.
- `NeverIssuedTwice`: `IssuedOnce`.
- `Implements`: every behaviour implements AtomicClock (`IsAtomic`), which is what
  lets EntityStore use the atomic clock.

They share one inductive invariant. `LockHeld` says that only the holder is inside a
session; `Opening` and `Refreshing` relate the file, the copy and the value being
written there; `IssuedBelow` says that issued times are at most the file, or the
copy of the process that has truncated it. `IssuedOnce` alone is not inductive: the
step that issues a time must know that it is larger than all issued before, which
is what `IssuedBelow` gives it.

**EntityStore_proofs**, for every set of processes, roles, operations, authors and
bounds, from `RoleAssumption`, `AuthorAssumption` and `BoundAssumption`:

- `TypeCorrect`: `TypeOK`. Beyond types it says that references and the hashes a
  process holds always name stored commits and that each commit's parents were
  stored before it. The invariant is split into four parts (`DagShape`, `RefShape`,
  `ClockShape`, `ProcShape`) so that the proof of an action looks only at the parts
  it changes.
- `StoredOnce`: `StagedInvisible`, whatever the processes do.
- `Durable`: `AckedDurable`. `HistoryKept`: `RefOnlyAdvances`. `Serializes`: `IsSerial`, the
  refinement of SerialEntity: a `CommitDone` is a `Write`, a merge that moves the reference a
  `Join`, a `Read` a `Look`, the end of a process a `Forget`, a `RemoveLocal` that deletes
  the reference a `Remove`, and every other step a stutter. All three under `Steady`: any number of
  processes edit, push, die and restart and other clones push any commits, while one process
  at most pulls or nobody removes the entity.
- `ClocksFollowDag`: `ClocksRespectDag`, where one process at most pulls. Any number of
  others edit, push and remove the entity beside it, die, and lose the clock file.

None of these is inductive: `CommitDone` keeps them only if the commit it installs
contains what its process has staged and all of the tip it was built on.

- `Held` says so of a commit that is being built (`OnTop`), and that the tracking
  reference is below the remote.
- `AllApart` says that what a process has staged is staged by no other and stored nowhere but in the
  commits it is building: no reference names any of it, and nothing that anybody has read or
  resolved contains it, so no merge can bring it in, even after a removal. `StoredOnce` needs no more.
- `Core` says what each process holds of the references (`Own`): the local tip of a merge is below
  the local reference unless that has been removed, the remote tip below the remote, and at each point
  of a merge the local tip, if the reference is where the merge has read it, is one that the
  merge will move forward (`Ahead`).
- `Newborn` says that while the first commit of an entity is under way nobody else has anything of it.

A fast forward needs a fact about three references: the merge takes it
after searching the *current* tracking reference for its local tip, not the commit it
will move to, and a fetch may have moved that reference in between. The tip would
then be in the new tracking reference and not below the commit it moves to. That
cannot be: what the remote has of the local tip when the tips are resolved is below the
tracking reference (`Tracked`: a push updates it, a fetch replaces it by the
remote, and a removal that takes it leaves nothing to be resolved), and a push that brings the local
tip to the remote later needs the remote tip below it, where the merge ends as scenario 3. The
argument about the other processes is made once (`OthersOwn`), from what a step does to the
references: the remote only grows (`Advance`), and the local reference advances, or is removed, or is
created again while nobody else is in a merge that has read it (`Rises`, `Revives`).

That last point is what `Steady` is for, and it is real. Three processes that pull and one of them that
removes refute `RefOnlyAdvances`: the first resolves local tip 3 and remote tip 2; the
entity is removed, and the second creates it at commit 1, which it resolved long ago, so the first does
not find 2 under it; a fetch brings the tracking reference to 3, where the first finds its own
tip and decides for a fast forward; the entity is removed again, and the third creates it at 3, so the
compare-and-swap succeeds and moves the reference from 3 back to 2. Every step is an action of the model; TLC
finds the behaviour, of 57 states, when the steps that do not lead there are left out. It is far
from what anybody runs, and no document promises anything there.

`ClocksFollowDag` needs `Times`: a commit is later than all it contains (`Timed`), a process's clock has
been told of the commit it builds on (`Builds`), and what a merge holds it has witnessed
(`Merges`). The hard part is the remote tip of a merge, which is resolved again after its clock was
witnessed. With one puller the tracking reference has then moved only because
this clone pushed. So the remote tip is contained in the local reference, where scenario 3 ends the merge before
it stores anything, or the local reference has been removed, which ends it as well (`Caught`): it
cannot come back under the merge, since only a merge or the very first commit of the entity
makes it, and while that commit is under way nobody merges (`Newborn`). Finding 1 is
what happens without the hypothesis.

**BugSync_proofs**, **Identity_proofs**,
  **SubCache_proofs**, **TermUi_proofs** (on top of SubCache_proofs), **Commands_proofs** -
  theorems. **Numbers_proofs** - lemmas about least and greatest members of sets of numbers.

### Reading the model next to the code

`pc[p]` names the place inside a call; `idle` is between two calls of a running
process, `closed` is before one has opened the repository. `base[p]` is
`Entity.lastCommit` of the instance held by `p`, `staging[p]` is its
`Entity.staging`; `pending`, `last`, `localCommit` and `remoteCommit` are the
local variables of `Commit` and `merge`. A commit is its index in `dag`, 0 is
the empty hash, so that `local = 0` reads "the reference does not exist".

What is left out, and why it does not matter for the properties:

- The content of an operation: an operation is a model value. Each is staged at
  most once, which is what the random nonce of 20 bytes achieves (`Fresh`).
- The creation clock. Its time is written once, in the first pack; the model keeps
  only the fact that the first pack has one (`root`), which `read` checks.
- `read` witnesses the clocks of all packs one by one in map order. The checks it
  has just made put the largest edit time on the tip, so one `Witness` with that
  time has the effect of the loop. Times between the two are reached too, since
  clocks may run ahead (`MaxSkew`).
- A pack that cannot be decoded, and a failing disk or network: an error return
  that changes nothing, which is a stutter when it comes first and the end of the
  call when it comes later. A panic in `read` ends the process: not reading,
  followed by `Exit`.
- Other entities on the same edit clock. They only push it forward, as `Peer` does.
- The limit of 1,000,000 on the jump of a clock, and the order of operations inside a
  read entity: see BugSync.
- Two goroutines of one process. They share the cached instance under its lock; see
  SubCache.

The helper `Readable` calls the panic of `read` unreadable, too.

### Reading SubCache next to the code

A step of SubCache is a stretch of code between two places where a goroutine can be
held up: it ends where the code gives the subcache lock up, or waits for the lock of
an instance. `mu` is `SubCache.mu`; a step that takes it and gives it back is guarded
by `mu = "free"` and leaves no trace in it. `call[t]` holds the local variables of
the call that goroutine `t` is in, `held[t]` the instance its caller keeps between
calls, for instance the bug on the screen.

- `inst` is the heap. Go collects what is no longer referred to; `Heap` does the same
  at the end of every step, so that a few addresses are enough for any number of loads.
- A version of an entity is the set of commits in its history, and an entity's id is
  its first commit, as in git-bug. `stored` and `remote` are the two references.
- `Resolve` is `ResolveHit`, or `ResolveMiss`, `Read` (no lock), `Insert`, and an
  eviction. An eviction is `EvictNothing`, or `EvictBegin`, one `EvictScan` and
  `EvictLock` per entity, `EvictEnd`. An evicted instance is locked for ever
  (`lock = "evicted"`), as in subcache.go:583.
- `Edit` and `Commit` change an instance under its own lock and then write the excerpt
  of whatever instance the cache has by then (`ExcerptLock`, `ExcerptWrite`, `IndexOne`).
- `Fetch`, the three ends of `merge` and `Install` are the goroutine of a pull. At most
  `MaxInFlight` results are between `dag.MergeAll` and the cache, since the channel has no
  buffer: one is being handled, one is waiting.
- `Careful` callers leave an entity only when nothing is staged. That is what
  `saveAndBack` of the terminal interface does (show_bug.go:454-464) and what each command
  does before it ends; the cache itself does not demand it, so there are runs with
  and without.
- The identity cache is the same generic code; it is the one that the terminal interface
  and its pull goroutine both resolve through. Callers are several goroutines
  because the API allows it; only one run has two of them that also remove.
- `Init` is the cache after `Build` and `SetCacheSize`, which also `Restart` of TermUi
  uses.
- `Next` is the goroutines alone; `PullSpec` adds the pull.

Not in it: `Close`, the observers, and a merge that fails. `RemoveAll`, the user identity
and the actor are in Commands, `withSnapshot` in BugSync, `Query` in TermUi. Which excerpt
fields exist does not matter: an excerpt is the set of the operations it was made from.

### Reading TermUi next to the code

`window` is `termUI.activeWindow`, `table` is `bugTable`, `labels` is `labelSelect`. The
goroutine of gocui's main loop is the one thread of SubCache (`Main`): a key is an action
that needs `Main` to be idle, and a key that calls the cache leaves it busy until the call
has gone through its steps (`Goes`) or has failed (`Fails`). An error of a handler ends
`MainLoop` and the program (termui.go:66-80), except for the labels, which show it.

- A draw runs the query and cuts the page out of its result, with the height the terminal
  has by then. Keys of the table work on what was drawn; `cursorClamp` runs only in the
  draw. `NextPage` moves past what is left only if there is something.
- The editor closes the interface and starts it again inside the handler, so that
  for the cache it is one call (`EditText`).
- `AddItem` starts a goroutine that waits for a name (label_select.go:232). Between its two
  appends a draw would index past the marks: `DrawUnmarked` is that panic.
- `Restart` ends the process at any step, by a signal, `q` or a crash, and starts the next.

Left out: the pop-ups, which take the keys until they are closed; scrolling and the
selection inside a bug (any part may be the selected one); rendering; several keys that
gocui hands over before it draws again; terminals too small for a table; a second
pull started while one is under way. `push` does not touch the cache.

### Reading Bug and BugSync next to the code

An operation is a record whose id is its place in `ops`, the list of all operations ever
made, so that "which comment" is a number. Texts are the id of the operation that wrote
them. A snapshot has the fields of `bug.Snapshot`; `View` pairs it with the metadata that
`SetMetadataOperation.Apply` leaves on *other* operations (op_set_metadata.go:34), which is
why compiling again after a conflict could give another result and `ViewIsFresh` asks.

`packId` is the hash of a pack: any number not used before, since the order of two packs
of the same edit time is the order of their hashes (entity.go:208-219). `reading` keeps what
`dag.read` makes of each commit, which cannot change. `loaded`, `staging` and `view` are the
instance a clone has in memory; `Reload` is the next process, or the cache after an eviction.
`Habits` says which operations the user of each clone makes, so that those that can disturb
each other meet and the rest is not multiplied; `Ahead` says how far other bugs have moved
the edit clock of a clone before.

A pull is fetch and merge in one step and a commit is one step: EntityStore takes both
apart. The remote takes fast forwards only.

### Reading Identity next to the code

A version is its index in `version` and keeps its chain (`line`). `memory` holds the
instance each process has of each identity: the last committed version it knows and its
pending ones. `time` is the value of the `bugs-edit` clock in `version.times`, 0 when that
clock did not exist; the creation clock moves with it and the clocks of other
kinds play no part. `pull[p]` is where a process is in `MergeAll`: `MergeRead` reads the fetched
and the local identity, the next action writes. A merge that does not succeed ends
`MergeAll` (`MergeStops`, identity_actions.go:98-114), and the bugs are merged after it
(`MergeBugs`). `Lasting` processes go on with their instances after a pull, as the terminal
interface does; the others end.

A push sends all references at once, and one that is not a fast forward refuses all of
them, as identity_actions_test.go tests. A bug is one pack, never edited again.

### Reading Commands next to the code

`proc[p].at` is the place in the run; `runs` records what was asked, what was answered and
which runs overlapped (`beside`). A run lists and reads every identity and then every bug
(`buildCache`), one reference per step; chooses its actor (`--identity`, the configured user,
or none); resolves its target (the first argument, or the selected bug, which only
a person at a terminal has); asks for a text in the editor, whose file is shared;
makes its change with the compare-and-swap of a commit; and answers. A person
types at any step in which the editor is open; `Kill` ends a run at any step.

`named`, `over`, `configs`, `selected` are what was asked and what could have been read of the shared
files during the run: the properties compare with them. A text is the number of the run
that typed it.

## Runs

| Run | Question | Bounds |
| --- | --- | --- |
| `clock` | Do lock, refresh and truncating write act as one atomic call? Is a time issued twice? Does every call return, crashes included? | 2 processes, 4 calls, witnessed times 2 (behind) and 5 (ahead), any number of crashes |
| `store` | Both processes edit and pull, one pushes, one may die at any step: are acknowledged operations durable, commits all or nothing, history never discarded, and writes serial? | 3 operations of 2 authors, 2 staged at once, 4 commits, edit time 4, a peer's clock at most 1 ahead, 1 crash |
| `remove` | With one puller and `bug rm` in between: does a removal delete only what it saw? Do edit times follow the DAG? | the same with edit time 5, no crash |
| `bug_sync` | Do clones read the same operations in the same order, whatever the order of their merges? Is the snapshot in memory the one a fresh read gives? Do edits and label changes mean what their authors saw? Do clones converge? | 2 clones, 4 operations, 2 staged at once, four pairs of habits, clocks in step, 1 ahead, and 5 ahead where a jump of 4 is allowed |
| `commands` | Is each operation by whom and on what was asked? Is the answer true? Does a conflict mean that another command got through? Can everything stored still be loaded? | 2 processes, one at a terminal, 3 runs, 2 bugs, at most 3 identities; both processes run `user new` (3.9 million states) |
| `identity` | Are chains valid whatever clock, process and order they come from? Is a history ever cut? Do clones agree up to the first identity that diverged? | 2 clones, 3 processes, 2 identities, 4 versions, 1 pending, 1 bug, no keys |
| `ui` | Does every call return? Is the instance on the screen ever an evicted one? Is everything saved when the table is back? Do the lists show what is stored, and nothing that was lost? | 2 bugs, one of them there at the start, 3 operations, 1 bug loaded at most, a terminal of 1 or 2 rows |
| `threads` | With two goroutines of which one removes, both free to leave staged operations behind: is what the LRU list names loaded, are committed edits kept, and does the holder of the subcache lock get on? | 2 entities, one there at the start, 2 operations, 1 entity loaded at most, no pull |
| `stale_install` | Is a cached entity, when nothing is under way, at the stored version? Violated (see Findings). | 2 entities, 3 operations, 1 loaded at most, one goroutine and the pull |
| `two_pullers` | The schedule of `store` against the clock claim of doc/spec/dag-entity.md:67: violated (see Findings). | as `remove`, with two pullers and nobody who removes |
| `uneven_merge` | Does the breadth-first order of `dag.read` put parents before children? Violated (see Findings). | 4 operations, 5 commits, 1 staged at once, no skew |
| `rotated_keys` | Does a key that was replaced still verify what was signed before? Violated (see Findings). | as `identity`, with 2 keys |

Why the bounds are enough to be interesting. Every race in the table of hazards
is between two actors, so two processes, goroutines or clones meet them; in EntityStore a
third actor, the other clones, is `Peer`. There 4 commits and 3 operations hold a root,
a commit on each side and a merge of the two, or a root and a commit of two packs by
two authors that conflicts; 2 staged operations of 2 authors make `Commit` store two packs.
Edit time 4 is what the longest chain needs; in the runs about the times themselves
(`remove`, `two_pullers`) it is 5, one tick more, so a stale clock can collide with a
used time. One crash is enough to tear the clock file and start
again from the references. The bounds MaxStaged, MaxCommits, MaxTime, MaxSkew,
MaxCrashes and MaxCalls are guards of the actions that grow a counter; because the
bounds may stop everything, deadlock is not checked and the liveness of the
clock is stated as `CallsReturn`.

In SubCache and TermUi `MaxLoaded = 1` makes every second entity an eviction; 2 entities are
enough for one to be evicted while the other is used, and for a merge of one with
results for the other on their way. 3 operations give an edit here, an edit there
and the merge commit that joins them; in TermUi one closes a bug, so that it leaves the
default list, and 1 or 2 rows make pages of the two bugs. `MaxInstances = 8` is never the
limit: `Unused # {}` holds in every reachable state. In `ui` deadlock is checked; in
`threads` it is not, because when the last entity has been removed and no new one is
left to be made, nobody has anything to ask for.

In BugSync 4 operations are a creation, an operation that is the target, and one in each clone that
meet in a merge. MaxCommits and MaxTime are never the limit, MaxOps is. In Identity
4 versions are two creations, a version here and a version there; editing in two places with
one pending version each makes the chain diverge. In Commands 3 runs are one that changes what two
others have read; `MCOffered` gives the person the commands that need a terminal or
the configuration, and the script those that create a bug or an identity, label, edit a
comment, show and remove. Three identities let two runs of `user new` meet in one repository.

Operations of the same author are interchangeable, hence the symmetry; it is used
only in runs without liveness properties.

Fairness. `FairSpec` of PersistedClock assumes that a process inside a call goes on
(weak fairness of its steps) and that a process that waits for the OS lock gets it if it
is free again and again (strong fairness of `Lock`): the lock is a blocking `flock`
and its holders keep it for a read and a write. Nothing forces a call or a crash.
`FairUiSpec` of TermUi assumes strong fairness of the steps of a call: Go hands a
mutex to a waiter after at most a millisecond of being passed over, so a
goroutine whose lock is free again and again goes on. Nothing forces a key or the pull.
In BugSync and Identity nothing in the code repeats a pull or a push; the assumption is about
people: whoever uses a clone commits, reads, pulls and pushes again and again
(`Sync`; in Identity strong fairness of `Push`, since another push can refuse it time and
again). Nobody is made to edit. EntityStore and Commands have no liveness property: a commit
that conflicts returns an error and nothing in the code retries it; `ConflictMeansProgress`
says instead that somebody got through.

Every property has a mutant next to the definition it changes ("Mutant: ..."), listed in
PROJECT.json, with which TLC finds the property violated.

## Findings

1. **A merge may use a remote tip it never checked.** `merge` reads and witnesses
   the commit of the remote reference (entity_actions.go:101) and resolves the
   reference again at :138. When another process of the clone fetches in between, the
   merge commit gets a parent whose clock was not witnessed, and its edit time may
   not exceed that parent's; `read` then refuses the entity with "lamport clock
   ordering doesn't match the DAG". doc/spec/dag-entity.md:67 states the opposite.
   Run `two_pullers`; with one puller (`remove`) the property holds. In the
   same schedule nothing acknowledged is lost (`store`, where both pull).
2. **Breadth-first order is not topological.** entity.go:93-94 and :124-125 rely on it.
   With one commit on one side of a merge and two on the other, the common ancestor
   is met before the longer side's first commit, and `read` panics ("DFS failed",
   entity.go:169). Run `uneven_merge`.
3. **A merge leaves a stale instance in the cache.** entity_actions.go:228 does not update
   the local entity after a merge commit, "as we discard it entirely anyway".
   `SubCache.MergeAll` keeps exactly that entity: from then on the bug is shown without
   the operations that were pulled and no edit of it can be committed until it is loaded
   again. Run `stale_install`.
4. **A key that is replaced may stop verifying what it signed.** A new version of an
   identity holds the last edit time that was given out (version.go:62), and its keys are
   valid from that time on, the time itself included. A bug signed at that very time
   is checked against the new key and can no longer be read; a bug that cannot be read
   stops every command, since loading the cache reads all of them. doc/spec/identity.md:118
   states that a revoked key remains valid for what was signed before. Run
   `rotated_keys`. `Mutate` is reached from the API of the cache; no command calls it.

Met on the way, without a run of their own: a pull replaces the instance in the cache
while the screen keeps the old one, although repo_cache.go:40 promises a single instance
(the TODO at subcache.go:505 knows; `AckedDurable` shows that nothing acknowledged is lost, and
`stale_install` what the caller meets); a failed merge in the terminal interface formats
an error that is nil (bug_table.go:491); the goroutine that adds a label appends to
two slices that the main loop draws (label_select.go:257).

## What is proved

TLAPS 1.4.5 checks every proof from nothing.

**PersistedClock_proofs**, for every set of processes, every set of witnessed
times, any number of calls and crashes, from the assumptions `ProcAssumption`,
`SeenAssumption` and `BoundAssumption`:

- `TypeCorrect`: `TypeOK`, including that no operation counts from the invalid value 0.
- `NeverIssuedTwice`: `IssuedOnce`.
- `Implements`: every behaviour implements AtomicClock (`IsAtomic`), which is what
  lets EntityStore use the atomic clock.

They share one inductive invariant. `LockHeld` says that only the holder is inside a
session; `Opening` and `Refreshing` relate the file, the copy and the value being
written there; `IssuedBelow` says that issued times are at most the file, or the
copy of the process that has truncated it. `IssuedOnce` alone is not inductive: the
step that issues a time must know that it is larger than all issued before, which
is what `IssuedBelow` gives it.

**EntityStore_proofs**, for every set of processes, roles, operations, authors and
bounds, from `RoleAssumption`, `AuthorAssumption` and `BoundAssumption`:

- `TypeCorrect`: `TypeOK`. Beyond types it says that references and the hashes a
  process holds always name stored commits and that each commit's parents were
  stored before it. The invariant is split into four parts (`DagShape`, `RefShape`,
  `ClockShape`, `ProcShape`) so that the proof of an action looks only at the parts
  it changes.
- `ClocksFollowDag`: `ClocksRespectDag`, where one process at most pulls. Any number of
  others edit, push and remove the entity beside it, die, and lose the clock file.

The second needs `Times`: a commit is later than all it contains (`Timed`), a process's clock has
been told of the commit it builds on (`Builds`), and what a merge holds it has witnessed
(`Merges`). The hard part is the remote tip of a merge, which is resolved again after its clock was
witnessed. With one puller the tracking reference has then moved only because
this clone pushed. So the remote tip is contained in the local reference, where scenario 3 ends the merge before
it stores anything, or the local reference has been removed, which ends it as well (`Caught`): it
cannot come back under the merge, since only a merge or the very first commit of the entity
makes it, and while that commit is under way nobody merges (`Newborn`). Finding 1 is
what happens without the hypothesis.

In the same module, under the same assumptions and while nobody removes the entity
(`Remover = {}`), for any number of processes that edit, pull, push, die and
restart, and for any commits that other clones push:

- `Durable`: `AckedDurable`. `HistoryKept`: `RefOnlyAdvances`.
- `StoredOnce`: `StagedInvisible`.
- `Serializes`: `IsSerial`, the refinement of SerialEntity: a `CommitDone` is a `Write`,
  a merge that moves the reference a `Join`, a `Read` a `Look`, the end of a process a
  `Forget`, and every other step a stutter.

None of these is inductive: `CommitDone` keeps them only if the commit it installs
contains what its process has staged and all of the tip it was built on. The
invariant `Safe` has three parts. `Shape` is that of `TypeCorrect`. `Core` says
how the commits that each process holds lie below one another: what it has read lies
below the reference it was read from (`Own`), a commit being built lies above its
`base` and holds what is staged and no longer pending (`OnTop`), and at each point of
a merge the local tip, if it has not moved, is one that the merge will move forward
(`Ahead`). A fast forward needs a fact about three references: the merge takes it
after searching the *current* tracking reference for its local tip, not the commit it
will move to, and a fetch may have moved that reference in between. The tip would
then be in the new tracking reference and not below the commit it moves to. That
cannot be: what the remote has of the local tip when the tips are resolved is below the
tracking reference (`Tracked`: a push updates it, a fetch replaces it by the
remote), and a push that brings the local tip to the remote later needs the remote tip
below it, where the merge ends as scenario 3. `AllApart` says
that what a process has staged is staged by no other and stored nowhere but in
the commits it is building. The argument about the other processes is made once
(`OthersOwn`): whatever advances the references without breaking `Tracked` keeps what
they hold true.

The restriction to `Remover = {}` is real: with removals the references go back, and
`Tracked` fails. Those runs (`remove`) are model-checked only.

**BugSync_proofs**, for every set of clones and labels, any habits of their users, any hashes
of packs and all bounds, from `LabelAssumption`, `BoundAssumption` and `CloneAssumption`:

- `TypesHold`: `TypeOK`. `MemoryIsWhatIsRead`: `MemoryIsHistory`.
- `ViewsAreFresh`: `ViewIsFresh`. `NoEditIsLost`: `EditsLand`.
- `LabelsByLastMention`: `LabelsAreLastMention`. `CommentsMatchTimeline`: `CommentsAgree`.

The invariant `Inv` says of the commits that their times grow along the DAG and that an edit of a
comment is stored with its target below it (`Stored`, `Causal`); that no clock is behind
the commits its clone has read (`Refs`), so that the next commit comes after them; that staged operations are
in no pack and in no other clone (`Staged`); and that an instance in memory is the list of
operations that is read at its commit, then what is staged, and their snapshot (`Memory`).
Two facts about all orders and all lists of operations carry it. `OrderGrows`: a commit on
top of a tip with a later time leaves the order of what was there and puts its operations behind, so what a
process has appended in memory is what `dag.read` makes of its commit. `OrderGrounded`: the
order by time and hash, which ignores the DAG, still puts every edit after its target, since
the commit of the edit is above that of the target and so has a later time, or is the same one. From there on it is about
lists alone. `CompileSound` says of every list what labels and comments it gives, one operation
at a time; `HistoryLands` that in a list where targets come first every edit finds its
comment; and `CompileAgain` that compiling the list again over the metadata that the first time left changes
nothing, because the first writer is the same one both times: this is `ViewIsFresh` after a conflict.

**Identity_proofs**, for every set of clones, processes, identities and keys and all bounds,
from `HomeAssumption`, `RoleAssumption`, `PersonAssumption`, `KeyAssumption` and
`BoundAssumption`:

- `TypeCorrect`: `TypeOK`. `ChainsValid`: `ChainsAreValid`. `HistoryNeverCut`: `HistoryKept`.

`ChainsAreValid` is about the chains that a reference names. It is not inductive: a reference
moves to whatever version a process has in its hands. `AllValid` says it of every version
ever committed, and then a new version is the only case: its time comes from the versions before it
on the chain, which are valid, and a clock that is missing in the clone is taken over from them
(identity.go:407). For that a process may have pending versions only of an identity it has
loaded (`MemoryShape`), and a merge must hold versions of the identity it is about (`PullShape`).

**SubCache_proofs**, for every set of threads, entities and operations and every size of the
cache, under `Spec` and under `PullSpec`, from `ThreadAssumption`, `EntityAssumption` and
`BoundAssumption`:

- `TypeCorrect`: `TypeOK`. `EvictionFindsLoaded`: `LruLoaded`. `CommitsSurvive`: `AckedDurable`.
- `HolderGetsOn`: `LockProgress`.

The invariant `IInv` says, in parts: an instance that is on its way into the cache, of a
`Resolve` or of a pull, is in no entry of it, so nobody evicts it (`PendingSound`); between two
steps only a Commit holds the lock of an instance (`LockShape`), which gives `LockProgress`,
since a Commit asks for the subcache lock only when it has given the other up; what an
eviction has still to look at is on the LRU list as long as it holds the subcache lock
(`CallSound`, `MutexShape`); and nothing refers to an entity that nobody has made
(`KnownShape`), which `AckedDurable` needs when an entity is created. The heap is collected
at the end of every step; the steps are proved on the heap before that, and one lemma says
that collecting keeps the invariant.

**TermUi_proofs**, for any bugs, operations, cache size and terminal height, with a pull
in the background and the process starting again at any time, from the assumptions of SubCache and
`MainAssumption`, `StatusAssumption`, `TableAssumption` and `RestartAssumption`:

- `UiTypeCorrect`: `UiTypeOK`, including that the cursor of a drawn table is on a row.
- `BackIsSaved`: `TableMeansSaved`. `ShownIsNotEvicted`: `NeverHangs`.
- `ListIsStore`: `ListedStored`. `ListedIsReal`: `NoPhantomEdit`.

`UiInv` is the invariant of SubCache and what one careful thread adds to it. Only the bug that
is shown has staged operations, and none has while another is resolved or made
(`StagedShape`). Hence an eviction finds nothing staged and starts with the oldest of
the list; the entity just inserted is its newest (`OnTop`), so the eviction stops before it
comes to the one that is handed out: this is why nobody is given an evicted instance.
What has been loaded is a version that is stored (`VersionShape`), and what is stored is
listed, or the call that made it or the pull that merged it is about to list it (`ListShape`).
For `Restart` the invariant is shown of the cache as `Build` leaves it.

**Commands_proofs**, for any processes, terminals, identities, bugs, commands on offer and
number of runs, from `StartAssumption`, `EmptyAssumption`, `BoundAssumption`,
`IdAssumption` and `OfferedAssumption`:

- `ProcessesAreSound`: the invariant `CInv`. `CommandsTypeCorrect`: `TypeOK`.
- `ActorsAreAsAsked`: `ActorsAsAsked`. `TargetsAreAsAsked`: `TargetsAsAsked`.
- `ConfigIsOnlyChosen`: `ConfigIsChosen`.
- `AnswersAreKept`: `AnswersAreTrue`. `ConflictsMeanProgress`: `ConflictMeansProgress`.
- `LoadsFailOnlyOverRemoval`: `LoadFailsOnlyOverRemoval`.
- `TextsAreTyped`: `TextIsTyped`, where one process at most is at a terminal (`OneTerminal`): the
  draft is one file of the repository (input.go:75), and two editors write over each other.

`CInv` says what a process has in its hands at each place of a run (`Control`, `ActorShape`,
`TargetShape`), that it has noted what the shared files say now (`Context`), and
that the runs under way are distinct and know of each other (`Running`). The first three
action properties follow step by step. The others need more. `OpsSound` ties answers to
operations both ways. `SeenSound` says that what a process has read of a bug is still the
beginning of what is stored, and that the operation after it is of a run beside its own.
`Removals` says what may be missing: an author, an actor or a listed entity that is gone was taken by
a removal or a wipe beside, or by a wipe that was interrupted, and a wipe that is alone and has
not failed leaves no bug.

The proof of `ConfigIsChosen` corrected its statement. It used to say that `user new` sets
the default only when there is none. But user_new.go:80 asks and sets later, so that of
two runs at once the second sets the default too; the model checker had not seen it, because one
process alone ran `user new`, and with two identities there was none left for a second one. Now the property says that
there was none at some moment of the run, and both processes run it.

Of the operators, what could be needed of `Min`, `Max` and `CHOOSE` of numbers is in Numbers_proofs. The
library states induction over numbers for an operator, which the installed provers cannot instantiate; the
least member of a set of numbers is found instead with the well-foundedness of strict inclusion
of finite sets, with `1..n` in place of `n`. From it comes `Reached`: a set that has 0 and with
every number below `n` the next one has all up to `n`. What `Compile`, the folds over labels and
the orders compute, which are recursive or defined by counting, is shown that way: of the set of
lengths up to which it is true.

The provers see nothing of `SortSeq` and `SelectSeq`, which TLC and tlapm take for built in. What the code
sorts is therefore `InOrder` of a set and an order in Bug: the member in place `n` is the one with
`n - 1` members before it.

An assumption on the constants that the proofs brought to light is in the module that
declares them: a kind of entity is not empty and finitely many exist at the start, and "free"
and "evicted" are no threads (SubCache); the ids of bugs are finitely many, because they are
hashes, and the bound on the heap leaves room for a full cache (TermUi); an id is of a bug or of an identity
and not of both (Commands). In TermUi the rows of a draw come from `Orders`,
the orders of the matching bugs in which no newer one comes after an older one.

Model-checked only:

- Everything about liveness (`CallsReturn`, `Converges`), which is out of the prover's reach.

Every other property of a passing run is stated by a theorem: three of EntityStore under
`Steady`, `ClocksRespectDag` for one puller and `TextIsTyped` for one terminal, the others without a
hypothesis beyond the named assumptions on the constants.

## What could be added

- `MergeAll` as goroutines with their unbuffered channels, for callers that give up while it
  runs, once the program has one that lives on (repo_cache_common.go:155).
- Three clones in BugSync, with fewer operations each.

## Not modelled

Keyring, git configuration (but for the user identity), browsing of git objects and the
text index (but for the ids in it): wrappers of libraries. Argument parsing, output and
layout of the commands and the terminal interface, the lexer and the parser of queries,
the filters other than that by status, the JSON forms: functions on text or on one record, with
unit tests. Ids: hashes, model values here; interleaving two ids is a function on strings. The
generated files, completion and the test helpers: not part of the program.
