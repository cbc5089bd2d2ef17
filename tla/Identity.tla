------------------------------- MODULE Identity -------------------------------
(***************************************************************************)
(* Identities: chains of versions under refs/identities, changed by the    *)
(* processes of several clones, fetched, merged fast-forward only, and     *)
(* pushed together with the bugs their owners wrote. A version holds the   *)
(* keys valid from then on and the edit time of the bugs at its creation;  *)
(* a bug is signed with a key of its author and read against the keys      *)
(* valid at its edit time.                                                 *)
(*                                                                         *)
(* A bug here is one pack, never edited again: BugSync merges bugs.        *)
(***************************************************************************)
EXTENDS Naturals, Sequences, FiniteSets, SequencesExt, FiniteSetsExt

CONSTANTS
  Proc, Clone, Home,    \* the clone each process runs in
  Syncing,              \* processes that pull and push
  Lasting,              \* processes that go on after a pull: the terminal interface
  Person,               \* identities, in the order their references are listed
  Makers,               \* the processes that make each identity
  Editors,              \* the processes that change it later
  Authors,              \* the processes that write bugs in its name
  Key, NoKey,
  Keyring,              \* the private keys each clone has
  MaxVersions, MaxPending, MaxBugs   \* bounds

ASSUME HomeAssumption == Home \in [Proc -> Clone]
ASSUME RoleAssumption == Syncing \cup Lasting \subseteq Proc
ASSUME PersonAssumption ==
  /\ Person \subseteq Nat
  /\ IsFiniteSet(Person)
  /\ {Makers, Editors, Authors} \subseteq [Person -> SUBSET Proc]
ASSUME KeyAssumption == NoKey \notin Key /\ Keyring \in [Clone -> SUBSET Key]
ASSUME BoundAssumption == {MaxVersions, MaxPending, MaxBugs} \subseteq Nat

VARIABLES
  version,              \* the commits of all identities, in the order they were made
  bug,                  \* the commits of all bugs
  local, tracking,      \* refs/identities and refs/remotes/origin/identities
  bugs, seen,           \* refs/bugs and refs/remotes/origin/bugs
  remote, remoteBugs,   \* the references of the remote
  clock,                \* bugs-edit in each clone, 0 as long as it does not exist
  memory,               \* the instances each process holds
  pull                  \* where each process is in a pull

vars == <<version, bug, local, tracking, bugs, seen, remote, remoteBugs,
          clock, memory, pull>>
identities == <<version, local, tracking, remote>>
stored == <<bug, bugs, seen, remoteBugs>>
------------------------------------------------------------------------------
(* Chains of versions. 0 stands for a reference, an instance or a time     *)
(* that does not exist. A version keeps its chain, itself included.        *)

NoVersion == 0
Line(n) == IF n = NoVersion THEN <<>> ELSE version[n].line
Extends(n, m) == IsPrefix(Line(m), Line(n))
Diverged(n, m) == ~Extends(n, m) /\ ~Extends(m, n)

Content(n) == [time |-> version[n].time, keys |-> version[n].keys]
Chain(n) == [j \in DOMAIN Line(n) |-> Content(Line(n)[j])]

(* Identity.Validate: no clock goes back or is dropped.                    *)
Valid(chain) == \A j \in 1..Len(chain) - 1 : chain[j].time <= chain[j + 1].time

NotLoaded == [last |-> NoVersion, pending |-> <<>>]
Loaded(p, i) == memory[p][i].last # NoVersion
Instance(n) == [last |-> n, pending |-> <<>>]

(* What a process takes an identity to be: its instance, or what ReadLocal *)
(* finds.                                                                  *)
View(p, i) ==
  IF Loaded(p, i) THEN Chain(memory[p][i].last) \o memory[p][i].pending
  ELSE Chain(local[Home[p]][i])

LastVersion(p, i) == Last(View(p, i))

NoPull == [stage |-> "idle", todo |-> {}, theirs |-> NoVersion, ours |-> NoVersion]
Idle(p) == pull[p].stage = "idle"

Init ==
  /\ version = <<>>
  /\ bug = <<>>
  /\ local = [c \in Clone |-> [i \in Person |-> NoVersion]]
  /\ tracking = [c \in Clone |-> [i \in Person |-> NoVersion]]
  /\ bugs = [c \in Clone |-> {}]
  /\ seen = [c \in Clone |-> {}]
  /\ remote = [i \in Person |-> NoVersion]
  /\ remoteBugs = {}
  /\ clock = [c \in Clone |-> 0]
  /\ memory = [p \in Proc |-> [i \in Person |-> NotLoaded]]
  /\ pull = [p \in Proc |-> NoPull]
------------------------------------------------------------------------------
(* Changing an identity.                                                   *)

(* AllClocks opens the clocks whose files are there.                       *)
AllClocks(p) == clock[Home[p]]
(* newVersion: the time is the last one the clone's clock gave.            *)
NewVersion(p, keys) == [time |-> AllClocks(p), keys |-> keys]

(* The versions of an instance become commits on top of its last one.      *)
Commits(i, line, contents) ==
  LET n == Len(version)
  IN [k \in DOMAIN contents |->
        [of |-> i, time |-> contents[k].time, keys |-> contents[k].keys,
         line |-> line \o [j \in 1..k |-> n + j]]]

(* Mutant: the reference is left one version behind.                       *)
WriteBehind(p, i, contents) ==
  /\ Len(version) + Len(contents) <= MaxVersions
  /\ version' = version \o Commits(i, Line(memory[p][i].last), contents)
  /\ local' = [local EXCEPT ![Home[p]][i] = Len(version)]
  /\ memory' = [memory EXCEPT ![p][i] = Instance(Len(version'))]

Write(p, i, contents) ==
  /\ Len(version) + Len(contents) <= MaxVersions
  /\ version' = version \o Commits(i, Line(memory[p][i].last), contents)
  /\ local' = [local EXCEPT ![Home[p]][i] = Len(version')]
  /\ memory' = [memory EXCEPT ![p][i] = Instance(Len(version'))]

(* NewRaw: the identity is made and committed in one go.                   *)
NewRaw(p, i, keys) ==
  /\ Idle(p)
  /\ \A n \in DOMAIN version : version[n].of # i
  /\ Write(p, i, <<NewVersion(p, keys)>>)
  /\ UNCHANGED <<tracking, remote, stored, clock, pull>>

Resolve(p, i) ==
  /\ ~Loaded(p, i)
  /\ local[Home[p]][i] # NoVersion
  /\ memory' = [memory EXCEPT ![p][i] = Instance(local[Home[p]][i])]
  /\ UNCHANGED <<identities, stored, clock, pull>>

Stage(p, i, content) ==
  /\ Loaded(p, i)
  /\ Len(memory[p][i].pending) < MaxPending
  /\ Len(version) < MaxVersions
  /\ memory' = [memory EXCEPT ![p][i].pending = Append(@, content)]
  /\ UNCHANGED <<identities, stored, clock, pull>>

(* Mutate: a new name, or other keys.                                      *)
Mutate(p, i, keys) == Stage(p, i, NewVersion(p, keys))

(* SetMetadata: a copy of the last version, times included, unless that    *)
(* one is still pending.                                                   *)
SetMetadata(p, i) ==
  /\ memory[p][i].pending = <<>>
  /\ Loaded(p, i) /\ Stage(p, i, LastVersion(p, i))

(* Mutant: the pending versions are not validated.                         *)
CommitUnchecked(p, i) ==
  /\ memory[p][i].pending # <<>>
  /\ local[Home[p]][i] = memory[p][i].last
  /\ Write(p, i, memory[p][i].pending)
  /\ UNCHANGED <<tracking, remote, stored, clock, pull>>

(* Commit; when the chain is not valid, or the reference has moved, the    *)
(* pending versions stay where they are.                                   *)
Commit(p, i) ==
  /\ memory[p][i].pending # <<>>
  /\ Valid(View(p, i))
  /\ local[Home[p]][i] = memory[p][i].last
  /\ Write(p, i, memory[p][i].pending)
  /\ UNCHANGED <<tracking, remote, stored, clock, pull>>

Forgotten(p) == [memory EXCEPT ![p] = [i \in Person |-> NotLoaded]]

(* The process ends, and another is started.                               *)
Exit(p) ==
  /\ Idle(p)
  /\ memory' = Forgotten(p)
  /\ UNCHANGED <<identities, stored, clock, pull>>
------------------------------------------------------------------------------
(* Bugs.                                                                   *)

(* The time from which a version holds: that of the version before when it *)
(* does not say.                                                           *)
RefTime(chain, j) ==
  LET known == {k \in 1..j : chain[k].time # 0}
  IN IF known = {} THEN 0 ELSE chain[Max(known)].time

ValidKeysAtTime(chain, time) ==
  LET begun == {j \in DOMAIN chain : \A k \in 1..j : RefTime(chain, k) <= time}
  IN IF begun = {} THEN {} ELSE chain[Max(begun)].keys

(* readOperationPack: a signature is asked for only where there are keys.  *)
Verifies(chain, b) ==
  LET keys == ValidKeysAtTime(chain, b.edit)
  IN keys # {} => b.key \in keys

Readable(chain, b) == chain # <<>> /\ Verifies(chain, b)

(* loadPrivate: the keyring has the private part of the key.               *)
HasPrivate(p, key) == key \in Keyring[Home[p]]

(* SigningKey: a key of the last version whose private part is here.       *)
SigningKeys(p, i) ==
  LET usable == {key \in LastVersion(p, i).keys : HasPrivate(p, key)}
  IN IF usable = {} THEN {NoKey} ELSE usable

(* A bug is created: its edit time is the next one, and a clock starts at  *)
(* 1.                                                                      *)
NewBug(p, i) ==
  /\ Idle(p)
  /\ Loaded(p, i)
  /\ Len(bug) < MaxBugs
  /\ LET c == Home[p]
         edit == IF clock[c] = 0 THEN 2 ELSE clock[c] + 1
     IN /\ \E key \in SigningKeys(p, i) :
             bug' = Append(bug, [author |-> i, edit |-> edit, key |-> key])
        /\ clock' = [clock EXCEPT ![c] = edit]
        /\ bugs' = [bugs EXCEPT ![c] = @ \cup {Len(bug')}]
  /\ UNCHANGED <<identities, seen, remoteBugs, memory, pull>>
------------------------------------------------------------------------------
(* Pulling.                                                                *)

(* Fetch, fast-forward only like every reference of the remote.            *)
Fetch(p) ==
  LET c == Home[p]
  IN /\ Idle(p)
     /\ tracking' = [tracking EXCEPT ![c] = remote]
     /\ seen' = [seen EXCEPT ![c] = remoteBugs]
     /\ pull' = [pull EXCEPT ![p].stage = "merge",
                             ![p].todo = {i \in Person : remote[i] # NoVersion}]
     /\ UNCHANGED <<version, local, remote, bug, bugs, remoteBugs, clock, memory>>

Next_(p) == Min(pull[p].todo)
(* Mutant: the first identity that was merged is the last.                 *)
DoneWithAll(p) == [pull EXCEPT ![p] = [NoPull EXCEPT !.stage = "merge"]]
Done(p) ==
  [pull EXCEPT ![p] = [NoPull EXCEPT !.stage = "merge", !.todo = pull[p].todo \ {Next_(p)}]]
Stop(p) == [pull EXCEPT ![p] = [NoPull EXCEPT !.stage = "merge"]]

(* MergeAll reads the fetched identity, passes over one that is not valid, *)
(* and looks for the local one.                                            *)
MergeRead(p) ==
  LET c == Home[p]
      theirs == tracking[c][Next_(p)]
  IN /\ pull[p].stage = "merge"
     /\ pull[p].todo # {}
     /\ pull' = IF Valid(Chain(theirs))
                THEN [pull EXCEPT ![p].stage = "write", ![p].theirs = theirs,
                                  ![p].ours = local[c][Next_(p)]]
                ELSE Done(p)
     /\ UNCHANGED <<identities, stored, clock, memory>>

Install(p, n) == memory' = [memory EXCEPT ![p][Next_(p)] = Instance(n)]

(* There was no local identity, and still is none: CopyRef takes what the  *)
(* fetched reference has by now.                                           *)
MergeNew(p) ==
  LET c == Home[p]
      i == Next_(p)
  IN /\ pull[p].stage = "write"
     /\ pull[p].ours = NoVersion
     /\ local[c][i] = NoVersion
     /\ local' = [local EXCEPT ![c][i] = tracking[c][i]]
     /\ Install(p, pull[p].theirs)
     /\ pull' = Done(p)
     /\ UNCHANGED <<version, tracking, remote, stored, clock>>

(* Mutant: the reference may have moved meanwhile.                         *)
MergeForwardStale(p) ==
  LET c == Home[p]
      i == Next_(p)
  IN /\ pull[p].stage = "write"
     /\ pull[p].ours # NoVersion
     /\ pull[p].ours # pull[p].theirs
     /\ Extends(pull[p].theirs, pull[p].ours)
     /\ local' = [local EXCEPT ![c][i] = pull[p].theirs]
     /\ Install(p, pull[p].theirs)
     /\ pull' = Done(p)
     /\ UNCHANGED <<version, tracking, remote, stored, clock>>

(* Identity.Merge: the local chain is a part of the fetched one, and still *)
(* the local one.                                                          *)
MergeForward(p) ==
  LET c == Home[p]
      i == Next_(p)
  IN /\ pull[p].stage = "write"
     /\ pull[p].ours # NoVersion
     /\ pull[p].ours # pull[p].theirs
     /\ Extends(pull[p].theirs, pull[p].ours)
     /\ local[c][i] = pull[p].ours
     /\ local' = [local EXCEPT ![c][i] = pull[p].theirs]
     /\ Install(p, pull[p].theirs)
     /\ pull' = Done(p)
     /\ UNCHANGED <<version, tracking, remote, stored, clock>>

MergeNothing(p) ==
  /\ pull[p].stage = "write"
  /\ pull[p].ours # NoVersion
  /\ Extends(pull[p].ours, pull[p].theirs)
  /\ pull' = Done(p)
  /\ UNCHANGED <<identities, stored, clock, memory>>

(* Diverged, or the reference has moved: MergeAll returns, the identities  *)
(* that are left are not merged.                                           *)
MergeStops(p) ==
  /\ pull[p].stage = "write"
  /\ ~Extends(pull[p].ours, pull[p].theirs)
  /\ \/ Diverged(pull[p].ours, pull[p].theirs)
     \/ local[Home[p]][Next_(p)] # pull[p].ours
  /\ pull' = Stop(p)
  /\ UNCHANGED <<identities, stored, clock, memory>>

(* The bugs come after the identities, however those ended. One that       *)
(* cannot be read is left out. The command ends with its pull.             *)
MergeBugs(p) ==
  LET c == Home[p]
      new == {b \in seen[c] \ bugs[c] : Readable(View(p, bug[b].author), bug[b])}
  IN /\ pull[p].stage = "merge"
     /\ pull[p].todo = {}
     /\ bugs' = [bugs EXCEPT ![c] = @ \cup new]
     /\ clock' = [clock EXCEPT ![c] = Max({@} \cup {bug[b].edit : b \in new})]
     /\ pull' = [pull EXCEPT ![p] = NoPull]
     /\ memory' = IF p \in Lasting THEN memory ELSE Forgotten(p)
     /\ UNCHANGED <<identities, bug, seen, remoteBugs>>
------------------------------------------------------------------------------
(* Push sends all references at once and is refused as a whole when one of *)
(* them does not extend the remote's.                                      *)
CanPush(c) == \A i \in Person : Extends(local[c][i], remote[i])

Push(p) ==
  LET c == Home[p]
  IN /\ Idle(p)
     /\ CanPush(c)
     /\ remote' = local[c]
     /\ tracking' = [tracking EXCEPT ![c] = local[c]]
     /\ remoteBugs' = remoteBugs \cup bugs[c]
     /\ seen' = [seen EXCEPT ![c] = @ \cup bugs[c]]
     /\ <<remote, remoteBugs>>' # <<remote, remoteBugs>>
     /\ UNCHANGED <<version, local, bug, bugs, clock, memory, pull>>

Merge(p) ==
  \/ MergeRead(p)
  \/ MergeNew(p)
  \/ MergeForward(p)
  \/ MergeNothing(p)
  \/ MergeStops(p)
  \/ MergeBugs(p)

Change(p, i) ==
  \/ Resolve(p, i)
  \/ \E keys \in SUBSET Key : Mutate(p, i, keys)
  \/ SetMetadata(p, i)
  \/ Commit(p, i)

Next ==
  \/ \E i \in Person : \E p \in Makers[i], keys \in SUBSET Key : NewRaw(p, i, keys)
  \/ \E i \in Person : \E p \in Editors[i] : Change(p, i)
  \/ \E i \in Person : \E p \in Authors[i] : NewBug(p, i)
  \/ \E p \in Syncing : Fetch(p) \/ Merge(p) \/ Push(p)
  \/ \E p \in Lasting : Exit(p)

Spec == Init /\ [][Next]_vars

(* People pull and push again and again; the code does not retry.          *)
FairSpec ==
  /\ Spec
  /\ \A p \in Syncing : WF_vars(Fetch(p) \/ Merge(p)) /\ SF_vars(Push(p))
------------------------------------------------------------------------------
Reference(i) == {NoVersion} \cup {n \in DOMAIN version : version[n].of = i}

(* References, instances and the state of a pull name versions of the      *)
(* identity they stand for, and a chain is made of versions of one.        *)
TypeOK ==
  /\ \A n \in DOMAIN version :
       /\ version[n].of \in Person
       /\ version[n].time \in Nat
       /\ version[n].keys \subseteq Key
       /\ Last(version[n].line) = n
       /\ \A m \in Range(version[n].line) : m \in Reference(version[n].of)
  /\ \A b \in DOMAIN bug : bug[b] \in [author : Person, edit : Nat \ {0}, key : Key \cup {NoKey}]
  /\ \A i \in Person :
       /\ remote[i] \in Reference(i)
       /\ \A c \in Clone : {local[c][i], tracking[c][i]} \subseteq Reference(i)
       /\ \A p \in Proc : memory[p][i].last \in Reference(i)
  /\ \A c \in Clone : bugs[c] \cup seen[c] \cup remoteBugs \subseteq DOMAIN bug
  /\ \A p \in Proc :
       /\ pull[p].stage \in {"idle", "merge", "write"}
       /\ pull[p].todo \subseteq Person
       /\ pull[p].stage = "write" =>
            pull[p].todo # {} /\ {pull[p].theirs, pull[p].ours} \subseteq Reference(Next_(p))

(* Whatever was staged, from which clock and in whichever order processes  *)
(* committed and merged, the chain behind every reference has times that   *)
(* only grow and a clock that, once there, stays.                          *)
ChainsAreValid ==
  \A i \in Person : \A n \in {remote[i]} \cup {local[c][i] : c \in Clone} : Valid(Chain(n))

(* The history of an identity cannot be altered: a reference, here or at   *)
(* the remote, only moves to a version that extends the one it had.        *)
HistoryKept ==
  [][\A i \in Person :
       /\ \A c \in Clone : IsPrefix(Line(local[c][i]), Line(local[c][i])')
       /\ IsPrefix(Line(remote[i]), Line(remote[i])')]_vars

(* The share of the work that sync does in the end: as long as no identity *)
(* listed before it has diverged, one is pulled; and a clone where none    *)
(* has diverged has everything it has at the remote as well, its bugs too. *)
Apart(c, i) == Diverged(local[c][i], remote[i])
Pulled(c, i) == (\E j \in Person : j <= i /\ Apart(c, j)) \/ Extends(local[c][i], remote[i])
Pushed(c) == (\E j \in Person : Apart(c, j)) \/ (local[c] = remote /\ bugs[c] = remoteBugs)
Syncs(c) == \E p \in Syncing : Home[p] = c
Converges ==
  <>[](\A c \in Clone : Syncs(c) => (\A i \in Person : Pulled(c, i)) /\ Pushed(c))

(* "A revoked key remains valid for verifying operations that were signed  *)
(* before the revocation": a signed bug that a clone could read stays      *)
(* readable there when its author gets other keys.                         *)
RevokedKeysVerify ==
  [][\A c \in Clone : \A b \in bugs[c] :
       LET chain == Chain(local[c][bug[b].author])
       IN bug[b].key # NoKey /\ Readable(chain, bug[b]) => Readable(chain', bug[b])]_vars
==============================================================================
