------------------------------ MODULE EntityStore ------------------------------
(***************************************************************************)
(* One entity (a bug) in one clone, edited by several git-bug processes at *)
(* once: dag.read, Entity.Commit, dag.merge, dag.Remove, fetch and push,   *)
(* cut at every point where another process can get in between - each      *)
(* resolution of a reference, each call of a clock, each stored commit and *)
(* each compare-and-swap of a reference is a step of its own.              *)
(*                                                                         *)
(* Commits are immutable and content addressed, so "dag" is the object     *)
(* store of this clone and of the remote together. The remote, and the     *)
(* other clones that push to it, are Peer.                                 *)
(***************************************************************************)
EXTENDS EntityDag, FiniteSets

CONSTANTS
  Proc,                 \* git-bug processes in this clone
  Puller,               \* those that run "git-bug pull": fetch and merge
  Pusher,               \* those that run "git-bug push"
  Remover,              \* those that run "git-bug bug rm"
  Op,                   \* operations; each is staged at most once (its nonce)
  Author,               \* Author[o]: who makes operation o
  MaxStaged,            \* bound: operations staged at once
  MaxCommits,           \* bound: commits ever stored
  MaxTime,              \* bound: edit time
  MaxSkew,              \* bound: how far a peer's clock runs ahead of the tip
  MaxCrashes            \* bound: processes that die inside a call

ASSUME RoleAssumption == Puller \union Pusher \union Remover \subseteq Proc
ASSUME AuthorAssumption == DOMAIN Author = Op
ASSUME BoundAssumption == {MaxStaged, MaxCommits, MaxTime, MaxSkew, MaxCrashes} \subseteq Nat

VARIABLES
  dag,                  \* all commits stored so far
  local,                \* refs/bugs/<id>
  tracking,             \* refs/remotes/<remote>/bugs/<id>
  server,               \* refs/bugs/<id> on the remote
  editFile, editMem,    \* the clock bugs-edit: its file, its copy per process
  pc,                   \* where each process is
  base,                 \* Entity.lastCommit of the instance a process holds
  staging,              \* Entity.staging of that instance
  pending,              \* Commit: operations not yet in a pack
  last,                 \* tip being read, or built by Commit or merge
  localCommit,          \* merge: the local tip it resolved
  remoteCommit,         \* merge: the remote tip it resolved
  crashes,              \* number of crashes, for the bound
  acked                 \* history: operations whose Commit returned without
                        \* error since the entity was last removed

refs == <<local, tracking, server>>
edits == <<editFile, editMem>>
handle == <<base, staging>>
merging == <<localCommit, remoteCommit>>
vars == <<dag, refs, edits, pc, handle, pending, last, merging, crashes, acked>>

EditClock == INSTANCE AtomicClock
               WITH Time <- Nat, file <- editFile, mem <- editMem

Init ==
  /\ dag = <<>>
  /\ local = 0 /\ tracking = 0 /\ server = 0
  /\ EditClock!Init
  /\ pc = [p \in Proc |-> "closed"]
  /\ crashes = 0
  /\ base = [p \in Proc |-> 0]
  /\ staging = [p \in Proc |-> <<>>]
  /\ pending = [p \in Proc |-> <<>>]
  /\ last = [p \in Proc |-> 0]
  /\ localCommit = [p \in Proc |-> 0]
  /\ remoteCommit = [p \in Proc |-> 0]
  /\ acked = {}

Goto(p, label) == pc' = [pc EXCEPT ![p] = label]

(* The call is over: what it held in its local variables is gone.           *)
Return(p) ==
  /\ pc' = [pc EXCEPT ![p] = "idle"]
  /\ last' = [last EXCEPT ![p] = 0]
  /\ localCommit' = [localCommit EXCEPT ![p] = 0]
  /\ remoteCommit' = [remoteCommit EXCEPT ![p] = 0]

(* The next step of the call, which keeps its local variables.              *)
Continue(p, label) ==
  /\ Goto(p, label)
  /\ UNCHANGED <<last, merging>>

(* The new commit's hash is its place in the store.                        *)
Store(pack) ==
  /\ Len(dag) < MaxCommits
  /\ dag' = Append(dag, pack)

Fresh(o) ==
  /\ \A c \in DOMAIN dag : o \notin dag[c].ops
  /\ \A p \in Proc : o \notin Elements(staging[p])

------------------------------------------------------------------------------
(* Processes come and go: p is a slot that one process after another fills. *)

(* OpenGoGitRepo finds the clock in its file.                               *)
OpenClock(p) ==
  /\ pc[p] = "closed"
  /\ editFile # 0
  /\ EditClock!Open(p)
  /\ Goto(p, "idle")
  /\ UNCHANGED <<dag, refs, handle, pending, last, merging, crashes, acked>>

(* It does not: the clock is rebuilt from the entities, if there are any.    *)
OpenWithoutClock(p) ==
  /\ pc[p] = "closed"
  /\ editFile = 0
  /\ last' = [last EXCEPT ![p] = local]
  /\ Goto(p, IF local = 0 THEN "idle" ELSE "load")
  /\ UNCHANGED <<dag, refs, edits, handle, pending, merging, crashes, acked>>

(* readClockNoCheck witnesses the edit time of the tip.                     *)
LoadClock(p) ==
  /\ pc[p] = "load"
  /\ EditClock!Witness(p, EditTime(dag, last[p]))
  /\ Return(p)
  /\ UNCHANGED <<dag, refs, handle, pending, crashes, acked>>

Replace(p) ==
  /\ pc' = [pc EXCEPT ![p] = "closed"]
  /\ last' = [last EXCEPT ![p] = 0]
  /\ localCommit' = [localCommit EXCEPT ![p] = 0]
  /\ remoteCommit' = [remoteCommit EXCEPT ![p] = 0]
  /\ base' = [base EXCEPT ![p] = 0]
  /\ staging' = [staging EXCEPT ![p] = <<>>]
  /\ pending' = [pending EXCEPT ![p] = <<>>]
  /\ UNCHANGED <<dag, refs, acked>>

Exit(p) ==
  /\ pc[p] = "idle"
  /\ Replace(p)
  /\ EditClock!Stop(p)
  /\ UNCHANGED crashes

(* It dies between two steps of a call.                                     *)
Crash(p) ==
  /\ pc[p] \notin {"closed", "idle"}
  /\ crashes < MaxCrashes
  /\ crashes' = crashes + 1
  /\ Replace(p)
  /\ EditClock!Stop(p)

(* It dies while it writes the file of the clock.                           *)
CrashInClock(p) ==
  /\ pc[p] \in {"load", "witness", "tick", "mWitness", "mWitnessLocal", "mTick"}
  /\ crashes < MaxCrashes
  /\ crashes' = crashes + 1
  /\ Replace(p)
  /\ EditClock!Tear(p)

------------------------------------------------------------------------------
(* Reading: dag.Read. The tip is resolved, the immutable commits under it  *)
(* are walked and checked, and their clocks are witnessed. The checks make *)
(* the tip's edit time the largest one and give it a single root.          *)

Read(p) ==
  /\ pc[p] = "idle"
  /\ staging[p] = <<>>
  /\ local # 0
  /\ Readable(dag, local)
  /\ last' = [last EXCEPT ![p] = local]
  /\ Goto(p, "witness")
  /\ UNCHANGED <<dag, refs, edits, handle, pending, merging, crashes, acked>>

Witness(p) ==
  /\ pc[p] = "witness"
  /\ EditClock!Witness(p, EditTime(dag, last[p]))
  /\ base' = [base EXCEPT ![p] = last[p]]
  /\ Return(p)
  /\ UNCHANGED <<dag, refs, staging, pending, crashes, acked>>

------------------------------------------------------------------------------
(* Writing: dag.New, Entity.Append and Entity.Commit.                      *)

(* A new entity starts with its first operation staged and no commit.      *)
New(p, o) ==
  /\ pc[p] = "idle"
  /\ dag = <<>>
  /\ \A q \in Proc : staging[q] = <<>>
  /\ staging' = [staging EXCEPT ![p] = <<o>>]
  /\ UNCHANGED <<dag, refs, edits, pc, base, pending, last, merging, crashes, acked>>

AppendOp(p, o) ==
  /\ pc[p] = "idle"
  /\ base[p] # 0 \/ staging[p] # <<>>
  /\ Len(staging[p]) < MaxStaged
  /\ Fresh(o)
  /\ staging' = [staging EXCEPT ![p] = Append(@, o)]
  /\ UNCHANGED <<dag, refs, edits, pc, base, pending, last, merging, crashes, acked>>

CommitBegin(p) ==
  /\ pc[p] = "idle"
  /\ staging[p] # <<>>
  /\ pending' = [pending EXCEPT ![p] = staging[p]]
  /\ last' = [last EXCEPT ![p] = base[p]]
  /\ Goto(p, "tick")
  /\ UNCHANGED <<dag, refs, edits, handle, merging, crashes, acked>>

(* The edit time of the next pack.                                         *)
Tick(p) ==
  /\ pc[p] = "tick"
  /\ EditClock!Current(p) < MaxTime
  /\ EditClock!Increment(p)
  /\ Continue(p, "store")
  /\ UNCHANGED <<dag, refs, handle, pending, crashes, acked>>

(* The first n operations are the longest run by one author.               *)
IsChunk(s, n) ==
  /\ \A i \in 1..n : Author[s[i]] = Author[s[1]]
  /\ n < Len(s) => Author[s[n + 1]] # Author[s[1]]

(* Mutant: the hash is taken of a pack that is not written.                 *)
StoreNothing(p) ==
  /\ pc[p] = "store"
  /\ Len(dag) < MaxCommits
  /\ \E n \in 1..Len(pending[p]) :
       /\ IsChunk(pending[p], n)
       /\ pending' = [pending EXCEPT ![p] = SubSeq(@, n + 1, Len(@))]
       /\ Goto(p, IF n = Len(pending[p]) THEN "update" ELSE "tick")
  /\ last' = [last EXCEPT ![p] = Len(dag) + 1]
  /\ UNCHANGED <<dag, refs, edits, handle, merging, crashes, acked>>

StoreChunk(p) ==
  /\ pc[p] = "store"
  /\ \E n \in 1..Len(pending[p]) :
       /\ IsChunk(pending[p], n)
       /\ Store(Pack(dag,
                     IF last[p] = 0 THEN <<>> ELSE <<last[p]>>,
                     {pending[p][i] : i \in 1..n},
                     editMem[p],
                     last[p] = 0))
       /\ pending' = [pending EXCEPT ![p] = SubSeq(@, n + 1, Len(@))]
       /\ Goto(p, IF n = Len(pending[p]) THEN "update" ELSE "tick")
  /\ last' = [last EXCEPT ![p] = Len(dag) + 1]
  /\ UNCHANGED <<refs, edits, handle, merging, crashes, acked>>

(* Mutant: the reference moves to the commit whatever it was.               *)
CommitUnconditional(p) ==
  /\ pc[p] = "update"
  /\ local' = last[p]
  /\ base' = [base EXCEPT ![p] = last[p]]
  /\ staging' = [staging EXCEPT ![p] = <<>>]
  /\ acked' = acked \union Elements(staging[p])
  /\ Return(p)
  /\ UNCHANGED <<dag, tracking, server, edits, pending, crashes>>

(* Mutant: the staging survives the commit.                                 *)
CommitKeepsStaging(p) ==
  /\ pc[p] = "update"
  /\ local = base[p]
  /\ local' = last[p]
  /\ base' = [base EXCEPT ![p] = last[p]]
  /\ acked' = acked \union Elements(staging[p])
  /\ Return(p)
  /\ UNCHANGED <<dag, tracking, server, edits, staging, pending, crashes>>

(* UpdateRefIfMatches(ref, lastCommit, e.lastCommit) succeeds, and only    *)
(* then does the instance move on.                                         *)
CommitDone(p) ==
  /\ pc[p] = "update"
  /\ local = base[p]
  /\ local' = last[p]
  /\ base' = [base EXCEPT ![p] = last[p]]
  /\ staging' = [staging EXCEPT ![p] = <<>>]
  /\ acked' = acked \union Elements(staging[p])
  /\ Return(p)
  /\ UNCHANGED <<dag, tracking, server, edits, pending, crashes>>

(* Mutant: the error of the update is dropped.                              *)
ConflictSwallowed(p) ==
  /\ pc[p] = "update"
  /\ local # base[p]
  /\ base' = [base EXCEPT ![p] = last[p]]
  /\ staging' = [staging EXCEPT ![p] = <<>>]
  /\ acked' = acked \union Elements(staging[p])
  /\ Return(p)
  /\ UNCHANGED <<dag, refs, edits, pending, crashes>>

(* ErrReferenceConflict: the instance keeps its staging and its old tip.   *)
CommitConflict(p) ==
  /\ pc[p] = "update"
  /\ local # base[p]
  /\ Return(p)
  /\ UNCHANGED <<dag, refs, edits, handle, pending, crashes, acked>>

------------------------------------------------------------------------------
(* Merging: dag.merge for this entity. Every reference is resolved anew     *)
(* each time the code asks for it.                                          *)

(* read(remoteRef); an unreadable remote ends the merge as Invalid.         *)
MergeBegin(p) ==
  /\ pc[p] = "idle"
  /\ p \in Puller
  /\ tracking # 0
  /\ Readable(dag, tracking)
  /\ last' = [last EXCEPT ![p] = tracking]
  /\ Goto(p, "mWitness")
  /\ UNCHANGED <<dag, refs, edits, handle, pending, merging, crashes, acked>>

(* Mutant: the clock of the remote tip is not witnessed.                    *)
MergeWitnessNothing(p) ==
  /\ pc[p] = "mWitness"
  /\ Continue(p, "mExist")
  /\ UNCHANGED <<dag, refs, edits, handle, pending, crashes, acked>>

MergeWitness(p) ==
  /\ pc[p] = "mWitness"
  /\ EditClock!Witness(p, EditTime(dag, last[p]))
  /\ Continue(p, "mExist")
  /\ UNCHANGED <<dag, refs, handle, pending, crashes, acked>>

(* RefExist(localRef)                                                       *)
MergeExist(p) ==
  /\ pc[p] = "mExist"
  /\ Continue(p, IF local = 0 THEN "mCopy" ELSE "mLocal")
  /\ UNCHANGED <<dag, refs, edits, handle, pending, crashes, acked>>

(* Scenario 1, first half of CopyRef: the remote reference is resolved.     *)
MergeCopy(p) ==
  /\ pc[p] = "mCopy"
  /\ IF tracking = 0
       THEN Return(p)
       ELSE /\ remoteCommit' = [remoteCommit EXCEPT ![p] = tracking]
            /\ Goto(p, "mCreate")
            /\ UNCHANGED <<last, localCommit>>
  /\ UNCHANGED <<dag, refs, edits, handle, pending, crashes, acked>>

(* Second half: the local reference is created unless it exists by now.     *)
MergeCreate(p) ==
  /\ pc[p] = "mCreate"
  /\ local' = IF local = 0 THEN remoteCommit[p] ELSE local
  /\ Return(p)
  /\ UNCHANGED <<dag, tracking, server, edits, handle, pending, crashes, acked>>

MergeLocal(p) ==
  /\ pc[p] = "mLocal"
  /\ IF local = 0
       THEN Return(p)
       ELSE /\ localCommit' = [localCommit EXCEPT ![p] = local]
            /\ Goto(p, "mRemote")
            /\ UNCHANGED <<last, remoteCommit>>
  /\ UNCHANGED <<dag, refs, edits, handle, pending, crashes, acked>>

(* Scenario 2 ends the merge here.                                          *)
MergeRemote(p) ==
  /\ pc[p] = "mRemote"
  /\ IF tracking \in {0, localCommit[p]}
       THEN Return(p)
       ELSE /\ remoteCommit' = [remoteCommit EXCEPT ![p] = tracking]
            /\ Goto(p, "mListLocal")
            /\ UNCHANGED <<last, localCommit>>
  /\ UNCHANGED <<dag, refs, edits, handle, pending, crashes, acked>>

(* Scenario 3: ListCommits(localRef) holds the remote tip.                  *)
MergeListLocal(p) ==
  /\ pc[p] = "mListLocal"
  /\ IF local = 0 \/ remoteCommit[p] \in History(dag, local)
       THEN Return(p)
       ELSE Continue(p, "mListRemote")
  /\ UNCHANGED <<dag, refs, edits, handle, pending, crashes, acked>>

(* Does ListCommits(remoteRef) hold the local tip?                          *)
MergeListRemote(p) ==
  /\ pc[p] = "mListRemote"
  /\ IF tracking = 0 THEN Return(p)
     ELSE IF localCommit[p] \in History(dag, tracking) THEN Continue(p, "mForward")
     ELSE Continue(p, "mRead")
  /\ UNCHANGED <<dag, refs, edits, handle, pending, crashes, acked>>

(* Mutant: the merge moves the reference whatever it is by now.             *)
MergeMovesRef(p, to) ==
  /\ local' = to
  /\ Return(p)
  /\ UNCHANGED <<dag, tracking, server, edits, handle, pending, crashes, acked>>

(* UpdateRefIfMatches(localRef, to, localCommit), which may conflict.       *)
MergeUpdateRef(p, to) ==
  /\ local' = IF local = localCommit[p] THEN to ELSE local
  /\ Return(p)
  /\ UNCHANGED <<dag, tracking, server, edits, handle, pending, crashes, acked>>

(* Scenario 4: fast forward.                                                *)
MergeForward(p) ==
  /\ pc[p] = "mForward"
  /\ MergeUpdateRef(p, remoteCommit[p])

(* Scenario 5: read(localRef), whose failure ends the merge ...             *)
MergeRead(p) ==
  /\ pc[p] = "mRead"
  /\ IF local # 0 /\ Readable(dag, local)
       THEN /\ last' = [last EXCEPT ![p] = local]
            /\ Goto(p, "mWitnessLocal")
            /\ UNCHANGED merging
       ELSE Return(p)
  /\ UNCHANGED <<dag, refs, edits, handle, pending, crashes, acked>>

MergeWitnessLocal(p) ==
  /\ pc[p] = "mWitnessLocal"
  /\ EditClock!Witness(p, EditTime(dag, last[p]))
  /\ Continue(p, "mTick")
  /\ UNCHANGED <<dag, refs, handle, pending, crashes, acked>>

(* ... then an edit time for the merge commit ...                           *)
MergeTick(p) ==
  /\ pc[p] = "mTick"
  /\ EditClock!Current(p) < MaxTime
  /\ EditClock!Increment(p)
  /\ Continue(p, "mStore")
  /\ UNCHANGED <<dag, refs, handle, pending, crashes, acked>>

(* ... an empty pack on top of the two tips resolved before ...             *)
MergeStore(p) ==
  /\ pc[p] = "mStore"
  /\ Store(Pack(dag, <<localCommit[p], remoteCommit[p]>>, {}, editMem[p], FALSE))
  /\ last' = [last EXCEPT ![p] = Len(dag) + 1]
  /\ Goto(p, "mUpdate")
  /\ UNCHANGED <<refs, edits, handle, pending, merging, crashes, acked>>

(* ... and the reference moves to it.                                       *)
MergeUpdate(p) ==
  /\ pc[p] = "mUpdate"
  /\ MergeUpdateRef(p, last[p])

------------------------------------------------------------------------------
(* The remote. Its fetch and push refspecs accept fast forwards only.       *)

(* FetchRefs moves the tracking reference.                                  *)
Fetch(p) ==
  /\ pc[p] = "idle"
  /\ p \in Puller
  /\ tracking # server
  /\ tracking # 0 => tracking \in History(dag, server)
  /\ tracking' = server
  /\ UNCHANGED <<dag, local, server, edits, pc, handle, pending, last, merging, crashes, acked>>

(* PushRefs moves the remote's reference, and the tracking reference with it. *)
Push(p) ==
  /\ pc[p] = "idle"
  /\ p \in Pusher
  /\ local # 0
  /\ local # server
  /\ server # 0 => server \in History(dag, local)
  /\ server' = local
  /\ tracking' = local
  /\ UNCHANGED <<dag, local, edits, pc, handle, pending, last, merging, crashes, acked>>

(* Another clone, up to date with the remote, pushes one operation. Its     *)
(* clock has witnessed the tip and may be ahead of every clock here.        *)
Peer(o) ==
  /\ server # 0
  /\ Fresh(o)
  /\ \E t \in EditTime(dag, server) + 1 .. EditTime(dag, server) + 1 + MaxSkew :
       /\ t <= MaxTime
       /\ Store(Pack(dag, <<server>>, {o}, t, FALSE))
  /\ server' = Len(dag) + 1
  /\ UNCHANGED <<local, tracking, edits, pc, handle, pending, last, merging, crashes, acked>>

------------------------------------------------------------------------------
(* Removing: dag.Remove takes the local reference, then the tracking one;   *)
(* each is resolved first and removed only if it has not moved since.       *)

RemoveBegin(p) ==
  /\ pc[p] = "idle"
  /\ p \in Remover
  /\ last' = [last EXCEPT ![p] = local]
  /\ Goto(p, IF local = 0 THEN "rTracking" ELSE "rLocal")
  /\ UNCHANGED <<dag, refs, edits, handle, pending, merging, crashes, acked>>

(* Mutant: the reference is deleted even when it has moved.                 *)
RemoveMoved(p) ==
  /\ pc[p] = "rLocal"
  /\ Continue(p, "rTracking")
  /\ local' = 0
  /\ acked' = IF local = last[p] THEN {} ELSE acked
  /\ UNCHANGED <<dag, tracking, server, edits, handle, pending, crashes>>

(* RemoveRefIfMatches: a reference that is gone is fine, one that moved is  *)
(* a conflict and ends the removal.                                         *)
RemoveLocal(p) ==
  /\ pc[p] = "rLocal"
  /\ IF local \in {0, last[p]} THEN Continue(p, "rTracking") ELSE Return(p)
  /\ local' = IF local = last[p] THEN 0 ELSE local
  /\ acked' = IF local = last[p] THEN {} ELSE acked
  /\ UNCHANGED <<dag, tracking, server, edits, handle, pending, crashes>>

RemoveResolveTracking(p) ==
  /\ pc[p] = "rTracking"
  /\ IF tracking = 0
       THEN Return(p)
       ELSE /\ last' = [last EXCEPT ![p] = tracking]
            /\ Goto(p, "rRemove")
            /\ UNCHANGED merging
  /\ UNCHANGED <<dag, refs, edits, handle, pending, crashes, acked>>

RemoveTracking(p) ==
  /\ pc[p] = "rRemove"
  /\ tracking' = IF tracking = last[p] THEN 0 ELSE tracking
  /\ Return(p)
  /\ UNCHANGED <<dag, local, server, edits, handle, pending, crashes, acked>>

------------------------------------------------------------------------------

Life(p) ==
  \/ OpenClock(p) \/ OpenWithoutClock(p) \/ LoadClock(p)
  \/ Exit(p) \/ Crash(p) \/ CrashInClock(p)

Reading(p) == Read(p) \/ Witness(p)

Staging(p) == \E o \in Op : New(p, o) \/ AppendOp(p, o)

Committing(p) ==
  \/ CommitBegin(p) \/ Tick(p) \/ StoreChunk(p)
  \/ CommitDone(p) \/ CommitConflict(p)

Merging(p) ==
  \/ MergeBegin(p) \/ MergeWitness(p) \/ MergeExist(p)
  \/ MergeCopy(p) \/ MergeCreate(p)
  \/ MergeLocal(p) \/ MergeRemote(p) \/ MergeListLocal(p) \/ MergeListRemote(p)
  \/ MergeForward(p)
  \/ MergeRead(p) \/ MergeWitnessLocal(p) \/ MergeTick(p) \/ MergeStore(p)
  \/ MergeUpdate(p)

Syncing(p) == Fetch(p) \/ Push(p)

Removing(p) ==
  \/ RemoveBegin(p) \/ RemoveLocal(p)
  \/ RemoveResolveTracking(p) \/ RemoveTracking(p)

Next ==
  \/ \E p \in Proc : Life(p) \/ Reading(p) \/ Staging(p) \/ Committing(p)
                     \/ Merging(p) \/ Syncing(p) \/ Removing(p)
  \/ \E o \in Op : Peer(o)

Spec == Init /\ [][Next]_vars

------------------------------------------------------------------------------

Label ==
  {"closed", "load", "idle", "witness", "tick", "store", "update",
   "mWitness", "mExist", "mCopy", "mCreate", "mLocal", "mRemote", "mListLocal",
   "mListRemote", "mForward", "mRead", "mWitnessLocal", "mTick", "mStore",
   "mUpdate", "rLocal", "rTracking", "rRemove"}

PackType ==
  [parents : Seq(Nat), ops : SUBSET Op, edit : Nat, root : BOOLEAN, hist : SUBSET Nat]

Commit == 0..Len(dag)

(* Types: every reference and every hash a process holds names a stored     *)
(* commit and every parent was stored before its child, so no reference     *)
(* ever leads to a missing object and the commits form no cycle.            *)
TypeOK ==
  /\ dag \in Seq(PackType)
  /\ \A c \in 1..Len(dag) : Elements(dag[c].parents) \subseteq 1..(c - 1)
  /\ local \in Commit /\ tracking \in Commit /\ server \in Commit
  /\ editFile \in Nat /\ editMem \in [Proc -> Nat]
  /\ pc \in [Proc -> Label]
  /\ base \in [Proc -> Commit]
  /\ staging \in [Proc -> Seq(Op)]
  /\ pending \in [Proc -> Seq(Op)]
  /\ last \in [Proc -> Commit]
  /\ localCommit \in [Proc -> Commit]
  /\ remoteCommit \in [Proc -> Commit]
  /\ crashes \in Nat
  /\ acked \subseteq Op

(* Every edit time is strictly larger than those of the parents             *)
(* (doc/spec/dag-entity.md:67), in every commit ever written, so that the   *)
(* order of the operations agrees with their causes: whatever the processes *)
(* interleave, and although a clock file may be lost in a crash.            *)
ClocksRespectDag ==
  \A c \in DOMAIN dag : \A i \in DOMAIN dag[c].parents :
    dag[dag[c].parents[i]].edit < dag[c].edit

(* An operation whose Commit returned without error stays in the entity     *)
(* until the entity is removed: no other commit, merge, fetch or crash      *)
(* loses it ("every successful operation is durable",                       *)
(* commands/concurrency_integration_test.go:87).                            *)
AckedDurable == acked \subseteq OpsAt(dag, local)

(* What is still staged is not in the stored entity, so a Commit is all or  *)
(* nothing although it stores one pack per author, and committing again     *)
(* after a conflict cannot store an operation twice (entity.go:456-520).    *)
StagedInvisible ==
  \A p \in Proc : Elements(staging[p]) \intersect OpsAt(dag, local) = {}

(* While it exists the local reference moves only to commits that contain   *)
(* the previous tip: no update discards history.                            *)
RefOnlyAdvances ==
  [][local # 0 /\ local' # 0 => local \in History(dag', local')]_vars


(* The entity as its operations, and what each process has read of it.      *)
Serial == INSTANCE SerialEntity WITH
            stored <- OpsAt(dag, local),
            view <- [p \in Proc |-> OpsAt(dag, IF pc[p] = "witness" THEN last[p]
                                                                    ELSE base[p])]

(* Competing writes serialize or conflict: every successful Commit adds its *)
(* operations to exactly those its process had read.                        *)
IsSerial == Serial!Spec

==============================================================================
