------------------------------- MODULE BugSync -------------------------------
(***************************************************************************)
(* One bug in several clones that pull from and push to one remote. Each   *)
(* clone has a user, a reference to the bug, an edit clock, and an         *)
(* instance of the bug in memory, with operations staged on it and the     *)
(* snapshot that withSnapshot keeps up to date.                            *)
(*                                                                         *)
(* A call is one step here: EntityStore takes the steps of Commit and      *)
(* merge apart. What matters here is that clones which see the operations  *)
(* in different orders end up with the same bug.                           *)
(***************************************************************************)
EXTENDS EntityDag, Bug

CONSTANTS
  Clone,                \* a clone is also the author of its user's operations
  Origin,               \* where the bug was created
  Habits,               \* what kinds of operations the user of each clone makes:
                        \* the possible combinations
  Ahead,                \* how far other bugs have moved the edit clock of each clone:
                        \* the possible combinations
  MaxOps,               \* bound: operations in all
  MaxStaged,            \* bound: staged at once
  MaxCommits,           \* bound: commits in all
  MaxTime,              \* bound: edit times; it leaves a conflict or two, and every commit, room
  MaxJump               \* 1,000,000 in dag.read

ASSUME BoundAssumption ==
  {MaxOps, MaxStaged, MaxCommits, MaxTime, MaxJump} \subseteq Nat /\ MaxOps > 0
ASSUME CloneAssumption == Origin \in Clone /\ (\A h \in Habits : DOMAIN h = Clone)
                           /\ Ahead \subseteq [Clone -> 0 .. MaxTime - 1]

VARIABLES
  habit,                \* which of the combinations it is in this behaviour
  ops,                  \* all operations ever made; an id is a place in here
  dag,                  \* all commits ever stored; pack.ops holds ids
  packId,               \* operationPack.Id, which is an arbitrary number
  reading,              \* what dag.read makes of each commit
  local,                \* refs/bugs/<id> of each clone, 0 if there is none
  remote,               \* the same reference at the remote
  clock,                \* the edit clock of each clone
  base, loaded, staging,\* lastCommit, ops and staging of the instance in memory
  view                  \* withSnapshot.snap, and what is left on the operations

vars == <<habit, ops, dag, packId, reading, local, remote, clock, base, loaded, staging, view>>
instance == <<base, loaded, staging, view>>
store == <<dag, packId, reading, local, clock>>

NoExtra == [o \in 1 .. MaxOps |-> None]
NoView == View(Blank(None), NoExtra)
------------------------------------------------------------------------------
(* Before(o, p, pack, d, id): the order of two operations after dag.read,   *)
(* where pack says which commit of d holds which operation.                *)

(* Mutant: the newest come first.                                          *)
BeforeNewest(o, p, pack, d, id) ==
  \/ d[pack[o]].edit > d[pack[p]].edit
  \/ d[pack[o]].edit = d[pack[p]].edit /\ id[pack[o]] < id[pack[p]]
  \/ pack[o] = pack[p] /\ o < p

(* Mutant: the clocks are ignored.                                         *)
BeforeById(o, p, pack, d, id) ==
  \/ id[pack[o]] < id[pack[p]]
  \/ pack[o] = pack[p] /\ o < p

(* Mutant: the order inside a pack is lost.                                *)
BeforeInPack(o, p, pack, d, id) ==
  \/ d[pack[o]].edit < d[pack[p]].edit
  \/ d[pack[o]].edit = d[pack[p]].edit /\ id[pack[o]] < id[pack[p]]
  \/ pack[o] = pack[p] /\ o > p

(* By edit time, then by the id of the pack, then by the place in the pack. *)
Before(o, p, pack, d, id) ==
  \/ d[pack[o]].edit < d[pack[p]].edit
  \/ d[pack[o]].edit = d[pack[p]].edit /\ id[pack[o]] < id[pack[p]]
  \/ pack[o] = pack[p] /\ o < p

Order(d, id, tip) ==
  LET os == OpsAt(d, tip)
      pack == [o \in os |-> CHOOSE c \in History(d, tip) : o \in d[c].ops]
  IN  InOrder(os, {r \in os \X os : Before(r[1], r[2], pack, d, id)})

(* A jump of the clock is refused unless the commit is a merge.            *)
NoJump(d, tip) ==
  \A c \in History(d, tip) :
    Len(d[c].parents) = 1 => d[c].edit - d[d[c].parents[1]].edit <= MaxJump

(* What dag.read makes of a commit, which its hash fixes once and for all. *)
Reading(d, id, tip) ==
  [ok |-> Readable(d, tip) /\ NoJump(d, tip), order |-> Order(d, id, tip)]

CanRead(tip) == tip # 0 /\ reading[tip].ok
Operations(tip) == [n \in DOMAIN reading[tip].order |-> ops[reading[tip].order[n]]]

Later(a, b) == IF a < b THEN b ELSE a
Time(tip) == EditTime(dag, tip)
------------------------------------------------------------------------------
Init ==
  /\ habit \in Habits
  /\ ops = <<CreateOp(1, Origin)>>
  /\ dag = <<Pack(<<>>, <<>>, {1}, 1, TRUE)>>
  /\ packId = <<1>>
  /\ reading = <<[ok |-> TRUE, order |-> <<1>>]>>
  /\ local = [c \in Clone |-> IF c = Origin THEN 1 ELSE 0]
  /\ remote = 0
  /\ \E ahead \in Ahead : clock = [c \in Clone |-> 1 + ahead[c]]
  /\ base = local
  /\ loaded = [c \in Clone |-> IF c = Origin THEN ops ELSE <<>>]
  /\ staging = [c \in Clone |-> <<>>]
  /\ view = [c \in Clone |-> IF c = Origin THEN Compile(ops, NoExtra) ELSE NoView]

(* withSnapshot.Append.                                                    *)
Append_(c, op) ==
  /\ op.kind \in habit[c]
  /\ Len(ops) < MaxOps /\ Len(staging[c]) < MaxStaged
  /\ ops' = Append(ops, op)
  /\ staging' = [staging EXCEPT ![c] = Append(@, op)]
  /\ view' = [view EXCEPT ![c] = Apply(@, op)]
  /\ UNCHANGED <<habit, dag, packId, reading, local, remote, clock, base, loaded>>

Snap(c) == view[c].snap
NextId == Len(ops) + 1
Loaded(c) == base[c] # 0

AddComment(c) == Loaded(c) /\ Append_(c, AddCommentOp(NextId, c))

(* What SearchComment finds; the first is that of EditCreateComment.       *)
SearchComment(c) == {comment.target : comment \in Range(Snap(c).comments)}
EditComment(c) ==
  Loaded(c) /\ \E target \in SearchComment(c) : Append_(c, EditCommentOp(NextId, c, target))

(* The previous title is that of the last set-title operation.             *)
SetTitle(c) ==
  LET titles == {n \in DOMAIN Snap(c).ops : Snap(c).ops[n].kind = "title"}
      was == Snap(c).ops[IF titles = {} THEN 1 ELSE Max(titles)].id
  IN  Loaded(c) /\ Append_(c, SetTitleOp(NextId, c, was))

(* Open and Close; the interfaces offer the one that changes something.    *)
SetStatus(c) ==
  LET other == IF Snap(c).status = "open" THEN "closed" ELSE "open"
  IN  Loaded(c) /\ Append_(c, SetStatusOp(NextId, c, other))

(* A request may name a label twice.                                       *)
LabelRequest == {<<>>} \union {<<l>> : l \in Label} \union {<<l, l>> : l \in Label}

Wanted(labels, request) ==
  FoldLeft(AddOnce, <<>>, Among(request, Label \ Range(labels)))
Unwanted(labels, request) ==
  FoldLeft(AddOnce, <<>>, Among(request, Range(labels)))

ChangeLabels(c) ==
  \E add, remove \in LabelRequest :
    LET labels == Snap(c).labels
        op == LabelChangeOp(NextId, c, Wanted(labels, add), Unwanted(labels, remove))
    IN  Loaded(c) /\ op.add \o op.remove # <<>> /\ Append_(c, op)

(* As importers do, without a look at the snapshot.                        *)
ForceChangeLabels(c) ==
  \E l \in Label : Loaded(c) /\ Append_(c, LabelChangeOp(NextId, c, <<l>>, <<l>>))

SetMetadata(c) ==
  Loaded(c) /\ \E n \in DOMAIN Snap(c).ops :
    Append_(c, SetMetadataOp(NextId, c, Snap(c).ops[n].id))

LaterVersion(c) ==
  /\ Loaded(c)
  /\ Append_(c, UnknownOp(NextId, c)) \/ Append_(c, NoOp(NextId, c))

Edit(c) ==
  \/ AddComment(c) \/ EditComment(c) \/ SetTitle(c) \/ SetStatus(c)
  \/ ChangeLabels(c) \/ ForceChangeLabels(c) \/ SetMetadata(c) \/ LaterVersion(c)
------------------------------------------------------------------------------
(* The id of a pack is a hash: it may come before or after that of another *)
(* pack of the same time t; otherwise it makes no difference.              *)
PackIds(content, t) ==
  {Len(dag) + 1} \union
  {- (Len(dag) + 1) : c \in {c \in DOMAIN dag : dag[c].edit = t /\ dag[c].ops # {} /\ content # {}}}

Store(parents, content, t) ==
  /\ Len(dag) < MaxCommits /\ t <= MaxTime
  /\ dag' = Append(dag, Pack(dag, parents, content, t, FALSE))
  /\ \E id \in PackIds(content, t) : packId' = Append(packId, id)
  /\ reading' = Append(reading, Reading(dag', packId', Len(dag) + 1))

(* The references of a conflict-free Commit, at time t.                    *)
CommitAt(c, t) ==
  /\ staging[c] # <<>> /\ local[c] = base[c]
  /\ Store(<<base[c]>>, {op.id : op \in Range(staging[c])}, t)
  /\ clock' = [clock EXCEPT ![c] = t]
  /\ local' = [local EXCEPT ![c] = Len(dag) + 1]
  /\ base' = [base EXCEPT ![c] = Len(dag) + 1]
  /\ loaded' = [loaded EXCEPT ![c] = @ \o staging[c]]
  /\ staging' = [staging EXCEPT ![c] = <<>>]
  /\ UNCHANGED <<habit, ops, remote, view>>

Commit(c) == CommitAt(c, clock[c] + 1)

(* The reference has moved under the instance: withSnapshot.Commit drops   *)
(* the snapshot, to compile it again when it is asked for.                 *)
CommitConflict(c) ==
  /\ staging[c] # <<>> /\ local[c] # base[c]
  /\ clock[c] < MaxTime - MaxCommits
  /\ clock' = [clock EXCEPT ![c] = @ + 1]
  /\ view' = [view EXCEPT ![c] = Compile(loaded[c] \o staging[c], @.extra)]
  /\ UNCHANGED <<habit, ops, dag, packId, reading, local, remote, base, loaded, staging>>

(* Mutant: metadata of operations that are gone are kept.                  *)
ReloadKeepsExtra(c) ==
  /\ local[c] # base[c] /\ CanRead(local[c])
  /\ clock' = [clock EXCEPT ![c] = Later(@, Time(local[c]))]
  /\ base' = [base EXCEPT ![c] = local[c]]
  /\ loaded' = [loaded EXCEPT ![c] = Operations(local[c])]
  /\ staging' = [staging EXCEPT ![c] = <<>>]
  /\ view' = [view EXCEPT ![c] = Compile(Operations(local[c]), @.extra)]
  /\ UNCHANGED <<habit, ops, dag, packId, reading, local, remote>>

(* The bug is read again, by this process or by another one later; what is *)
(* staged is gone.                                                         *)
Reload(c) ==
  /\ local[c] # base[c] /\ CanRead(local[c])
  /\ clock' = [clock EXCEPT ![c] = Later(@, Time(local[c]))]
  /\ base' = [base EXCEPT ![c] = local[c]]
  /\ loaded' = [loaded EXCEPT ![c] = Operations(local[c])]
  /\ staging' = [staging EXCEPT ![c] = <<>>]
  /\ view' = [view EXCEPT ![c] = Compile(Operations(local[c]), NoExtra)]
  /\ UNCHANGED <<habit, ops, dag, packId, reading, local, remote>>
------------------------------------------------------------------------------
(* Fetch and merge. The instance in memory does not follow.                *)

Diverged(c) ==
  /\ local[c] # 0
  /\ local[c] \notin History(dag, remote) /\ remote \notin History(dag, local[c])

MergeTake(c) ==
  /\ CanRead(remote) /\ remote \notin History(dag, local[c])
  /\ ~ Diverged(c)
  /\ local' = [local EXCEPT ![c] = remote]
  /\ clock' = [clock EXCEPT ![c] = Later(@, Time(remote))]
  /\ UNCHANGED <<habit, ops, dag, packId, reading, remote, instance>>

MergeJoin(c) ==
  /\ CanRead(remote) /\ Diverged(c) /\ CanRead(local[c])
  /\ LET t == Later(clock[c], Later(Time(remote), Time(local[c]))) + 1 IN
       /\ Store(<<local[c], remote>>, {}, t)
       /\ clock' = [clock EXCEPT ![c] = t]
  /\ local' = [local EXCEPT ![c] = Len(dag) + 1]
  /\ UNCHANGED <<habit, ops, remote, instance>>

(* Mutant: only fast forwards are taken, as for identities.                *)
PullForward(c) == MergeTake(c)

Pull(c) == MergeTake(c) \/ MergeJoin(c)

(* Only a fast forward is taken by the remote.                             *)
Push(c) ==
  /\ local[c] # remote /\ remote \in History(dag, local[c]) \union {0} /\ local[c] # 0
  /\ remote' = local[c]
  /\ UNCHANGED <<habit, ops, store, instance>>
------------------------------------------------------------------------------
Sync(c) == Commit(c) \/ Reload(c) \/ Pull(c) \/ Push(c)
Next == \E c \in Clone : Edit(c) \/ CommitConflict(c) \/ Sync(c)

Spec == Init /\ [][Next]_vars

(* Who uses a clone does what there is to do: commits what was staged,     *)
(* reads the bug again, pulls or pushes, in whatever order.                *)
Fairness == \A c \in Clone : WF_vars(Sync(c))
FairSpec == Spec /\ Fairness
------------------------------------------------------------------------------
OperationRecord ==
  [id : 1 .. MaxOps, author : Clone, target : 0 .. MaxOps, was : 0 .. MaxOps,
   kind : {"create", "comment", "edit", "title", "status", "labels", "metadata", "noop", "unknown"},
   status : {"open", "closed"}, add : Seq(Label), remove : Seq(Label)]

TypeOK ==
  /\ ops \in Seq(OperationRecord) /\ \A o \in DOMAIN ops : ops[o].id = o
  /\ Len(packId) = Len(dag)
  /\ local \in [Clone -> 0 .. Len(dag)] /\ remote \in 0 .. Len(dag)
  /\ base \in [Clone -> 0 .. Len(dag)]
  /\ clock \in [Clone -> 0 .. MaxTime]
  /\ \A c \in Clone :
       /\ Range(loaded[c]) \union Range(staging[c]) \subseteq Range(ops)
       /\ Loaded(c) => Valid(loaded[c] \o staging[c])

(* The order in which a clone has put its own operations in memory, staged *)
(* on what it had read and committed one pack after the other, is the      *)
(* order in which every other clone reads them.                            *)
MemoryIsHistory ==
  \A c \in Clone : Loaded(c) => loaded[c] = Operations(base[c])

(* The snapshot kept up to date one operation at a time, dropped when a    *)
(* commit fails and compiled again from operations that bear metadata      *)
(* already, is the one a fresh read compiles.                              *)
ViewIsFresh ==
  \A c \in Clone : Loaded(c) => view[c] = Compile(loaded[c] \o staging[c], NoExtra)

(* An edit made of a comment that its author saw is never read before the  *)
(* comment, where it would be ignored: it is in the history of the comment *)
(* on every clone. The same for metadata and the operation they are for.   *)
EditsLand ==
  \A c \in Clone : \A op \in Range(Snap(c).ops) :
    /\ op.kind = "edit" =>
         \E item \in Range(Snap(c).timeline) :
           /\ item.id = op.target /\ item.kind \in {"create", "comment"}
           /\ Contains(item.history, op.id)
    /\ op.kind = "metadata" => view[c].extra[op.target] # None

(* The labels of a bug, which clones change at the same time, are those    *)
(* whose last mention adds them - a removal counts after an addition in    *)
(* the same operation - each once and sorted.                              *)
LabelsAreLastMention ==
  \A c \in Clone :
    LET os == Snap(c).ops
        labels == Snap(c).labels
        Mentioned(n, l) == Contains(os[n].add \o os[n].remove, l)
        Kept(l) == \E n \in DOMAIN os :
          /\ Contains(os[n].add, l) /\ ~ Contains(os[n].remove, l)
          /\ \A m \in n + 1 .. Len(os) : ~ Contains(os[m].remove, l)
    IN  /\ Range(labels) = {l \in Label : Kept(l)}
        /\ \A n \in 2 .. Len(labels) : labels[n - 1] < labels[n]

(* The two lists of comments agree: every comment is in the timeline, in   *)
(* the same order and with the text of its last edit.                      *)
CommentsAgree ==
  \A c \in Clone :
    LET places == Increasing({k \in DOMAIN Snap(c).timeline :
                                Snap(c).timeline[k].kind \in {"create", "comment"}})
    IN  /\ Len(places) = Len(Snap(c).comments)
        /\ \A n \in DOMAIN places :
             LET item == Snap(c).timeline[places[n]]
             IN  /\ item.id = Snap(c).comments[n].target
                 /\ item.message = Snap(c).comments[n].message
                 /\ item.message = Last(item.history)

AllReadable == \A c \in Clone : local[c] # 0 => CanRead(local[c])
Agree ==
  \A c \in Clone :
    local[c] = remote /\ base[c] = remote /\ staging[c] = <<>> /\ Snap(c) = Snap(Origin)

(* Clones that keep pulling and pushing end up with the same bug, unless   *)
(* one of them holds a history it cannot read.                             *)
Converges == <>[](Agree \/ ~ AllReadable)
==============================================================================
