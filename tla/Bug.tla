--------------------------------- MODULE Bug ---------------------------------
(***************************************************************************)
(* A bug: the operations on it and the snapshot they compile to.           *)
(*                                                                         *)
(* An operation is a record; its id is a number, and texts (titles and     *)
(* messages) are named by the operation that wrote them, so that equal     *)
(* texts never hide a mistake. Labels are numbers in the order in which    *)
(* Apply sorts them. One metadata key is enough: keys never meet.          *)
(*                                                                         *)
(* The metadata that set-metadata operations leave on other operations are *)
(* kept in the operations in memory, not in the snapshot. A view is both.  *)
(***************************************************************************)
EXTENDS Integers, Sequences, FiniteSets, SequencesExt

CONSTANT Label

ASSUME LabelAssumption == Label \subseteq Nat

None == 0               \* no operation: ids start at 1

(* The members of a finite set in an order, which is a set of pairs: each  *)
(* comes after as many as are before it.                                   *)
InOrder(S, before) ==
  [n \in 1 .. Cardinality(S) |->
     CHOOSE x \in S : Cardinality({y \in S : <<y, x>> \in before}) = n - 1]
Increasing(S) == InOrder(S, {r \in S \X S : r[1] < r[2]})

(* The elements of s that are in S, in their order.                        *)
Among(s, S) ==
  LET places == Increasing({k \in DOMAIN s : s[k] \in S})
  IN  [n \in DOMAIN places |-> s[places[n]]]

(* OpBase, and the fields of all kinds of operations.                      *)
Operation(id, kind, author) ==
  [id |-> id, kind |-> kind, author |-> author, target |-> None, was |-> None,
   status |-> "open", add |-> <<>>, remove |-> <<>>]

CreateOp(id, author) == Operation(id, "create", author)
AddCommentOp(id, author) == Operation(id, "comment", author)
EditCommentOp(id, author, target) == [Operation(id, "edit", author) EXCEPT !.target = target]
SetTitleOp(id, author, was) == [Operation(id, "title", author) EXCEPT !.was = was]
SetStatusOp(id, author, status) == [Operation(id, "status", author) EXCEPT !.status = status]
LabelChangeOp(id, author, add, remove) ==
  [Operation(id, "labels", author) EXCEPT !.add = add, !.remove = remove]
SetMetadataOp(id, author, target) == [Operation(id, "metadata", author) EXCEPT !.target = target]
NoOp(id, author) == Operation(id, "noop", author)
(* An operation of a later version: kept as it is, and without effect.     *)
UnknownOp(id, author) == Operation(id, "unknown", author)

(* Bug.Validate.                                                           *)
Valid(ops) ==
  /\ ops # <<>> /\ Head(ops).kind = "create"
  /\ \A n \in 2 .. Len(ops) : ops[n].kind # "create"
------------------------------------------------------------------------------
(* The snapshot before the first operation.                                *)
Blank(id) ==
  [id |-> id, status |-> "open", title |-> None, comments |-> <<>>, labels |-> <<>>,
   author |-> None, actors |-> <<>>, participants |-> <<>>, timeline |-> <<>>, ops |-> <<>>]

(* extra: for the operations with metadata left by others, the operation   *)
(* that left them.                                                         *)
View(snap, extra) == [snap |-> snap, extra |-> extra]

AddOnce(s, x) == IF Contains(s, x) THEN s ELSE Append(s, x)

addActor(snap, a) == [snap EXCEPT !.actors = AddOnce(@, a)]
addParticipant(snap, a) == [snap EXCEPT !.participants = AddOnce(@, a)]

Comment(op) == [target |-> op.id, author |-> op.author, message |-> op.id]
(* A comment in the timeline holds all its versions.                       *)
CommentItem(op) ==
  [kind |-> op.kind, id |-> op.id, message |-> op.id, history |-> <<op.id>>]
(* Any other item holds what the operation did.                            *)
ChangeItem(op) ==
  [kind |-> op.kind, id |-> op.id, status |-> op.status, was |-> op.was,
   add |-> op.add, remove |-> op.remove]

ApplyCreate(snap, op) ==
  IF snap.id # None /\ snap.id # op.id THEN snap
  ELSE [addParticipant(addActor(snap, op.author), op.author) EXCEPT
          !.id = op.id, !.title = op.id, !.author = op.author,
          !.comments = <<Comment(op)>>, !.timeline = <<CommentItem(op)>>]

ApplyAddComment(snap, op) ==
  [addParticipant(addActor(snap, op.author), op.author) EXCEPT
     !.comments = Append(@, Comment(op)), !.timeline = Append(@, CommentItem(op))]

(* The comment op edits: the items of the timeline that are comments.      *)
Edited(snap, op) ==
  {n \in DOMAIN snap.timeline :
     snap.timeline[n].id = op.target /\ snap.timeline[n].kind \in {"create", "comment"}}

EditItem(item, op) == [item EXCEPT !.message = op.id, !.history = Append(@, op.id)]

(* Mutant: the list of comments is forgotten.                              *)
ApplyEditTimeline(snap, op) ==
  IF Edited(snap, op) = {} THEN snap
  ELSE [addActor(snap, op.author) EXCEPT
          !.timeline = [n \in DOMAIN @ |->
             IF n \in Edited(snap, op) THEN EditItem(@[n], op) ELSE @[n]]]

(* An edit of what is not a comment does nothing at all.                   *)
ApplyEditComment(snap, op) ==
  IF Edited(snap, op) = {} THEN snap
  ELSE [addActor(snap, op.author) EXCEPT
          !.timeline = [n \in DOMAIN @ |->
             IF n \in Edited(snap, op) THEN EditItem(@[n], op) ELSE @[n]],
          !.comments = [n \in DOMAIN @ |->
             IF @[n].target = op.target THEN [@[n] EXCEPT !.message = op.id] ELSE @[n]]]

ApplySetTitle(snap, op) ==
  [addActor(snap, op.author) EXCEPT !.title = op.id, !.timeline = Append(@, ChangeItem(op))]

ApplySetStatus(snap, op) ==
  [addActor(snap, op.author) EXCEPT !.status = op.status, !.timeline = Append(@, ChangeItem(op))]

(* The last label takes the place of the removed one.                      *)
RemoveLabel(s, l) ==
  IF Contains(s, l)
  THEN LET n == CHOOSE k \in DOMAIN s : s[k] = l
       IN  Front([s EXCEPT ![n] = Last(s)])
  ELSE s

(* Mutant: the removals go first.                                          *)
RemoveThenAdd(labels, op) ==
  SetToSortSeq(Range(FoldLeft(AddOnce, FoldLeft(RemoveLabel, labels, op.remove), op.add)), <)

(* sort.Slice, of numbers.                                                 *)
Sorted(s) ==
  LET D == DOMAIN s
      places == InOrder(D, {r \in D \X D : s[r[1]] < s[r[2]] \/ (s[r[1]] = s[r[2]] /\ r[1] < r[2])})
  IN  [n \in D |-> s[places[n]]]

(* Additions first, then removals, then the sort.                          *)
ChangeSet(labels, op) ==
  Sorted(FoldLeft(RemoveLabel, FoldLeft(AddOnce, labels, op.add), op.remove))

ApplyLabelChange(snap, op) ==
  [addActor(snap, op.author) EXCEPT
     !.labels = ChangeSet(@, op), !.timeline = Append(@, ChangeItem(op))]

(* The first writer wins; the author is not even an actor of the bug.      *)
ApplySetMetadata(view, op) ==
  IF \E o \in Range(view.snap.ops) : o.id = op.target /\ view.extra[o.id] = None
  THEN [view.extra EXCEPT ![op.target] = op.id]
  ELSE view.extra

ApplySnapshot(snap, op) ==
  CASE op.kind = "create" -> ApplyCreate(snap, op)
    [] op.kind = "comment" -> ApplyAddComment(snap, op)
    [] op.kind = "edit" -> ApplyEditComment(snap, op)
    [] op.kind = "title" -> ApplySetTitle(snap, op)
    [] op.kind = "status" -> ApplySetStatus(snap, op)
    [] op.kind = "labels" -> ApplyLabelChange(snap, op)
    [] op.kind \in {"metadata", "noop", "unknown"} -> snap

(* Apply, and what its callers do next: list the operation as applied.     *)
Apply(view, op) ==
  View([ApplySnapshot(view.snap, op) EXCEPT !.ops = Append(@, op)],
       IF op.kind = "metadata" THEN ApplySetMetadata(view, op) ELSE view.extra)

(* Compile, of operations that have no metadata left on them yet (read),   *)
(* or have some from the last time (extra). The sets of one element make   *)
(* TLC compute each view once.                                             *)
Compile(ops, extra) ==
  LET view[n \in 0 .. Len(ops)] ==
        IF n = 0 THEN View(Blank(Head(ops).id), extra)
        ELSE CHOOSE v \in {Apply(last, ops[n]) : last \in {view[n - 1]}} : TRUE
  IN  view[Len(ops)]

==============================================================================
