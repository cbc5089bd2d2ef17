------------------------------- MODULE EntityDag -------------------------------
(***************************************************************************)
(* The commits of one entity as git stores them, and what dag.read makes   *)
(* of them. A commit is named by its place in the sequence "dag" of all    *)
(* commits ever stored; 0 is the empty hash. A commit holds one pack:      *)
(*   parents  the commits it was built on, in order                        *)
(*   ops      the operations of its pack                                   *)
(*   edit     EditTime                                                     *)
(*   root     whether it has a CreateTime (its value is of no consequence  *)
(*            here: it is drawn once, for the first pack)                  *)
(*   hist     the commits reachable from it, itself included, which its    *)
(*            hash fixes once and for all                                  *)
(***************************************************************************)
EXTENDS Integers, Sequences

(* What a walk of the parents visits (ListCommits, dag.read).               *)
History(dag, c) == IF c = 0 THEN {} ELSE dag[c].hist

OpsAt(dag, c) == UNION {dag[d].ops : d \in History(dag, c)}

EditTime(dag, c) == IF c = 0 THEN 0 ELSE dag[c].edit

(* A new commit on top of the given parents.                                *)
Pack(dag, parents, ops, edit, root) ==
  [parents |-> parents,
   ops     |-> ops,
   edit    |-> edit,
   root    |-> root,
   hist    |-> {Len(dag) + 1}
                 \union UNION {History(dag, parents[i]) : i \in DOMAIN parents}]

Elements(s) == {s[i] : i \in DOMAIN s}

(* The order in which dag.read's breadth-first search meets the commits:    *)
(* the queue after n of its entries have been expanded. (The sets of one    *)
(* element make TLC compute each queue once.)                               *)
BFSOrder(dag, tip) ==
  LET Expand(q, n) == q \o SelectSeq(dag[q[n]].parents, LAMBDA c : c \notin Elements(q))
      queue[n \in 0..Len(dag)] ==
        IF n = 0 THEN <<tip>>
        ELSE CHOOSE r \in {IF n > Len(q) THEN q ELSE Expand(q, n) : q \in {queue[n - 1]}} : TRUE
  IN  queue[Len(dag)]

(* The checks of dag.read, which goes through the order above backwards:    *)
(* every commit but the first one read has parents, the first one read has  *)
(* a creation time, a merge has no operation, every parent was read before  *)
(* its child (a panic otherwise) and has a smaller edit time.               *)
Readable(dag, tip) ==
  LET order == BFSOrder(dag, tip)
  IN  \A i \in DOMAIN order :
        LET pack == dag[order[i]]
        IN  /\ i # Len(order) => pack.parents # <<>>
            /\ i = Len(order) => pack.root
            /\ Len(pack.parents) > 1 => pack.ops = {}
            /\ \A parent \in Elements(pack.parents) :
                 /\ \E j \in DOMAIN order : j > i /\ order[j] = parent
                 /\ dag[parent].edit < pack.edit

==============================================================================
