----------------------------- MODULE MCEntityStore -----------------------------
(* Model values for EntityStore: two processes, and three or four operations *)
(* of two authors.                                                           *)
EXTENDS EntityStore, TLC

CONSTANTS p1, p2, o1, o2, o3, o4, alice, bob

MCProc == {p1, p2}
MCFirst == {p1}
MCSecond == {p2}

MCOp == {o1, o2, o3}
MCAuthor == (o1 :> alice) @@ (o2 :> bob) @@ (o3 :> alice)

MCMoreOp == MCOp \union {o4}
MCMoreAuthor == MCAuthor @@ (o4 :> alice)

(* Alice's operations are interchangeable.                                   *)
Symmetry == Permutations({o1, o3})
MoreSymmetry == Permutations({o1, o3, o4})

==============================================================================
