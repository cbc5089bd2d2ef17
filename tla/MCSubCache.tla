----------------------------- MODULE MCSubCache -----------------------------
(***************************************************************************)
(* Instances of SubCache for TLC. The threads are not symmetric where one  *)
(* of them removes; the operations are.                                    *)
(***************************************************************************)
EXTENDS SubCache, TLC

CONSTANTS a, b
OneExisting == {a}

SymmetricOps == Permutations(Op)
=============================================================================
