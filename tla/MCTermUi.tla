------------------------------ MODULE MCTermUi ------------------------------
(* An instance of TermUi for TLC. *)
EXTENDS TermUi

CONSTANTS a, b, o1, o2, o3
OneExisting == {a}
BNewer == [e \in Entity |-> IF e = b THEN 2 ELSE 1]
=============================================================================
