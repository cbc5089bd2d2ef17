------------------------------ MODULE MCBugSync ------------------------------
(***************************************************************************)
(* Instances of BugSync for TLC. The habits keep together what can         *)
(* conflict.                                                               *)
(***************************************************************************)
EXTENDS BugSync
CONSTANTS alice, bob

Users(a, b) == [c \in Clone |-> IF c = alice THEN a ELSE b]
SomeHabits ==
  {Users({"comment"}, {"comment", "edit"}),
   Users({"edit"}, {"edit", "noop"}),
   Users({"labels"}, {"labels"}),
   Users({"title", "metadata"}, {"status", "metadata", "unknown"})}

(* Clocks in step, one a little ahead, one too far ahead.                  *)
SomeAhead == {Users(0, 0), Users(0, 1), Users(0, 5)}
==============================================================================
