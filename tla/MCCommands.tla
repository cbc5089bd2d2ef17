------------------------------ MODULE MCCommands ------------------------------
(***************************************************************************)
(* A person at a terminal and a script in one repository.                  *)
(***************************************************************************)
EXTENDS Commands
CONSTANTS human, script, ann, ben, cat, b1, b2

MCOffered ==
  [p \in Proc |->
     IF p = human
       THEN {BugCommentNew, BugTitleEdit, BugSelect, BugDeselect,
             UserShow, UserNew, UserAdopt, Wipe}
       ELSE {BugNew, UserNew, BugLabelNew, BugCommentEdit, BugRm, BugShow}]
==============================================================================
