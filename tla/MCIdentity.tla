------------------------------ MODULE MCIdentity ------------------------------
(* Instances of Identity: two clones, one with a second process.           *)
EXTENDS Identity, TLC

CONSTANTS here, there, editor, puller, other, k1, k2

MCProc == {editor, puller, other}
MCHome == (editor :> here) @@ (puller :> here) @@ (other :> there)
MCMakers == <<{editor}, {other}>>
MCEditors == <<{editor, other}, {}>>
KeyAuthors == <<{editor}, {}>>
MCAuthors == <<{}, {other}>>
MCLasting == {editor, other}
MCSyncing == {puller, other}
NoKeyring == [c \in Clone |-> {}]
FullKeyring == [c \in Clone |-> Key]
==============================================================================
