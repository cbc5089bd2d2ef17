--------------------------- MODULE MCPersistedClock ---------------------------
(* Model values for PersistedClock: two processes, and two times that other *)
(* clones may have reached, one behind and one ahead of the local clock.    *)
EXTENDS PersistedClock

CONSTANTS p1, p2

MCProc == {p1, p2}
MCSeen == {2, 5}

==============================================================================
