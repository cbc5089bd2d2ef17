----------------------------- MODULE SerialEntity -----------------------------
(***************************************************************************)
(* What the storage of one entity promises to the processes that edit it:  *)
(* its operations form a set that only grows, unless the entity is         *)
(* removed, and a process adds operations only to the very set it has      *)
(* read. "Competing writes to one issue either serialize or return the     *)
(* explicit retryable reference conflict."                                 *)
(***************************************************************************)
CONSTANTS Proc, Op

VARIABLES
  stored,               \* operations of the entity
  view                  \* view[p]: the operations p has read

vars == <<stored, view>>

Init ==
  /\ stored = {}
  /\ view = [p \in Proc |-> {}]

Look(p) ==
  /\ view' = [view EXCEPT ![p] = stored]
  /\ UNCHANGED stored

Forget(p) ==
  /\ view' = [view EXCEPT ![p] = {}]
  /\ UNCHANGED stored

Write(p, new) ==
  /\ view[p] = stored
  /\ stored' = stored \union new
  /\ view' = [view EXCEPT ![p] = stored \union new]

(* Operations written elsewhere arrive.                                    *)
Join(new) ==
  /\ stored' = stored \union new
  /\ UNCHANGED view

Remove ==
  /\ stored' = {}
  /\ UNCHANGED view

Next ==
  \/ \E p \in Proc : Look(p) \/ Forget(p)
  \/ \E p \in Proc, new \in SUBSET Op : Write(p, new)
  \/ \E new \in SUBSET Op : Join(new)
  \/ Remove

Spec == Init /\ [][Next]_vars

==============================================================================
