----------------------------- MODULE AtomicClock -----------------------------
(***************************************************************************)
(* What a persisted Lamport clock promises the processes of one clone:     *)
(* each call of GetOrCreateClock, Increment or Witness acts at one         *)
(* instant on the clock file and on the calling process's own copy.        *)
(* PersistedClock, the file and lock protocol of util/lamport, is checked  *)
(* and proved to implement it; EntityStore is built on it.                 *)
(***************************************************************************)
EXTENDS Integers

CONSTANTS
  Proc,                 \* the git-bug processes that share one repository
  Time                  \* the times read in packs that a process may witness

VARIABLES
  file,                 \* the number in the clock file, 0 when the file is
                        \* missing or does not hold a number
  mem                   \* mem[p]: the counter process p holds, 0 when p has
                        \* not opened the clock

vars == <<file, mem>>

Later(a, b) == IF a >= b THEN a ELSE b

(* The counter of p once the clock is opened (a new clock starts at 1) and *)
(* refreshed from the file.                                                *)
Current(p) == Later(1, Later(file, mem[p]))

Set(p, t) ==
  /\ file' = t
  /\ mem' = [mem EXCEPT ![p] = t]

Init ==
  /\ file = 0
  /\ mem = [p \in Proc |-> 0]

Open(p) ==
  /\ mem[p] = 0
  /\ Set(p, Current(p))

Increment(p) == Set(p, Current(p) + 1)

Witness(p, t) == Set(p, Later(Current(p), t))

(* The process ends; its copy goes with it.                                *)
Stop(p) ==
  /\ mem' = [mem EXCEPT ![p] = 0]
  /\ UNCHANGED file

(* The process dies inside a write, after the file was truncated.          *)
Tear(p) == Set(p, 0)

Next ==
  \E p \in Proc :
    \/ Open(p)
    \/ Increment(p)
    \/ \E t \in Time : Witness(p, t)
    \/ Stop(p)
    \/ Tear(p)

Spec == Init /\ [][Next]_vars

==============================================================================
