---------------------------- MODULE PersistedClock ----------------------------
(***************************************************************************)
(* The persisted Lamport clock of util/lamport, as the processes of one    *)
(* clone use it through GoGitRepo.Increment and GoGitRepo.Witness: a       *)
(* counter in a file, an OS lock around every access, a copy in each       *)
(* process, and a file write that truncates before it writes.              *)
(*                                                                         *)
(* A call runs through up to three sessions of the lock: "load"            *)
(* (LoadPersistedClock), "create" (NewPersistedClock, when nothing could   *)
(* be loaded) and "op" (Increment or Witness itself).                      *)
(***************************************************************************)
EXTENDS Integers

CONSTANTS
  Proc,                 \* processes sharing the repository
  NoProc,               \* the lock when nobody holds it
  Seen,                 \* the times a process may witness from other clones
  MaxCalls              \* bound: calls made over a behaviour

ASSUME ProcAssumption == NoProc \notin Proc
ASSUME SeenAssumption == Seen \subseteq Nat \ {0}
ASSUME BoundAssumption == MaxCalls \in Nat

VARIABLES
  file,                 \* content of clocks/<name>; 0: missing or not a number
  lock,                 \* holder of the OS lock on locks/clocks/<name>
  mem,                  \* mem[p]: MemClock.counter, 0 before the clock is open
  pc,                   \* where process p is
  session,              \* which lock session p is in or waiting for
  arg,                  \* the time to witness, 0 when the call is Increment
  cur,                  \* refreshUnlocked's "current"
  issued,               \* history: times Increment gave p since the file was lost
  calls                 \* number of calls made, for the bound

vars == <<file, lock, mem, pc, session, arg, cur, issued, calls>>

Later(a, b) == IF a >= b THEN a ELSE b

Init ==
  /\ file = 0
  /\ lock = NoProc
  /\ mem = [p \in Proc |-> 0]
  /\ pc = [p \in Proc |-> "idle"]
  /\ session = [p \in Proc |-> "op"]
  /\ arg = [p \in Proc |-> 0]
  /\ cur = [p \in Proc |-> 0]
  /\ issued = [p \in Proc |-> {}]
  /\ calls = 0

(* GoGitRepo.Increment (t = 0) or GoGitRepo.Witness(t): the process looks  *)
(* in its table of open clocks first.                                      *)
Call(p, t) ==
  /\ pc[p] = "idle"
  /\ calls < MaxCalls
  /\ calls' = calls + 1
  /\ arg' = [arg EXCEPT ![p] = t]
  /\ session' = [session EXCEPT ![p] = IF mem[p] = 0 THEN "load" ELSE "op"]
  /\ pc' = [pc EXCEPT ![p] = "wait"]
  /\ UNCHANGED <<file, lock, mem, cur, issued>>

(* Mutant: the lock file is opened but not locked.                         *)
LockNotTaken(p) ==
  /\ pc[p] = "wait"
  /\ lock' = p
  /\ pc' = [pc EXCEPT ![p] = "read"]
  /\ UNCHANGED <<file, mem, session, arg, cur, issued, calls>>

Lock(p) ==
  /\ pc[p] = "wait"
  /\ lock = NoProc
  /\ lock' = p
  /\ pc' = [pc EXCEPT ![p] = "read"]
  /\ UNCHANGED <<file, mem, session, arg, cur, issued, calls>>

Release(p, next) ==
  /\ lock' = NoProc
  /\ pc' = [pc EXCEPT ![p] = "wait"]
  /\ session' = [session EXCEPT ![p] = next]

(* readUnlocked succeeds while the clock is being opened.                  *)
OpenReadable(p) ==
  /\ pc[p] = "read"
  /\ session[p] \in {"load", "create"}
  /\ file # 0
  /\ mem' = [mem EXCEPT ![p] = file]
  /\ Release(p, "op")
  /\ UNCHANGED <<file, arg, cur, issued, calls>>

(* Mutant: the clock is created with the lock of the failed load still held. *)
LoadKeepsLock(p) ==
  /\ pc[p] = "read"
  /\ session[p] = "load"
  /\ file = 0
  /\ pc' = [pc EXCEPT ![p] = "wait"]
  /\ session' = [session EXCEPT ![p] = "create"]
  /\ UNCHANGED <<file, lock, mem, arg, cur, issued, calls>>

(* LoadPersistedClock fails on a missing or corrupt file: getClock reports *)
(* that there is no clock, and the lock is released before it is created.  *)
LoadUnreadable(p) ==
  /\ pc[p] = "read"
  /\ session[p] = "load"
  /\ file = 0
  /\ Release(p, "create")
  /\ UNCHANGED <<file, mem, arg, cur, issued, calls>>

(* Mutant: a new clock starts at the invalid value.                        *)
CreateAtZero(p) ==
  /\ pc[p] = "read"
  /\ session[p] = "create"
  /\ file = 0
  /\ pc' = [pc EXCEPT ![p] = "write"]
  /\ UNCHANGED <<file, lock, mem, session, arg, cur, issued, calls>>

(* NewPersistedClock on a missing or corrupt file writes the value 1; here *)
(* up to the truncation.                                                   *)
CreateUnreadable(p) ==
  /\ pc[p] = "read"
  /\ session[p] = "create"
  /\ file = 0
  /\ mem' = [mem EXCEPT ![p] = 1]
  /\ pc' = [pc EXCEPT ![p] = "write"]
  /\ UNCHANGED <<file, lock, session, arg, cur, issued, calls>>

(* Mutant: the process trusts the copy it holds.                           *)
NoRefresh(p) ==
  /\ pc[p] = "read"
  /\ session[p] = "op"
  /\ cur' = [cur EXCEPT ![p] = mem[p]]
  /\ pc' = [pc EXCEPT ![p] = "bump"]
  /\ UNCHANGED <<file, lock, mem, session, arg, issued, calls>>

(* refreshUnlocked up to its last line: the counter is replaced by what    *)
(* the file holds, or kept when the file is not readable.                  *)
Refresh(p) ==
  /\ pc[p] = "read"
  /\ session[p] = "op"
  /\ cur' = [cur EXCEPT ![p] = mem[p]]
  /\ mem' = [mem EXCEPT ![p] = IF file = 0 THEN mem[p] ELSE file]
  /\ pc' = [pc EXCEPT ![p] = "bump"]
  /\ UNCHANGED <<file, lock, session, arg, issued, calls>>

Refreshed(p) == Later(mem[p], cur[p])

(* MemClock.Witness(current), then MemClock.Increment or MemClock.Witness, *)
(* then the first half of util.WriteFile, which truncates the file.        *)
Bump(p) ==
  /\ pc[p] = "bump"
  /\ mem' = [mem EXCEPT ![p] = IF arg[p] = 0 THEN Refreshed(p) + 1
                                             ELSE Later(Refreshed(p), arg[p])]
  /\ issued' = IF arg[p] = 0
                 THEN [issued EXCEPT ![p] = @ \union {Refreshed(p) + 1}]
                 ELSE issued
  /\ file' = 0
  /\ pc' = [pc EXCEPT ![p] = "write"]
  /\ UNCHANGED <<lock, session, arg, cur, calls>>

(* The second half of util.WriteFile, and the end of withLock.             *)
Write(p) ==
  /\ pc[p] = "write"
  /\ file' = mem[p]
  /\ lock' = NoProc
  /\ pc' = [pc EXCEPT ![p] = IF session[p] = "create" THEN "wait" ELSE "idle"]
  /\ session' = [session EXCEPT ![p] = "op"]
  /\ UNCHANGED <<mem, arg, cur, issued, calls>>

(* The process ends at any point. The OS drops its lock; a truncated file  *)
(* stays truncated, and the times issued so far are then on record only in *)
(* the packs that carry them.                                              *)
Crash(p) ==
  /\ mem[p] # 0 \/ pc[p] # "idle"
  /\ mem' = [mem EXCEPT ![p] = 0]
  /\ cur' = [cur EXCEPT ![p] = 0]
  /\ arg' = [arg EXCEPT ![p] = 0]
  /\ pc' = [pc EXCEPT ![p] = "idle"]
  /\ session' = [session EXCEPT ![p] = "op"]
  /\ lock' = IF lock = p THEN NoProc ELSE lock
  /\ issued' = IF pc[p] = "write" THEN [q \in Proc |-> {}] ELSE issued
  /\ UNCHANGED <<file, calls>>

Step(p) ==
  \/ Lock(p)
  \/ OpenReadable(p)
  \/ LoadUnreadable(p)
  \/ CreateUnreadable(p)
  \/ Refresh(p)
  \/ Bump(p)
  \/ Write(p)

Next ==
  \E p \in Proc :
    \/ \E t \in {0} \union Seen : Call(p, t)
    \/ Step(p)
    \/ Crash(p)

Spec == Init /\ [][Next]_vars

(* A process that runs keeps running, and one that waits for the OS lock   *)
(* gets it if it is free again and again. Nothing forces a crash.          *)
Fairness == \A p \in Proc : WF_vars(Step(p)) /\ SF_vars(Lock(p))

FairSpec == Spec /\ Fairness

------------------------------------------------------------------------------

(* Types of the clock's variables; a call never counts from 0, which is    *)
(* "considered as invalid" (util/lamport/mem_clock.go:52).                 *)
TypeOK ==
  /\ file \in Nat
  /\ lock \in Proc \union {NoProc}
  /\ mem \in [Proc -> Nat]
  /\ pc \in [Proc -> {"idle", "wait", "read", "bump", "write"}]
  /\ session \in [Proc -> {"load", "create", "op"}]
  /\ arg \in [Proc -> {0} \union Seen]
  /\ cur \in [Proc -> Nat]
  /\ issued \in [Proc -> SUBSET Nat]
  /\ calls \in Nat
  /\ \A p \in Proc : pc[p] # "idle" /\ session[p] = "op" => mem[p] # 0

(* Two processes are never given the same time by Increment, as long as    *)
(* the clock file was not lost between the two calls: without it two packs *)
(* of one clone tie in the order of the operations.                        *)
IssuedOnce ==
  \A p, q \in Proc : p # q => issued[p] \intersect issued[q] = {}

(* A call returns, whatever the other processes do and even when one of    *)
(* them dies with the lock: the next one finds a file it can repair.       *)
CallsReturn == \A p \in Proc : (pc[p] # "idle") ~> (pc[p] = "idle")

(* Between the truncation and the end of the write the clock has its new   *)
(* value already; between the two halves of the refresh it has its old one.*)
AbsFile == IF lock # NoProc /\ pc[lock] = "write" THEN mem[lock] ELSE file
AbsMem == [p \in Proc |-> IF pc[p] = "bump" THEN cur[p] ELSE mem[p]]

Abstract == INSTANCE AtomicClock
              WITH Time <- Seen, file <- AbsFile, mem <- AbsMem

(* The lock, the refresh and the two-step write together behave as one     *)
(* indivisible call (persisted_clock.go:67-96).                            *)
IsAtomic == Abstract!Spec

==============================================================================
