------------------------- MODULE PersistedClock_proofs -------------------------
(***************************************************************************)
(* Proofs about PersistedClock, for any set of processes, any times to     *)
(* witness and any number of calls: its type correctness, that Increment   *)
(* never gives two processes the same time, and that the file and lock     *)
(* protocol implements AtomicClock.                                        *)
(***************************************************************************)
EXTENDS PersistedClock, TLAPS

(* The lock is held exactly by the process inside a session.               *)
LockHeld ==
  \A p \in Proc : pc[p] \in {"read", "bump", "write"} <=> lock = p

(* What a process in a session knows of the file.                          *)
Refreshing ==
  \A p \in Proc :
    /\ pc[p] = "bump" =>
         /\ session[p] = "op"
         /\ cur[p] # 0
         /\ mem[p] = IF file = 0 THEN cur[p] ELSE file
    /\ pc[p] = "write" => file = 0 /\ mem[p] # 0 /\ session[p] \in {"op", "create"}

(* The clock is opened by its first call only.                             *)
Opening ==
  \A p \in Proc :
    /\ session[p] \in {"load", "create"} /\ pc[p] # "write" => mem[p] = 0
    /\ pc[p] = "idle" => session[p] = "op"

(* No time on record is ahead of the clock.                                *)
IssuedBelow == \A p \in Proc : \A t \in issued[p] : t <= AbsFile

IInv == TypeOK /\ LockHeld /\ Refreshing /\ Opening /\ IssuedBelow /\ IssuedOnce

USE ProcAssumption, SeenAssumption, BoundAssumption

LEMMA InitIInv == Init => IInv
  BY DEF Init, IInv, TypeOK, LockHeld, Refreshing, Opening, IssuedBelow, IssuedOnce

(* After a refresh the process counts from the larger of what it knew and   *)
(* what the file holds.                                                     *)
LEMMA RefreshedTime ==
  ASSUME IInv, NEW p \in Proc, pc[p] = "bump"
  PROVE  /\ lock = p /\ session[p] = "op"
         /\ arg[p] \in Nat /\ cur[p] \in Nat \ {0} /\ file \in Nat
         /\ Refreshed(p) = Later(file, cur[p])
         /\ AbsFile = file
<1>1. arg[p] \in {0} \union Seen
  BY DEF IInv, TypeOK
<1>2. \A t \in {0} \union Seen : t \in Nat
  BY SeenAssumption DEF SeenAssumption
<1>3. arg[p] \in Nat
  BY <1>1, <1>2, Zenon
<1>4. /\ lock = p /\ session[p] = "op"
      /\ mem[p] \in Nat /\ cur[p] \in Nat /\ file \in Nat
  BY DEF IInv, TypeOK, LockHeld, Refreshing
<1>5. cur[p] # 0 /\ mem[p] = IF file = 0 THEN cur[p] ELSE file
  BY DEF IInv, Refreshing
<1>6. Refreshed(p) = Later(file, cur[p])
  BY <1>4, <1>5 DEF Refreshed, Later
<1>7. AbsFile = file
  BY <1>4 DEF AbsFile
<1>8. QED
  BY <1>3, <1>4, <1>5, <1>6, <1>7

LEMMA StepIInv == IInv /\ [Next]_vars => IInv'
<1> SUFFICES ASSUME IInv, [Next]_vars
             PROVE  IInv'
  OBVIOUS
<1> USE DEF IInv, TypeOK, LockHeld, Refreshing, Opening, IssuedBelow, IssuedOnce, AbsFile
<1>1. ASSUME NEW p \in Proc, NEW t \in {0} \union Seen, Call(p, t)
      PROVE  IInv'
  BY <1>1 DEF Call
<1>2. ASSUME NEW p \in Proc, Lock(p)
      PROVE  IInv'
  BY <1>2 DEF Lock
<1>3. ASSUME NEW p \in Proc, OpenReadable(p)
      PROVE  IInv'
  BY <1>3 DEF OpenReadable, Release
<1>4. ASSUME NEW p \in Proc, LoadUnreadable(p)
      PROVE  IInv'
  BY <1>4 DEF LoadUnreadable, Release
<1>5. ASSUME NEW p \in Proc, CreateUnreadable(p)
      PROVE  IInv'
  BY <1>5 DEF CreateUnreadable
<1>6. ASSUME NEW p \in Proc, Refresh(p)
      PROVE  IInv'
  BY <1>6 DEF Refresh
<1>7. ASSUME NEW p \in Proc, Bump(p)
      PROVE  IInv'
  <2> DEFINE new == IF arg[p] = 0 THEN Refreshed(p) + 1 ELSE Later(Refreshed(p), arg[p])
  <2>1. /\ pc[p] = "bump" /\ lock = p /\ session[p] = "op"
        /\ UNCHANGED <<lock, session, arg, cur, calls>>
    BY <1>7 DEF Bump
  <2>2. /\ arg[p] \in Nat
        /\ Refreshed(p) \in Nat /\ Refreshed(p) # 0 /\ file <= Refreshed(p)
        /\ AbsFile = file
    <3> HIDE DEF IInv, TypeOK, LockHeld, Refreshing, Opening, IssuedBelow, IssuedOnce, AbsFile
    <3>1. QED
      BY <2>1, RefreshedTime DEF Later
  <2>3. /\ new \in Nat /\ new # 0 /\ file <= new
        /\ arg[p] = 0 => file < new
    BY <2>2 DEF Later
  <2> HIDE DEF new
  <2>4. /\ mem' = [mem EXCEPT ![p] = new]
        /\ file' = 0
        /\ pc' = [pc EXCEPT ![p] = "write"]
        /\ issued' = IF arg[p] = 0 THEN [issued EXCEPT ![p] = @ \union {new}] ELSE issued
    BY <1>7 DEF Bump, new
  <2>5. \A q \in Proc : \A t \in issued[q] : t <= file
    BY <2>2
  <2>6. TypeOK' /\ LockHeld' /\ Refreshing' /\ Opening'
    BY <2>1, <2>3, <2>4
  <2>7. AbsFile' = new
    BY <2>1, <2>4
  <2>8. IssuedBelow'
    <3> SUFFICES ASSUME NEW q \in Proc, NEW t \in issued'[q]
                 PROVE  t <= new
      BY <2>7
    <3>1. t \in issued[q] \/ t = new
      BY <2>4
    <3>2. QED
      BY <3>1, <2>3, <2>5
  <2>9. IssuedOnce'
    BY <2>3, <2>4, <2>5
  <2>10. QED
    BY <2>6, <2>8, <2>9
<1>8. ASSUME NEW p \in Proc, Write(p)
      PROVE  IInv'
  BY <1>8 DEF Write
<1>9. ASSUME NEW p \in Proc, Crash(p)
      PROVE  IInv'
  BY <1>9 DEF Crash
<1>10. CASE UNCHANGED vars
  BY <1>10 DEF vars
<1>11. QED
  BY <1>1, <1>2, <1>3, <1>4, <1>5, <1>6, <1>7, <1>8, <1>9, <1>10 DEF Next, Step

LEMMA InvariantIInv == Spec => []IInv
  BY InitIInv, StepIInv, PTL DEF Spec

(* The variables of a clock keep their types, and no process that is past  *)
(* opening the clock counts from the invalid value 0.                      *)
THEOREM TypeCorrect == Spec => []TypeOK
<1>1. IInv => TypeOK
  BY DEF IInv
<1>2. QED
  BY <1>1, InvariantIInv, PTL

(* Increment never gives two processes the same time while the clock file  *)
(* survives.                                                               *)
THEOREM NeverIssuedTwice == Spec => []IssuedOnce
<1>1. IInv => IssuedOnce
  BY DEF IInv
<1>2. QED
  BY <1>1, InvariantIInv, PTL

------------------------------------------------------------------------------

LEMMA InitAbstract == Init => Abstract!Init
  BY DEF Init, Abstract!Init, AbsFile, AbsMem

(* Every step of the protocol is a call of the atomic clock, or invisible. *)
LEMMA StepAbstract == IInv /\ [Next]_vars => [Abstract!Next]_(Abstract!vars)
<1> SUFFICES ASSUME IInv, [Next]_vars
             PROVE  [Abstract!Next]_(Abstract!vars)
  OBVIOUS
<1> USE DEF IInv, TypeOK, LockHeld, Refreshing, Opening, AbsFile, AbsMem
<1>1. ASSUME NEW p \in Proc, NEW t \in {0} \union Seen, Call(p, t)
      PROVE  UNCHANGED Abstract!vars
  BY <1>1 DEF Call, Abstract!vars
<1>2. ASSUME NEW p \in Proc, Lock(p)
      PROVE  UNCHANGED Abstract!vars
  BY <1>2 DEF Lock, Abstract!vars
<1>3. ASSUME NEW p \in Proc, OpenReadable(p)
      PROVE  Abstract!Open(p)
  BY <1>3 DEF OpenReadable, Release, Abstract!Open, Abstract!Set, Abstract!Current, Abstract!Later
<1>4. ASSUME NEW p \in Proc, LoadUnreadable(p)
      PROVE  UNCHANGED Abstract!vars
  BY <1>4 DEF LoadUnreadable, Release, Abstract!vars
<1>5. ASSUME NEW p \in Proc, CreateUnreadable(p)
      PROVE  Abstract!Open(p)
  BY <1>5 DEF CreateUnreadable, Abstract!Open, Abstract!Set, Abstract!Current, Abstract!Later
<1>6. ASSUME NEW p \in Proc, Refresh(p)
      PROVE  UNCHANGED Abstract!vars
  BY <1>6 DEF Refresh, Abstract!vars
<1>7. ASSUME NEW p \in Proc, Bump(p)
      PROVE  Abstract!Next
  <2>1. /\ pc[p] = "bump"
        /\ mem' = [mem EXCEPT ![p] = IF arg[p] = 0 THEN Refreshed(p) + 1
                                                   ELSE Later(Refreshed(p), arg[p])]
        /\ pc' = [pc EXCEPT ![p] = "write"]
        /\ UNCHANGED <<lock, arg, cur>>
    BY <1>7 DEF Bump
  <2> DEFINE current == Later(1, Later(file, cur[p]))
             new == IF arg[p] = 0 THEN current + 1 ELSE Later(current, arg[p])
  <2>2. /\ lock = p /\ arg[p] \in {0} \union Seen
        /\ AbsFile = file /\ AbsMem[p] = cur[p]
        /\ Refreshed(p) = current
    <3> HIDE DEF IInv, TypeOK, LockHeld, Refreshing, Opening, AbsFile
    <3>1. arg[p] \in {0} \union Seen
      BY DEF IInv, TypeOK
    <3>2. QED
      BY <2>1, <3>1, RefreshedTime DEF Later, AbsMem
  <2> HIDE DEF current
  <2>3. mem' = [mem EXCEPT ![p] = new]
    BY <2>1, <2>2
  <2>4. AbsFile' = new
    BY <2>1, <2>2, <2>3
  <2>5. AbsMem' = [AbsMem EXCEPT ![p] = new]
    BY <2>1, <2>2, <2>3
  <2>6. Abstract!Current(p) = current
    BY <2>2 DEF current, Abstract!Current, Abstract!Later, Later
  <2>7. CASE arg[p] = 0
    BY <2>4, <2>5, <2>6, <2>7 DEF Abstract!Next, Abstract!Increment, Abstract!Set
  <2>8. CASE arg[p] # 0
    <3>1. arg[p] \in Seen
      BY <2>2, <2>8
    <3>2. Abstract!Witness(p, arg[p])
      BY <2>4, <2>5, <2>6, <2>8
         DEF Abstract!Witness, Abstract!Set, Abstract!Later, Later
    <3>3. QED
      BY <3>1, <3>2 DEF Abstract!Next
  <2>9. QED
    BY <2>7, <2>8
<1>8. ASSUME NEW p \in Proc, Write(p)
      PROVE  UNCHANGED Abstract!vars
  BY <1>8 DEF Write, Abstract!vars
<1>9. ASSUME NEW p \in Proc, Crash(p)
      PROVE  Abstract!Stop(p) \/ Abstract!Tear(p)
  BY <1>9 DEF Crash, Abstract!Stop, Abstract!Tear, Abstract!Set
<1>10. CASE UNCHANGED vars
  BY <1>10 DEF vars, Abstract!vars
<1>11. QED
  BY <1>1, <1>2, <1>3, <1>4, <1>5, <1>6, <1>7, <1>8, <1>9, <1>10
     DEF Next, Step, Abstract!Next

(* The lock and file protocol implements the atomic clock.                 *)
THEOREM Implements == Spec => IsAtomic
<1>1. QED
  BY InitAbstract, StepAbstract, InvariantIInv, PTL DEF Spec, IsAtomic, Abstract!Spec

==============================================================================
