-------------------------- MODULE EntityStore_proofs --------------------------
(***************************************************************************)
(* Proofs about EntityStore, for any processes, operations and bounds.     *)
(***************************************************************************)
EXTENDS EntityStore, TLAPS

HasLocal ==
  {"mRemote", "mListLocal", "mListRemote", "mForward", "mRead", "mWitnessLocal",
   "mTick", "mStore", "mUpdate"}
HasRemote == (HasLocal \ {"mRemote"}) \union {"mCreate"}

(* What a merge has resolved it keeps until it returns.                    *)
Resolved ==
  \A p \in Proc :
    /\ pc[p] \in HasLocal => localCommit[p] # 0
    /\ pc[p] \in HasRemote => remoteCommit[p] # 0

(* A commit reaches itself, its parents and all that they reach.           *)
Reachable ==
  \A c \in 1..Len(dag) :
    /\ c \in dag[c].hist
    /\ dag[c].hist \subseteq 1..c
    /\ Elements(dag[c].parents) \subseteq dag[c].hist
    /\ \A d \in dag[c].hist : dag[d].hist \subseteq dag[c].hist

(* The commits by themselves, and what refers to them.                     *)
DagShape ==
  /\ dag \in Seq(PackType)
  /\ \A c \in 1..Len(dag) : Elements(dag[c].parents) \subseteq 1..(c - 1)
  /\ Reachable

RefShape ==
  /\ local \in Commit /\ tracking \in Commit /\ server \in Commit
  /\ crashes \in Nat
  /\ acked \subseteq Op

ClockShape == editFile \in Nat /\ editMem \in [Proc -> Nat]

ProcShape ==
  /\ pc \in [Proc -> Label]
  /\ base \in [Proc -> Commit]
  /\ staging \in [Proc -> Seq(Op)]
  /\ pending \in [Proc -> Seq(Op)]
  /\ last \in [Proc -> Commit]
  /\ localCommit \in [Proc -> Commit]
  /\ remoteCommit \in [Proc -> Commit]
  /\ Resolved

Shape == DagShape /\ RefShape /\ ClockShape /\ ProcShape

USE RoleAssumption, AuthorAssumption, BoundAssumption

(* What a stored commit is made of.                                        *)
LEMMA PackTypes ==
  ASSUME dag \in Seq(PackType), NEW c \in 1..Len(dag)
  PROVE  /\ dag[c] \in PackType
         /\ dag[c].parents \in Seq(Nat) /\ dag[c].ops \subseteq Op
         /\ dag[c].edit \in Nat /\ dag[c].hist \subseteq Nat
<1>1. dag[c] \in PackType
  OBVIOUS
<1>2. QED
  BY <1>1 DEF PackType

(* Up to two stored commits can be the parents of the next one.            *)
Parents ==
  {<<>>} \union {<<c>> : c \in 1..Len(dag)}
         \union {<<c, d>> : c \in 1..Len(dag), d \in 1..Len(dag)}

(* They are stored commits.                                                *)
LEMMA ParentsType ==
  ASSUME Len(dag) \in Nat, NEW parents \in Parents
  PROVE  /\ parents \in Seq(Nat)
         /\ Elements(parents) \subseteq 1..Len(dag)
         /\ \A i \in DOMAIN parents : parents[i] \in Elements(parents)
<1> DEFINE Goal == /\ parents \in Seq(Nat)
                   /\ Elements(parents) \subseteq 1..Len(dag)
                   /\ \A i \in DOMAIN parents : parents[i] \in Elements(parents)
<1>1. CASE parents = <<>>
  BY <1>1 DEF Elements
<1>2. ASSUME NEW c \in 1..Len(dag), parents = <<c>>
      PROVE  Goal
  BY <1>2 DEF Elements
<1>3. ASSUME NEW c \in 1..Len(dag), NEW d \in 1..Len(dag), parents = <<c, d>>
      PROVE  Goal
  BY <1>3 DEF Elements
<1>4. QED
  BY <1>1, <1>2, <1>3 DEF Parents

(* What the next commit reaches if it is put on top of them.               *)
NextHist(parents) ==
  {Len(dag) + 1} \union UNION {dag[c].hist : c \in Elements(parents)}

(* What a new pack is made of.                                             *)
LEMMA NewPack ==
  ASSUME DagShape, NEW parents \in Parents,
         NEW ops \in SUBSET Op, NEW edit \in Nat, NEW root \in BOOLEAN
  PROVE  /\ Pack(dag, parents, ops, edit, root) \in PackType
         /\ Pack(dag, parents, ops, edit, root).parents = parents
         /\ Pack(dag, parents, ops, edit, root).ops = ops
         /\ Pack(dag, parents, ops, edit, root).edit = edit
         /\ Pack(dag, parents, ops, edit, root).hist = NextHist(parents)
<1>1. Len(dag) \in Nat
  BY DEF DagShape
<1>2. /\ parents \in Seq(Nat)
      /\ Elements(parents) \subseteq 1..Len(dag)
      /\ \A i \in DOMAIN parents : parents[i] \in Elements(parents)
  BY <1>1, ParentsType
<1>3. \A c \in 1..Len(dag) : dag[c].hist \subseteq Nat /\ History(dag, c) = dag[c].hist
  BY PackTypes DEF DagShape, History
<1>4. {Len(dag) + 1} \union UNION {History(dag, parents[i]) : i \in DOMAIN parents}
        = NextHist(parents)
  BY <1>2, <1>3 DEF Elements, NextHist
<1>5. NextHist(parents) \subseteq Nat
  BY <1>1, <1>2, <1>3 DEF NextHist
<1>6. Pack(dag, parents, ops, edit, root)
        = [parents |-> parents, ops |-> ops, edit |-> edit, root |-> root,
           hist |-> NextHist(parents)]
  BY <1>4 DEF Pack
<1>7. Pack(dag, parents, ops, edit, root) \in PackType
  BY <1>2, <1>5, <1>6 DEF PackType
<1>8. QED
  BY <1>6, <1>7

(* Storing it leaves all earlier commits as they are, and keeps the shape. *)
LEMMA StoreShape ==
  ASSUME DagShape, NEW parents \in Parents,
         NEW ops \in SUBSET Op, NEW edit \in Nat, NEW root \in BOOLEAN,
         Store(Pack(dag, parents, ops, edit, root))
  PROVE  /\ DagShape'
         /\ Len(dag) \in Nat /\ Len(dag') = Len(dag) + 1
         /\ \A c \in 1..Len(dag) : dag'[c] = dag[c]
         /\ dag'[Len(dag) + 1] = Pack(dag, parents, ops, edit, root)
<1> DEFINE pack == Pack(dag, parents, ops, edit, root)
           n == Len(dag) + 1
<1>1. /\ pack \in PackType
      /\ pack.parents = parents
      /\ pack.hist = NextHist(parents)
  BY NewPack
<1>2. Store(pack) /\ dag \in Seq(PackType) /\ Len(dag) \in Nat
  BY DEF DagShape
<1> HIDE DEF pack
<1>3. /\ dag' \in Seq(PackType)
      /\ Len(dag') = n
      /\ dag'[n] = pack
      /\ \A c \in 1..Len(dag) : dag'[c] = dag[c]
  BY <1>1, <1>2 DEF Store
<1>4. Elements(parents) \subseteq 1..Len(dag)
  BY <1>2, ParentsType
<1>5. \A c \in 1..Len(dag) : /\ c \in dag[c].hist
                             /\ dag[c].hist \subseteq 1..c
                             /\ Elements(dag[c].parents) \subseteq dag[c].hist
                             /\ Elements(dag[c].parents) \subseteq 1..(c - 1)
                             /\ \A d \in dag[c].hist : dag[d].hist \subseteq dag[c].hist
  BY DEF DagShape, Reachable
<1>6. /\ Elements(parents) \subseteq pack.hist
      /\ n \in pack.hist
      /\ pack.hist \subseteq 1..n
  BY <1>1, <1>2, <1>4, <1>5 DEF NextHist
<1>7. \A d \in pack.hist : dag'[d].hist \subseteq pack.hist
  <2> SUFFICES ASSUME NEW d \in pack.hist
               PROVE  dag'[d].hist \subseteq pack.hist
    OBVIOUS
  <2>1. CASE d = n
    BY <2>1, <1>3
  <2>2. ASSUME NEW c \in Elements(parents), d \in dag[c].hist
        PROVE  dag'[d].hist \subseteq pack.hist
    <3>1. c \in 1..Len(dag)
      BY <2>2, <1>4
    <3>2. d \in 1..c /\ dag[d].hist \subseteq dag[c].hist
      BY <2>2, <3>1, <1>5
    <3>3. dag'[d] = dag[d]
      <4>1. d \in 1..Len(dag)
        BY <3>1, <3>2, <1>2
      <4>2. QED
        BY <4>1, <1>3
    <3>4. dag[c].hist \subseteq NextHist(parents)
      BY <2>2 DEF NextHist
    <3>5. QED
      BY <3>2, <3>3, <3>4, <1>1
  <2>3. QED
    BY <2>1, <2>2, <1>1 DEF NextHist
<1>8. \A c \in 1..n :
        /\ c \in dag'[c].hist
        /\ dag'[c].hist \subseteq 1..c
        /\ Elements(dag'[c].parents) \subseteq dag'[c].hist
        /\ Elements(dag'[c].parents) \subseteq 1..(c - 1)
        /\ \A d \in dag'[c].hist : dag'[d].hist \subseteq dag'[c].hist
  <2> SUFFICES ASSUME NEW c \in 1..n
               PROVE  /\ c \in dag'[c].hist
                      /\ dag'[c].hist \subseteq 1..c
                      /\ Elements(dag'[c].parents) \subseteq dag'[c].hist
                      /\ Elements(dag'[c].parents) \subseteq 1..(c - 1)
                      /\ \A d \in dag'[c].hist : dag'[d].hist \subseteq dag'[c].hist
    OBVIOUS
  <2>1. CASE c = n
    <3>1. n - 1 = Len(dag)
      BY <1>2
    <3>2. dag'[c] = pack
      BY <2>1, <1>3
    <3>3. /\ n \in pack.hist /\ pack.hist \subseteq 1..n
          /\ Elements(pack.parents) \subseteq pack.hist
          /\ \A d \in pack.hist : dag'[d].hist \subseteq pack.hist
      BY <1>1, <1>6, <1>7
    <3>4. Elements(pack.parents) \subseteq 1..(n - 1)
      BY <3>1, <1>1, <1>4
    <3> HIDE DEF n
    <3>5. QED
      BY <2>1, <3>2, <3>3, <3>4
  <2>2. CASE c \in 1..Len(dag)
    <3>1. dag'[c] = dag[c] /\ dag[c].hist \subseteq 1..Len(dag)
      BY <2>2, <1>2, <1>3, <1>5
    <3>2. \A d \in dag[c].hist : dag'[d] = dag[d]
      BY <3>1, <1>3
    <3>3. QED
      BY <3>1, <3>2, <2>2, <1>5
  <2>3. QED
    BY <2>1, <2>2, <1>2
<1>9. DagShape'
  BY <1>3, <1>8 DEF DagShape, Reachable
<1>10. QED
  BY <1>2, <1>3, <1>9 DEF pack

(* A process' step on the clock keeps the types.                           *)
LEMMA ClockTypes ==
  ASSUME editFile \in Nat, editMem \in [Proc -> Nat], NEW p \in Proc, NEW t \in Nat
  PROVE  /\ EditClock!Open(p) => editFile' \in Nat /\ editMem' \in [Proc -> Nat]
         /\ EditClock!Increment(p) => editFile' \in Nat /\ editMem' \in [Proc -> Nat]
         /\ EditClock!Witness(p, t) => editFile' \in Nat /\ editMem' \in [Proc -> Nat]
         /\ EditClock!Stop(p) => editFile' \in Nat /\ editMem' \in [Proc -> Nat]
         /\ EditClock!Tear(p) => editFile' \in Nat /\ editMem' \in [Proc -> Nat]
  BY DEF EditClock!Open, EditClock!Increment, EditClock!Witness, EditClock!Stop,
         EditClock!Tear, EditClock!Set, EditClock!Current, EditClock!Later

LEMMA InitShape == Init => Shape
  BY DEF Init, Shape, DagShape, RefShape, ClockShape, ProcShape, Resolved, Reachable, EditClock!Init, Label, HasLocal, HasRemote, Commit
(* The edit time of a commit is a number.                                  *)
LEMMA EditTimeType ==
  ASSUME DagShape, NEW c \in Commit
  PROVE  EditTime(dag, c) \in Nat
  BY PackTypes DEF EditTime, DagShape, Commit

(* A step that stores no commit keeps the shape of the commits.            *)
LEMMA QuietShape ==
  ASSUME Shape, UNCHANGED dag, ClockShape', RefShape', ProcShape'
  PROVE  Shape'
  BY DEF Shape, DagShape, Reachable

(* A call that returns leaves a well-formed process behind.                *)
LEMMA ReturnShape ==
  ASSUME ProcShape, 0 \in Commit, Commit' = Commit, NEW p \in Proc,
         Return(p), UNCHANGED <<handle, pending>>
  PROVE  ProcShape'
  BY DEF ProcShape, Resolved, Label, HasLocal, HasRemote, handle, Return

(* Staged operations are operations.                                       *)
LEMMA ElementsType ==
  ASSUME NEW s \in Seq(Op)
  PROVE  Elements(s) \subseteq Op
  BY DEF Elements

LEMMA StepShape == Shape /\ [Next]_vars => Shape'
<1> SUFFICES ASSUME Shape, [Next]_vars
             PROVE  Shape'
  OBVIOUS
<1>0. DagShape /\ RefShape /\ ProcShape /\ ClockShape /\ 0 \in Commit
  BY DEF Shape, DagShape, Commit
<1> USE DEF RefShape, ProcShape, Resolved, Label, HasLocal, HasRemote, refs, edits, handle, merging, Goto, Return, Continue
<1>1. ASSUME NEW p \in Proc, OpenClock(p)
      PROVE  Shape'
  <2>1. UNCHANGED dag
    BY <1>1 DEF OpenClock
  <2>2. Commit' = Commit
    BY <2>1 DEF Commit
  <2>3. ClockShape'
    BY <1>1, <1>0, ClockTypes, EditTimeType DEF OpenClock, ClockShape
  <2>4. RefShape'
    BY <1>1, <2>2, <1>0 DEF OpenClock
  <2>5. ProcShape'
    BY <1>1, <2>2, <1>0 DEF OpenClock
  <2>6. QED
    BY <2>1, <2>3, <2>4, <2>5, QuietShape
<1>2. ASSUME NEW p \in Proc, OpenWithoutClock(p)
      PROVE  Shape'
  <2>1. UNCHANGED dag
    BY <1>2 DEF OpenWithoutClock
  <2>2. Commit' = Commit
    BY <2>1 DEF Commit
  <2>3. ClockShape'
    BY <1>2, <1>0 DEF OpenWithoutClock, ClockShape
  <2>4. RefShape'
    BY <1>2, <2>2, <1>0 DEF OpenWithoutClock
  <2>5. ProcShape'
    BY <1>2, <2>2, <1>0 DEF OpenWithoutClock
  <2>6. QED
    BY <2>1, <2>3, <2>4, <2>5, QuietShape
<1>3. ASSUME NEW p \in Proc, LoadClock(p)
      PROVE  Shape'
  <2>1. UNCHANGED dag
    BY <1>3 DEF LoadClock
  <2>2. Commit' = Commit
    BY <2>1 DEF Commit
  <2>3. ClockShape'
    BY <1>3, <1>0, ClockTypes, EditTimeType DEF LoadClock, ClockShape
  <2>4. RefShape'
    BY <1>3, <2>2, <1>0 DEF LoadClock
  <2>5. ProcShape'
    BY <1>3, <2>2, <1>0 DEF LoadClock
  <2>6. QED
    BY <2>1, <2>3, <2>4, <2>5, QuietShape
<1>4. ASSUME NEW p \in Proc, Exit(p)
      PROVE  Shape'
  <2>1. UNCHANGED dag
    BY <1>4 DEF Exit, Replace
  <2>2. Commit' = Commit
    BY <2>1 DEF Commit
  <2>3. ClockShape'
    BY <1>4, <1>0, ClockTypes, EditTimeType DEF Exit, ClockShape
  <2>4. RefShape'
    BY <1>4, <2>2, <1>0 DEF Exit, Replace
  <2>5. ProcShape'
    BY <1>4, <2>2, <1>0 DEF Exit, Replace
  <2>6. QED
    BY <2>1, <2>3, <2>4, <2>5, QuietShape
<1>5. ASSUME NEW p \in Proc, Crash(p)
      PROVE  Shape'
  <2>1. UNCHANGED dag
    BY <1>5 DEF Crash, Replace
  <2>2. Commit' = Commit
    BY <2>1 DEF Commit
  <2>3. ClockShape'
    BY <1>5, <1>0, ClockTypes, EditTimeType DEF Crash, ClockShape
  <2>4. RefShape'
    BY <1>5, <2>2, <1>0 DEF Crash, Replace
  <2>5. ProcShape'
    BY <1>5, <2>2, <1>0 DEF Crash, Replace
  <2>6. QED
    BY <2>1, <2>3, <2>4, <2>5, QuietShape
<1>6. ASSUME NEW p \in Proc, CrashInClock(p)
      PROVE  Shape'
  <2>1. UNCHANGED dag
    BY <1>6 DEF CrashInClock, Replace
  <2>2. Commit' = Commit
    BY <2>1 DEF Commit
  <2>3. ClockShape'
    BY <1>6, <1>0, ClockTypes, EditTimeType DEF CrashInClock, ClockShape
  <2>4. RefShape'
    BY <1>6, <2>2, <1>0 DEF CrashInClock, Replace
  <2>5. ProcShape'
    BY <1>6, <2>2, <1>0 DEF CrashInClock, Replace
  <2>6. QED
    BY <2>1, <2>3, <2>4, <2>5, QuietShape
<1>7. ASSUME NEW p \in Proc, Read(p)
      PROVE  Shape'
  <2>1. UNCHANGED dag
    BY <1>7 DEF Read
  <2>2. Commit' = Commit
    BY <2>1 DEF Commit
  <2>3. ClockShape'
    BY <1>7, <1>0 DEF Read, ClockShape
  <2>4. RefShape'
    BY <1>7, <2>2, <1>0 DEF Read
  <2>5. ProcShape'
    BY <1>7, <2>2, <1>0 DEF Read
  <2>6. QED
    BY <2>1, <2>3, <2>4, <2>5, QuietShape
<1>8. ASSUME NEW p \in Proc, Witness(p)
      PROVE  Shape'
  <2>1. UNCHANGED dag
    BY <1>8 DEF Witness
  <2>2. Commit' = Commit
    BY <2>1 DEF Commit
  <2>3. ClockShape'
    BY <1>8, <1>0, ClockTypes, EditTimeType DEF Witness, ClockShape
  <2>4. RefShape'
    BY <1>8, <2>2, <1>0 DEF Witness
  <2>5. ProcShape'
    BY <1>8, <2>2, <1>0 DEF Witness
  <2>6. QED
    BY <2>1, <2>3, <2>4, <2>5, QuietShape
<1>9. ASSUME NEW p \in Proc, CommitBegin(p)
      PROVE  Shape'
  <2>1. UNCHANGED dag
    BY <1>9 DEF CommitBegin
  <2>2. Commit' = Commit
    BY <2>1 DEF Commit
  <2>3. ClockShape'
    BY <1>9, <1>0 DEF CommitBegin, ClockShape
  <2>4. RefShape'
    BY <1>9, <2>2, <1>0 DEF CommitBegin
  <2>5. ProcShape'
    BY <1>9, <2>2, <1>0 DEF CommitBegin
  <2>6. QED
    BY <2>1, <2>3, <2>4, <2>5, QuietShape
<1>10. ASSUME NEW p \in Proc, Tick(p)
      PROVE  Shape'
  <2>1. UNCHANGED dag
    BY <1>10 DEF Tick
  <2>2. Commit' = Commit
    BY <2>1 DEF Commit
  <2>3. ClockShape'
    BY <1>10, <1>0, ClockTypes, EditTimeType DEF Tick, ClockShape
  <2>4. RefShape'
    BY <1>10, <2>2, <1>0 DEF Tick
  <2>5. ProcShape'
    BY <1>10, <2>2, <1>0 DEF Tick
  <2>6. QED
    BY <2>1, <2>3, <2>4, <2>5, QuietShape
<1>11. ASSUME NEW p \in Proc, CommitDone(p)
      PROVE  Shape'
  <2>1. UNCHANGED dag
    BY <1>11 DEF CommitDone
  <2>2. Commit' = Commit
    BY <2>1 DEF Commit
  <2>3. ClockShape'
    BY <1>11, <1>0 DEF CommitDone, ClockShape
  <2>4. RefShape'
    BY <1>11, <2>2, <1>0, ElementsType DEF CommitDone
  <2>5. ProcShape'
    BY <1>11, <2>2, <1>0 DEF CommitDone
  <2>6. QED
    BY <2>1, <2>3, <2>4, <2>5, QuietShape
<1>12. ASSUME NEW p \in Proc, CommitConflict(p)
      PROVE  Shape'
  <2>1. UNCHANGED dag
    BY <1>12 DEF CommitConflict
  <2>2. Commit' = Commit
    BY <2>1 DEF Commit
  <2>3. ClockShape'
    BY <1>12, <1>0 DEF CommitConflict, ClockShape
  <2>4. RefShape'
    BY <1>12, <2>2, <1>0 DEF CommitConflict
  <2>5. ProcShape'
    BY <1>12, <2>2, <1>0 DEF CommitConflict
  <2>6. QED
    BY <2>1, <2>3, <2>4, <2>5, QuietShape
<1>13. ASSUME NEW p \in Proc, MergeBegin(p)
      PROVE  Shape'
  <2>1. UNCHANGED dag
    BY <1>13 DEF MergeBegin
  <2>2. Commit' = Commit
    BY <2>1 DEF Commit
  <2>3. ClockShape'
    BY <1>13, <1>0 DEF MergeBegin, ClockShape
  <2>4. RefShape'
    BY <1>13, <2>2, <1>0 DEF MergeBegin
  <2>5. ProcShape'
    BY <1>13, <2>2, <1>0 DEF MergeBegin
  <2>6. QED
    BY <2>1, <2>3, <2>4, <2>5, QuietShape
<1>14. ASSUME NEW p \in Proc, MergeWitness(p)
      PROVE  Shape'
  <2>1. UNCHANGED dag
    BY <1>14 DEF MergeWitness
  <2>2. Commit' = Commit
    BY <2>1 DEF Commit
  <2>3. ClockShape'
    BY <1>14, <1>0, ClockTypes, EditTimeType DEF MergeWitness, ClockShape
  <2>4. RefShape'
    BY <1>14, <2>2, <1>0 DEF MergeWitness
  <2>5. ProcShape'
    BY <1>14, <2>2, <1>0 DEF MergeWitness
  <2>6. QED
    BY <2>1, <2>3, <2>4, <2>5, QuietShape
<1>15. ASSUME NEW p \in Proc, MergeExist(p)
      PROVE  Shape'
  <2>1. UNCHANGED dag
    BY <1>15 DEF MergeExist
  <2>2. Commit' = Commit
    BY <2>1 DEF Commit
  <2>3. ClockShape'
    BY <1>15, <1>0 DEF MergeExist, ClockShape
  <2>4. RefShape'
    BY <1>15, <2>2, <1>0 DEF MergeExist
  <2>5. ProcShape'
    BY <1>15, <2>2, <1>0 DEF MergeExist
  <2>6. QED
    BY <2>1, <2>3, <2>4, <2>5, QuietShape
<1>16. ASSUME NEW p \in Proc, MergeCopy(p)
      PROVE  Shape'
  <2>1. UNCHANGED dag
    BY <1>16 DEF MergeCopy
  <2>2. Commit' = Commit
    BY <2>1 DEF Commit
  <2>3. ClockShape'
    BY <1>16, <1>0 DEF MergeCopy, ClockShape
  <2>4. RefShape'
    BY <1>16, <2>2, <1>0 DEF MergeCopy
  <2>5. ProcShape'
    <3>1. CASE tracking = 0
      <4>1. Return(p) /\ UNCHANGED <<handle, pending>>
        BY <1>16, <3>1 DEF MergeCopy
      <4>2. QED
        BY <4>1, <1>0, <2>2, ReturnShape
    <3>2. CASE ~(tracking = 0)
      <4>1. /\ pc[p] = "mCopy"
            /\ remoteCommit' = [remoteCommit EXCEPT ![p] = tracking] /\ pc' = [pc EXCEPT ![p] = "mCreate"] /\ UNCHANGED <<last, localCommit>>
            /\ UNCHANGED <<handle, pending>>
        BY <1>16, <3>2 DEF MergeCopy
      <4>2. QED
        BY <4>1, <1>0, <2>2, <3>2
    <3>3. QED
      BY <3>1, <3>2
  <2>6. QED
    BY <2>1, <2>3, <2>4, <2>5, QuietShape
<1>17. ASSUME NEW p \in Proc, MergeCreate(p)
      PROVE  Shape'
  <2>1. UNCHANGED dag
    BY <1>17 DEF MergeCreate
  <2>2. Commit' = Commit
    BY <2>1 DEF Commit
  <2>3. ClockShape'
    BY <1>17, <1>0 DEF MergeCreate, ClockShape
  <2>4. RefShape'
    BY <1>17, <2>2, <1>0 DEF MergeCreate
  <2>5. ProcShape'
    BY <1>17, <2>2, <1>0 DEF MergeCreate
  <2>6. QED
    BY <2>1, <2>3, <2>4, <2>5, QuietShape
<1>18. ASSUME NEW p \in Proc, MergeLocal(p)
      PROVE  Shape'
  <2>1. UNCHANGED dag
    BY <1>18 DEF MergeLocal
  <2>2. Commit' = Commit
    BY <2>1 DEF Commit
  <2>3. ClockShape'
    BY <1>18, <1>0 DEF MergeLocal, ClockShape
  <2>4. RefShape'
    BY <1>18, <2>2, <1>0 DEF MergeLocal
  <2>5. ProcShape'
    <3>1. CASE local = 0
      <4>1. Return(p) /\ UNCHANGED <<handle, pending>>
        BY <1>18, <3>1 DEF MergeLocal
      <4>2. QED
        BY <4>1, <1>0, <2>2, ReturnShape
    <3>2. CASE ~(local = 0)
      <4>1. /\ pc[p] = "mLocal"
            /\ localCommit' = [localCommit EXCEPT ![p] = local] /\ pc' = [pc EXCEPT ![p] = "mRemote"] /\ UNCHANGED <<last, remoteCommit>>
            /\ UNCHANGED <<handle, pending>>
        BY <1>18, <3>2 DEF MergeLocal
      <4>2. QED
        BY <4>1, <1>0, <2>2, <3>2
    <3>3. QED
      BY <3>1, <3>2
  <2>6. QED
    BY <2>1, <2>3, <2>4, <2>5, QuietShape
<1>19. ASSUME NEW p \in Proc, MergeRemote(p)
      PROVE  Shape'
  <2>1. UNCHANGED dag
    BY <1>19 DEF MergeRemote
  <2>2. Commit' = Commit
    BY <2>1 DEF Commit
  <2>3. ClockShape'
    BY <1>19, <1>0 DEF MergeRemote, ClockShape
  <2>4. RefShape'
    BY <1>19, <2>2, <1>0 DEF MergeRemote
  <2>5. ProcShape'
    <3>1. CASE tracking \in {0, localCommit[p]}
      <4>1. Return(p) /\ UNCHANGED <<handle, pending>>
        BY <1>19, <3>1 DEF MergeRemote
      <4>2. QED
        BY <4>1, <1>0, <2>2, ReturnShape
    <3>2. CASE ~(tracking \in {0, localCommit[p]})
      <4>1. /\ pc[p] = "mRemote"
            /\ remoteCommit' = [remoteCommit EXCEPT ![p] = tracking] /\ pc' = [pc EXCEPT ![p] = "mListLocal"] /\ UNCHANGED <<last, localCommit>>
            /\ UNCHANGED <<handle, pending>>
        BY <1>19, <3>2 DEF MergeRemote
      <4>2. QED
        BY <4>1, <1>0, <2>2, <3>2
    <3>3. QED
      BY <3>1, <3>2
  <2>6. QED
    BY <2>1, <2>3, <2>4, <2>5, QuietShape
<1>20. ASSUME NEW p \in Proc, MergeListLocal(p)
      PROVE  Shape'
  <2>1. UNCHANGED dag
    BY <1>20 DEF MergeListLocal
  <2>2. Commit' = Commit
    BY <2>1 DEF Commit
  <2>3. ClockShape'
    BY <1>20, <1>0 DEF MergeListLocal, ClockShape
  <2>4. RefShape'
    BY <1>20, <2>2, <1>0 DEF MergeListLocal
  <2>5. ProcShape'
    <3>1. CASE local = 0 \/ remoteCommit[p] \in History(dag, local)
      <4>1. Return(p) /\ UNCHANGED <<handle, pending>>
        BY <1>20, <3>1 DEF MergeListLocal
      <4>2. QED
        BY <4>1, <1>0, <2>2, ReturnShape
    <3>2. CASE ~(local = 0 \/ remoteCommit[p] \in History(dag, local))
      <4>1. /\ pc[p] = "mListLocal"
            /\ pc' = [pc EXCEPT ![p] = "mListRemote"] /\ UNCHANGED <<last, merging>>
            /\ UNCHANGED <<handle, pending>>
        BY <1>20, <3>2 DEF MergeListLocal
      <4>2. QED
        BY <4>1, <1>0, <2>2, <3>2
    <3>3. QED
      BY <3>1, <3>2
  <2>6. QED
    BY <2>1, <2>3, <2>4, <2>5, QuietShape
<1>21. ASSUME NEW p \in Proc, MergeListRemote(p)
      PROVE  Shape'
  <2>1. UNCHANGED dag
    BY <1>21 DEF MergeListRemote
  <2>2. Commit' = Commit
    BY <2>1 DEF Commit
  <2>3. ClockShape'
    BY <1>21, <1>0 DEF MergeListRemote, ClockShape
  <2>4. RefShape'
    BY <1>21, <2>2, <1>0 DEF MergeListRemote
  <2>5. ProcShape'
    <3>1. CASE tracking = 0
      <4>1. Return(p) /\ UNCHANGED <<handle, pending>>
        BY <1>21, <3>1 DEF MergeListRemote
      <4>2. QED
        BY <4>1, <1>0, <2>2, ReturnShape
    <3>2. CASE ~(tracking = 0)
      <4>1. /\ pc[p] = "mListRemote"
            /\ pc' = [pc EXCEPT ![p] = IF localCommit[p] \in History(dag, tracking) THEN "mForward" ELSE "mRead"] /\ UNCHANGED <<last, merging>>
            /\ UNCHANGED <<handle, pending>>
        BY <1>21, <3>2 DEF MergeListRemote
      <4>2. QED
        BY <4>1, <1>0, <2>2, <3>2
    <3>3. QED
      BY <3>1, <3>2
  <2>6. QED
    BY <2>1, <2>3, <2>4, <2>5, QuietShape
<1>22. ASSUME NEW p \in Proc, MergeForward(p)
      PROVE  Shape'
  <2>1. UNCHANGED dag
    BY <1>22 DEF MergeForward, MergeUpdateRef
  <2>2. Commit' = Commit
    BY <2>1 DEF Commit
  <2>3. ClockShape'
    BY <1>22, <1>0 DEF MergeForward, ClockShape, MergeUpdateRef
  <2>4. RefShape'
    BY <1>22, <2>2, <1>0 DEF MergeForward, MergeUpdateRef
  <2>5. ProcShape'
    BY <1>22, <2>2, <1>0 DEF MergeForward, MergeUpdateRef
  <2>6. QED
    BY <2>1, <2>3, <2>4, <2>5, QuietShape
<1>23. ASSUME NEW p \in Proc, MergeRead(p)
      PROVE  Shape'
  <2>1. UNCHANGED dag
    BY <1>23 DEF MergeRead
  <2>2. Commit' = Commit
    BY <2>1 DEF Commit
  <2>3. ClockShape'
    BY <1>23, <1>0 DEF MergeRead, ClockShape
  <2>4. RefShape'
    BY <1>23, <2>2, <1>0 DEF MergeRead
  <2>5. ProcShape'
    <3>1. CASE ~(local # 0 /\ Readable(dag, local))
      <4>1. Return(p) /\ UNCHANGED <<handle, pending>>
        BY <1>23, <3>1 DEF MergeRead
      <4>2. QED
        BY <4>1, <1>0, <2>2, ReturnShape
    <3>2. CASE local # 0 /\ Readable(dag, local)
      <4>1. /\ pc[p] = "mRead"
            /\ last' = [last EXCEPT ![p] = local] /\ pc' = [pc EXCEPT ![p] = "mWitnessLocal"] /\ UNCHANGED merging
            /\ UNCHANGED <<handle, pending>>
        BY <1>23, <3>2 DEF MergeRead
      <4>2. QED
        BY <4>1, <1>0, <2>2, <3>2
    <3>3. QED
      BY <3>1, <3>2
  <2>6. QED
    BY <2>1, <2>3, <2>4, <2>5, QuietShape
<1>24. ASSUME NEW p \in Proc, MergeWitnessLocal(p)
      PROVE  Shape'
  <2>1. UNCHANGED dag
    BY <1>24 DEF MergeWitnessLocal
  <2>2. Commit' = Commit
    BY <2>1 DEF Commit
  <2>3. ClockShape'
    BY <1>24, <1>0, ClockTypes, EditTimeType DEF MergeWitnessLocal, ClockShape
  <2>4. RefShape'
    BY <1>24, <2>2, <1>0 DEF MergeWitnessLocal
  <2>5. ProcShape'
    BY <1>24, <2>2, <1>0 DEF MergeWitnessLocal
  <2>6. QED
    BY <2>1, <2>3, <2>4, <2>5, QuietShape
<1>25. ASSUME NEW p \in Proc, MergeTick(p)
      PROVE  Shape'
  <2>1. UNCHANGED dag
    BY <1>25 DEF MergeTick
  <2>2. Commit' = Commit
    BY <2>1 DEF Commit
  <2>3. ClockShape'
    BY <1>25, <1>0, ClockTypes, EditTimeType DEF MergeTick, ClockShape
  <2>4. RefShape'
    BY <1>25, <2>2, <1>0 DEF MergeTick
  <2>5. ProcShape'
    BY <1>25, <2>2, <1>0 DEF MergeTick
  <2>6. QED
    BY <2>1, <2>3, <2>4, <2>5, QuietShape
<1>26. ASSUME NEW p \in Proc, MergeUpdate(p)
      PROVE  Shape'
  <2>1. UNCHANGED dag
    BY <1>26 DEF MergeUpdate, MergeUpdateRef
  <2>2. Commit' = Commit
    BY <2>1 DEF Commit
  <2>3. ClockShape'
    BY <1>26, <1>0 DEF MergeUpdate, ClockShape, MergeUpdateRef
  <2>4. RefShape'
    BY <1>26, <2>2, <1>0 DEF MergeUpdate, MergeUpdateRef
  <2>5. ProcShape'
    BY <1>26, <2>2, <1>0 DEF MergeUpdate, MergeUpdateRef
  <2>6. QED
    BY <2>1, <2>3, <2>4, <2>5, QuietShape
<1>27. ASSUME NEW p \in Proc, Fetch(p)
      PROVE  Shape'
  <2>1. UNCHANGED dag
    BY <1>27 DEF Fetch
  <2>2. Commit' = Commit
    BY <2>1 DEF Commit
  <2>3. ClockShape'
    BY <1>27, <1>0 DEF Fetch, ClockShape
  <2>4. RefShape'
    BY <1>27, <2>2, <1>0 DEF Fetch
  <2>5. ProcShape'
    BY <1>27, <2>2, <1>0 DEF Fetch
  <2>6. QED
    BY <2>1, <2>3, <2>4, <2>5, QuietShape
<1>28. ASSUME NEW p \in Proc, Push(p)
      PROVE  Shape'
  <2>1. UNCHANGED dag
    BY <1>28 DEF Push
  <2>2. Commit' = Commit
    BY <2>1 DEF Commit
  <2>3. ClockShape'
    BY <1>28, <1>0 DEF Push, ClockShape
  <2>4. RefShape'
    BY <1>28, <2>2, <1>0 DEF Push
  <2>5. ProcShape'
    BY <1>28, <2>2, <1>0 DEF Push
  <2>6. QED
    BY <2>1, <2>3, <2>4, <2>5, QuietShape
<1>29. ASSUME NEW p \in Proc, RemoveBegin(p)
      PROVE  Shape'
  <2>1. UNCHANGED dag
    BY <1>29 DEF RemoveBegin
  <2>2. Commit' = Commit
    BY <2>1 DEF Commit
  <2>3. ClockShape'
    BY <1>29, <1>0 DEF RemoveBegin, ClockShape
  <2>4. RefShape'
    BY <1>29, <2>2, <1>0 DEF RemoveBegin
  <2>5. ProcShape'
    BY <1>29, <2>2, <1>0 DEF RemoveBegin
  <2>6. QED
    BY <2>1, <2>3, <2>4, <2>5, QuietShape
<1>30. ASSUME NEW p \in Proc, RemoveLocal(p)
      PROVE  Shape'
  <2>1. UNCHANGED dag
    BY <1>30 DEF RemoveLocal
  <2>2. Commit' = Commit
    BY <2>1 DEF Commit
  <2>3. ClockShape'
    BY <1>30, <1>0 DEF RemoveLocal, ClockShape
  <2>4. RefShape'
    BY <1>30, <2>2, <1>0 DEF RemoveLocal
  <2>5. ProcShape'
    <3>1. CASE ~(local \in {0, last[p]})
      <4>1. Return(p) /\ UNCHANGED <<handle, pending>>
        BY <1>30, <3>1 DEF RemoveLocal
      <4>2. QED
        BY <4>1, <1>0, <2>2, ReturnShape
    <3>2. CASE local \in {0, last[p]}
      <4>1. /\ pc[p] = "rLocal"
            /\ pc' = [pc EXCEPT ![p] = "rTracking"] /\ UNCHANGED <<last, merging>>
            /\ UNCHANGED <<handle, pending>>
        BY <1>30, <3>2 DEF RemoveLocal
      <4>2. QED
        BY <4>1, <1>0, <2>2, <3>2
    <3>3. QED
      BY <3>1, <3>2
  <2>6. QED
    BY <2>1, <2>3, <2>4, <2>5, QuietShape
<1>31. ASSUME NEW p \in Proc, RemoveResolveTracking(p)
      PROVE  Shape'
  <2>1. UNCHANGED dag
    BY <1>31 DEF RemoveResolveTracking
  <2>2. Commit' = Commit
    BY <2>1 DEF Commit
  <2>3. ClockShape'
    BY <1>31, <1>0 DEF RemoveResolveTracking, ClockShape
  <2>4. RefShape'
    BY <1>31, <2>2, <1>0 DEF RemoveResolveTracking
  <2>5. ProcShape'
    <3>1. CASE tracking = 0
      <4>1. Return(p) /\ UNCHANGED <<handle, pending>>
        BY <1>31, <3>1 DEF RemoveResolveTracking
      <4>2. QED
        BY <4>1, <1>0, <2>2, ReturnShape
    <3>2. CASE ~(tracking = 0)
      <4>1. /\ pc[p] = "rTracking"
            /\ last' = [last EXCEPT ![p] = tracking] /\ pc' = [pc EXCEPT ![p] = "rRemove"] /\ UNCHANGED merging
            /\ UNCHANGED <<handle, pending>>
        BY <1>31, <3>2 DEF RemoveResolveTracking
      <4>2. QED
        BY <4>1, <1>0, <2>2, <3>2
    <3>3. QED
      BY <3>1, <3>2
  <2>6. QED
    BY <2>1, <2>3, <2>4, <2>5, QuietShape
<1>32. ASSUME NEW p \in Proc, RemoveTracking(p)
      PROVE  Shape'
  <2>1. UNCHANGED dag
    BY <1>32 DEF RemoveTracking
  <2>2. Commit' = Commit
    BY <2>1 DEF Commit
  <2>3. ClockShape'
    BY <1>32, <1>0 DEF RemoveTracking, ClockShape
  <2>4. RefShape'
    BY <1>32, <2>2, <1>0 DEF RemoveTracking
  <2>5. ProcShape'
    BY <1>32, <2>2, <1>0 DEF RemoveTracking
  <2>6. QED
    BY <2>1, <2>3, <2>4, <2>5, QuietShape
<1>33. ASSUME NEW p \in Proc, NEW o \in Op, New(p, o)
       PROVE  Shape'
  <2>1. UNCHANGED <<dag, refs, edits, crashes, acked>>
    BY <1>33 DEF New
  <2>2. Commit' = Commit
    BY <2>1 DEF Commit
  <2>3. ClockShape' /\ RefShape'
    BY <2>1, <2>2, <1>0 DEF ClockShape
  <2>4. ProcShape'
    BY <1>33, <2>2, <1>0 DEF New
  <2>5. QED
    BY <2>1, <2>3, <2>4, QuietShape
<1>34. ASSUME NEW p \in Proc, NEW o \in Op, AppendOp(p, o)
       PROVE  Shape'
  <2>1. UNCHANGED <<dag, refs, edits, crashes, acked>>
    BY <1>34 DEF AppendOp
  <2>2. Commit' = Commit
    BY <2>1 DEF Commit
  <2>3. ClockShape' /\ RefShape'
    BY <2>1, <2>2, <1>0 DEF ClockShape
  <2>4. ProcShape'
    <3>1. Append(staging[p], o) \in Seq(Op)
      BY <1>0
    <3>2. QED
      BY <1>34, <2>2, <1>0, <3>1 DEF AppendOp
  <2>5. QED
    BY <2>1, <2>3, <2>4, QuietShape
<1>35. ASSUME NEW p \in Proc, StoreChunk(p)
       PROVE  Shape'
  <2>1. PICK n \in 1..Len(pending[p]) :
          /\ Store(Pack(dag,
                        IF last[p] = 0 THEN <<>> ELSE <<last[p]>>,
                        {pending[p][i] : i \in 1..n},
                        editMem[p],
                        last[p] = 0))
          /\ pending' = [pending EXCEPT ![p] = SubSeq(@, n + 1, Len(@))]
          /\ pc' = [pc EXCEPT ![p] = IF n = Len(pending[p]) THEN "update" ELSE "tick"]
    BY <1>35 DEF StoreChunk
  <2>2. (IF last[p] = 0 THEN <<>> ELSE <<last[p]>>) \in Parents
    BY <1>0 DEF Parents, Commit
  <2>3. {pending[p][i] : i \in 1..n} \in SUBSET Op
    BY <1>0, <2>1
  <2>4. editMem[p] \in Nat
    BY <1>0 DEF ClockShape
  <2>5. DagShape' /\ Len(dag') = Len(dag) + 1 /\ Len(dag) \in Nat
    BY <1>0, <2>1, <2>2, <2>3, <2>4, StoreShape
  <2>6. Commit \subseteq Commit' /\ Len(dag) + 1 \in Commit'
    BY <2>5 DEF Commit
  <2>7. UNCHANGED <<refs, edits, handle, merging, crashes, acked>>
        /\ last' = [last EXCEPT ![p] = Len(dag) + 1]
    BY <1>35 DEF StoreChunk
  <2>8. RefShape' /\ ClockShape'
    BY <1>0, <2>6, <2>7 DEF ClockShape
  <2>9. SubSeq(pending[p], n + 1, Len(pending[p])) \in Seq(Op)
    BY <1>0, <2>1
  <2>10. ProcShape'
    BY <1>0, <2>1, <2>6, <2>7, <2>9
  <2>11. QED
    BY <2>5, <2>8, <2>10 DEF Shape
<1>36. ASSUME NEW p \in Proc, MergeStore(p)
       PROVE  Shape'
  <2>1. /\ pc[p] = "mStore"
        /\ Store(Pack(dag, <<localCommit[p], remoteCommit[p]>>, {}, editMem[p], FALSE))
        /\ last' = [last EXCEPT ![p] = Len(dag) + 1]
        /\ pc' = [pc EXCEPT ![p] = "mUpdate"]
        /\ UNCHANGED <<refs, edits, handle, pending, merging, crashes, acked>>
    BY <1>36 DEF MergeStore
  <2>2. <<localCommit[p], remoteCommit[p]>> \in Parents
    <3>1. localCommit[p] \in Commit \ {0} /\ remoteCommit[p] \in Commit \ {0}
      BY <1>0, <2>1
    <3>2. QED
      BY <3>1 DEF Parents, Commit
  <2>3. editMem[p] \in Nat
    BY <1>0 DEF ClockShape
  <2>4. DagShape' /\ Len(dag') = Len(dag) + 1 /\ Len(dag) \in Nat
    BY <1>0, <2>1, <2>2, <2>3, StoreShape
  <2>5. Commit \subseteq Commit' /\ Len(dag) + 1 \in Commit'
    BY <2>4 DEF Commit
  <2>6. RefShape' /\ ClockShape'
    BY <1>0, <2>1, <2>5 DEF ClockShape
  <2>7. ProcShape'
    BY <1>0, <2>1, <2>5
  <2>8. QED
    BY <2>4, <2>6, <2>7 DEF Shape
<1>37. ASSUME NEW o \in Op, Peer(o)
       PROVE  Shape'
  <2>1. PICK t \in EditTime(dag, server) + 1 .. EditTime(dag, server) + 1 + MaxSkew :
          Store(Pack(dag, <<server>>, {o}, t, FALSE))
    BY <1>37 DEF Peer
  <2>2. EditTime(dag, server) \in Nat
    BY <1>0, EditTimeType
  <2>3. t \in Nat
    BY <2>1, <2>2
  <2>4. <<server>> \in Parents
    BY <1>0, <1>37 DEF Peer, Parents, Commit
  <2>5. DagShape' /\ Len(dag') = Len(dag) + 1 /\ Len(dag) \in Nat
    BY <1>0, <2>1, <2>3, <2>4, StoreShape
  <2>6. Commit \subseteq Commit' /\ Len(dag) + 1 \in Commit'
    BY <2>5 DEF Commit
  <2>7. RefShape' /\ ClockShape'
    BY <1>0, <1>37, <2>6 DEF Peer, ClockShape
  <2>8. ProcShape'
    BY <1>0, <1>37, <2>6 DEF Peer
  <2>9. QED
    BY <2>5, <2>7, <2>8 DEF Shape
<1>38. CASE UNCHANGED vars
  <2>1. UNCHANGED dag /\ Commit' = Commit
    BY <1>38 DEF vars, Commit
  <2>2. RefShape' /\ ClockShape' /\ ProcShape'
    BY <1>0, <1>38, <2>1 DEF vars, ClockShape
  <2>3. QED
    BY <2>1, <2>2, QuietShape
<1>39. QED
  BY <1>1, <1>2, <1>3, <1>4, <1>5, <1>6, <1>7, <1>8, <1>9, <1>10, <1>11, <1>12, <1>13, <1>14, <1>15, <1>16, <1>17, <1>18, <1>19, <1>20, <1>21, <1>22, <1>23, <1>24, <1>25, <1>26, <1>27, <1>28, <1>29, <1>30, <1>31, <1>32, <1>33, <1>34, <1>35, <1>36, <1>37, <1>38
     DEF Next, Life, Reading, Staging, Committing, Merging, Syncing, Removing

LEMMA InvariantShape == Spec => []Shape
  BY InitShape, StepShape, PTL DEF Spec

(* References and hashes always name stored commits, parents are stored    *)
(* before their children, and every variable keeps its type.               *)
THEOREM TypeCorrect == Spec => []TypeOK
<1>1. Shape => TypeOK
  BY DEF Shape, DagShape, RefShape, ClockShape, ProcShape, TypeOK
<1>2. QED
  BY <1>1, InvariantShape, PTL

------------------------------------------------------------------------------
(* Before the first commit: the entity is new in one process, and nobody    *)
(* else has anything of it. From then on the local reference comes into     *)
(* being by a merge only.                                                   *)

Building == {"tick", "store", "update"}
Calm == {"closed", "idle", "rTracking"}

Unborn(p) == staging[p] # <<>> /\ base[p] = 0
Young == dag = <<>> \/ \E p \in Proc : Unborn(p)

Newborn ==
  /\ \A p \in Proc : pc[p] \in Building => staging[p] # <<>>
  /\ \A p \in Proc : pc[p] = "update" => dag # <<>>
  /\ \A p \in Proc : pc[p] = "witness" => staging[p] = <<>>
  /\ \A p, q \in Proc : Unborn(p) /\ q # p => staging[q] = <<>>
  /\ Young =>
       /\ local = 0 /\ tracking = 0 /\ server = 0
       /\ \A q \in Proc : base[q] = 0 /\ pc[q] \in Calm \union Building

LEMMA InitNewborn == Init => Newborn
  BY DEF Init, Newborn, Young, Unborn, Building, Calm

(* A step that stores nothing and stages nothing, and leaves a young entity *)
(* alone.                                                                   *)
LEMMA QuietNewborn ==
  ASSUME Newborn, UNCHANGED <<dag, staging, base>>, NEW p \in Proc,
         pc \in [Proc -> Label],
         \E l \in Label : pc' = [pc EXCEPT ![p] = l],
         pc'[p] \in Building => staging[p] # <<>>,
         pc'[p] = "update" => dag # <<>>,
         pc'[p] = "witness" => staging[p] = <<>>,
         Young => UNCHANGED refs /\ pc'[p] \in Calm \union Building
  PROVE  Newborn'
  BY DEF Newborn, Young, Unborn, refs

LEMMA StoreSome ==
  ASSUME DagShape, NEW pack, Store(pack)
  PROVE  dag' # <<>>
<1>1. dag' = Append(dag, pack) /\ Len(dag) \in Nat /\ dag \in Seq(PackType)
  BY DEF Store, DagShape
<1>2. Len(dag') = Len(dag) + 1
  BY <1>1
<1>3. QED
  BY <1>1, <1>2

LEMMA NewbornStep == Shape /\ Newborn /\ [Next]_vars => Newborn'
<1> SUFFICES ASSUME Shape, Newborn, [Next]_vars
             PROVE  Newborn'
  OBVIOUS
<1>0. DagShape /\ RefShape /\ ProcShape /\ ClockShape /\ 0 \in Commit
  BY DEF Shape, DagShape, Commit
<1>1. /\ pc \in [Proc -> Label] /\ base \in [Proc -> Commit] /\ last \in [Proc -> Commit]
      /\ staging \in [Proc -> Seq(Op)]
  BY <1>0 DEF ProcShape
<1>2. ASSUME NEW p \in Proc, Life(p)
      PROVE  Newborn'
  <2>1. CASE OpenClock(p) \/ OpenWithoutClock(p) \/ LoadClock(p)
    <3>1. UNCHANGED <<dag, staging, base, refs>>
      BY <2>1 DEF OpenClock, OpenWithoutClock, LoadClock, handle
    <3>2. \/ pc' = [pc EXCEPT ![p] = "idle"]
          \/ pc' = [pc EXCEPT ![p] = "load"] /\ local # 0
      BY <2>1 DEF OpenClock, OpenWithoutClock, LoadClock, Goto, Return
    <3>3. local # 0 => ~ Young
      BY DEF Newborn
    <3>4. QED
      BY <3>1, <3>2, <3>3, <1>1, QuietNewborn DEF Building, Calm, Label
  <2>2. CASE Exit(p) \/ Crash(p) \/ CrashInClock(p)
    <3>1. /\ pc' = [pc EXCEPT ![p] = "closed"] /\ base' = [base EXCEPT ![p] = 0]
          /\ staging' = [staging EXCEPT ![p] = <<>>] /\ UNCHANGED <<dag, refs>>
      BY <2>2 DEF Exit, Crash, CrashInClock, Replace
    <3>2. QED
      BY <3>1, <1>1 DEF Newborn, Young, Unborn, refs, Calm, Building
  <2>3. QED
    BY <1>2, <2>1, <2>2 DEF Life
<1>3. ASSUME NEW p \in Proc, Reading(p)
      PROVE  Newborn'
  <2>1. CASE Read(p)
    BY <2>1, <1>1, QuietNewborn DEF Read, Goto, Label, Building, handle, Newborn
  <2>2. CASE Witness(p)
    <3>1. ~ Young
      BY <2>2 DEF Witness, Newborn, Calm, Building
    <3>2. /\ pc' = [pc EXCEPT ![p] = "idle"] /\ base' = [base EXCEPT ![p] = last[p]]
          /\ UNCHANGED <<dag, staging, refs>>
      BY <2>2 DEF Witness, Return
    <3>3. staging[p] = <<>>
      BY <2>2 DEF Witness, Newborn
    <3>4. ~ Young'
      BY <3>1, <3>2, <3>3, <1>1 DEF Young, Unborn
    <3>5. QED
      BY <3>2, <3>3, <3>4, <1>1 DEF Newborn, Unborn, Building
  <2>3. QED
    BY <1>3, <2>1, <2>2 DEF Reading
<1>4. ASSUME NEW p \in Proc, Staging(p)
      PROVE  Newborn'
  <2>1. PICK o \in Op : New(p, o) \/ AppendOp(p, o)
    BY <1>4 DEF Staging
  <2>2. CASE New(p, o)
    <3>1. /\ staging' = [staging EXCEPT ![p] = <<o>>] /\ UNCHANGED <<dag, refs, pc, base>>
          /\ dag = <<>> /\ \A q \in Proc : staging[q] = <<>>
      BY <2>2 DEF New
    <3>2. Young
      BY <3>1 DEF Young
    <3>3. staging'[p] # <<>> /\ \A q \in Proc : q # p => staging'[q] = <<>>
      BY <3>1, <1>1
    <3>4. \A q \in Proc : pc[q] \in Calm \union Building /\ pc[q] # "update"
      BY <3>1, <3>2 DEF Newborn
    <3>5. QED
      BY <3>1, <3>2, <3>3, <3>4 DEF Newborn, Young, Unborn, refs, Calm, Building
  <2>3. CASE AppendOp(p, o)
    <3>1. Append(staging[p], o) # <<>>
      BY <1>1
    <3>2. QED
      BY <2>3, <3>1, <1>1 DEF AppendOp, Newborn, Young, Unborn, refs
  <2>4. QED
    BY <2>1, <2>2, <2>3
<1>5. ASSUME NEW p \in Proc, Committing(p)
      PROVE  Newborn'
  <2>1. CASE CommitBegin(p) \/ Tick(p) \/ CommitConflict(p)
    <3>1. UNCHANGED <<dag, staging, base, refs>>
      BY <2>1 DEF CommitBegin, Tick, CommitConflict, handle
    <3>2. CASE CommitBegin(p)
      <4>1. pc' = [pc EXCEPT ![p] = "tick"] /\ staging[p] # <<>>
        BY <3>2 DEF CommitBegin, Goto
      <4>2. QED
        BY <3>1, <4>1, <1>1, QuietNewborn DEF Building, Label
    <3>3. CASE Tick(p)
      <4>1. pc' = [pc EXCEPT ![p] = "store"] /\ staging[p] # <<>>
        BY <3>3 DEF Tick, Goto, Continue, Newborn, Building
      <4>2. QED
        BY <3>1, <4>1, <1>1, QuietNewborn DEF Building, Label
    <3>4. CASE CommitConflict(p)
      <4>1. pc' = [pc EXCEPT ![p] = "idle"]
        BY <3>4 DEF CommitConflict, Return
      <4>2. QED
        BY <3>1, <4>1, <1>1, QuietNewborn DEF Building, Calm, Label
    <3>5. QED
      BY <2>1, <3>2, <3>3, <3>4
  <2>2. CASE StoreChunk(p)
    <3>1. /\ pc[p] = "store" /\ dag' # <<>> /\ UNCHANGED <<refs, handle>>
          /\ pc' = [pc EXCEPT ![p] = "update"] \/ pc' = [pc EXCEPT ![p] = "tick"]
      BY <2>2, <1>0, StoreSome DEF StoreChunk, Goto
    <3>2. QED
      BY <3>1, <1>1 DEF Newborn, Young, Unborn, refs, handle, Building
  <2>3. CASE CommitDone(p)
    <3>1. /\ pc[p] = "update" /\ base' = [base EXCEPT ![p] = last[p]]
          /\ staging' = [staging EXCEPT ![p] = <<>>] /\ pc' = [pc EXCEPT ![p] = "idle"]
          /\ UNCHANGED <<dag, tracking, server>>
      BY <2>3 DEF CommitDone, Return
    <3>2. dag # <<>> /\ staging[p] # <<>>
      BY <3>1 DEF Newborn, Building
    <3>3. ~ Young'
      BY <3>1, <3>2, <1>1 DEF Young, Unborn, Newborn
    <3>4. QED
      BY <3>1, <3>2, <3>3, <1>1 DEF Newborn, Unborn, Building
  <2>4. QED
    BY <1>5, <2>1, <2>2, <2>3 DEF Committing
<1>6. ASSUME NEW p \in Proc, Merging(p)
      PROVE  Newborn'
  <2>1. CASE MergeStore(p)
    <3>1. /\ pc[p] = "mStore" /\ dag' # <<>> /\ UNCHANGED <<refs, handle>>
          /\ pc' = [pc EXCEPT ![p] = "mUpdate"]
      BY <2>1, <1>0, StoreSome DEF MergeStore, Goto
    <3>2. ~ Young
      BY <3>1 DEF Newborn, Calm, Building
    <3>3. QED
      BY <3>1, <3>2, <1>1 DEF Newborn, Young, Unborn, refs, handle, Building
  <2>2. CASE ~ MergeStore(p)
    <3>1. ~ Young
      BY <1>6 DEF Newborn, Calm, Building, Merging, MergeBegin, MergeWitness, MergeExist,
         MergeCopy, MergeCreate, MergeLocal, MergeRemote, MergeListLocal, MergeListRemote,
         MergeForward, MergeRead, MergeWitnessLocal, MergeTick, MergeStore, MergeUpdate
    <3>2. /\ UNCHANGED <<dag, staging, base>>
          /\ \E l \in Label : pc' = [pc EXCEPT ![p] = l] /\ l \notin Building \union {"witness"}
      BY <1>6, <2>2 DEF Building, Merging, MergeBegin, MergeWitness, MergeExist,
         MergeCopy, MergeCreate, MergeLocal, MergeRemote, MergeListLocal, MergeListRemote,
         MergeForward, MergeRead, MergeWitnessLocal, MergeTick, MergeStore, MergeUpdate,
         MergeUpdateRef, Goto, Return, Continue, Label, handle
    <3>3. QED
      BY <3>1, <3>2, <1>1, QuietNewborn DEF Building
  <2>3. QED
    BY <2>1, <2>2
<1>7. ASSUME NEW p \in Proc, Syncing(p)
      PROVE  Newborn'
  <2>1. ~ Young /\ UNCHANGED <<dag, staging, base, pc>>
    BY <1>7 DEF Syncing, Fetch, Push, Newborn, handle
  <2>2. QED
    BY <2>1 DEF Newborn, Young, Unborn
<1>8. ASSUME NEW p \in Proc, Removing(p)
      PROVE  Newborn'
  <2>1. UNCHANGED <<dag, staging, base>>
    BY <1>8 DEF Removing, RemoveBegin, RemoveLocal, RemoveResolveTracking, RemoveTracking, handle
  <2>2. PICK l \in {"idle", "rLocal", "rTracking", "rRemove"} : pc' = [pc EXCEPT ![p] = l]
    BY <1>8 DEF Removing, RemoveBegin, RemoveLocal, RemoveResolveTracking, RemoveTracking,
       Goto, Return, Continue
  <2>3. Young => UNCHANGED refs /\ l \in {"idle", "rTracking"}
    <3>1. SUFFICES ASSUME Young
                   PROVE  UNCHANGED refs /\ l \in {"idle", "rTracking"}
      OBVIOUS
    <3>2. /\ local = 0 /\ tracking = 0
          /\ pc[p] \notin {"rLocal", "rRemove"}
      BY <3>1 DEF Newborn, Calm, Building
    <3>3. QED
      BY <1>8, <2>2, <3>2, <1>1 DEF Removing, RemoveBegin, RemoveLocal, RemoveResolveTracking,
         RemoveTracking, Goto, Return, refs
  <2>4. QED
    BY <2>1, <2>2, <2>3, <1>1, QuietNewborn DEF Building, Calm, Label
<1>9. ASSUME NEW o \in Op, Peer(o)
      PROVE  Newborn'
  <2>1. ~ Young /\ dag' # <<>> /\ UNCHANGED <<staging, base, pc>>
    BY <1>9, <1>0, StoreSome DEF Peer, Newborn, handle
  <2>2. QED
    BY <2>1 DEF Newborn, Young, Unborn
<1>10. CASE UNCHANGED vars
  BY <1>10 DEF vars, refs, handle, Newborn, Young, Unborn
<1>11. QED
  BY <1>2, <1>3, <1>4, <1>5, <1>6, <1>7, <1>8, <1>9, <1>10 DEF Next

------------------------------------------------------------------------------
(***************************************************************************)
(* What is staged is stored by one commit only, whatever the processes do. *)
(* And no update of the local reference discards history, no acknowledged  *)
(* operation is lost and commits are serial, for any number of processes   *)
(* that edit, push, remove, crash and restart and for any peers, as long   *)
(* as one process at most pulls; or any number that pull, as long as       *)
(* nobody removes the entity. With a removal and several merges a fast     *)
(* forward can find the tip it has read there again, and go back to an     *)
(* older remote tip.                                                       *)
(***************************************************************************)

(* d contains all that c contains.                                          *)
Below(c, d) == History(dag, c) \subseteq History(dag, d)

OnePuller == \A p, q \in Puller : p = q
Steady == Remover = {} \/ OnePuller

MergeLabel == HasLocal \union {"mWitness", "mExist", "mCopy", "mCreate", "mLocal"}

(* What of c the remote has is known to be there, unless that has been      *)
(* forgotten.                                                               *)
Tracked(c) ==
  tracking # 0 =>
    History(dag, c) \intersect History(dag, server) \subseteq History(dag, tracking)

(* A commit is built on the tip its process has read, and what is staged    *)
(* has been stored or is still pending.                                     *)
OnTop(p) ==
  pc[p] \in Building =>
    /\ Below(base[p], last[p])
    /\ Elements(staging[p]) \subseteq OpsAt(dag, last[p]) \union Elements(pending[p])
    /\ pc[p] = "update" => pending[p] = <<>>

(* A merge that will find the local reference where it has read it moves it *)
(* forward: to a commit on top of it, or to a remote tip that contains it.   *)
(* Before that is decided, the local tip is on the remote only if the remote *)
(* tip contains it or is contained in it.                                   *)
Ahead(p) ==
  /\ pc[p] = "mUpdate" => Below(localCommit[p], last[p])
  /\ local = localCommit[p] =>
       /\ pc[p] = "mListLocal" =>
            \/ localCommit[p] \notin History(dag, server)
            \/ Below(localCommit[p], remoteCommit[p])
            \/ remoteCommit[p] \in History(dag, localCommit[p])
       /\ pc[p] = "mListRemote" =>
            /\ remoteCommit[p] \notin History(dag, localCommit[p])
            /\ \/ localCommit[p] \notin History(dag, server)
               \/ Below(localCommit[p], remoteCommit[p])
       /\ pc[p] = "mForward" => Below(localCommit[p], remoteCommit[p])

(* What a process holds was read from references: the local one advances    *)
(* until it is removed, and what was on the remote stays there.             *)
Own(p) ==
  /\ pc[p] \in {"rLocal", "rTracking", "rRemove"} => p \in Remover
  /\ pc[p] \in MergeLabel => p \in Puller
  /\ pc[p] \in HasLocal => (local = 0 /\ Remover # {}) \/ Below(localCommit[p], local)
  /\ Below(remoteCommit[p], server)
  /\ Tracked(base[p]) /\ Tracked(last[p])
  /\ Tracked(localCommit[p]) /\ Tracked(remoteCommit[p])
  /\ Ahead(p)

Unseen(p, c) == Elements(staging[p]) \intersect OpsAt(dag, c) = {}

(* What p has staged is nobody else's and is stored nowhere but in the      *)
(* commits that p is building: nothing that a reference names or that a     *)
(* process has read contains it.                                            *)
Apart(p) ==
  /\ Elements(pending[p]) \subseteq Elements(staging[p])
  /\ \A q \in Proc : q # p => Elements(staging[p]) \intersect Elements(staging[q]) = {}
  /\ Unseen(p, local)
  /\ Unseen(p, server)
  /\ \A q \in Proc : (q # p \/ pc[q] \notin Building) => Unseen(p, last[q])
  /\ \A q \in Proc :
       Unseen(p, base[q]) /\ Unseen(p, localCommit[q]) /\ Unseen(p, remoteCommit[q])

------------------------------------------------------------------------------
(* The commits.                                                             *)

(* A stored commit is in its own history, which is closed and tells it from  *)
(* every other commit.                                                      *)
LEMMA HistoryFacts ==
  ASSUME DagShape
  PROVE  /\ History(dag, 0) = {} /\ 0 \in Commit
         /\ \A c \in Commit : c # 0 => c \in History(dag, c)
         /\ \A c \in Commit : \A d \in History(dag, c) :
              d \in Commit /\ d # 0 /\ History(dag, d) \subseteq History(dag, c)
         /\ \A c, d \in Commit : History(dag, c) = History(dag, d) => c = d
<1>1. Len(dag) \in Nat
  BY DEF DagShape
<1>2. History(dag, 0) = {} /\ 0 \in Commit
  BY <1>1 DEF History, Commit
<1>3. \A c \in 1..Len(dag) :
         /\ History(dag, c) = dag[c].hist
         /\ c \in dag[c].hist
         /\ dag[c].hist \subseteq 1..c
         /\ \A d \in dag[c].hist : dag[d].hist \subseteq dag[c].hist
  BY DEF History, DagShape, Reachable
<1>4. \A c \in Commit : c # 0 => c \in 1..Len(dag)
  BY <1>1 DEF Commit
<1>5. \A c \in Commit : c # 0 => c \in History(dag, c) /\ History(dag, c) \subseteq 1..c
  BY <1>3, <1>4
<1>6. \A c \in Commit : \A d \in History(dag, c) :
         d \in Commit /\ d # 0 /\ History(dag, d) \subseteq History(dag, c)
  <2> SUFFICES ASSUME NEW c \in Commit, NEW d \in History(dag, c)
               PROVE  d \in Commit /\ d # 0 /\ History(dag, d) \subseteq History(dag, c)
    OBVIOUS
  <2>1. c \in 1..Len(dag)
    BY <1>2, <1>4
  <2>2. d \in 1..Len(dag)
    BY <2>1, <1>1, <1>3
  <2>3. QED
    BY <2>1, <2>2, <1>1, <1>3 DEF Commit
<1>7. ASSUME NEW c \in Commit, NEW d \in Commit, History(dag, c) = History(dag, d)
      PROVE  c = d
  <2>1. CASE c = 0 \/ d = 0
    BY <2>1, <1>2, <1>5, <1>7
  <2>2. CASE c # 0 /\ d # 0
    <3>1. c \in 1..d /\ d \in 1..c
      BY <2>2, <1>5, <1>7
    <3>2. c \in Nat /\ d \in Nat
      BY <1>1 DEF Commit
    <3>3. QED
      BY <3>1, <3>2
  <2>3. QED
    BY <2>1, <2>2
<1>8. QED
  BY <1>2, <1>5, <1>6, <1>7

(* A commit with a larger history holds more operations.                    *)
LEMMA OpsMonotone ==
  ASSUME NEW c, NEW d, Below(c, d)
  PROVE  OpsAt(dag, c) \subseteq OpsAt(dag, d)
  BY DEF Below, OpsAt

(* A stored commit holds operations, and none that is fresh.                *)
LEMMA OpsType ==
  ASSUME DagShape, NEW c \in Commit
  PROVE  /\ OpsAt(dag, c) \subseteq Op
         /\ \A o : Fresh(o) => o \notin OpsAt(dag, c)
<1>1. \A d \in History(dag, c) : d \in 1..Len(dag)
  BY HistoryFacts DEF DagShape, Commit
<1>2. \A d \in 1..Len(dag) : dag[d].ops \subseteq Op
  BY PackTypes DEF DagShape
<1>3. DOMAIN dag = 1..Len(dag)
  BY DEF DagShape
<1>4. QED
  BY <1>1, <1>2, <1>3 DEF OpsAt, Fresh

(* Every commit stored so far is still there, and reaches what it reached.   *)
Kept ==
  \A c \in Commit : /\ c \in Commit'
                    /\ History(dag', c) = History(dag, c)
                    /\ OpsAt(dag', c) = OpsAt(dag, c)

LEMMA QuietKept ==
  ASSUME UNCHANGED dag
  PROVE  Kept
  BY DEF Kept, Commit

(* A new commit reaches itself and what its parents reach.                  *)
LEMMA StoreKept ==
  ASSUME DagShape, NEW parents \in Parents,
         NEW ops \in SUBSET Op, NEW edit \in Nat, NEW root \in BOOLEAN,
         Store(Pack(dag, parents, ops, edit, root))
  PROVE  /\ Kept
         /\ Len(dag) + 1 \in Commit' /\ Len(dag) + 1 \notin Commit
         /\ Elements(parents) \subseteq Commit
         /\ \A x : x \in History(dag', Len(dag) + 1) <=>
                    x = Len(dag) + 1 \/ \E c \in Elements(parents) : x \in History(dag, c)
         /\ \A o : o \in OpsAt(dag', Len(dag) + 1) <=>
                    o \in ops \/ \E c \in Elements(parents) : o \in OpsAt(dag, c)
<1> DEFINE n == Len(dag) + 1
<1>1. /\ Len(dag) \in Nat /\ Len(dag') = n
      /\ \A c \in 1..Len(dag) : dag'[c] = dag[c]
      /\ dag'[n] = Pack(dag, parents, ops, edit, root)
  BY StoreShape
<1>2. dag'[n].ops = ops /\ dag'[n].hist = NextHist(parents)
  BY <1>1, NewPack
<1>3. Elements(parents) \subseteq 1..Len(dag)
  BY <1>1, ParentsType
<1>4. n # 0 /\ n \in Commit' /\ n \notin Commit
  BY <1>1 DEF Commit
<1>5. \A c \in 1..Len(dag) : History(dag, c) = dag[c].hist /\ History(dag, c) \subseteq 1..Len(dag)
  BY <1>1 DEF History, DagShape, Reachable
<1>6. \A c \in 1..Len(dag) : History(dag', c) = History(dag, c)
  BY <1>1, <1>5 DEF History
<1>7. \A c \in 1..Len(dag) : OpsAt(dag', c) = OpsAt(dag, c)
  BY <1>1, <1>5, <1>6 DEF OpsAt
<1>8. History(dag', 0) = History(dag, 0) /\ OpsAt(dag', 0) = OpsAt(dag, 0)
  BY DEF History, OpsAt
<1>9. Kept
  BY <1>1, <1>6, <1>7, <1>8 DEF Kept, Commit
<1>10. History(dag', n) = NextHist(parents)
  BY <1>2, <1>4 DEF History
<1>11. \A x : x \in History(dag', n) <=>
              x = n \/ \E c \in Elements(parents) : x \in History(dag, c)
  BY <1>3, <1>5, <1>10 DEF NextHist
<1>12. \A o : o \in OpsAt(dag', n) <=>
              o \in ops \/ \E c \in Elements(parents) : o \in OpsAt(dag, c)
  BY <1>1, <1>2, <1>3, <1>5, <1>11 DEF OpsAt
<1>13. QED
  BY <1>1, <1>3, <1>4, <1>9, <1>11, <1>12 DEF Commit

------------------------------------------------------------------------------
(* What is stored, by whom, and what else a step of one process changes.    *)

(* What is left of a sequence without its first n elements.                 *)
LEMMA RestOfSeq ==
  ASSUME NEW S, NEW s \in Seq(S), NEW n \in 1..Len(s)
  PROVE  /\ SubSeq(s, n + 1, Len(s)) \in Seq(S)
         /\ Len(SubSeq(s, n + 1, Len(s))) = Len(s) - n
         /\ \A i \in 1..(Len(s) - n) : SubSeq(s, n + 1, Len(s))[i] = s[n + i]
<1> DEFINE t == SubSeq(s, n + 1, Len(s))
<1>1. Len(s) \in Nat /\ n \in Nat /\ n <= Len(s)
  OBVIOUS
<1>2. t \in Seq(S)
  BY <1>1
<1>3. Len(t) = Len(s) - n
  BY <1>1
<1>4. ASSUME NEW i \in 1..(Len(s) - n)
      PROVE  t[i] = s[n + i]
  <2>1. i \in 1..(Len(s) - (n + 1) + 1) /\ (n + 1) + i - 1 = n + i
    BY <1>1
  <2>2. QED
    BY <1>1, <2>1
<1>5. QED
  BY <1>2, <1>3, <1>4

(* What StoreChunk stores.                                                  *)
LEMMA ChunkStored ==
  ASSUME Shape, NEW p \in Proc, StoreChunk(p)
  PROVE  /\ Kept /\ last' = [last EXCEPT ![p] = Len(dag) + 1]
         /\ Len(dag) + 1 \in Commit' /\ Len(dag) + 1 \notin Commit
         /\ \A x : x \in History(dag', Len(dag) + 1) <=>
                    x = Len(dag) + 1 \/ x \in History(dag, last[p])
         /\ OpsAt(dag, last[p]) \subseteq OpsAt(dag', Len(dag) + 1)
         /\ OpsAt(dag', Len(dag) + 1) \subseteq Elements(pending[p]) \union OpsAt(dag, last[p])
         /\ Elements(pending[p]) \subseteq
              OpsAt(dag', Len(dag) + 1) \union Elements(pending'[p])
         /\ Elements(pending'[p]) \subseteq Elements(pending[p])
         /\ pc[p] = "store" /\ pc'[p] \in {"tick", "update"}
         /\ pc'[p] = "update" => pending'[p] = <<>>
<1> DEFINE parents == IF last[p] = 0 THEN <<>> ELSE <<last[p]>>
<1>0. DagShape /\ ProcShape /\ last[p] \in Commit /\ editMem[p] \in Nat /\ pending[p] \in Seq(Op)
  BY DEF Shape, ProcShape, ClockShape
<1>1. PICK n \in 1..Len(pending[p]) :
        /\ Store(Pack(dag, parents, {pending[p][i] : i \in 1..n}, editMem[p], last[p] = 0))
        /\ pending' = [pending EXCEPT ![p] = SubSeq(@, n + 1, Len(@))]
        /\ pc' = [pc EXCEPT ![p] = IF n = Len(pending[p]) THEN "update" ELSE "tick"]
  BY DEF StoreChunk, Goto
<1>2. parents \in Parents
  BY <1>0 DEF Parents, Commit
<1> DEFINE chunk == {pending[p][i] : i \in 1..n}
<1>3. chunk \in SUBSET Op /\ chunk \subseteq Elements(pending[p])
  BY <1>0, <1>1 DEF Elements
<1>4. /\ Kept /\ Len(dag) + 1 \in Commit' /\ Len(dag) + 1 \notin Commit
      /\ \A x : x \in History(dag', Len(dag) + 1) <=>
                 x = Len(dag) + 1 \/ \E c \in Elements(parents) : x \in History(dag, c)
      /\ \A o : o \in OpsAt(dag', Len(dag) + 1) <=>
                 o \in chunk \/ \E c \in Elements(parents) : o \in OpsAt(dag, c)
  BY <1>0, <1>1, <1>2, <1>3, StoreKept
<1>5. Elements(parents) = IF last[p] = 0 THEN {} ELSE {last[p]}
  BY DEF Elements
<1>6. last[p] = 0 => History(dag, last[p]) = {} /\ OpsAt(dag, last[p]) = {}
  BY DEF History, OpsAt
<1>7. pending'[p] = SubSeq(pending[p], n + 1, Len(pending[p]))
  BY <1>0, <1>1 DEF ProcShape
<1>8. /\ Elements(pending[p]) \subseteq chunk \union Elements(pending'[p])
      /\ Elements(pending'[p]) \subseteq Elements(pending[p])
      /\ n = Len(pending[p]) => pending'[p] = <<>>
  <2> DEFINE s == pending[p]
             t == SubSeq(s, n + 1, Len(s))
  <2>1. s \in Seq(Op) /\ n \in 1..Len(s) /\ Len(s) \in Nat
    BY <1>0
  <2>2. /\ t \in Seq(Op) /\ Len(t) = Len(s) - n
        /\ \A i \in 1..(Len(s) - n) : t[i] = s[n + i]
    BY <2>1, RestOfSeq
  <2>3. DOMAIN s = 1..Len(s) /\ DOMAIN t = 1..(Len(s) - n)
    BY <2>1, <2>2
  <2>4. \A j \in 1..Len(s) : j \in 1..n \/ (j - n \in 1..(Len(s) - n) /\ s[j] = t[j - n])
    <3> SUFFICES ASSUME NEW j \in 1..Len(s), j \notin 1..n
                 PROVE  j - n \in 1..(Len(s) - n) /\ s[j] = t[j - n]
      OBVIOUS
    <3>1. j - n \in 1..(Len(s) - n) /\ n + (j - n) = j
      BY <2>1
    <3> HIDE DEF t, s
    <3>2. QED
      BY <3>1, <2>2
  <2>5. Elements(s) \subseteq chunk \union Elements(t)
    <3> HIDE DEF t, s
    <3>1. QED
      BY <2>3, <2>4 DEF Elements, s
  <2>6. \A i \in 1..(Len(s) - n) : n + i \in 1..Len(s)
    BY <2>1
  <2>7. Elements(t) \subseteq Elements(s)
    <3> HIDE DEF t, s
    <3>1. QED
      BY <2>2, <2>3, <2>6 DEF Elements
  <2>8. n = Len(s) => t = <<>>
    BY <2>1, <2>2
  <2>9. QED
    BY <1>7, <2>5, <2>7, <2>8
<1>9. pc[p] = "store" /\ last' = [last EXCEPT ![p] = Len(dag) + 1]
  BY DEF StoreChunk
<1>10. pc'[p] = IF n = Len(pending[p]) THEN "update" ELSE "tick"
  BY <1>0, <1>1 DEF ProcShape
<1>11. /\ \A x : x \in History(dag', Len(dag) + 1) <=>
                 x = Len(dag) + 1 \/ x \in History(dag, last[p])
       /\ \A o : o \in OpsAt(dag', Len(dag) + 1) <=> o \in chunk \/ o \in OpsAt(dag, last[p])
  BY <1>4, <1>5, <1>6
<1> HIDE DEF chunk, parents
<1>12. QED
  BY <1>3, <1>4, <1>8, <1>9, <1>10, <1>11

(* What MergeStore stores.                                                  *)
LEMMA MergeStored ==
  ASSUME Shape, NEW p \in Proc, MergeStore(p)
  PROVE  /\ Kept
         /\ Len(dag) + 1 \in Commit' /\ Len(dag) + 1 \notin Commit
         /\ \A x : x \in History(dag', Len(dag) + 1) <=>
                    \/ x = Len(dag) + 1
                    \/ x \in History(dag, localCommit[p])
                    \/ x \in History(dag, remoteCommit[p])
         /\ OpsAt(dag', Len(dag) + 1)
              = OpsAt(dag, localCommit[p]) \union OpsAt(dag, remoteCommit[p])
<1> DEFINE parents == <<localCommit[p], remoteCommit[p]>>
<1>1. DagShape /\ ProcShape /\ editMem[p] \in Nat
  BY DEF Shape, ClockShape
<1>2. pc[p] = "mStore" /\ Store(Pack(dag, parents, {}, editMem[p], FALSE))
  BY DEF MergeStore
<1>3. parents \in Parents
  BY <1>1, <1>2 DEF Parents, ProcShape, Resolved, HasLocal, HasRemote, Commit
<1>4. Elements(parents) = {localCommit[p], remoteCommit[p]}
  BY DEF Elements
<1> DEFINE none == {}
<1>5. none \in SUBSET Op
  OBVIOUS
<1>6. Store(Pack(dag, parents, none, editMem[p], FALSE))
  BY <1>2
<1> HIDE DEF parents, none
<1>7. /\ Kept /\ Len(dag) + 1 \in Commit' /\ Len(dag) + 1 \notin Commit
      /\ \A x : x \in History(dag', Len(dag) + 1) <=>
                 x = Len(dag) + 1 \/ \E c \in Elements(parents) : x \in History(dag, c)
      /\ \A o : o \in OpsAt(dag', Len(dag) + 1) <=>
                 o \in none \/ \E c \in Elements(parents) : o \in OpsAt(dag, c)
  BY <1>1, <1>3, <1>5, <1>6, StoreKept
<1>8. QED
  BY <1>4, <1>7 DEF none

(* What Peer stores.                                                        *)
LEMMA PeerStored ==
  ASSUME Shape, NEW o \in Op, Peer(o)
  PROVE  /\ Kept /\ server' = Len(dag) + 1
         /\ Len(dag) + 1 \in Commit' /\ Len(dag) + 1 \notin Commit
         /\ \A x : x \in History(dag', Len(dag) + 1) <=>
                    x = Len(dag) + 1 \/ x \in History(dag, server)
         /\ OpsAt(dag', Len(dag) + 1) = {o} \union OpsAt(dag, server)
<1>1. DagShape /\ server \in Commit /\ server # 0 /\ server' = Len(dag) + 1
  BY DEF Shape, RefShape, Peer
<1>2. PICK t \in EditTime(dag, server) + 1 .. EditTime(dag, server) + 1 + MaxSkew :
        Store(Pack(dag, <<server>>, {o}, t, FALSE))
  BY DEF Peer
<1>3. t \in Nat
  BY <1>1, <1>2, EditTimeType
<1> DEFINE parents == <<server>>
<1>4. parents \in Parents /\ Elements(parents) = {server}
  BY <1>1 DEF Parents, Elements, Commit
<1>5. Store(Pack(dag, parents, {o}, t, FALSE)) /\ {o} \in SUBSET Op /\ FALSE \in BOOLEAN
  BY <1>2
<1> HIDE DEF parents
<1>6. /\ Kept /\ Len(dag) + 1 \in Commit' /\ Len(dag) + 1 \notin Commit
      /\ \A x : x \in History(dag', Len(dag) + 1) <=>
                 x = Len(dag) + 1 \/ \E c \in Elements(parents) : x \in History(dag, c)
      /\ \A a : a \in OpsAt(dag', Len(dag) + 1) <=>
                 a \in {o} \/ \E c \in Elements(parents) : a \in OpsAt(dag, c)
  BY <1>1, <1>3, <1>4, <1>5, StoreKept
<1>7. \A x : (\E c \in Elements(parents) : x \in History(dag, c)) <=> x \in History(dag, server)
  BY <1>4
<1>8. \A a : (\E c \in Elements(parents) : a \in OpsAt(dag, c)) <=> a \in OpsAt(dag, server)
  BY <1>4
<1>9. OpsAt(dag', Len(dag) + 1) = {o} \union OpsAt(dag, server)
  BY <1>6, <1>8
<1>10. QED
  BY <1>1, <1>6, <1>7, <1>9

(* What p holds stays as it is.                                             *)
Untouched(p) ==
  /\ pc'[p] = pc[p]
  /\ base'[p] = base[p] /\ staging'[p] = staging[p] /\ pending'[p] = pending[p]
  /\ last'[p] = last[p]
  /\ localCommit'[p] = localCommit[p] /\ remoteCommit'[p] = remoteCommit[p]

Acts(p) ==
  \/ Life(p) \/ Reading(p) \/ Staging(p) \/ Committing(p)
  \/ Merging(p) \/ Syncing(p) \/ Removing(p)

(* A process changes nothing of what others hold, ...                       *)
LEMMA ActsAlone ==
  ASSUME Shape, NEW p \in Proc, Acts(p)
  PROVE  \A q \in Proc \ {p} : Untouched(q)
<1> SUFFICES ASSUME NEW q \in Proc \ {p}
             PROVE  Untouched(q)
  OBVIOUS
<1>0. ProcShape
  BY DEF Shape
<1> USE DEF Untouched, handle, merging, ProcShape
<1>1. CASE Life(p)
  BY <1>0, <1>1 DEF Life, OpenClock, OpenWithoutClock, LoadClock,
     Exit, Crash, CrashInClock, Replace, Goto, Return
<1>2. CASE Reading(p) \/ Staging(p)
  BY <1>0, <1>2 DEF Reading, Read, Witness, Staging, New, AppendOp, Goto, Return
<1>3. CASE Committing(p)
  BY <1>0, <1>3 DEF Committing, CommitBegin, Tick, StoreChunk, CommitConflict, CommitDone,
     Goto, Return, Continue
<1>4. CASE Merging(p)
  BY <1>0, <1>4 DEF Merging, MergeBegin, MergeWitness, MergeExist,
     MergeCopy, MergeCreate, MergeLocal, MergeRemote, MergeListLocal, MergeListRemote,
     MergeForward, MergeRead, MergeWitnessLocal, MergeTick, MergeStore, MergeUpdate,
     MergeUpdateRef, Goto, Return, Continue
<1>5. CASE Syncing(p)
  BY <1>5 DEF Syncing, Fetch, Push
<1>6. CASE Removing(p)
  BY <1>0, <1>6 DEF Removing, RemoveBegin, RemoveLocal, RemoveResolveTracking, RemoveTracking,
     Goto, Return, Continue
<1>7. QED
  BY <1>1, <1>2, <1>3, <1>4, <1>5, <1>6 DEF Acts

(* ... and no commit that is stored.                                        *)
LEMMA ActsKept ==
  ASSUME Shape, NEW p \in Proc, Acts(p)
  PROVE  Kept
<1>1. CASE StoreChunk(p) \/ MergeStore(p)
  BY <1>1, ChunkStored, MergeStored
<1>2. CASE ~ StoreChunk(p) /\ ~ MergeStore(p)
  <2>1. CASE Life(p) \/ Reading(p) \/ Staging(p) \/ Committing(p)
    BY <1>2, <2>1 DEF Life, OpenClock, OpenWithoutClock, LoadClock,
       Exit, Crash, CrashInClock, Replace, Reading, Read, Witness, Staging, New, AppendOp,
       Committing, CommitBegin, Tick, CommitConflict, CommitDone, Kept, Commit
  <2>2. CASE Merging(p) \/ Syncing(p) \/ Removing(p)
    BY <1>2, <2>2 DEF Merging, MergeBegin, MergeWitness, MergeExist,
       MergeCopy, MergeCreate, MergeLocal, MergeRemote, MergeListLocal, MergeListRemote,
       MergeForward, MergeRead, MergeWitnessLocal, MergeTick, MergeUpdate,
       MergeUpdateRef, Syncing, Fetch, Push, Removing, RemoveBegin, RemoveLocal,
       RemoveResolveTracking, RemoveTracking, Kept, Commit
  <2>3. QED
    BY <2>1, <2>2 DEF Acts
<1>3. QED
  BY <1>1, <1>2

------------------------------------------------------------------------------
(* The remote has what its tracking reference names, and a Commit builds on  *)
(* what its process has read.                                               *)

Held == Below(tracking, server) /\ \A p \in Proc : OnTop(p)

LEMMA OthersOnTop ==
  ASSUME Shape, Kept, NEW p \in Proc, OnTop(p), Untouched(p)
  PROVE  OnTop(p)'
<1>1. base[p] \in Commit /\ last[p] \in Commit
  BY DEF Shape, ProcShape
<1>2. QED
  BY <1>1 DEF OnTop, Untouched, Kept, Below

LEMMA ActsOnTop ==
  ASSUME Shape, Held, NEW p \in Proc, Acts(p)
  PROVE  OnTop(p)'
<1>0. ProcShape /\ OnTop(p)
  BY DEF Shape, Held
<1>1. CASE pc'[p] \notin Building
  BY <1>1 DEF OnTop
<1>2. CASE CommitBegin(p)
  BY <1>0, <1>2 DEF CommitBegin, Goto, ProcShape, OnTop, Building, Below, handle
<1>3. CASE Tick(p)
  BY <1>0, <1>3 DEF Tick, Goto, Continue, ProcShape, OnTop, Building, Below, handle
<1>4. CASE StoreChunk(p)
  <2> DEFINE n == Len(dag) + 1
  <2>1. /\ Kept /\ last' = [last EXCEPT ![p] = n]
        /\ \A x : x \in History(dag', n) <=> x = n \/ x \in History(dag, last[p])
        /\ OpsAt(dag, last[p]) \subseteq OpsAt(dag', n)
        /\ Elements(pending[p]) \subseteq OpsAt(dag', n) \union Elements(pending'[p])
        /\ pc[p] = "store" /\ pc'[p] \in {"tick", "update"}
        /\ pc'[p] = "update" => pending'[p] = <<>>
    BY <1>4, ChunkStored
  <2>2. base' = base /\ staging' = staging /\ base[p] \in Commit /\ last'[p] = n
    BY <1>0, <1>4, <2>1 DEF StoreChunk, handle, ProcShape
  <2> HIDE DEF n
  <2>3. QED
    BY <1>0, <2>1, <2>2 DEF Kept, OnTop, Building, Below
<1>5. CASE ~ CommitBegin(p) /\ ~ Tick(p) /\ ~ StoreChunk(p)
  <2>1. CASE Life(p) \/ Reading(p) \/ Staging(p) \/ Committing(p)
    <3>1. pc'[p] \notin Building
      BY <1>0, <1>5, <2>1 DEF Life, OpenClock, OpenWithoutClock, LoadClock,
         Exit, Crash, CrashInClock, Replace, Reading, Read, Witness, Staging, New, AppendOp,
         Committing, CommitConflict, CommitDone, Goto, Return, Building, ProcShape
    <3>2. QED
      BY <3>1, <1>1
  <2>2. CASE Merging(p)
    <3>1. pc'[p] \notin Building
      BY <1>0, <2>2 DEF Merging, MergeBegin, MergeWitness, MergeExist,
         MergeCopy, MergeCreate, MergeLocal, MergeRemote, MergeListLocal, MergeListRemote,
         MergeForward, MergeRead, MergeWitnessLocal, MergeTick, MergeStore, MergeUpdate,
         MergeUpdateRef, Goto, Return, Continue, Building, ProcShape
    <3>2. QED
      BY <3>1, <1>1
  <2>3. CASE Syncing(p) \/ Removing(p)
    <3>1. pc'[p] \notin Building
      BY <1>0, <2>3 DEF Syncing, Fetch, Push, Removing, RemoveBegin, RemoveLocal,
         RemoveResolveTracking, RemoveTracking, Goto, Return, Continue, Building, ProcShape
    <3>2. QED
      BY <3>1, <1>1
  <2>4. QED
    BY <2>1, <2>2, <2>3 DEF Acts
<1>6. QED
  BY <1>2, <1>3, <1>4, <1>5

LEMMA ActsBelow ==
  ASSUME Shape, Held, NEW p \in Proc, Acts(p)
  PROVE  Below(tracking, server)'
<1>0. Kept /\ tracking \in Commit /\ server \in Commit /\ Below(tracking, server)
  BY ActsKept DEF Shape, RefShape, Held
<1>1. CASE UNCHANGED <<tracking, server>>
  BY <1>0, <1>1 DEF Kept, Below
<1>2. CASE Fetch(p) \/ Push(p)
  BY <1>2 DEF Fetch, Push, Below
<1>3. CASE RemoveTracking(p)
  <2>1. tracking' \in {0, tracking} /\ dag' = dag /\ server' = server /\ History(dag, 0) = {}
    BY <1>3 DEF RemoveTracking, History
  <2>2. QED
    BY <2>1, <1>0 DEF Below
<1>4. CASE Life(p) \/ Reading(p) \/ Staging(p) \/ Committing(p)
  <2>1. UNCHANGED <<tracking, server>>
    BY <1>4 DEF Life, OpenClock, OpenWithoutClock, LoadClock,
       Exit, Crash, CrashInClock, Replace, Reading, Read, Witness, Staging, New, AppendOp,
       Committing, CommitBegin, Tick, StoreChunk, CommitConflict, CommitDone, refs
  <2>2. QED
    BY <2>1, <1>1
<1>5. CASE Merging(p)
  <2>1. UNCHANGED <<tracking, server>>
    BY <1>5 DEF Merging, MergeBegin, MergeWitness, MergeExist,
       MergeCopy, MergeCreate, MergeLocal, MergeRemote, MergeListLocal, MergeListRemote,
       MergeForward, MergeRead, MergeWitnessLocal, MergeTick, MergeStore, MergeUpdate,
       MergeUpdateRef, refs
  <2>2. QED
    BY <2>1, <1>1
<1>6. CASE RemoveBegin(p) \/ RemoveLocal(p) \/ RemoveResolveTracking(p)
  <2>1. UNCHANGED <<tracking, server>>
    BY <1>6 DEF RemoveBegin, RemoveLocal, RemoveResolveTracking, refs
  <2>2. QED
    BY <2>1, <1>1
<1>7. QED
  BY <1>2, <1>3, <1>4, <1>5, <1>6 DEF Acts, Syncing, Removing

LEMMA StepHeld == Shape /\ Held /\ [Next]_vars => Held'
<1> SUFFICES ASSUME Shape, Held, [Next]_vars
             PROVE  Held'
  OBVIOUS
<1>1. ASSUME NEW p \in Proc, Acts(p)
      PROVE  Held'
  <2>1. \A q \in Proc \ {p} : OnTop(q)'
    BY <1>1, ActsAlone, ActsKept, OthersOnTop DEF Held
  <2>2. OnTop(p)' /\ Below(tracking, server)'
    BY <1>1, ActsOnTop, ActsBelow
  <2>3. QED
    BY <2>1, <2>2 DEF Held
<1>2. ASSUME NEW o \in Op, Peer(o)
      PROVE  Held'
  <2>1. /\ Kept /\ server' = Len(dag) + 1 /\ tracking \in Commit
        /\ \A x : x \in History(dag, server) => x \in History(dag', server')
    BY <1>2, PeerStored DEF Shape, RefShape
  <2>2. UNCHANGED <<tracking, pc, handle, pending, last, merging>>
    BY <1>2 DEF Peer
  <2>3. \A q \in Proc : OnTop(q)'
    BY <2>1, <2>2, OthersOnTop DEF Untouched, handle, merging, Held
  <2>4. Below(tracking, server)'
    BY <2>1, <2>2 DEF Held, Below, Kept
  <2>5. QED
    BY <2>3, <2>4 DEF Held
<1>3. CASE UNCHANGED vars
  BY <1>3 DEF vars, refs, handle, Held, OnTop, Below
<1>4. QED
  BY <1>1, <1>2, <1>3 DEF Next, Acts

LEMMA InitHeld == Init => Held
  BY DEF Init, Held, OnTop, Building, Below

------------------------------------------------------------------------------
(* What a process has staged stays apart from everything that is stored.    *)

AllApart == \A p \in Proc : Apart(p)

(* Staged operations are in nothing that the references contain.            *)
LEMMA UnseenBelow ==
  ASSUME NEW q \in Proc, NEW c, NEW d, Below(c, d), Unseen(q, d)
  PROVE  Unseen(q, c)
  BY OpsMonotone DEF Unseen

LEMMA UnseenKnown ==
  ASSUME Held, AllApart, NEW q \in Proc
  PROVE  Unseen(q, 0) /\ Unseen(q, local) /\ Unseen(q, tracking) /\ Unseen(q, server)
<1>1. Unseen(q, local) /\ Unseen(q, server)
  BY DEF AllApart, Apart
<1>2. Unseen(q, tracking)
  BY <1>1, UnseenBelow DEF Held
<1>3. Unseen(q, 0)
  BY DEF Unseen, OpsAt, History
<1>4. QED
  BY <1>1, <1>2, <1>3

(* A step of p that stages nothing, moves no reference and stores nothing:  *)
(* it takes what it holds from a reference, or goes on with what it has.    *)
Quiet(p) ==
  /\ UNCHANGED <<dag, server>> /\ local' \in {0, local}
  /\ Elements(staging'[p]) \subseteq Elements(staging[p])
  /\ Elements(pending'[p]) \subseteq Elements(staging'[p])
  /\ \/ last'[p] \in {0, local, tracking, base[p]}
     \/ last'[p] = last[p] /\ (pc[p] \in Building => pc'[p] \in Building)
  /\ \/ base'[p] \in {0, base[p]}
     \/ base'[p] = last[p] /\ pc[p] \notin Building
  /\ localCommit'[p] \in {0, localCommit[p], local}
  /\ remoteCommit'[p] \in {0, remoteCommit[p], tracking}

LEMMA QuietApart ==
  ASSUME Held, AllApart, NEW p \in Proc, Quiet(p), \A q \in Proc \ {p} : Untouched(q)
  PROVE  AllApart'
<1> USE DEF Quiet
<1> SUFFICES ASSUME NEW q \in Proc
             PROVE  Apart(q)'
  BY DEF AllApart
<1>1. Apart(q) /\ Unseen(q, 0) /\ Unseen(q, local) /\ Unseen(q, tracking) /\ Unseen(q, server)
  BY UnseenKnown DEF AllApart
<1>2. \A r \in Proc : Elements(staging'[r]) \subseteq Elements(staging[r])
  BY DEF Untouched
<1>3. /\ Elements(pending'[q]) \subseteq Elements(staging'[q])
      /\ \A r \in Proc : r # q => Elements(staging'[q]) \intersect Elements(staging'[r]) = {}
  BY <1>1, <1>2 DEF Apart, Untouched
<1>4. \A c : Unseen(q, c) => Elements(staging'[q]) \intersect OpsAt(dag', c) = {}
  BY <1>2 DEF Unseen
<1>5. Unseen(q, local)' /\ Unseen(q, server)'
  BY <1>1, <1>4 DEF Unseen
<1>6. ASSUME NEW r \in Proc, r # q \/ pc'[r] \notin Building
      PROVE  Unseen(q, last'[r])
  <2>1. CASE r # p
    BY <2>1, <1>1, <1>6 DEF Apart, Untouched
  <2>2. CASE r = p /\ last'[p] = base[p]
    BY <2>2, <1>1 DEF Apart
  <2>3. CASE r = p /\ last'[p] \in {0, local, tracking}
    BY <2>3, <1>1
  <2>4. CASE r = p /\ last'[p] = last[p] /\ (pc[p] \in Building => pc'[p] \in Building)
    BY <2>4, <1>1, <1>6 DEF Apart
  <2>5. QED
    BY <2>1, <2>2, <2>3, <2>4
<1>7. ASSUME NEW r \in Proc
      PROVE  Unseen(q, base'[r]) /\ Unseen(q, localCommit'[r]) /\ Unseen(q, remoteCommit'[r])
  <2>1. CASE r # p
    BY <2>1, <1>1 DEF Apart, Untouched
  <2>2. CASE r = p
    <3>1. Unseen(q, base[p]) /\ Unseen(q, localCommit[p]) /\ Unseen(q, remoteCommit[p])
      BY <1>1 DEF Apart
    <3>2. pc[p] \notin Building => Unseen(q, last[p])
      BY <1>1 DEF Apart
    <3>3. QED
      BY <2>2, <3>1, <3>2, <1>1
  <2>3. QED
    BY <2>1, <2>2
<1>8. ASSUME NEW r \in Proc
      PROVE  /\ r # q \/ pc'[r] \notin Building => Unseen(q, last[r])'
             /\ (Unseen(q, base[r]) /\ Unseen(q, localCommit[r]) /\ Unseen(q, remoteCommit[r]))'
  BY <1>4, <1>6, <1>7 DEF Unseen
<1>9. QED
  BY <1>3, <1>5, <1>8 DEF Apart

LEMMA ReturnQuiet ==
  ASSUME Shape, AllApart, NEW p \in Proc, Return(p),
         UNCHANGED <<dag, server, staging, pending>>, local' \in {0, local},
         base'[p] = base[p] \/ (base'[p] = last[p] /\ pc[p] \notin Building)
  PROVE  Quiet(p)
  BY DEF Shape, ProcShape, Return, AllApart, Apart, Quiet

LEMMA LifeQuiet ==
  ASSUME Shape, AllApart, NEW p \in Proc, Life(p)
  PROVE  Quiet(p)
<1>0. ProcShape /\ Elements(pending[p]) \subseteq Elements(staging[p])
  BY DEF Shape, AllApart, Apart
<1>1. CASE OpenClock(p) \/ OpenWithoutClock(p)
  BY <1>0, <1>1 DEF ProcShape, OpenClock, OpenWithoutClock, Goto,
              Building, Quiet, refs, handle, merging
<1>2. CASE LoadClock(p)
  BY <1>2, ReturnQuiet DEF LoadClock, refs, handle
<1>3. CASE Exit(p) \/ Crash(p) \/ CrashInClock(p)
  <2>1. Elements(<<>>) = {}
    BY DEF Elements
  <2>2. Replace(p)
    BY <1>3 DEF Exit, Crash, CrashInClock
  <2>3. QED
    BY <1>0, <2>1, <2>2 DEF ProcShape, Replace, refs, Quiet
<1>4. QED
  BY <1>1, <1>2, <1>3 DEF Life

LEMMA ReadingQuiet ==
  ASSUME Shape, AllApart, NEW p \in Proc, Reading(p)
  PROVE  Quiet(p)
<1>0. ProcShape /\ Elements(pending[p]) \subseteq Elements(staging[p])
  BY DEF Shape, AllApart, Apart
<1>1. CASE Read(p)
  BY <1>0, <1>1 DEF ProcShape, Read, Goto, Quiet, refs, handle, merging
<1>2. CASE Witness(p)
  <2>1. base'[p] = last[p] /\ pc[p] \notin Building
    BY <1>0, <1>2 DEF ProcShape, Witness, Building
  <2>2. QED
    BY <1>2, <2>1, ReturnQuiet DEF Witness, refs
<1>3. QED
  BY <1>1, <1>2 DEF Reading

LEMMA CommittingQuiet ==
  ASSUME Shape, AllApart, NEW p \in Proc,
         CommitBegin(p) \/ Tick(p) \/ CommitConflict(p)
  PROVE  Quiet(p)
<1>0. ProcShape /\ Elements(pending[p]) \subseteq Elements(staging[p])
  BY DEF Shape, AllApart, Apart
<1>1. CASE CommitBegin(p)
  BY <1>0, <1>1 DEF ProcShape, CommitBegin, Goto, Quiet, refs, handle, merging
<1>2. CASE Tick(p)
  BY <1>0, <1>2 DEF ProcShape, Tick, Continue, Goto, Building, Quiet, refs, handle, merging
<1>3. CASE CommitConflict(p)
  BY <1>3, ReturnQuiet DEF CommitConflict, refs, handle
<1>4. QED
  BY <1>1, <1>2, <1>3

LEMMA MergingQuiet ==
  ASSUME Shape, AllApart, NEW p \in Proc,
         \/ MergeBegin(p) \/ MergeWitness(p) \/ MergeExist(p) \/ MergeCopy(p)
         \/ MergeLocal(p) \/ MergeRemote(p) \/ MergeListLocal(p) \/ MergeListRemote(p)
         \/ MergeRead(p) \/ MergeWitnessLocal(p) \/ MergeTick(p)
  PROVE  Quiet(p)
<1>0. ProcShape /\ Elements(pending[p]) \subseteq Elements(staging[p])
  BY DEF Shape, AllApart, Apart
<1>1. UNCHANGED <<dag, local, server, base, staging, pending>>
  BY DEF MergeBegin, MergeWitness, MergeExist, MergeCopy, MergeLocal, MergeRemote,
         MergeListLocal, MergeListRemote, MergeRead, MergeWitnessLocal, MergeTick, refs, handle
<1>2. \/ Return(p)
      \/ /\ last' \in {last, [last EXCEPT ![p] = local], [last EXCEPT ![p] = tracking]}
         /\ localCommit' \in {localCommit, [localCommit EXCEPT ![p] = local]}
         /\ remoteCommit' \in {remoteCommit, [remoteCommit EXCEPT ![p] = tracking]}
         /\ pc[p] \notin Building
  BY DEF MergeBegin, MergeWitness, MergeExist, MergeCopy, MergeLocal, MergeRemote,
         MergeListLocal, MergeListRemote, MergeRead, MergeWitnessLocal, MergeTick,
         Building, Goto, Continue, merging
<1>3. CASE Return(p)
  BY <1>1, <1>3, ReturnQuiet
<1>4. CASE ~Return(p)
  BY <1>0, <1>1, <1>2, <1>4 DEF ProcShape, Quiet
<1>5. QED
  BY <1>3, <1>4

LEMMA RemovingQuiet ==
  ASSUME Shape, AllApart, NEW p \in Proc, Removing(p)
  PROVE  Quiet(p)
<1>0. ProcShape /\ Elements(pending[p]) \subseteq Elements(staging[p])
  BY DEF Shape, AllApart, Apart
<1>1. /\ UNCHANGED <<dag, server, base, staging, pending>> /\ local' \in {0, local}
  BY DEF Removing, RemoveBegin, RemoveLocal, RemoveResolveTracking, RemoveTracking, refs, handle
<1>2. \/ Return(p)
      \/ /\ last' \in {last, [last EXCEPT ![p] = local], [last EXCEPT ![p] = tracking]}
         /\ UNCHANGED merging /\ pc[p] \notin Building
  BY DEF Removing, RemoveBegin, RemoveLocal, RemoveResolveTracking, RemoveTracking,
         Building, Continue
<1>3. CASE Return(p)
  BY <1>1, <1>3, ReturnQuiet
<1>4. CASE ~Return(p)
  BY <1>0, <1>1, <1>2, <1>4 DEF ProcShape, Quiet, merging
<1>5. QED
  BY <1>3, <1>4

(* A fresh operation is staged.                                             *)
LEMMA StagingApart ==
  ASSUME Shape, AllApart, NEW p \in Proc, Staging(p)
  PROVE  AllApart'
<1>0. DagShape /\ RefShape /\ ProcShape
  BY DEF Shape
<1>1. PICK o \in Op : New(p, o) \/ AppendOp(p, o)
  BY DEF Staging
<1>2. UNCHANGED <<dag, local, server, pc, last, pending, base, localCommit, remoteCommit>>
  BY <1>1 DEF New, AppendOp, refs, merging
<1>3. Fresh(o)
  BY <1>1 DEF New, AppendOp, Fresh, Elements
<1>4. /\ Elements(staging'[p]) = Elements(staging[p]) \union {o}
      /\ \A q \in Proc \ {p} : staging'[q] = staging[q]
  <2>1. CASE New(p, o)
    BY <2>1, <1>0 DEF New, ProcShape, Elements
  <2>2. CASE AppendOp(p, o)
    <3>1. staging[p] \in Seq(Op) /\ staging'[p] = Append(staging[p], o)
      BY <2>2, <1>0 DEF AppendOp, ProcShape
    <3>2. /\ DOMAIN staging[p] = 1..Len(staging[p]) /\ Len(staging[p]) \in Nat
          /\ DOMAIN staging'[p] = 1..(Len(staging[p]) + 1)
          /\ \A i \in 1..Len(staging[p]) : staging'[p][i] = staging[p][i]
          /\ staging'[p][Len(staging[p]) + 1] = o
      BY <3>1
    <3>3. /\ Elements(staging[p]) = {staging[p][i] : i \in 1..Len(staging[p])}
          /\ Elements(staging'[p]) = {staging'[p][i] : i \in 1..(Len(staging[p]) + 1)}
      BY <3>2 DEF Elements
    <3>4. ASSUME NEW x \in Elements(staging'[p])
          PROVE  x \in Elements(staging[p]) \union {o}
      <4>1. PICK i \in 1..(Len(staging[p]) + 1) : x = staging'[p][i]
        BY <3>3
      <4>2. i \in 1..Len(staging[p]) \/ i = Len(staging[p]) + 1
        BY <3>2
      <4>3. QED
        BY <3>2, <3>3, <4>1, <4>2
    <3>5. Elements(staging[p]) \union {o} \subseteq Elements(staging'[p])
      <4>1. o \in Elements(staging'[p])
        <5>1. Len(staging[p]) + 1 \in 1..(Len(staging[p]) + 1)
          BY <3>2
        <5>2. QED
          BY <5>1, <3>2, <3>3
      <4>2. ASSUME NEW i \in 1..Len(staging[p])
            PROVE  staging[p][i] \in Elements(staging'[p])
        <5>1. i \in 1..(Len(staging[p]) + 1) /\ staging'[p][i] = staging[p][i]
          BY <3>2
        <5>2. QED
          BY <5>1, <3>3
      <4>3. QED
        BY <4>1, <4>2, <3>3
    <3>6. QED
      BY <3>4, <3>5, <2>2, <1>0 DEF AppendOp, ProcShape
  <2>3. QED
    BY <1>1, <2>1, <2>2
<1>5. \A q \in Proc : o \notin Elements(staging[q])
  BY <1>3 DEF Fresh
<1>6. \A c \in Commit : o \notin OpsAt(dag, c)
  BY <1>0, <1>3, OpsType
<1>7. /\ local \in Commit /\ server \in Commit
      /\ \A q \in Proc : /\ last[q] \in Commit /\ base[q] \in Commit
                         /\ localCommit[q] \in Commit /\ remoteCommit[q] \in Commit
  BY <1>0 DEF RefShape, ProcShape
<1> SUFFICES ASSUME NEW q \in Proc
             PROVE  Apart(q)'
  BY DEF AllApart
<1>8. Apart(q)
  BY DEF AllApart
<1>9. /\ Elements(pending'[q]) \subseteq Elements(staging'[q])
      /\ \A r \in Proc : r # q => Elements(staging'[q]) \intersect Elements(staging'[r]) = {}
  <2>1. \A r \in Proc : Elements(staging'[r]) =
           IF r = p THEN Elements(staging[r]) \union {o} ELSE Elements(staging[r])
    BY <1>4
  <2>2. QED
    BY <2>1, <1>2, <1>5, <1>8 DEF Apart
<1>10. \A c \in Commit : Unseen(q, c) => Elements(staging'[q]) \intersect OpsAt(dag, c) = {}
  BY <1>4, <1>6 DEF Unseen
<1>11. QED
  BY <1>2, <1>7, <1>8, <1>9, <1>10 DEF Apart, Unseen

LEMMA CommitDoneApart ==
  ASSUME Shape, Held, AllApart, NEW p \in Proc, CommitDone(p)
  PROVE  AllApart'
<1>1. ProcShape
  BY DEF Shape
<1>2. /\ pc[p] = "update" /\ local' = last[p] /\ last'[p] = 0 /\ base'[p] = last[p]
      /\ localCommit'[p] = 0 /\ remoteCommit'[p] = 0
      /\ staging'[p] = <<>> /\ Elements(<<>>) = {} /\ pending' = pending
      /\ UNCHANGED <<dag, server>>
  BY <1>1 DEF CommitDone, Return, ProcShape, Elements
<1>3. \A q \in Proc \ {p} : Untouched(q)
  BY ActsAlone DEF Acts, Committing
<1> SUFFICES ASSUME NEW q \in Proc
             PROVE  Apart(q)'
  BY DEF AllApart
<1>4. Apart(q) /\ Apart(p) /\ OpsAt(dag', 0) = {}
  BY DEF AllApart, OpsAt, History
<1>5. CASE q = p
  <2>1. pending[p] = <<>>
    <3>1. OnTop(p)
      BY DEF Held
    <3>2. QED
      BY <1>2, <3>1 DEF OnTop, Building
  <2>2. Elements(staging'[q]) = {} /\ Elements(pending'[q]) = {}
    BY <1>2, <1>5, <2>1
  <2>3. QED
    BY <2>2 DEF Apart, Unseen
<1>6. CASE q # p
  <2>1. /\ Unseen(q, last[p]) /\ staging'[q] = staging[q] /\ pending'[q] = pending[q]
        /\ \A c : Unseen(q, c) => Unseen(q, c)'
    BY <1>2, <1>3, <1>4, <1>6 DEF Apart, Untouched, Unseen
  <2>2. /\ Elements(pending'[q]) \subseteq Elements(staging'[q])
        /\ \A r \in Proc : r # q => Elements(staging'[q]) \intersect Elements(staging'[r]) = {}
    BY <2>1, <1>2, <1>3, <1>4 DEF Apart, Untouched
  <2>3. ASSUME NEW r \in Proc
        PROVE  /\ r # q \/ pc'[r] \notin Building => Unseen(q, last'[r])
               /\ Unseen(q, base'[r]) /\ Unseen(q, localCommit'[r]) /\ Unseen(q, remoteCommit'[r])
    <3>1. Unseen(q, 0)
      BY DEF Unseen, OpsAt, History
    <3>2. CASE r = p
      BY <3>1, <3>2, <2>1, <1>2
    <3>3. CASE r # p
      BY <3>3, <1>3, <1>4 DEF Apart, Untouched
    <3>4. QED
      BY <3>2, <3>3
  <2>4. Unseen(q, local') /\ Unseen(q, server')
    BY <2>1, <1>2, <1>4 DEF Apart
  <2>5. QED
    BY <2>1, <2>2, <2>3, <2>4, <1>2 DEF Apart, Unseen
<1>7. QED
  BY <1>5, <1>6

LEMMA MovingApart ==
  ASSUME Shape, Held, AllApart, NEW p \in Proc,
         MergeCreate(p) \/ MergeForward(p) \/ MergeUpdate(p)
  PROVE  AllApart'
<1>1. ProcShape
  BY DEF Shape
<1>2. /\ Return(p) /\ UNCHANGED <<dag, server, staging, pending, base>>
      /\ pc[p] \notin Building
      /\ local' \in {local, remoteCommit[p], last[p]}
  BY DEF MergeCreate, MergeForward, MergeUpdate, MergeUpdateRef, Building, handle
<1>3. /\ last'[p] = 0 /\ localCommit'[p] = 0 /\ remoteCommit'[p] = 0
      /\ \A q \in Proc \ {p} : /\ pc'[q] = pc[q] /\ last'[q] = last[q]
                                /\ localCommit'[q] = localCommit[q]
                                /\ remoteCommit'[q] = remoteCommit[q]
  BY <1>1, <1>2 DEF Return, ProcShape
<1> SUFFICES ASSUME NEW q \in Proc
             PROVE  Apart(q)'
  BY DEF AllApart
<1>4. Apart(q) /\ Unseen(q, 0)
  BY UnseenKnown DEF AllApart
<1>5. Unseen(q, local')
  BY <1>2, <1>4 DEF Apart
<1>6. QED
  BY <1>2, <1>3, <1>4, <1>5 DEF Apart, Unseen

LEMMA SyncingApart ==
  ASSUME AllApart, NEW p \in Proc, Syncing(p)
  PROVE  AllApart'
<1>1. /\ UNCHANGED <<dag, local, pc, staging, pending, base, last, localCommit, remoteCommit>>
      /\ server' \in {server, local}
  BY DEF Syncing, Fetch, Push, handle, merging
<1>2. QED
  BY <1>1 DEF AllApart, Apart, Unseen

LEMMA PeerApart ==
  ASSUME Shape, AllApart, NEW o \in Op, Peer(o)
  PROVE  AllApart'
<1>1. /\ Kept /\ OpsAt(dag', server') = {o} \union OpsAt(dag, server)
  BY PeerStored
<1>2. /\ UNCHANGED <<local, pc, staging, pending, base, last, localCommit, remoteCommit>>
      /\ \A q \in Proc : o \notin Elements(staging[q])
  BY DEF Peer, Fresh, handle, merging
<1>3. /\ local \in Commit
      /\ \A q \in Proc : /\ last[q] \in Commit /\ base[q] \in Commit
                         /\ localCommit[q] \in Commit /\ remoteCommit[q] \in Commit
  BY DEF Shape, RefShape, ProcShape
<1> SUFFICES ASSUME NEW q \in Proc
             PROVE  Apart(q)'
  BY DEF AllApart
<1>4. Apart(q)
  BY DEF AllApart
<1>5. \A c \in Commit : Unseen(q, c) => Elements(staging[q]) \intersect OpsAt(dag', c) = {}
  BY <1>1 DEF Kept, Unseen
<1>6. Elements(staging[q]) \intersect OpsAt(dag', server') = {}
  BY <1>1, <1>2, <1>4 DEF Apart, Unseen
<1>7. Elements(staging[q]) \intersect OpsAt(dag', local) = {}
  BY <1>3, <1>4, <1>5 DEF Apart
<1>8. \A r \in Proc :
        /\ r # q \/ pc[r] \notin Building =>
             Elements(staging[q]) \intersect OpsAt(dag', last[r]) = {}
        /\ Elements(staging[q]) \intersect OpsAt(dag', base[r]) = {}
        /\ Elements(staging[q]) \intersect OpsAt(dag', localCommit[r]) = {}
        /\ Elements(staging[q]) \intersect OpsAt(dag', remoteCommit[r]) = {}
  BY <1>3, <1>4, <1>5 DEF Apart
<1>9. QED
  BY <1>2, <1>4, <1>6, <1>7, <1>8 DEF Apart, Unseen

LEMMA StoreChunkApart ==
  ASSUME Shape, AllApart, NEW p \in Proc, StoreChunk(p)
  PROVE  AllApart'
<1> DEFINE n == Len(dag) + 1
<1>1. /\ Kept /\ last' = [last EXCEPT ![p] = n]
      /\ OpsAt(dag', n) \subseteq Elements(pending[p]) \union OpsAt(dag, last[p])
      /\ Elements(pending'[p]) \subseteq Elements(pending[p])
      /\ pc'[p] \in Building
  BY ChunkStored DEF Building
<1>2. /\ UNCHANGED <<local, server, staging, base, localCommit, remoteCommit>>
      /\ \E m \in 1..Len(pending[p]) :
           /\ pending' = [pending EXCEPT ![p] = SubSeq(@, m + 1, Len(@))]
           /\ pc' = [pc EXCEPT ![p] = IF m = Len(pending[p]) THEN "update" ELSE "tick"]
  BY DEF StoreChunk, Goto, refs, handle, merging
<1> HIDE DEF n
<1>3. /\ ProcShape /\ local \in Commit /\ server \in Commit
      /\ \A q \in Proc : /\ last[q] \in Commit /\ base[q] \in Commit
                         /\ localCommit[q] \in Commit /\ remoteCommit[q] \in Commit
  BY DEF Shape, RefShape, ProcShape
<1>4. /\ last'[p] = n
      /\ \A q \in Proc \ {p} :
           last'[q] = last[q] /\ pending'[q] = pending[q] /\ pc'[q] = pc[q]
  BY <1>1, <1>2, <1>3 DEF ProcShape
<1>5. /\ OpsAt(dag', local) = OpsAt(dag, local) /\ OpsAt(dag', server) = OpsAt(dag, server)
      /\ \A q \in Proc : /\ OpsAt(dag', last[q]) = OpsAt(dag, last[q])
                         /\ OpsAt(dag', base[q]) = OpsAt(dag, base[q])
                         /\ OpsAt(dag', localCommit[q]) = OpsAt(dag, localCommit[q])
                         /\ OpsAt(dag', remoteCommit[q]) = OpsAt(dag, remoteCommit[q])
  BY <1>1, <1>3 DEF Kept
<1> SUFFICES ASSUME NEW q \in Proc
             PROVE  Apart(q)'
  BY DEF AllApart
<1>6. Apart(q) /\ Apart(p)
  BY DEF AllApart
<1>7. q # p => Elements(staging[q]) \intersect OpsAt(dag', n) = {}
  BY <1>1, <1>6 DEF Apart, Unseen
<1>8. \A r \in Proc : r # q \/ pc'[r] \notin Building =>
        Elements(staging[q]) \intersect OpsAt(dag', last'[r]) = {}
  <2> SUFFICES ASSUME NEW r \in Proc, r # q \/ pc'[r] \notin Building
               PROVE  Elements(staging[q]) \intersect OpsAt(dag', last'[r]) = {}
    OBVIOUS
  <2>1. CASE r = p
    BY <2>1, <1>1, <1>4, <1>7
  <2>2. CASE r # p
    BY <2>2, <1>4, <1>5, <1>6 DEF Apart, Unseen
  <2>3. QED
    BY <2>1, <2>2
<1>9. QED
  BY <1>1, <1>2, <1>4, <1>5, <1>6, <1>8 DEF Apart, Unseen

LEMMA MergeStoreApart ==
  ASSUME Shape, AllApart, NEW p \in Proc, MergeStore(p)
  PROVE  AllApart'
<1> DEFINE n == Len(dag) + 1
<1>1. /\ Kept
      /\ OpsAt(dag', n) = OpsAt(dag, localCommit[p]) \union OpsAt(dag, remoteCommit[p])
  BY MergeStored
<1>2. /\ UNCHANGED <<local, server, staging, pending, base, localCommit, remoteCommit>>
      /\ pc[p] = "mStore"
      /\ pc' = [pc EXCEPT ![p] = "mUpdate"] /\ last' = [last EXCEPT ![p] = n]
  BY DEF MergeStore, Goto, refs, handle, merging
<1> HIDE DEF n
<1>3. /\ ProcShape /\ local \in Commit /\ server \in Commit
      /\ \A q \in Proc : /\ last[q] \in Commit /\ base[q] \in Commit
                         /\ localCommit[q] \in Commit /\ remoteCommit[q] \in Commit
  BY DEF Shape, RefShape, ProcShape
<1>4. /\ last'[p] = n
      /\ \A q \in Proc \ {p} : last'[q] = last[q] /\ pc'[q] = pc[q]
  BY <1>2, <1>3 DEF ProcShape
<1>5. /\ OpsAt(dag', local) = OpsAt(dag, local) /\ OpsAt(dag', server) = OpsAt(dag, server)
      /\ \A q \in Proc : /\ OpsAt(dag', last[q]) = OpsAt(dag, last[q])
                         /\ OpsAt(dag', base[q]) = OpsAt(dag, base[q])
                         /\ OpsAt(dag', localCommit[q]) = OpsAt(dag, localCommit[q])
                         /\ OpsAt(dag', remoteCommit[q]) = OpsAt(dag, remoteCommit[q])
  BY <1>1, <1>3 DEF Kept
<1> SUFFICES ASSUME NEW q \in Proc
             PROVE  Apart(q)'
  BY DEF AllApart
<1>6. Apart(q) /\ Unseen(q, localCommit[p]) /\ Unseen(q, remoteCommit[p])
  BY DEF AllApart, Apart
<1>7. Elements(staging[q]) \intersect OpsAt(dag', n) = {}
  BY <1>1, <1>6 DEF Unseen
<1>8. QED
  BY <1>2, <1>4, <1>5, <1>6, <1>7 DEF Apart, Unseen

LEMMA InitApart == Init => AllApart
<1> SUFFICES ASSUME Init
             PROVE  AllApart
  OBVIOUS
<1>1. Elements(<<>>) = {}
  BY DEF Elements
<1>2. QED
  BY <1>1 DEF Init, AllApart, Apart, Unseen

LEMMA StepApart == Shape /\ Held /\ AllApart /\ [Next]_vars => AllApart'
<1> SUFFICES ASSUME Shape, Held, AllApart, [Next]_vars
             PROVE  AllApart'
  OBVIOUS
<1>1. ASSUME NEW p \in Proc, Quiet(p), Acts(p)
      PROVE  AllApart'
  BY <1>1, ActsAlone, QuietApart
<1>2. ASSUME NEW p \in Proc, Committing(p)
      PROVE  AllApart'
  <2>1. CASE CommitBegin(p) \/ Tick(p) \/ CommitConflict(p)
    BY <2>1, <1>1, <1>2, CommittingQuiet DEF Acts
  <2>2. QED
    BY <1>2, <2>1, StoreChunkApart, CommitDoneApart DEF Committing
<1>3. ASSUME NEW p \in Proc, Merging(p)
      PROVE  AllApart'
  <2>1. CASE \/ MergeBegin(p) \/ MergeWitness(p) \/ MergeExist(p) \/ MergeCopy(p)
             \/ MergeLocal(p) \/ MergeRemote(p) \/ MergeListLocal(p) \/ MergeListRemote(p)
             \/ MergeRead(p) \/ MergeWitnessLocal(p) \/ MergeTick(p)
    BY <2>1, <1>1, <1>3, MergingQuiet DEF Acts
  <2>2. QED
    BY <1>3, <2>1, MovingApart, MergeStoreApart DEF Merging
<1>4. ASSUME NEW p \in Proc, Life(p) \/ Reading(p) \/ Removing(p)
      PROVE  AllApart'
  BY <1>1, <1>4, LifeQuiet, ReadingQuiet, RemovingQuiet DEF Acts
<1>5. CASE UNCHANGED vars
  BY <1>5 DEF vars, refs, handle, merging, AllApart, Apart, Unseen
<1>6. QED
  BY <1>2, <1>3, <1>4, <1>5, StagingApart, SyncingApart, PeerApart DEF Next

(* What holds in every behaviour.                                           *)
Sound == Shape /\ Held /\ AllApart

LEMMA Soundness == Spec => []Sound
<1>1. Init => Sound
  BY InitShape, InitHeld, InitApart DEF Sound
<1>2. Sound /\ [Next]_vars => Sound'
  BY StepShape, StepHeld, StepApart DEF Sound
<1>3. QED
  BY <1>1, <1>2, PTL DEF Spec

(* What is staged is not stored yet: a Commit that writes several packs is  *)
(* all or nothing, and one that is tried again after a conflict stores its  *)
(* operations once. StagedInvisible, whatever the processes pull, push and  *)
(* remove.                                                                  *)
THEOREM StoredOnce == Spec => []StagedInvisible
<1>1. Sound => StagedInvisible
  BY DEF Sound, AllApart, Apart, Unseen, StagedInvisible
<1>2. QED
  BY <1>1, Soundness, PTL

------------------------------------------------------------------------------
(* What one process holds when another one takes a step.                    *)

(* What the remote has stays there, and the tracking reference follows what *)
(* it learns of this clone.                                                 *)
Advance ==
  /\ Kept
  /\ History(dag', server) \subseteq History(dag', server')
  /\ \A c \in Commit : Tracked(c) =>
       (tracking' # 0 =>
          History(dag', c) \intersect History(dag', server') \subseteq History(dag', tracking'))
  /\ \/ \A c \in Commit : c \in History(dag', server') => c \in History(dag, server)
     \/ local' = local /\ server' = local /\ Below(server, local)

(* The local reference advances or is removed. Where it is created again, p *)
(* is not in a merge that has read what it was before.                      *)
Rises(p) ==
  \/ local' = 0 /\ Remover # {}
  \/ /\ History(dag', local) \subseteq History(dag', local')
     /\ local = 0 /\ Remover # {} => local' = 0 \/ pc[p] \notin HasLocal

LEMMA OthersOwn ==
  ASSUME Shape, Advance, NEW p \in Proc, Own(p), Untouched(p), Rises(p)
  PROVE  Own(p)'
<1> USE DEF Below
<1>0. DagShape /\ RefShape /\ ProcShape
  BY DEF Shape
<1>1. /\ local \in Commit /\ tracking \in Commit /\ server \in Commit
      /\ base[p] \in Commit /\ last[p] \in Commit
      /\ localCommit[p] \in Commit /\ remoteCommit[p] \in Commit
      /\ pc[p] \in {"mListLocal", "mListRemote", "mForward"} =>
           localCommit[p] # 0 /\ remoteCommit[p] # 0
  BY <1>0 DEF RefShape, ProcShape, Resolved, HasLocal, HasRemote
<1>2. \A c \in Commit : History(dag', c) = History(dag, c) /\ OpsAt(dag', c) = OpsAt(dag, c)
  BY DEF Advance, Kept
<1>3. /\ pc'[p] \in {"rLocal", "rTracking", "rRemove"} => p \in Remover
      /\ pc'[p] \in MergeLabel => p \in Puller
  BY DEF Own, Untouched
<1>4. pc'[p] \in HasLocal =>
        (local' = 0 /\ Remover # {}) \/ History(dag', localCommit'[p]) \subseteq History(dag', local')
  BY <1>1, <1>2 DEF Own, Untouched, Rises
<1>5. History(dag', remoteCommit'[p]) \subseteq History(dag', server')
  BY <1>1, <1>2 DEF Own, Untouched, Advance
<1>6. /\ Tracked(base[p])' /\ Tracked(last[p])'
      /\ Tracked(localCommit[p])' /\ Tracked(remoteCommit[p])'
  <2>1. \A c \in Commit : Tracked(c) =>
          (tracking' # 0 =>
             History(dag', c) \intersect History(dag', server') \subseteq History(dag', tracking'))
    BY DEF Advance
  <2>2. /\ Tracked(base[p]) /\ Tracked(last[p])
        /\ Tracked(localCommit[p]) /\ Tracked(remoteCommit[p])
    BY DEF Own
  <2>3. /\ base'[p] = base[p] /\ last'[p] = last[p]
        /\ localCommit'[p] = localCommit[p] /\ remoteCommit'[p] = remoteCommit[p]
    BY DEF Untouched
  <2>4. QED
    BY <2>1, <2>2, <2>3, <1>1 DEF Tracked
<1>7. Ahead(p)'
  <2>1. pc[p] = "mUpdate" =>
          History(dag', localCommit[p]) \subseteq History(dag', last[p])
    BY <1>1, <1>2 DEF Own, Ahead
  <2>2. ASSUME local' = localCommit[p], pc[p] \in {"mListLocal", "mListRemote", "mForward"}
        PROVE  /\ pc[p] = "mListLocal" =>
                    \/ localCommit[p] \notin History(dag', server')
                    \/ Below(localCommit[p], remoteCommit[p])
                    \/ remoteCommit[p] \in History(dag, localCommit[p])
               /\ pc[p] = "mListRemote" =>
                    /\ remoteCommit[p] \notin History(dag, localCommit[p])
                    /\ \/ localCommit[p] \notin History(dag', server')
                       \/ Below(localCommit[p], remoteCommit[p])
               /\ pc[p] = "mForward" => Below(localCommit[p], remoteCommit[p])
    <3>1. local = localCommit[p]
      <4>1. local' # 0 /\ pc[p] \in HasLocal
        BY <2>2, <1>1 DEF HasLocal
      <4>2. /\ History(dag', local) \subseteq History(dag', local')
            /\ ~(local = 0 /\ Remover # {})
        BY <4>1 DEF Rises
      <4>3. History(dag, localCommit[p]) \subseteq History(dag, local)
        BY <4>1, <4>2 DEF Own
      <4>4. History(dag, local) \subseteq History(dag, localCommit[p])
        BY <2>2, <4>2, <1>1, <1>2
      <4>5. QED
        BY <4>3, <4>4, <1>0, <1>1, HistoryFacts
    <3>2. /\ pc[p] = "mListLocal" =>
               \/ localCommit[p] \notin History(dag, server)
               \/ Below(localCommit[p], remoteCommit[p])
               \/ remoteCommit[p] \in History(dag, localCommit[p])
          /\ pc[p] = "mListRemote" =>
               /\ remoteCommit[p] \notin History(dag, localCommit[p])
               /\ \/ localCommit[p] \notin History(dag, server)
                  \/ Below(localCommit[p], remoteCommit[p])
          /\ pc[p] = "mForward" => Below(localCommit[p], remoteCommit[p])
      BY <3>1 DEF Own, Ahead
    <3>3. CASE \A c \in Commit : c \in History(dag', server') => c \in History(dag, server)
      BY <3>2, <3>3, <1>1
    <3>4. CASE local' = local /\ server' = local /\ Below(server, local)
      <4>1. remoteCommit[p] \in History(dag, remoteCommit[p])
        BY <2>2, <1>0, <1>1, HistoryFacts
      <4>2. remoteCommit[p] \in History(dag, localCommit[p])
        BY <4>1, <3>1, <3>4 DEF Own
      <4>3. QED
        BY <4>2, <3>2
    <3>5. QED
      BY <3>3, <3>4 DEF Advance
  <2>3. QED
    BY <2>1, <2>2, <1>1, <1>2 DEF Ahead, Untouched
<1>8. QED
  BY <1>3, <1>4, <1>5, <1>6, <1>7 DEF Own

(* A process between two calls holds only its instance.                     *)
LEMMA IdleOwn ==
  ASSUME NEW p \in Proc, pc'[p] \in {"idle", "closed"}, Tracked(base[p])',
         last'[p] = 0, localCommit'[p] = 0, remoteCommit'[p] = 0
  PROVE  Own(p)'
<1>1. History(dag', 0) = {}
  BY DEF History
<1>2. QED
  BY <1>1 DEF Own, Ahead, HasLocal, MergeLabel, Below, Tracked

(* A step that stores nothing and moves no reference.                       *)
LEMMA QuietAdvance ==
  ASSUME UNCHANGED <<dag, refs>>
  PROVE  Advance /\ \A q \in Proc : Rises(q)
<1>1. dag' = dag /\ local' = local /\ tracking' = tracking /\ server' = server
  BY DEF refs
<1>2. Kept
  BY <1>1, QuietKept
<1>3. Advance
  BY <1>1, <1>2 DEF Advance, Tracked
<1>4. \A q \in Proc : Rises(q)
  BY <1>1 DEF Rises
<1>5. QED
  BY <1>3, <1>4

------------------------------------------------------------------------------
(* Every step keeps the histories of the references and of what processes   *)
(* hold of them in order.                                                   *)

Core ==
  /\ Tracked(local)
  /\ AckedDurable
  /\ \A p \in Proc : Own(p)

(* A step of one process that changes neither commits nor references.       *)
LEMMA QuietCore ==
  ASSUME Shape, Core, UNCHANGED <<dag, refs, acked>>, NEW p \in Proc, Own(p)',
         \A q \in Proc \ {p} : Untouched(q)
  PROVE  Core'
<1>1. \A q \in Proc : Own(q)'
  BY OthersOwn, QuietAdvance DEF Core
<1>2. QED
  BY <1>1 DEF Core, refs, Tracked, AckedDurable

LEMMA ReturnCore ==
  ASSUME Shape, Core, UNCHANGED <<dag, refs, acked, handle, pending>>, NEW p \in Proc,
         Return(p)
  PROVE  Core'
<1> USE DEF refs, handle
<1>1. ProcShape
  BY DEF Shape
<1>2. Tracked(base[p])'
  BY DEF Core, Own, Tracked
<1>3. Own(p)'
  BY <1>1, <1>2, IdleOwn DEF Return, ProcShape
<1>4. \A q \in Proc \ {p} : Untouched(q)
  BY <1>1 DEF Return, ProcShape, Untouched
<1>5. QED
  BY <1>3, <1>4, QuietCore

LEMMA ReplaceCore ==
  ASSUME Shape, Core, NEW p \in Proc, Replace(p)
  PROVE  Core'
<1>1. ProcShape
  BY DEF Shape
<1>2. Tracked(base[p])'
  BY <1>1 DEF Replace, ProcShape, Tracked, History
<1>3. Own(p)'
  BY <1>1, <1>2, IdleOwn DEF Replace, ProcShape
<1>4. \A q \in Proc \ {p} : Untouched(q)
  BY <1>1 DEF Replace, ProcShape, Untouched
<1>5. QED
  BY <1>3, <1>4, QuietCore DEF Replace

LEMMA LifeCore ==
  ASSUME Shape, Core, NEW p \in Proc, Life(p)
  PROVE  Core'
<1> USE DEF Core, Own, Ahead, HasLocal, MergeLabel, Below, Tracked, Goto
<1>0. ProcShape
  BY DEF Shape
<1>1. CASE OpenClock(p)
  <2>1. Own(p)'
    BY <1>0, <1>1 DEF OpenClock, ProcShape, refs, handle, merging
  <2>2. \A q \in Proc \ {p} : Untouched(q)
    BY <1>0, <1>1 DEF OpenClock, ProcShape, Untouched, handle, merging
  <2>3. QED
    BY <1>1, <2>1, <2>2, QuietCore DEF OpenClock
<1>2. CASE OpenWithoutClock(p)
  <2>1. Own(p)'
    BY <1>0, <1>2 DEF OpenWithoutClock, ProcShape, refs, handle, merging
  <2>2. \A q \in Proc \ {p} : Untouched(q)
    BY <1>0, <1>2 DEF OpenWithoutClock, ProcShape, Untouched, handle, merging
  <2>3. QED
    BY <1>2, <2>1, <2>2, QuietCore DEF OpenWithoutClock
<1>3. CASE LoadClock(p)
  BY <1>3, ReturnCore DEF LoadClock
<1>4. CASE Exit(p) \/ Crash(p) \/ CrashInClock(p)
  BY <1>4, ReplaceCore DEF Exit, Crash, CrashInClock
<1>5. QED
  BY <1>1, <1>2, <1>3, <1>4 DEF Life

LEMMA ReadingCore ==
  ASSUME Shape, Core, NEW p \in Proc, Reading(p)
  PROVE  Core'
<1> USE DEF Core, Own, Ahead, HasLocal, MergeLabel, Below, Tracked, Goto
<1>0. ProcShape
  BY DEF Shape
<1>1. CASE Read(p)
  <2>1. Own(p)'
    BY <1>0, <1>1 DEF Read, ProcShape, refs, handle, merging, Continue
  <2>2. \A q \in Proc \ {p} : Untouched(q)
    BY <1>0, <1>1 DEF Read, ProcShape, Untouched, handle, merging, Continue
  <2>3. QED
    BY <1>1, <2>1, <2>2, QuietCore DEF Read, refs, merging
<1>2. CASE Witness(p)
  <2>1. /\ Return(p)
        /\ base' = [base EXCEPT ![p] = last[p]]
        /\ UNCHANGED <<dag, refs>>
    BY <1>2 DEF Witness
  <2>2. Tracked(base[p])'
    BY <1>0, <2>1 DEF ProcShape, refs
  <2>3. Own(p)'
    BY <1>0, <2>1, <2>2, IdleOwn DEF Return, ProcShape
  <2>4. \A q \in Proc \ {p} : Untouched(q)
    BY <1>0, <1>2 DEF Witness, Return, ProcShape, Untouched
  <2>5. QED
    BY <1>2, <2>3, <2>4, QuietCore DEF Witness
<1>3. QED
  BY <1>1, <1>2 DEF Reading

LEMMA StagingCore ==
  ASSUME Shape, Core, NEW p \in Proc, Staging(p)
  PROVE  Core'
<1> USE DEF Core, Own, Ahead, HasLocal, MergeLabel, Below, Tracked, Goto
<1>0. ProcShape
  BY DEF Shape
<1>1. ASSUME NEW o \in Op, New(p, o)
      PROVE  Core'
  <2>1. Own(p)'
    BY <1>0, <1>1 DEF New, ProcShape, refs, handle, merging, Continue
  <2>2. \A q \in Proc \ {p} : Untouched(q)
    BY <1>0, <1>1 DEF New, ProcShape, Untouched, handle, merging, Continue
  <2>3. QED
    BY <1>1, <2>1, <2>2, QuietCore DEF New, refs, merging
<1>2. ASSUME NEW o \in Op, AppendOp(p, o)
      PROVE  Core'
  <2>1. Own(p)'
    BY <1>0, <1>2 DEF AppendOp, ProcShape, refs, handle, merging, Continue
  <2>2. \A q \in Proc \ {p} : Untouched(q)
    BY <1>0, <1>2 DEF AppendOp, ProcShape, Untouched, handle, merging, Continue
  <2>3. QED
    BY <1>2, <2>1, <2>2, QuietCore DEF AppendOp, refs, merging
<1>3. QED
  BY <1>1, <1>2 DEF Staging

(* The steps of a commit before the reference moves, or after it did not.   *)
LEMMA CommittingCore ==
  ASSUME Shape, Core, NEW p \in Proc,
         CommitBegin(p) \/ Tick(p) \/ CommitConflict(p)
  PROVE  Core'
<1> USE DEF Core, Own, Ahead, HasLocal, MergeLabel, Below, Tracked, Goto
<1>0. ProcShape
  BY DEF Shape
<1>1. CASE CommitBegin(p)
  <2>1. Own(p)'
    BY <1>0, <1>1 DEF CommitBegin, ProcShape, refs, handle, merging, Continue
  <2>2. \A q \in Proc \ {p} : Untouched(q)
    BY <1>0, <1>1 DEF CommitBegin, ProcShape, Untouched, handle, merging, Continue
  <2>3. QED
    BY <1>1, <2>1, <2>2, QuietCore DEF CommitBegin, refs, merging
<1>2. CASE Tick(p)
  <2>1. Own(p)'
    BY <1>0, <1>2 DEF Tick, ProcShape, refs, handle, merging, Continue
  <2>2. \A q \in Proc \ {p} : Untouched(q)
    BY <1>0, <1>2 DEF Tick, ProcShape, Untouched, handle, merging, Continue
  <2>3. QED
    BY <1>2, <2>1, <2>2, QuietCore DEF Tick, refs, merging
<1>3. CASE CommitConflict(p)
  BY <1>3, ReturnCore DEF CommitConflict
<1>4. QED
  BY <1>1, <1>2, <1>3

(* The steps of a merge before it moves the reference.                      *)
LEMMA MergingCore ==
  ASSUME Shape, Held, Core, NEW p \in Proc,
         \/ MergeBegin(p) \/ MergeWitness(p) \/ MergeExist(p) \/ MergeCopy(p)
         \/ MergeLocal(p) \/ MergeRemote(p) \/ MergeListLocal(p) \/ MergeListRemote(p)
         \/ MergeRead(p) \/ MergeWitnessLocal(p) \/ MergeTick(p)
  PROVE  Core'
<1> USE DEF Core, Own, Ahead, HasLocal, MergeLabel, Below, Tracked, Goto
<1>0. ProcShape
  BY DEF Shape
<1>1. CASE MergeBegin(p)
  <2>1. Own(p)'
    BY <1>0, <1>1 DEF MergeBegin, ProcShape, refs, handle, merging, Continue
  <2>2. \A q \in Proc \ {p} : Untouched(q)
    BY <1>0, <1>1 DEF MergeBegin, ProcShape, Untouched, handle, merging, Continue
  <2>3. QED
    BY <1>1, <2>1, <2>2, QuietCore DEF MergeBegin, refs, merging
<1>2. CASE MergeWitness(p)
  <2>1. Own(p)'
    BY <1>0, <1>2 DEF MergeWitness, ProcShape, refs, handle, merging, Continue
  <2>2. \A q \in Proc \ {p} : Untouched(q)
    BY <1>0, <1>2 DEF MergeWitness, ProcShape, Untouched, handle, merging, Continue
  <2>3. QED
    BY <1>2, <2>1, <2>2, QuietCore DEF MergeWitness, refs, merging
<1>3. CASE MergeExist(p)
  <2>1. Own(p)'
    BY <1>0, <1>3 DEF MergeExist, ProcShape, refs, handle, merging, Continue
  <2>2. \A q \in Proc \ {p} : Untouched(q)
    BY <1>0, <1>3 DEF MergeExist, ProcShape, Untouched, handle, merging, Continue
  <2>3. QED
    BY <1>3, <2>1, <2>2, QuietCore DEF MergeExist, refs, merging
<1>4. CASE MergeCopy(p)
  <2>1. CASE tracking = 0
    <3>1. Return(p) /\ UNCHANGED <<dag, refs, acked, handle, pending>>
      BY <1>4, <2>1 DEF MergeCopy
    <3>2. QED
      BY <3>1, ReturnCore
  <2>2. CASE ~(tracking = 0)
    <3>1. /\ remoteCommit' = [remoteCommit EXCEPT ![p] = tracking]
          /\ pc[p] = "mCopy" /\ pc' = [pc EXCEPT ![p] = "mCreate"]
          /\ UNCHANGED <<last, localCommit>>
          /\ UNCHANGED <<dag, refs, acked, handle, pending>>
      BY <1>4, <2>2 DEF MergeCopy, Continue, merging
    <3>2. Own(p)'
      BY <1>0, <2>2, <3>1 DEF Held, ProcShape, refs, handle
    <3>3. \A q \in Proc \ {p} : Untouched(q)
      BY <1>0, <3>1 DEF ProcShape, Untouched, handle
    <3>4. QED
      BY <3>1, <3>2, <3>3, QuietCore
  <2>3. QED
    BY <2>1, <2>2
<1>5. CASE MergeLocal(p)
  <2>1. CASE local = 0
    <3>1. Return(p) /\ UNCHANGED <<dag, refs, acked, handle, pending>>
      BY <1>5, <2>1 DEF MergeLocal
    <3>2. QED
      BY <3>1, ReturnCore
  <2>2. CASE ~(local = 0)
    <3>1. /\ localCommit' = [localCommit EXCEPT ![p] = local]
          /\ pc[p] = "mLocal" /\ pc' = [pc EXCEPT ![p] = "mRemote"]
          /\ UNCHANGED <<last, remoteCommit>>
          /\ UNCHANGED <<dag, refs, acked, handle, pending>>
      BY <1>5, <2>2 DEF MergeLocal, Continue, merging
    <3>2. Own(p)'
      BY <1>0, <2>2, <3>1 DEF ProcShape, refs, handle
    <3>3. \A q \in Proc \ {p} : Untouched(q)
      BY <1>0, <3>1 DEF ProcShape, Untouched, handle
    <3>4. QED
      BY <3>1, <3>2, <3>3, QuietCore
  <2>3. QED
    BY <2>1, <2>2
<1>6. CASE MergeRemote(p)
  <2>1. CASE tracking \in {0, localCommit[p]}
    <3>1. Return(p) /\ UNCHANGED <<dag, refs, acked, handle, pending>>
      BY <1>6, <2>1 DEF MergeRemote
    <3>2. QED
      BY <3>1, ReturnCore
  <2>2. CASE ~(tracking \in {0, localCommit[p]})
    <3>1. /\ remoteCommit' = [remoteCommit EXCEPT ![p] = tracking]
          /\ pc[p] = "mRemote" /\ pc' = [pc EXCEPT ![p] = "mListLocal"]
          /\ UNCHANGED <<last, localCommit>>
          /\ UNCHANGED <<dag, refs, acked, handle, pending>>
      BY <1>6, <2>2 DEF MergeRemote, Continue, merging
    <3>2. local = localCommit[p] /\ localCommit[p] \in History(dag, server) =>
            History(dag, localCommit[p]) \subseteq History(dag, tracking)
      <4>1. localCommit[p] # 0 /\ localCommit[p] \in Commit /\ tracking \in Commit
        BY <1>0, <3>1 DEF ProcShape, Resolved, HasLocal, Shape, RefShape
      <4>2. localCommit[p] \in History(dag, localCommit[p])
        BY <4>1, HistoryFacts DEF Shape
      <4>3. QED
        BY <2>2, <4>1, <4>2, HistoryFacts DEF Shape
    <3>3. Own(p)'
      BY <1>0, <2>2, <3>1, <3>2 DEF Held, ProcShape, refs, handle
    <3>4. \A q \in Proc \ {p} : Untouched(q)
      BY <1>0, <3>1 DEF ProcShape, Untouched, handle
    <3>5. QED
      BY <3>1, <3>3, <3>4, QuietCore
  <2>3. QED
    BY <2>1, <2>2
<1>7. CASE MergeListLocal(p)
  <2>1. CASE local = 0 \/ remoteCommit[p] \in History(dag, local)
    <3>1. Return(p) /\ UNCHANGED <<dag, refs, acked, handle, pending>>
      BY <1>7, <2>1 DEF MergeListLocal
    <3>2. QED
      BY <3>1, ReturnCore
  <2>2. CASE ~(local = 0 \/ remoteCommit[p] \in History(dag, local))
    <3>1. /\ pc[p] = "mListLocal" /\ pc' = [pc EXCEPT ![p] = "mListRemote"]
          /\ UNCHANGED <<last, localCommit, remoteCommit>>
          /\ UNCHANGED <<dag, refs, acked, handle, pending>>
      BY <1>7, <2>2 DEF MergeListLocal, Continue, merging
    <3>2. Own(p)'
      BY <1>0, <2>2, <3>1 DEF ProcShape, refs, handle
    <3>3. \A q \in Proc \ {p} : Untouched(q)
      BY <1>0, <3>1 DEF ProcShape, Untouched, handle
    <3>4. QED
      BY <3>1, <3>2, <3>3, QuietCore
  <2>3. QED
    BY <2>1, <2>2
<1>8. CASE MergeListRemote(p)
  <2>1. CASE tracking = 0
    <3>1. Return(p) /\ UNCHANGED <<dag, refs, acked, handle, pending>>
      BY <1>8, <2>1 DEF MergeListRemote
    <3>2. QED
      BY <3>1, ReturnCore
  <2>2. CASE ~(tracking = 0)
    <3>1. /\ pc[p] = "mListRemote"
          /\ pc' = [pc EXCEPT ![p] = IF localCommit[p] \in History(dag, tracking)
                                       THEN "mForward" ELSE "mRead"]
          /\ UNCHANGED <<last, localCommit, remoteCommit>>
          /\ UNCHANGED <<dag, refs, acked, handle, pending>>
      BY <1>8, <2>2 DEF MergeListRemote, Continue, merging
    <3>2. Own(p)'
      BY <1>0, <2>2, <3>1 DEF Held, ProcShape, refs, handle
    <3>3. \A q \in Proc \ {p} : Untouched(q)
      BY <1>0, <3>1 DEF ProcShape, Untouched, handle
    <3>4. QED
      BY <3>1, <3>2, <3>3, QuietCore
  <2>3. QED
    BY <2>1, <2>2
<1>9. CASE MergeRead(p)
  <2>1. CASE ~(local # 0 /\ Readable(dag, local))
    <3>1. Return(p) /\ UNCHANGED <<dag, refs, acked, handle, pending>>
      BY <1>9, <2>1 DEF MergeRead
    <3>2. QED
      BY <3>1, ReturnCore
  <2>2. CASE ~(~(local # 0 /\ Readable(dag, local)))
    <3>1. /\ last' = [last EXCEPT ![p] = local]
          /\ pc[p] = "mRead" /\ pc' = [pc EXCEPT ![p] = "mWitnessLocal"]
          /\ UNCHANGED <<localCommit, remoteCommit>>
          /\ UNCHANGED <<dag, refs, acked, handle, pending>>
      BY <1>9, <2>2 DEF MergeRead, Continue, merging
    <3>2. Own(p)'
      BY <1>0, <2>2, <3>1 DEF ProcShape, refs, handle
    <3>3. \A q \in Proc \ {p} : Untouched(q)
      BY <1>0, <3>1 DEF ProcShape, Untouched, handle
    <3>4. QED
      BY <3>1, <3>2, <3>3, QuietCore
  <2>3. QED
    BY <2>1, <2>2
<1>10. CASE MergeWitnessLocal(p)
  <2>1. Own(p)'
    BY <1>0, <1>10 DEF MergeWitnessLocal, ProcShape, refs, handle, merging, Continue
  <2>2. \A q \in Proc \ {p} : Untouched(q)
    BY <1>0, <1>10 DEF MergeWitnessLocal, ProcShape, Untouched, handle, merging, Continue
  <2>3. QED
    BY <1>10, <2>1, <2>2, QuietCore DEF MergeWitnessLocal, refs, merging
<1>11. CASE MergeTick(p)
  <2>1. Own(p)'
    BY <1>0, <1>11 DEF MergeTick, ProcShape, refs, handle, merging, Continue
  <2>2. \A q \in Proc \ {p} : Untouched(q)
    BY <1>0, <1>11 DEF MergeTick, ProcShape, Untouched, handle, merging, Continue
  <2>3. QED
    BY <1>11, <2>1, <2>2, QuietCore DEF MergeTick, refs, merging
<1>12. QED
  BY <1>1, <1>2, <1>3, <1>4, <1>5, <1>6, <1>7, <1>8, <1>9, <1>10, <1>11

(* A process moves the local reference forward, to a commit whose part on   *)
(* the remote is known: wherever it moves it, it moves it so.               *)
LEMMA Moves ==
  ASSUME Held, Core, NEW p \in Proc,
         CommitDone(p) \/ MergeCreate(p) \/ MergeForward(p) \/ MergeUpdate(p)
  PROVE  UNCHANGED <<dag, tracking, server>> /\ Below(local, local') /\ Tracked(local')
<1>1. Own(p) /\ OnTop(p) /\ Tracked(local) /\ Tracked(remoteCommit[p])
  BY DEF Held, Core, Own
<1>2. UNCHANGED <<dag, tracking, server>>
  BY DEF CommitDone, MergeCreate, MergeForward, MergeUpdate, MergeUpdateRef
<1>3. CASE local' = local
  BY <1>1, <1>2, <1>3 DEF Below
<1>4. CASE local' # local
  <2>1. CASE CommitDone(p)
    <3>1. pc[p] = "update" /\ local = base[p] /\ local' = last[p]
      BY <2>1 DEF CommitDone
    <3>2. QED
      BY <1>1, <1>2, <3>1 DEF Own, OnTop, Building
  <2>2. CASE MergeCreate(p)
    <3>1. local = 0 /\ local' = remoteCommit[p]
      BY <1>4, <2>2 DEF MergeCreate
    <3>2. Below(local, local')
      BY <3>1 DEF Below, History
    <3>3. QED
      BY <1>1, <1>2, <3>1, <3>2
  <2>3. CASE MergeForward(p)
    <3>1. pc[p] = "mForward" /\ local = localCommit[p] /\ local' = remoteCommit[p]
      BY <1>4, <2>3 DEF MergeForward, MergeUpdateRef
    <3>2. QED
      BY <1>1, <1>2, <3>1 DEF Own, Ahead
  <2>4. CASE MergeUpdate(p)
    <3>1. pc[p] = "mUpdate" /\ local = localCommit[p] /\ local' = last[p]
      BY <1>4, <2>4 DEF MergeUpdate, MergeUpdateRef
    <3>2. QED
      BY <1>1, <1>2, <3>1 DEF Own, Ahead
  <2>5. QED
    BY <2>1, <2>2, <2>3, <2>4
<1>5. QED
  BY <1>3, <1>4

(* Where it creates the reference again after a removal, nobody else is in  *)
(* a merge: a first commit has no others yet, and one process only pulls.   *)
LEMMA Revives ==
  ASSUME Newborn, Steady, Held, Core, NEW p \in Proc,
         CommitDone(p) \/ MergeCreate(p) \/ MergeForward(p) \/ MergeUpdate(p)
  PROVE  \A q \in Proc \ {p} : Rises(q)
<1> SUFFICES ASSUME NEW q \in Proc \ {p}
             PROVE  Rises(q)
  OBVIOUS
<1>1. History(dag', local) \subseteq History(dag', local')
  BY Moves DEF Below
<1>2. ASSUME local = 0, Remover # {}, pc[q] \in HasLocal
      PROVE  FALSE
  <2>1. CASE CommitDone(p)
    <3>1. pc[p] \in Building /\ base[p] = 0
      BY <1>2, <2>1 DEF CommitDone, Building
    <3>2. Young
      BY <3>1 DEF Newborn, Young, Unborn
    <3>3. pc[q] \in Calm \union Building
      BY <3>2 DEF Newborn
    <3>4. QED
      BY <1>2, <3>3 DEF Calm, Building, HasLocal
  <2>2. CASE MergeCreate(p) \/ MergeForward(p) \/ MergeUpdate(p)
    <3>1. pc[p] \in MergeLabel
      BY <2>2 DEF MergeCreate, MergeForward, MergeUpdate, MergeLabel, HasLocal
    <3>2. p \in Puller /\ q \in Puller
      BY <1>2, <3>1 DEF Core, Own, MergeLabel
    <3>3. QED
      BY <1>2, <3>2 DEF Steady, OnePuller
  <2>3. QED
    BY <2>1, <2>2
<1>3. QED
  BY <1>1, <1>2 DEF Rises

LEMMA MoveAdvance ==
  ASSUME UNCHANGED <<dag, tracking, server>>
  PROVE  Advance
  BY QuietKept DEF Advance, Tracked

LEMMA CommitDoneCore ==
  ASSUME Shape, Newborn, Steady, Held, Core, NEW p \in Proc, CommitDone(p)
  PROVE  Core'
<1>1. ProcShape
  BY DEF Shape
<1>2. /\ pc[p] = "update" /\ local' = last[p]
      /\ Return(p) /\ base'[p] = last[p]
      /\ acked' = acked \union Elements(staging[p])
      /\ UNCHANGED <<dag, tracking, server>>
  BY <1>1 DEF CommitDone, ProcShape
<1>3. Below(local, local') /\ Tracked(local')
  BY Moves
<1>4. Elements(staging[p]) \subseteq OpsAt(dag, local') \union Elements(<<>>)
  BY <1>2 DEF Held, OnTop, Building
<1>5. Tracked(base[p])'
  BY <1>2, <1>3 DEF Tracked
<1>6. Own(p)'
  BY <1>1, <1>2, <1>5, IdleOwn DEF Return, ProcShape
<1>7. \A q \in Proc \ {p} : Untouched(q) /\ Rises(q)
  BY ActsAlone, Revives DEF Acts, Committing
<1>8. \A q \in Proc : Own(q)'
  BY <1>2, <1>6, <1>7, MoveAdvance, OthersOwn DEF Core
<1>9. Elements(<<>>) = {}
  BY DEF Elements
<1>10. acked' \subseteq OpsAt(dag', local')
  BY <1>2, <1>3, <1>4, <1>9, OpsMonotone DEF Core, AckedDurable
<1>11. QED
  BY <1>2, <1>3, <1>8, <1>10 DEF Core, Tracked, AckedDurable

(* The steps of a merge that move the reference.                            *)
LEMMA MovingCore ==
  ASSUME Shape, Newborn, Steady, Held, Core, NEW p \in Proc,
         MergeCreate(p) \/ MergeForward(p) \/ MergeUpdate(p)
  PROVE  Core'
<1>1. Below(local, local') /\ Tracked(local')
  BY Moves
<1>2. Return(p) /\ UNCHANGED <<dag, tracking, server, handle, pending, acked>>
  BY DEF MergeCreate, MergeForward, MergeUpdate, MergeUpdateRef
<1>3. ProcShape
  BY DEF Shape
<1>4. Tracked(base[p])'
  BY <1>2 DEF Core, Own, Tracked, handle
<1>5. Own(p)'
  BY <1>2, <1>3, <1>4, IdleOwn DEF Return, ProcShape
<1>6. \A q \in Proc \ {p} : Untouched(q) /\ Rises(q)
  BY ActsAlone, Revives DEF Acts, Merging
<1>7. \A q \in Proc : Own(q)'
  BY <1>2, <1>5, <1>6, MoveAdvance, OthersOwn DEF Core
<1>8. acked' \subseteq OpsAt(dag', local')
  BY <1>1, <1>2, OpsMonotone DEF Core, AckedDurable
<1>9. QED
  BY <1>1, <1>2, <1>7, <1>8 DEF Core, Tracked, AckedDurable

LEMMA SyncingCore ==
  ASSUME Shape, Held, Core, NEW p \in Proc, Syncing(p)
  PROVE  Core'
<1>0. /\ DagShape /\ local \in Commit /\ tracking \in Commit /\ server \in Commit
      /\ Tracked(local)
  BY DEF Shape, RefShape, Core
<1>1. UNCHANGED <<dag, local, pc, handle, pending, last, merging, acked>>
  BY DEF Syncing, Fetch, Push
<1>2. \A q \in Proc : Untouched(q) /\ Rises(q)
  BY <1>1 DEF Untouched, Rises, handle, merging
<1>3. Kept
  BY <1>1, QuietKept
<1>4. Advance /\ Tracked(local)'
  <2>1. CASE Fetch(p)
    <3>1. server' = server /\ tracking' = server
      BY <2>1 DEF Fetch
    <3>2. QED
      BY <1>0, <1>1, <1>3, <3>1 DEF Advance, Tracked
  <2>2. CASE Push(p)
    <3>1. Below(server, local)
      <4>1. CASE server = 0
        BY <4>1 DEF Below, History
      <4>2. CASE server # 0
        BY <4>2, <2>2, <1>0, HistoryFacts DEF Push, Below
      <4>3. QED
        BY <4>1, <4>2
    <3>2. server' = local /\ tracking' = local
      BY <2>2 DEF Push
    <3>3. QED
      BY <1>0, <1>1, <1>3, <3>1, <3>2 DEF Advance, Below, Tracked
  <2>3. QED
    BY <2>1, <2>2 DEF Syncing
<1>5. \A q \in Proc : Own(q)'
  BY <1>2, <1>4, OthersOwn DEF Core
<1>6. AckedDurable'
  BY <1>1 DEF Core, AckedDurable
<1>7. QED
  BY <1>4, <1>5, <1>6 DEF Core

(* A process removes the entity, or its tracking reference.                 *)
LEMMA RemovingCore ==
  ASSUME Shape, Core, NEW p \in Proc, Removing(p)
  PROVE  Core'
<1> USE DEF Goto
<1>0. ProcShape /\ Own(p) /\ Tracked(local) /\ Tracked(tracking)
  BY DEF Shape, Core, Tracked
<1>1. \A q \in Proc \ {p} : Untouched(q)
  BY ActsAlone DEF Acts
<1>2. CASE RemoveBegin(p)
  <2>1. /\ last'[p] = local /\ pc'[p] \in {"rLocal", "rTracking"} /\ p \in Remover
        /\ base' = base /\ localCommit' = localCommit /\ remoteCommit' = remoteCommit
        /\ UNCHANGED <<dag, refs, acked>>
    BY <1>0, <1>2 DEF RemoveBegin, ProcShape, handle, merging
  <2>2. Own(p)'
    BY <1>0, <2>1 DEF Own, Ahead, HasLocal, MergeLabel, Below, Tracked, refs
  <2>3. QED
    BY <1>1, <2>1, <2>2, QuietCore
<1>3. CASE RemoveResolveTracking(p)
  <2>1. CASE tracking = 0
    BY <1>3, <2>1, ReturnCore DEF RemoveResolveTracking
  <2>2. CASE tracking # 0
    <3>1. /\ last'[p] = tracking /\ pc'[p] = "rRemove" /\ pc[p] = "rTracking"
          /\ base' = base /\ localCommit' = localCommit /\ remoteCommit' = remoteCommit
          /\ UNCHANGED <<dag, refs, acked>>
      BY <1>0, <1>3, <2>2 DEF RemoveResolveTracking, ProcShape, handle, merging
    <3>2. Own(p)'
      BY <1>0, <3>1 DEF Own, Ahead, HasLocal, MergeLabel, Below, Tracked, refs
    <3>3. QED
      BY <1>1, <3>1, <3>2, QuietCore
  <2>3. QED
    BY <2>1, <2>2
<1>4. CASE RemoveLocal(p)
  <2>1. pc[p] = "rLocal" /\ UNCHANGED <<dag, tracking, server, handle, pending>>
    BY <1>4 DEF RemoveLocal
  <2>2. CASE local = last[p]
    <3>1. /\ local' = 0 /\ acked' = {} /\ pc'[p] = "rTracking"
          /\ last' = last /\ localCommit' = localCommit /\ remoteCommit' = remoteCommit
      BY <1>0, <1>4, <2>2 DEF RemoveLocal, Continue, ProcShape, merging
    <3>2. p \in Remover
      BY <1>0, <2>1 DEF Own
    <3>3. Own(p)'
      BY <1>0, <2>1, <3>1, <3>2 DEF Own, Ahead, HasLocal, MergeLabel, Below, Tracked, handle
    <3>4. \A q \in Proc : Rises(q)
      BY <3>1, <3>2 DEF Rises
    <3>5. \A q \in Proc : Own(q)'
      BY <1>1, <2>1, <3>3, <3>4, MoveAdvance, OthersOwn DEF Core
    <3>6. Tracked(local)' /\ AckedDurable'
      BY <3>1 DEF Tracked, AckedDurable, History
    <3>7. QED
      BY <3>5, <3>6 DEF Core
  <2>3. CASE local # last[p]
    <3>1. UNCHANGED <<dag, refs, acked, handle, pending>>
      BY <1>4, <2>1, <2>3 DEF RemoveLocal, refs
    <3>2. CASE Return(p)
      BY <3>1, <3>2, ReturnCore
    <3>3. CASE Continue(p, "rTracking")
      <4>1. /\ pc'[p] = "rTracking" /\ last' = last
            /\ localCommit' = localCommit /\ remoteCommit' = remoteCommit
        BY <1>0, <3>3 DEF Continue, ProcShape, merging
      <4>2. Own(p)'
        BY <1>0, <2>1, <3>1, <4>1
           DEF Own, Ahead, HasLocal, MergeLabel, Below, Tracked, refs, handle
      <4>3. QED
        BY <1>1, <3>1, <4>2, QuietCore
    <3>4. QED
      BY <1>4, <3>2, <3>3 DEF RemoveLocal
  <2>4. QED
    BY <2>2, <2>3
<1>5. CASE RemoveTracking(p)
  <2>1. /\ UNCHANGED <<dag, local, server, handle, acked>> /\ tracking' \in {0, tracking}
        /\ Return(p)
    BY <1>5 DEF RemoveTracking
  <2>2. Tracked(base[p])' /\ Tracked(local)'
    BY <1>0, <2>1 DEF Own, Tracked, handle
  <2>3. Own(p)'
    BY <1>0, <2>1, <2>2, IdleOwn DEF Return, ProcShape
  <2>4. Advance /\ \A q \in Proc : Rises(q)
    BY <2>1, QuietKept DEF Advance, Tracked, Rises
  <2>5. \A q \in Proc : Own(q)'
    BY <1>1, <2>3, <2>4, OthersOwn DEF Core
  <2>6. AckedDurable'
    BY <2>1 DEF Core, AckedDurable
  <2>7. QED
    BY <2>2, <2>5, <2>6 DEF Core
<1>6. QED
  BY <1>2, <1>3, <1>4, <1>5 DEF Removing

(* A process stores a commit; no reference names it yet.                    *)
LEMMA GrowCore ==
  ASSUME Shape, Core, Kept, UNCHANGED <<refs, acked>>, NEW p \in Proc, Own(p)',
         \A q \in Proc \ {p} : Untouched(q)
  PROVE  Core'
<1>1. /\ local \in Commit /\ tracking \in Commit /\ server \in Commit
      /\ local' = local /\ tracking' = tracking /\ server' = server /\ acked' = acked
  BY DEF Shape, RefShape, refs
<1>2. Advance /\ \A q \in Proc : Rises(q)
  BY <1>1 DEF Kept, Advance, Tracked, Rises
<1>3. \A q \in Proc : Own(q)'
  BY <1>2, OthersOwn DEF Core
<1>4. QED
  BY <1>1, <1>3 DEF Core, Kept, Tracked, AckedDurable

LEMMA StoreChunkCore ==
  ASSUME Shape, Core, NEW p \in Proc, StoreChunk(p)
  PROVE  Core'
<1> DEFINE n == Len(dag) + 1
<1>1. /\ Kept /\ last' = [last EXCEPT ![p] = n] /\ n \notin Commit
      /\ \A x : x \in History(dag', n) <=> x = n \/ x \in History(dag, last[p])
      /\ pc'[p] \in {"tick", "update"}
  BY ChunkStored
<1>2. UNCHANGED <<refs, handle, merging, acked>>
  BY DEF StoreChunk
<1>3. ProcShape /\ DagShape /\ RefShape /\ Own(p)
  BY DEF Shape, Core
<1>4. /\ local \in Commit /\ tracking \in Commit /\ server \in Commit
      /\ base[p] \in Commit /\ localCommit[p] \in Commit /\ remoteCommit[p] \in Commit
      /\ local' = local /\ tracking' = tracking /\ server' = server
      /\ base' = base /\ localCommit' = localCommit /\ remoteCommit' = remoteCommit
      /\ last'[p] = n
  BY <1>1, <1>2, <1>3 DEF RefShape, ProcShape, refs, handle, merging
<1>5. n \notin History(dag, server)
  BY <1>1, <1>3, <1>4, HistoryFacts
<1> HIDE DEF n
<1>6. Below(remoteCommit[p], server)'
  BY <1>1, <1>3, <1>4 DEF Kept, Own, Below
<1>7. /\ Tracked(base[p])' /\ Tracked(last[p])'
      /\ Tracked(localCommit[p])' /\ Tracked(remoteCommit[p])'
  BY <1>1, <1>3, <1>4, <1>5 DEF Kept, Own, Tracked
<1>8. Own(p)'
  BY <1>1, <1>6, <1>7 DEF Own, Ahead, HasLocal, MergeLabel
<1>9. \A q \in Proc \ {p} : Untouched(q)
  BY ActsAlone DEF Acts, Committing
<1>10. QED
  BY <1>1, <1>2, <1>8, <1>9, GrowCore

LEMMA MergeStoreCore ==
  ASSUME Shape, Core, NEW p \in Proc, MergeStore(p)
  PROVE  Core'
<1> DEFINE n == Len(dag) + 1
<1>1. /\ Kept /\ n \notin Commit
      /\ \A x : x \in History(dag', n) <=>
                 \/ x = n
                 \/ x \in History(dag, localCommit[p])
                 \/ x \in History(dag, remoteCommit[p])
  BY MergeStored
<1>2. /\ UNCHANGED <<refs, handle, pending, merging, acked>> /\ pc[p] = "mStore"
      /\ pc' = [pc EXCEPT ![p] = "mUpdate"] /\ last' = [last EXCEPT ![p] = n]
  BY DEF MergeStore, Goto
<1>3. ProcShape /\ DagShape /\ RefShape /\ Own(p)
  BY DEF Shape, Core
<1>4. /\ local \in Commit /\ tracking \in Commit /\ server \in Commit
      /\ base[p] \in Commit /\ localCommit[p] \in Commit /\ remoteCommit[p] \in Commit
      /\ local' = local /\ tracking' = tracking /\ server' = server
      /\ base' = base /\ localCommit' = localCommit /\ remoteCommit' = remoteCommit
      /\ last'[p] = n /\ pc'[p] = "mUpdate"
  BY <1>2, <1>3 DEF RefShape, ProcShape, refs, handle, merging
<1>5. n \notin History(dag, server)
  BY <1>1, <1>3, <1>4, HistoryFacts
<1> HIDE DEF n
<1>6. /\ p \in Puller /\ Below(remoteCommit[p], server)'
      /\ (local' = 0 /\ Remover # {}) \/ Below(localCommit[p], local)'
  BY <1>1, <1>2, <1>3, <1>4 DEF Kept, Own, Below, HasLocal, MergeLabel
<1>7. /\ Tracked(base[p])' /\ Tracked(last[p])'
      /\ Tracked(localCommit[p])' /\ Tracked(remoteCommit[p])'
  BY <1>1, <1>3, <1>4, <1>5 DEF Kept, Own, Tracked
<1>8. Below(localCommit[p], last[p])'
  BY <1>1, <1>4 DEF Kept, Below
<1>9. Own(p)'
  BY <1>4, <1>6, <1>7, <1>8 DEF Own, Ahead
<1>10. \A q \in Proc \ {p} : Untouched(q)
  BY ActsAlone DEF Acts, Merging
<1>11. QED
  BY <1>1, <1>2, <1>9, <1>10, GrowCore

LEMMA PeerCore ==
  ASSUME Shape, Core, NEW o \in Op, Peer(o)
  PROVE  Core'
<1>1. /\ Kept /\ server' = Len(dag) + 1 /\ Len(dag) + 1 \notin Commit
      /\ \A x : x \in History(dag', Len(dag) + 1) <=>
                 x = Len(dag) + 1 \/ x \in History(dag, server)
  BY PeerStored
<1>2. /\ DagShape /\ local \in Commit /\ tracking \in Commit /\ server \in Commit
      /\ Tracked(local) /\ acked \subseteq OpsAt(dag, local)
  BY DEF Shape, RefShape, Core, AckedDurable
<1>3. UNCHANGED <<local, tracking, pc, handle, pending, last, merging, acked>>
  BY DEF Peer
<1>4. \A q \in Proc : Untouched(q) /\ Rises(q)
  BY <1>3 DEF Untouched, Rises, handle, merging
<1>5. \A c \in Commit : server' \notin History(dag, c)
  BY <1>1, <1>2, HistoryFacts
<1>6. Advance
  <2>1. \A c \in Commit : Tracked(c) =>
          (tracking' # 0 =>
             History(dag', c) \intersect History(dag', server') \subseteq History(dag', tracking'))
    BY <1>1, <1>2, <1>3, <1>5 DEF Kept, Tracked
  <2>2. \A c \in Commit : c \in History(dag', server') => c \in History(dag, server)
    BY <1>1
  <2>3. History(dag', server) \subseteq History(dag', server')
    BY <1>1, <1>2 DEF Kept
  <2>4. QED
    BY <2>1, <2>2, <2>3, <1>1 DEF Advance
<1>7. \A q \in Proc : Own(q)'
  BY <1>4, <1>6, OthersOwn DEF Core
<1>8. Tracked(local)' /\ AckedDurable'
  BY <1>1, <1>2, <1>3, <1>6 DEF Kept, Advance, Tracked, AckedDurable
<1>9. QED
  BY <1>7, <1>8 DEF Core

LEMMA InitCore == Init => Core
  BY DEF Init, Core, Own, Ahead, HasLocal, MergeLabel, Below, Tracked, AckedDurable, History

LEMMA StepCore == Steady /\ Shape /\ Newborn /\ Held /\ Core /\ [Next]_vars => Core'
<1> SUFFICES ASSUME Steady, Shape, Newborn, Held, Core, [Next]_vars
             PROVE  Core'
  OBVIOUS
<1>1. ASSUME NEW p \in Proc, Committing(p)
      PROVE  Core'
  BY <1>1, CommittingCore, StoreChunkCore, CommitDoneCore DEF Committing
<1>2. ASSUME NEW p \in Proc, Merging(p)
      PROVE  Core'
  BY <1>2, MergingCore, MovingCore, MergeStoreCore DEF Merging
<1>3. ASSUME UNCHANGED vars
      PROVE  Core'
  <2>1. UNCHANGED <<dag, refs, acked>> /\ \A q \in Proc : Untouched(q)
    BY <1>3 DEF vars, Untouched, handle, merging
  <2>2. \A q \in Proc : Own(q)'
    BY <2>1, QuietAdvance, OthersOwn DEF Core
  <2>3. QED
    BY <2>1, <2>2 DEF Core, refs, Tracked, AckedDurable
<1>4. QED
  BY <1>1, <1>2, <1>3, LifeCore, ReadingCore, StagingCore, SyncingCore, RemovingCore, PeerCore
     DEF Next

------------------------------------------------------------------------------
(* What follows for every behaviour.                                        *)

(* The inductive invariant.                                                 *)
Safe == Shape /\ Newborn /\ Held /\ Core

LEMMA Safety == Steady => (Spec => []Safe)
<1> SUFFICES ASSUME Steady
             PROVE  Spec => []Safe
  OBVIOUS
<1>1. Init => Safe
  BY InitShape, InitNewborn, InitHeld, InitCore DEF Safe
<1>2. Safe /\ [Next]_vars => Safe'
  BY StepShape, NewbornStep, StepHeld, StepCore DEF Safe
<1>3. QED
  BY <1>1, <1>2, PTL DEF Spec

(* An operation whose Commit has returned without error is not lost before  *)
(* the entity is removed, for any number of processes that commit, fetch,   *)
(* push, remove, crash and restart in any order and whatever other clones   *)
(* push, while one process at most merges; and for any number that merge,   *)
(* as long as nobody asks for the removal of the entity: AckedDurable.      *)
THEOREM Durable == Steady => (Spec => []AckedDurable)
<1> SUFFICES ASSUME Steady
             PROVE  Spec => []AckedDurable
  OBVIOUS
<1>1. Spec => []Safe
  BY Safety
<1>2. Safe => AckedDurable
  BY DEF Safe, Core
<1>3. QED
  BY <1>1, <1>2, PTL

(* The steps that move the local reference.                                 *)
LEMMA Movers ==
  ASSUME [Next]_vars
  PROVE  \/ local' = local
         \/ local' = 0
         \/ \E p \in Proc : CommitDone(p) \/ MergeCreate(p) \/ MergeForward(p) \/ MergeUpdate(p)
<1>1. ASSUME NEW p \in Proc, Life(p) \/ Reading(p) \/ Staging(p) \/ Syncing(p)
      PROVE  local' = local
  BY <1>1 DEF Life, OpenClock, OpenWithoutClock, LoadClock, Exit, Crash, CrashInClock, Replace,
              Reading, Read, Witness, Staging, New, AppendOp, Syncing, Fetch, Push, refs
<1>2. ASSUME NEW p \in Proc, Committing(p), ~CommitDone(p)
      PROVE  local' = local
  BY <1>2 DEF Committing, CommitBegin, Tick, StoreChunk, CommitConflict, refs
<1>3. ASSUME NEW p \in Proc, Merging(p), ~MergeCreate(p), ~MergeForward(p), ~MergeUpdate(p)
      PROVE  local' = local
  BY <1>3 DEF Merging, MergeBegin, MergeWitness, MergeExist, MergeCopy, MergeLocal, MergeRemote,
              MergeListLocal, MergeListRemote, MergeRead, MergeWitnessLocal, MergeTick, MergeStore, refs
<1>4. ASSUME NEW p \in Proc, Removing(p)
      PROVE  local' \in {0, local}
  BY <1>4 DEF Removing, RemoveBegin, RemoveLocal, RemoveResolveTracking, RemoveTracking, refs
<1>5. QED
  BY <1>1, <1>2, <1>3, <1>4 DEF Next, Peer, vars, refs

(* No update of the local reference discards history: until the entity is   *)
(* removed it moves only to commits that contain the one it leaves.         *)
(* RefOnlyAdvances, for the same processes.                                 *)
THEOREM HistoryKept == Steady => (Spec => RefOnlyAdvances)
<1> SUFFICES ASSUME Steady
             PROVE  Spec => RefOnlyAdvances
  OBVIOUS
<1>1. Spec => []Safe
  BY Safety
<1>2. Safe /\ [Next]_vars => [local # 0 /\ local' # 0 => local \in History(dag', local')]_vars
  <2> SUFFICES ASSUME Safe, [Next]_vars, local # 0, local' # 0
               PROVE  local \in History(dag', local') \/ UNCHANGED vars
    OBVIOUS
  <2>1. Shape /\ Held /\ Core /\ Shape'
    BY StepShape DEF Safe
  <2>2. CASE local' = local
    <3>1. DagShape' /\ local' \in Commit'
      BY <2>1 DEF Shape, RefShape
    <3>2. Len(dag') \in Nat
      BY <3>1 DEF DagShape
    <3>3. local' \in 1..Len(dag')
      BY <2>2, <3>1, <3>2 DEF Commit
    <3>4. local' \in dag'[local'].hist
      BY <3>1, <3>3 DEF DagShape, Reachable
    <3>5. QED
      BY <2>2, <3>4 DEF History
  <2>3. CASE \E p \in Proc : CommitDone(p) \/ MergeCreate(p) \/ MergeForward(p) \/ MergeUpdate(p)
    <3>1. UNCHANGED dag /\ Below(local, local')
      BY <2>1, <2>3, Moves
    <3>2. DagShape /\ local \in Commit
      BY <2>1 DEF Shape, RefShape
    <3>3. local \in History(dag, local)
      BY <3>2, HistoryFacts
    <3>4. QED
      BY <3>1, <3>3 DEF Below
  <2>4. QED
    BY <2>1, <2>2, <2>3, Movers
<1>3. QED
  BY <1>1, <1>2, PTL DEF Spec, RefOnlyAdvances

------------------------------------------------------------------------------
(* Commits are serial.                                                      *)

Tip(p) == IF pc[p] = "witness" THEN last[p] ELSE base[p]

View == [p \in Proc |-> OpsAt(dag, IF pc[p] = "witness" THEN last[p] ELSE base[p])]

LEMMA Views == View = [p \in Proc |-> OpsAt(dag, Tip(p))]
  BY DEF View, Tip

(* No process reads, and the reference stays: nothing happens.              *)
Still == Kept /\ local' = local /\ \A p \in Proc : Tip(p)' = Tip(p)

LEMMA StillSerial ==
  ASSUME Shape, Still
  PROVE  UNCHANGED Serial!vars
<1>1. local \in Commit /\ \A p \in Proc : Tip(p) \in Commit
  BY DEF Shape, RefShape, ProcShape, Tip
<1>2. OpsAt(dag', local') = OpsAt(dag, local)
  BY <1>1 DEF Still, Kept
<1>3. \A p \in Proc : OpsAt(dag', Tip(p)') = OpsAt(dag, Tip(p))
  BY <1>1 DEF Still, Kept
<1>4. View' = [p \in Proc |-> OpsAt(dag', Tip(p)')]
  BY DEF View, Tip
<1>5. View' = View
  BY <1>3, <1>4, Views
<1>6. QED
  BY <1>2, <1>5 DEF Serial!vars, View

(* One process sees something else: the stored operations, or nothing.      *)
LEMMA SightSerial ==
  ASSUME Shape, NEW p \in Proc, UNCHANGED <<dag, local>>,
         Tip(p)' \in {0, local}, \A q \in Proc \ {p} : Tip(q)' = Tip(q)
  PROVE  Serial!Next
<1>1. View' = [q \in Proc |-> OpsAt(dag', Tip(q)')]
  BY DEF View, Tip
<1>2. View' = [View EXCEPT ![p] = OpsAt(dag, Tip(p)')]
  BY <1>1, Views
<1>3. OpsAt(dag, 0) = {}
  BY DEF OpsAt, History
<1>4. CASE Tip(p)' = local
  BY <1>2, <1>4 DEF Serial!Next, Serial!Look, View
<1>5. CASE Tip(p)' = 0
  BY <1>2, <1>3, <1>5 DEF Serial!Next, Serial!Forget, View
<1>6. QED
  BY <1>4, <1>5

(* A merge adds what it brings and is seen by nobody yet.                   *)
LEMMA JoinSerial ==
  ASSUME Shape, Held, Core, Shape', NEW p \in Proc, MergeCreate(p) \/ MergeForward(p) \/ MergeUpdate(p)
  PROVE  Serial!Next
<1>1. UNCHANGED dag /\ Below(local, local')
  BY Moves
<1>2. OpsAt(dag, local) \subseteq OpsAt(dag, local')
  BY <1>1, OpsMonotone
<1>3. DagShape /\ local' \in Commit
  BY <1>1 DEF Shape, RefShape, Commit
<1>4. OpsAt(dag', local') \in SUBSET Op
  BY <1>1, <1>3, OpsType
<1>5. Return(p) /\ base' = base /\ pc[p] # "witness" /\ ProcShape
  BY DEF MergeCreate, MergeForward, MergeUpdate, MergeUpdateRef, handle, Shape
<1>6. \A q \in Proc : Tip(q)' = Tip(q)
  BY <1>5 DEF Return, ProcShape, Tip
<1>7. View' = View
  <2>1. View' = [q \in Proc |-> OpsAt(dag', Tip(q)')]
    BY DEF View, Tip
  <2>2. QED
    BY <2>1, <1>1, <1>6, Views
<1>8. OpsAt(dag', local') = OpsAt(dag, local) \union OpsAt(dag', local')
  BY <1>1, <1>2
<1>9. QED
  BY <1>4, <1>7, <1>8 DEF Serial!Next, Serial!Join, View

(* A Commit adds its operations to those its process has read.              *)
LEMMA WriteSerial ==
  ASSUME Shape, Held, Core, Shape', NEW p \in Proc, CommitDone(p)
  PROVE  Serial!Next
<1>1. UNCHANGED dag /\ Below(local, local')
  BY Moves
<1>2. OpsAt(dag, local) \subseteq OpsAt(dag, local')
  BY <1>1, OpsMonotone
<1>3. DagShape /\ ProcShape /\ local' \in Commit
  BY <1>1 DEF Shape, RefShape, Commit
<1>4. OpsAt(dag', local') \in SUBSET Op
  BY <1>1, <1>3, OpsType
<1>5. /\ Tip(p) = local /\ Tip(p)' = local'
      /\ \A q \in Proc \ {p} : Tip(q)' = Tip(q)
  BY <1>3 DEF CommitDone, Return, ProcShape, Tip
<1>6. View' = [View EXCEPT ![p] = OpsAt(dag, local')]
  <2>1. View' = [q \in Proc |-> OpsAt(dag', Tip(q)')]
    BY DEF View, Tip
  <2>2. QED
    BY <2>1, <1>1, <1>5, Views
<1>7. View[p] = OpsAt(dag, local)
  BY <1>5, Views
<1>8. OpsAt(dag', local') = OpsAt(dag, local) \union OpsAt(dag', local')
  BY <1>1, <1>2
<1>9. Serial!Write(p, OpsAt(dag', local'))
  BY <1>1, <1>6, <1>7, <1>8 DEF Serial!Write, View
<1>10. QED
  BY <1>4, <1>9 DEF Serial!Next

(* A removal takes everything and is seen by nobody yet.                    *)
LEMMA RemovingSerial ==
  ASSUME Shape, NEW p \in Proc, Removing(p)
  PROVE  Serial!Next \/ UNCHANGED Serial!vars
<1>1. ProcShape
  BY DEF Shape
<1>2. UNCHANGED <<dag, base>> /\ local' \in {0, local} /\ pc[p] # "witness"
  BY DEF Removing, RemoveBegin, RemoveLocal, RemoveResolveTracking, RemoveTracking, refs, handle
<1>3. pc'[p] # "witness" /\ \A q \in Proc \ {p} : pc'[q] = pc[q] /\ last'[q] = last[q]
  BY <1>1 DEF Removing, RemoveBegin, RemoveLocal, RemoveResolveTracking, RemoveTracking,
              Return, Continue, Goto, ProcShape
<1>4. \A q \in Proc : Tip(q)' = Tip(q)
  BY <1>2, <1>3 DEF Tip
<1>5. CASE local' = local
  BY <1>2, <1>4, <1>5, QuietKept, StillSerial DEF Still
<1>6. CASE local' = 0
  <2>1. View' = [q \in Proc |-> OpsAt(dag', Tip(q)')]
    BY DEF View, Tip
  <2>2. View' = View
    BY <2>1, <1>2, <1>4, Views
  <2>3. OpsAt(dag', local') = {}
    BY <1>6 DEF OpsAt, History
  <2>4. QED
    BY <2>2, <2>3 DEF Serial!Next, Serial!Remove, View
<1>7. QED
  BY <1>2, <1>5, <1>6

LEMMA InitSerial == Init => Serial!Init
  BY DEF Init, Serial!Init, OpsAt, History

LEMMA StepSerial ==
  Shape /\ Held /\ Core /\ [Next]_vars => [Serial!Next]_(Serial!vars)
<1> SUFFICES ASSUME Shape, Held, Core, [Next]_vars
             PROVE  Serial!Next \/ UNCHANGED Serial!vars
  OBVIOUS
<1>0. ProcShape /\ Shape'
  BY StepShape DEF Shape
<1>1. ASSUME NEW p \in Proc, Life(p)
      PROVE  Serial!Next \/ UNCHANGED Serial!vars
  <2>1. CASE OpenClock(p) \/ OpenWithoutClock(p) \/ LoadClock(p)
    <3>1. Still
      BY <1>0, <2>1, QuietKept DEF OpenClock, OpenWithoutClock, LoadClock, Return, Goto,
                                  refs, handle, ProcShape, Still, Tip
    <3>2. QED
      BY <3>1, StillSerial
  <2>2. CASE Exit(p) \/ Crash(p) \/ CrashInClock(p)
    <3>1. Replace(p)
      BY <2>2 DEF Exit, Crash, CrashInClock
    <3>2. UNCHANGED <<dag, local>> /\ Tip(p)' = 0 /\ \A q \in Proc \ {p} : Tip(q)' = Tip(q)
      BY <1>0, <3>1 DEF Replace, refs, ProcShape, Tip
    <3>3. QED
      BY <3>2, SightSerial
  <2>3. QED
    BY <1>1, <2>1, <2>2 DEF Life
<1>2. ASSUME NEW p \in Proc, Reading(p)
      PROVE  Serial!Next \/ UNCHANGED Serial!vars
  <2>1. CASE Read(p)
    <3>1. UNCHANGED <<dag, local>> /\ Tip(p)' = local /\ \A q \in Proc \ {p} : Tip(q)' = Tip(q)
      BY <1>0, <2>1 DEF Read, Goto, refs, handle, ProcShape, Tip
    <3>2. QED
      BY <3>1, SightSerial
  <2>2. CASE Witness(p)
    <3>1. Still
      BY <1>0, <2>2, QuietKept DEF Witness, Return, refs, ProcShape, Still, Tip
    <3>2. QED
      BY <3>1, StillSerial
  <2>3. QED
    BY <1>2, <2>1, <2>2 DEF Reading
<1>3. ASSUME NEW p \in Proc, Staging(p) \/ Syncing(p)
      PROVE  Serial!Next \/ UNCHANGED Serial!vars
  <2>1. UNCHANGED <<dag, local, pc, last, base>>
    BY <1>3 DEF Staging, Syncing, New, AppendOp, Fetch, Push, refs, handle
  <2>2. QED
    BY <2>1, QuietKept, StillSerial DEF Still, Tip
<1>4. ASSUME NEW p \in Proc, Committing(p)
      PROVE  Serial!Next \/ UNCHANGED Serial!vars
  <2>1. CASE CommitBegin(p) \/ Tick(p) \/ CommitConflict(p)
    <3>1. Still
      BY <1>0, <2>1, QuietKept DEF CommitBegin, Tick, CommitConflict, Return, Continue, Goto,
                                  refs, handle, ProcShape, Still, Tip
    <3>2. QED
      BY <3>1, StillSerial
  <2>2. CASE StoreChunk(p)
    <3>1. /\ Kept /\ UNCHANGED <<local, base>> /\ pc[p] = "store" /\ pc'[p] # "witness"
          /\ \A q \in Proc \ {p} : last'[q] = last[q] /\ pc'[q] = pc[q]
      <4>1. Kept /\ pc'[p] # "witness" /\ last' = [last EXCEPT ![p] = Len(dag) + 1]
        BY <2>2, ChunkStored
      <4>2. \E label : pc' = [pc EXCEPT ![p] = label]
        BY <2>2 DEF StoreChunk, Goto
      <4>3. QED
        BY <1>0, <2>2, <4>1, <4>2 DEF StoreChunk, refs, handle, ProcShape
    <3>2. Still
      BY <3>1 DEF Still, Tip
    <3>3. QED
      BY <3>2, StillSerial
  <2>3. QED
    BY <1>0, <1>4, <2>1, <2>2, WriteSerial DEF Committing
<1>5. ASSUME NEW p \in Proc, Merging(p)
      PROVE  Serial!Next \/ UNCHANGED Serial!vars
  <2>1. CASE \/ MergeBegin(p) \/ MergeWitness(p) \/ MergeExist(p) \/ MergeCopy(p)
             \/ MergeLocal(p) \/ MergeRemote(p) \/ MergeListLocal(p) \/ MergeListRemote(p)
             \/ MergeRead(p) \/ MergeWitnessLocal(p) \/ MergeTick(p)
    <3>1. /\ UNCHANGED <<dag, local, base>> /\ pc[p] # "witness"
          /\ \E label : label # "witness" /\ pc' = [pc EXCEPT ![p] = label]
      BY <2>1 DEF MergeBegin, MergeWitness, MergeExist, MergeCopy, MergeLocal, MergeRemote,
                  MergeListLocal, MergeListRemote, MergeRead, MergeWitnessLocal, MergeTick,
                  Return, Goto, Continue, refs, handle
    <3>2. \A q \in Proc \ {p} : last'[q] = last[q]
      BY <1>0, <2>1
         DEF MergeBegin, MergeWitness, MergeExist, MergeCopy, MergeLocal, MergeRemote,
             MergeListLocal, MergeListRemote, MergeRead, MergeWitnessLocal, MergeTick,
             Return, Continue, ProcShape
    <3>3. Still
      BY <1>0, <3>1, <3>2, QuietKept DEF ProcShape, Still, Tip
    <3>4. QED
      BY <3>3, StillSerial
  <2>2. CASE MergeStore(p)
    <3>1. Kept
      BY <2>2, MergeStored
    <3>2. Still
      BY <1>0, <2>2, <3>1 DEF MergeStore, Goto, refs, handle, ProcShape, Still, Tip
    <3>3. QED
      BY <3>2, StillSerial
  <2>3. QED
    BY <1>0, <1>5, <2>1, <2>2, JoinSerial DEF Merging
<1>6. ASSUME NEW o \in Op, Peer(o)
      PROVE  Serial!Next \/ UNCHANGED Serial!vars
  <2>1. Still
    BY <1>6, PeerStored DEF Peer, handle, Still, Tip
  <2>2. QED
    BY <2>1, StillSerial
<1>7. CASE UNCHANGED vars
  BY <1>7, QuietKept, StillSerial DEF vars, refs, handle, Still, Tip
<1>8. QED
  BY <1>1, <1>2, <1>3, <1>4, <1>5, <1>6, <1>7, RemovingSerial DEF Next

(* The storage of an entity implements the serial one: a Commit succeeds    *)
(* only on top of exactly the operations that its process has read, and     *)
(* merges only add, so competing writes serialize or conflict.              *)
THEOREM Serializes == Steady => (Spec => IsSerial)
<1> SUFFICES ASSUME Steady
             PROVE  Spec => IsSerial
  OBVIOUS
<1>1. Spec => []Safe
  BY Safety
<1>2. Safe /\ [Next]_vars => [Serial!Next]_(Serial!vars)
  BY StepSerial DEF Safe
<1>3. QED
  BY <1>1, <1>2, InitSerial, PTL DEF Spec, IsSerial, Serial!Spec

------------------------------------------------------------------------------
(***************************************************************************)
(* Edit times grow along the commits while one process at most pulls,      *)
(* whatever is removed beside it and whatever happens to the clock file.   *)
(***************************************************************************)

(* A commit is later than all it contains.                                  *)
Timed == \A c \in 1..Len(dag) : \A d \in dag[c].hist : d # c => dag[d].edit < dag[c].edit

(* The clock of p has been told of the edit time of c.                      *)
Knows(p, c) == EditTime(dag, c) <= editMem[p]

(* A process knows the commit it builds on, and the last it has built.      *)
Builds(p) ==
  /\ Knows(p, base[p])
  /\ pc[p] \in Building => Below(base[p], last[p])
  /\ pc[p] \in {"tick", "update"} => Knows(p, last[p])
  /\ pc[p] = "store" => EditTime(dag, last[p]) < editMem[p]

(* The local reference is gone, or contains c.                              *)
Caught(c) == local = 0 \/ c \in History(dag, local)

(* While p merges, the tracking reference is the one it has witnessed or    *)
(* was pushed from this clone; what was pushed ends the merge as scenario   *)
(* 3. The local reference only advances, until it is removed for good.      *)
Merges(p) ==
  /\ pc[p] \in MergeLabel => p \in Puller
  /\ pc[p] = "mWitness" => tracking \in {0, last[p]} \/ Caught(tracking)
  /\ pc[p] \in {"mExist", "mLocal", "mRemote"} =>
       tracking = 0 \/ Knows(p, tracking) \/ Caught(tracking)
  /\ pc[p] \in HasLocal => local = 0 \/ Below(localCommit[p], local)
  /\ pc[p] = "mListLocal" => Knows(p, remoteCommit[p]) \/ Caught(remoteCommit[p])
  /\ pc[p] \in {"mListRemote", "mForward", "mRead", "mWitnessLocal", "mTick"} =>
       Knows(p, remoteCommit[p])
  /\ pc[p] = "mWitnessLocal" => Below(localCommit[p], last[p])
  /\ pc[p] = "mTick" => Knows(p, localCommit[p])
  /\ pc[p] = "mStore" =>
       /\ EditTime(dag, localCommit[p]) < editMem[p]
       /\ EditTime(dag, remoteCommit[p]) < editMem[p]

Times == Timed /\ \A p \in Proc : Builds(p) /\ Merges(p)

(* What contains a commit is not older.                                     *)
LEMMA TimedFacts ==
  ASSUME DagShape, Timed
  PROVE  /\ EditTime(dag, 0) = 0
         /\ \A c \in Commit : EditTime(dag, c) \in Nat
         /\ \A c \in Commit : \A d \in History(dag, c) : EditTime(dag, d) <= EditTime(dag, c)
         /\ \A c, d \in Commit : Below(c, d) => EditTime(dag, c) <= EditTime(dag, d)
<1>1. EditTime(dag, 0) = 0
  BY DEF EditTime
<1>2. \A c \in Commit : EditTime(dag, c) \in Nat
  BY EditTimeType
<1>3. ASSUME NEW c \in Commit, NEW d \in History(dag, c)
      PROVE  EditTime(dag, d) <= EditTime(dag, c)
  <2>1. c \in 1..Len(dag) /\ d \in dag[c].hist /\ d \in Commit /\ d # 0 /\ c # 0
    BY <1>3, HistoryFacts DEF History, Commit
  <2>2. EditTime(dag, c) = dag[c].edit /\ EditTime(dag, d) = dag[d].edit
    BY <2>1 DEF EditTime
  <2>3. EditTime(dag, c) \in Nat /\ EditTime(dag, d) \in Nat
    BY <1>2, <2>1
  <2>4. d = c \/ dag[d].edit < dag[c].edit
    BY <2>1 DEF Timed
  <2>5. QED
    BY <2>2, <2>3, <2>4
<1>4. ASSUME NEW c \in Commit, NEW d \in Commit, Below(c, d)
      PROVE  EditTime(dag, c) <= EditTime(dag, d)
  <2>0. EditTime(dag, d) \in Nat
    BY <1>2
  <2>1. CASE c = 0
    <3>1. EditTime(dag, c) = 0
      BY <2>1, <1>1
    <3>2. QED
      BY <3>1, <2>0
  <2>2. CASE c # 0
    <3>1. c \in History(dag, d)
      BY <2>2, <1>4, HistoryFacts DEF Below
    <3>2. QED
      BY <3>1, <1>3
  <2>3. QED
    BY <2>1, <2>2
<1>5. QED
  BY <1>1, <1>2, <1>3, <1>4

(* The commits stored so far keep their times.                              *)
KeptTimes == Kept /\ \A c \in Commit : EditTime(dag', c) = EditTime(dag, c)

LEMMA QuietTimes ==
  ASSUME UNCHANGED dag, Timed
  PROVE  KeptTimes /\ Timed'
  BY QuietKept DEF KeptTimes, Timed

LEMMA StoreTimes ==
  ASSUME DagShape, Timed, NEW parents \in Parents,
         NEW ops \in SUBSET Op, NEW edit \in Nat, NEW root \in BOOLEAN,
         Store(Pack(dag, parents, ops, edit, root)),
         \A c \in Elements(parents) : EditTime(dag, c) < edit
  PROVE  KeptTimes /\ Timed' /\ EditTime(dag', Len(dag) + 1) = edit
<1> DEFINE n == Len(dag) + 1
<1>1. /\ Len(dag) \in Nat /\ Len(dag') = n
      /\ \A c \in 1..Len(dag) : dag'[c] = dag[c]
      /\ dag'[n] = Pack(dag, parents, ops, edit, root)
  BY StoreShape
<1>2. dag'[n].edit = edit /\ dag'[n].hist = NextHist(parents)
  BY <1>1, NewPack
<1>3. Elements(parents) \subseteq 1..Len(dag)
  BY <1>1, ParentsType
<1>4. Kept
  BY StoreKept
<1>5. \A c \in Commit : EditTime(dag', c) = EditTime(dag, c)
  BY <1>1 DEF EditTime, Commit
<1>6. n # 0 /\ EditTime(dag', n) = edit
  BY <1>1, <1>2 DEF EditTime
<1>7. \A c \in 1..Len(dag) : dag[c].hist \subseteq 1..Len(dag)
  BY <1>1 DEF DagShape, Reachable
<1>8. ASSUME NEW d \in NextHist(parents), d # n
      PROVE  dag'[d].edit < edit
  <2>1. PICK c \in Elements(parents) : d \in dag[c].hist
    BY <1>8 DEF NextHist
  <2>2. c \in 1..Len(dag) /\ d \in 1..Len(dag) /\ c \in Commit /\ d \in Commit
    BY <2>1, <1>1, <1>3, <1>7 DEF Commit
  <2>3. d \in History(dag, c)
    BY <2>1, <2>2, <1>1 DEF History
  <2>4. /\ EditTime(dag, d) <= EditTime(dag, c)
        /\ EditTime(dag, d) \in Nat /\ EditTime(dag, c) \in Nat
    BY <2>2, <2>3, TimedFacts
  <2>5. EditTime(dag, d) = dag'[d].edit
    BY <2>2, <1>1 DEF EditTime
  <2>6. EditTime(dag, c) < edit
    BY <2>1
  <2>7. QED
    BY <2>4, <2>5, <2>6
<1>9. ASSUME NEW c \in 1..Len(dag), NEW d \in dag'[c].hist, d # c
      PROVE  dag'[d].edit < dag'[c].edit
  BY <1>9, <1>1, <1>7 DEF Timed
<1>10. Timed'
  <2>1. \A c \in 1..Len(dag') : c = n \/ c \in 1..Len(dag)
    BY <1>1
  <2>2. QED
    BY <2>1, <1>2, <1>8, <1>9 DEF Timed
<1>11. QED
  BY <1>4, <1>5, <1>6, <1>10 DEF KeptTimes

(* The clock of a process never goes back while it lives, and no other      *)
(* process touches it.                                                      *)
LEMMA ClockGrows ==
  ASSUME editFile \in Nat, editMem \in [Proc -> Nat], NEW p \in Proc, NEW t \in Nat
  PROVE  /\ EditClock!Open(p) => editMem'[p] >= editMem[p]
         /\ EditClock!Increment(p) => editMem'[p] > editMem[p]
         /\ EditClock!Witness(p, t) => editMem'[p] >= editMem[p] /\ editMem'[p] >= t
         /\ \/ EditClock!Open(p) \/ EditClock!Increment(p) \/ EditClock!Witness(p, t)
            \/ EditClock!Stop(p) \/ EditClock!Tear(p)
            => \A q \in Proc \ {p} : editMem'[q] = editMem[q]
  BY DEF EditClock!Open, EditClock!Increment, EditClock!Witness, EditClock!Stop,
         EditClock!Tear, EditClock!Set, EditClock!Current, EditClock!Later

------------------------------------------------------------------------------
(* What a step is to the other processes.                                   *)

(* To one that merges, the local reference advances or is removed, and the  *)
(* tracking reference is removed or follows the local one.                  *)
Drifts ==
  /\ \/ local' \in {0, local}
     \/ local # 0 /\ History(dag', local) \subseteq History(dag', local')
  /\ \/ tracking' \in {0, tracking}
     \/ local # 0 /\ local' = local /\ tracking' = local

LEMMA OthersTimes ==
  ASSUME Shape, NEW p \in Proc, Builds(p), Merges(p), Untouched(p),
         editMem'[p] = editMem[p], KeptTimes, pc[p] \in MergeLabel => Drifts
  PROVE  (Builds(p) /\ Merges(p))'
<1>1. /\ local \in Commit /\ tracking \in Commit
      /\ base[p] \in Commit /\ last[p] \in Commit
      /\ localCommit[p] \in Commit /\ remoteCommit[p] \in Commit
  BY DEF Shape, RefShape, ProcShape
<1>2. \A c \in Commit : /\ History(dag', c) = History(dag, c)
                        /\ EditTime(dag', c) = EditTime(dag, c)
  BY DEF KeptTimes, Kept
<1>3. Builds(p)'
  BY <1>1, <1>2 DEF Builds, Untouched, Knows, Below
<1>4. Merges(p)'
  <2>1. CASE pc[p] \notin MergeLabel
    BY <2>1 DEF Merges, Untouched, MergeLabel, HasLocal
  <2>2. CASE pc[p] \in MergeLabel
    <3>1. Drifts
      BY <2>2
    <3>2. \A c \in Commit : Caught(c) => Caught(c)'
      BY <3>1, <1>1, <1>2 DEF Drifts, Caught
    <3>3. tracking' \in {0, tracking} \/ Caught(tracking)'
      <4>1. local # 0 => local \in History(dag, local)
        BY <1>1, HistoryFacts DEF Shape
      <4>2. QED
        BY <4>1, <3>1, <1>1, <1>2 DEF Drifts, Caught
    <3>4. \A c \in Commit : local = 0 \/ Below(c, local) => local' = 0 \/ Below(c, local)'
      BY <3>1, <1>1, <1>2 DEF Drifts, Below
    <3>5. \A c \in Commit : Knows(p, c) => Knows(p, c)'
      BY <1>2 DEF Knows
    <3>6. /\ pc'[p] = "mWitness" => tracking' \in {0, last'[p]} \/ Caught(tracking)'
          /\ pc'[p] \in {"mExist", "mLocal", "mRemote"} =>
               tracking' = 0 \/ Knows(p, tracking)' \/ Caught(tracking)'
      BY <3>2, <3>3, <3>5, <1>1 DEF Merges, Untouched
    <3>7. /\ pc'[p] \in HasLocal => local' = 0 \/ Below(localCommit[p], local)'
          /\ pc'[p] = "mListLocal" => Knows(p, remoteCommit[p])' \/ Caught(remoteCommit[p])'
      BY <3>2, <3>4, <3>5, <1>1 DEF Merges, Untouched
    <3>8. QED
      BY <3>5, <3>6, <3>7, <2>2, <1>1, <1>2 DEF Merges, Untouched, Below, Knows
  <2>3. QED
    BY <2>1, <2>2
<1>5. QED
  BY <1>3, <1>4
LEMMA StepOthers ==
  ASSUME Shape, Newborn, Times, OnePuller, NEW q \in Proc, NEW p \in Proc, p # q,
         \/ Life(q) \/ Reading(q) \/ Staging(q) \/ Committing(q)
         \/ Merging(q) \/ Syncing(q) \/ Removing(q)
  PROVE  /\ Untouched(p) /\ editMem'[p] = editMem[p]
         /\ pc[p] \in MergeLabel => Drifts
<1>1. /\ DagShape /\ editFile \in Nat /\ editMem \in [Proc -> Nat]
      /\ last \in [Proc -> Commit] /\ local \in Commit /\ base \in [Proc -> Commit]
      /\ \A t \in Proc : EditTime(dag, last[t]) \in Nat
  BY EditTimeType DEF Shape, ClockShape, RefShape, ProcShape
<1>2. 0 \in Nat
  OBVIOUS
<1>3. /\ EditClock!Open(q) => editMem'[p] = editMem[p]
      /\ EditClock!Increment(q) => editMem'[p] = editMem[p]
      /\ EditClock!Stop(q) => editMem'[p] = editMem[p]
      /\ EditClock!Tear(q) => editMem'[p] = editMem[p]
      /\ \A t \in Nat : EditClock!Witness(q, t) => editMem'[p] = editMem[p]
  BY <1>1, <1>2, ClockGrows
<1> USE DEF Untouched, handle, edits, merging, refs
<1>4. CASE Life(q)
  <2>1. Untouched(p) /\ editMem'[p] = editMem[p] /\ UNCHANGED refs
    BY <1>4, <1>1, <1>3 DEF Shape, ProcShape, Life, OpenClock, OpenWithoutClock, LoadClock,
       Exit, Crash, CrashInClock, Replace, Goto, Return
  <2>2. QED
    BY <2>1 DEF Drifts
<1>5. CASE Reading(q) \/ Staging(q)
  <2>1. Untouched(p) /\ editMem'[p] = editMem[p] /\ UNCHANGED refs
    BY <1>5, <1>1, <1>3 DEF Shape, ProcShape, Reading, Read, Witness, Staging, New, AppendOp, Goto, Return
  <2>2. QED
    BY <2>1 DEF Drifts
<1>6. CASE Committing(q) /\ ~ CommitDone(q)
  <2>1. Untouched(p) /\ editMem'[p] = editMem[p] /\ UNCHANGED refs
    BY <1>6, <1>1, <1>3 DEF Shape, ProcShape, Committing, CommitBegin, Tick, StoreChunk, CommitConflict,
       Goto, Return, Continue
  <2>2. QED
    BY <2>1 DEF Drifts
<1>7. CASE CommitDone(q)
  <2>1. /\ Untouched(p) /\ editMem'[p] = editMem[p]
        /\ UNCHANGED <<dag, tracking>> /\ local = base[q] /\ local' = last[q] /\ pc[q] = "update"
    BY <1>7, <1>1 DEF Shape, ProcShape, CommitDone, Return
  <2>2. ASSUME pc[p] \in MergeLabel
        PROVE  Drifts
    <3>1. ~ Young
      BY <2>2 DEF Newborn, MergeLabel, HasLocal, Calm, Building
    <3>2. base[q] # 0
      BY <2>1, <3>1 DEF Newborn, Young, Unborn, Building
    <3>3. Below(base[q], last[q])
      BY <2>1 DEF Times, Builds, Building
    <3>4. QED
      BY <2>1, <3>2, <3>3 DEF Drifts, Below
  <2>3. QED
    BY <2>1, <2>2
<1>8. CASE Merging(q)
  <2>1. /\ Untouched(p) /\ editMem'[p] = editMem[p]
    BY <1>8, <1>1, <1>3
       DEF Shape, ProcShape, Merging, MergeBegin, MergeWitness, MergeExist,
         MergeCopy, MergeCreate, MergeLocal, MergeRemote, MergeListLocal, MergeListRemote,
         MergeForward, MergeRead, MergeWitnessLocal, MergeTick, MergeStore, MergeUpdate,
         MergeUpdateRef, Goto, Return, Continue
  <2>2. q \in Puller
    BY <1>8 DEF Times, Merges, MergeLabel, HasLocal, Merging, MergeBegin, MergeWitness, MergeExist,
         MergeCopy, MergeCreate, MergeLocal, MergeRemote, MergeListLocal, MergeListRemote,
         MergeForward, MergeRead, MergeWitnessLocal, MergeTick, MergeStore, MergeUpdate
  <2>3. pc[p] \notin MergeLabel
    BY <2>2 DEF Times, Merges, OnePuller
  <2>4. QED
    BY <2>1, <2>3
<1>9. CASE Fetch(q)
  <2>1. q \in Puller /\ Untouched(p) /\ editMem'[p] = editMem[p]
    BY <1>9 DEF Fetch
  <2>2. pc[p] \notin MergeLabel
    BY <2>1 DEF Times, Merges, OnePuller
  <2>3. QED
    BY <2>1, <2>2
<1>10. CASE Push(q)
  BY <1>10 DEF Push, Drifts
<1>11. CASE Removing(q)
  <2>1. Untouched(p) /\ editMem'[p] = editMem[p]
    BY <1>11 DEF Shape, ProcShape, Removing, RemoveBegin, RemoveLocal, RemoveResolveTracking, RemoveTracking,
       Goto, Return, Continue
  <2>2. Drifts
    BY <1>11 DEF Drifts, Removing, RemoveBegin, RemoveLocal, RemoveResolveTracking, RemoveTracking
  <2>3. QED
    BY <2>1, <2>2
<1>12. QED
  BY <1>4, <1>5, <1>6, <1>7, <1>8, <1>9, <1>10, <1>11 DEF Committing, Syncing
------------------------------------------------------------------------------
(* What a step is to the process that takes it.                             *)

LEMMA ReturnTimes ==
  ASSUME Shape, Times, NEW p \in Proc, UNCHANGED dag,
         base'[p] \in {0, base[p]}, editMem' \in [Proc -> Nat],
         base'[p] = 0 \/ editMem'[p] >= editMem[p],
         pc'[p] \notin Building \union MergeLabel
  PROVE  (Builds(p) /\ Merges(p))'
<1>1. Builds(p)'
  <2>1. /\ EditTime(dag, 0) = 0 /\ EditTime(dag, base[p]) \in Nat
        /\ editMem[p] \in Nat /\ editMem'[p] \in Nat
    BY TimedFacts DEF Times, Shape, ProcShape, ClockShape
  <2>2. EditTime(dag, base[p]) <= editMem[p]
    BY DEF Times, Builds, Knows
  <2>3. EditTime(dag, base'[p]) <= editMem'[p]
    BY <2>1, <2>2
  <2>4. QED
    BY <2>3 DEF Builds, Building, Knows
<1>2. Merges(p)'
  BY DEF Merges, MergeLabel, HasLocal
<1>3. QED
  BY <1>1, <1>2

LEMMA ClockTimes ==
  ASSUME Shape, NEW p \in Proc
  PROVE  /\ EditClock!Open(p) => editMem' \in [Proc -> Nat] /\ editMem'[p] >= editMem[p]
         /\ EditClock!Increment(p) => editMem' \in [Proc -> Nat] /\ editMem'[p] > editMem[p]
         /\ \A c \in Commit : EditClock!Witness(p, EditTime(dag, c)) =>
              /\ editMem' \in [Proc -> Nat]
              /\ editMem'[p] >= editMem[p] /\ editMem'[p] >= EditTime(dag, c)
         /\ EditClock!Stop(p) \/ EditClock!Tear(p) => editMem' \in [Proc -> Nat]
<1>1. editFile \in Nat /\ editMem \in [Proc -> Nat] /\ DagShape /\ 0 \in Nat
  BY DEF Shape, ClockShape
<1>2. \A c \in Commit : EditTime(dag, c) \in Nat
  BY <1>1, EditTimeType
<1>3. QED
  BY <1>1, <1>2, ClockTypes, ClockGrows

LEMMA LifeTimes ==
  ASSUME Shape, Times, NEW p \in Proc,
         Life(p) \/ Reading(p) \/ Staging(p) \/ Syncing(p) \/ Removing(p)
  PROVE  (Builds(p) /\ Merges(p))'
<1>1. /\ editMem \in [Proc -> Nat] /\ editMem[p] >= editMem[p]
      /\ pc \in [Proc -> Label] /\ base \in [Proc -> Commit] /\ last \in [Proc -> Commit]
  BY DEF Shape, ClockShape, ProcShape
<1> USE DEF handle, edits, Building, MergeLabel, HasLocal
<1>2. CASE OpenClock(p) \/ OpenWithoutClock(p) \/ LoadClock(p)
  BY <1>2, <1>1, ClockTimes, ReturnTimes
     DEF OpenClock, OpenWithoutClock, LoadClock, Goto, Return
<1>3. CASE Exit(p) \/ Crash(p) \/ CrashInClock(p)
  BY <1>3, <1>1, ClockTimes, ReturnTimes DEF Exit, Crash, CrashInClock, Replace
<1>4. CASE Read(p)
  BY <1>4, <1>1, ReturnTimes DEF Read, Goto
<1>5. CASE Witness(p)
  <2>1. /\ pc'[p] = "idle" /\ base'[p] = last[p] /\ UNCHANGED dag
        /\ editMem' \in [Proc -> Nat] /\ editMem'[p] >= EditTime(dag, last[p])
    BY <1>5, <1>1, ClockTimes DEF Witness, Return
  <2>2. EditTime(dag, last[p]) \in Nat
    BY <1>1, EditTimeType DEF Shape
  <2>3. QED
    BY <2>1, <2>2 DEF Builds, Merges, Knows
<1>6. CASE Staging(p) \/ Syncing(p)
  <2>1. pc'[p] = "idle" /\ UNCHANGED <<dag, base, edits>>
    BY <1>6 DEF Staging, New, AppendOp, Syncing, Fetch, Push
  <2>2. QED
    BY <2>1, <1>1, ReturnTimes
<1>7. CASE Removing(p)
  BY <1>7, <1>1, ReturnTimes
     DEF Removing, RemoveBegin, RemoveLocal, RemoveResolveTracking, RemoveTracking,
         Goto, Return, Continue
<1>8. QED
  BY <1>2, <1>3, <1>4, <1>5, <1>6, <1>7 DEF Life, Reading

LEMMA CommitTimes ==
  ASSUME Shape, Times, NEW p \in Proc, Committing(p), ~ StoreChunk(p)
  PROVE  (Builds(p) /\ Merges(p))'
<1>1. /\ editMem \in [Proc -> Nat] /\ editMem[p] >= editMem[p]
      /\ pc \in [Proc -> Label] /\ base \in [Proc -> Commit] /\ last \in [Proc -> Commit]
  BY DEF Shape, ClockShape, ProcShape
<1>2. EditTime(dag, last[p]) \in Nat /\ EditTime(dag, base[p]) \in Nat
  BY <1>1, EditTimeType DEF Shape
<1>3. Builds(p)
  BY DEF Times
<1> USE DEF handle, edits, Building, MergeLabel, HasLocal
<1>4. CASE CommitBegin(p)
  BY <1>4, <1>1, <1>3 DEF CommitBegin, Goto, Builds, Merges, Knows, Below
<1>5. CASE Tick(p)
  <2>1. /\ pc[p] = "tick" /\ pc'[p] = "store" /\ UNCHANGED <<dag, base, last>>
        /\ editMem' \in [Proc -> Nat] /\ editMem'[p] > editMem[p]
    BY <1>5, <1>1, ClockTimes DEF Tick, Goto, Continue
  <2>2. QED
    BY <2>1, <1>1, <1>2, <1>3 DEF Builds, Merges, Knows, Below
<1>6. CASE CommitDone(p)
  BY <1>6, <1>1, <1>3 DEF CommitDone, Return, Builds, Merges, Knows
<1>7. CASE CommitConflict(p)
  BY <1>7, <1>1, ReturnTimes DEF CommitConflict, Return
<1>8. QED
  BY <1>4, <1>5, <1>6, <1>7 DEF Committing

LEMMA MergeTimes ==
  ASSUME Shape, Times, NEW p \in Proc, Merging(p), ~ MergeStore(p)
  PROVE  (Builds(p) /\ Merges(p))'
<1>1. /\ editMem \in [Proc -> Nat] /\ editMem[p] >= editMem[p]
      /\ pc \in [Proc -> Label] /\ base \in [Proc -> Commit] /\ last \in [Proc -> Commit]
      /\ localCommit \in [Proc -> Commit] /\ remoteCommit \in [Proc -> Commit]
      /\ local \in Commit /\ tracking \in Commit
  BY DEF Shape, ClockShape, RefShape, ProcShape
<1>2. \A c \in Commit : EditTime(dag, c) \in Nat
  BY EditTimeType DEF Shape
<1>3. Builds(p) /\ Merges(p) /\ EditTime(dag, base[p]) <= editMem[p]
  BY DEF Times, Builds, Knows
<1> USE DEF handle, edits, merging, HasLocal, MergeLabel
(* The call ends, or goes on with what it holds and the clock it had.      *)
<1>4. ASSUME pc'[p] = "idle", UNCHANGED <<dag, base, editMem>>
      PROVE  (Builds(p) /\ Merges(p))'
  BY <1>4, <1>1, ReturnTimes DEF Building
<1>5. ASSUME UNCHANGED <<dag, base, editMem>>, pc'[p] \notin Building, Merges(p)'
      PROVE  (Builds(p) /\ Merges(p))'
  BY <1>5, <1>3 DEF Builds, Knows, Building
<1>6. ASSUME UNCHANGED <<dag, base>>, pc'[p] \notin Building, Merges(p)',
             editMem' \in [Proc -> Nat], editMem'[p] >= editMem[p]
      PROVE  (Builds(p) /\ Merges(p))'
  BY <1>1, <1>2, <1>3, <1>6 DEF Builds, Knows, Building
<1>7. CASE MergeBegin(p)
  <2>1. /\ pc'[p] = "mWitness" /\ last'[p] = tracking /\ p \in Puller
        /\ UNCHANGED <<dag, refs, editMem, base>>
    BY <1>7, <1>1 DEF MergeBegin, Goto
  <2>2. Merges(p)'
    BY <2>1 DEF Merges, refs
  <2>3. QED
    BY <2>1, <2>2, <1>5 DEF Building
<1>8. CASE MergeWitness(p)
  <2>1. /\ pc[p] = "mWitness" /\ pc'[p] = "mExist" /\ UNCHANGED <<dag, base, last, refs>>
        /\ editMem' \in [Proc -> Nat]
        /\ editMem'[p] >= editMem[p] /\ editMem'[p] >= EditTime(dag, last[p])
    BY <1>8, <1>1, ClockTimes DEF MergeWitness, Goto, Continue
  <2>2. Merges(p)'
    BY <2>1, <1>1, <1>2, <1>3 DEF Merges, Knows, Caught, refs
  <2>3. QED
    BY <2>1, <2>2, <1>6 DEF Building
<1>9. CASE MergeExist(p)
  <2>1. Merges(p)'
    BY <1>9, <1>1, <1>3 DEF MergeExist, Goto, Continue, Merges, Knows, Caught, refs
  <2>2. QED
    BY <1>9, <1>1, <2>1, <1>5 DEF MergeExist, Goto, Continue, Building
<1>10. CASE MergeCopy(p)
  <2>1. CASE tracking = 0
    BY <2>1, <1>10, <1>1, <1>4 DEF MergeCopy, Return
  <2>2. CASE tracking # 0
    BY <2>2, <1>10, <1>1, <1>3, <1>5 DEF MergeCopy, Goto, Merges, Building
  <2>3. QED
    BY <2>1, <2>2
<1>11. CASE MergeCreate(p)
  BY <1>11, <1>1, <1>4 DEF MergeCreate, Return
<1>12. CASE MergeLocal(p)
  <2>1. CASE local = 0
    BY <2>1, <1>12, <1>1, <1>4 DEF MergeLocal, Return
  <2>2. CASE local # 0
    <3>1. /\ pc[p] = "mLocal" /\ pc'[p] = "mRemote" /\ localCommit'[p] = local
          /\ UNCHANGED <<dag, refs, editMem, base>>
      BY <2>2, <1>12, <1>1 DEF MergeLocal, Goto
    <3>2. Merges(p)'
      BY <3>1, <1>3 DEF Merges, Knows, Caught, Below, refs
    <3>3. QED
      BY <3>1, <3>2, <1>5 DEF Building
  <2>3. QED
    BY <2>1, <2>2
<1>13. CASE MergeRemote(p)
  <2>1. CASE tracking \in {0, localCommit[p]}
    BY <2>1, <1>13, <1>1, <1>4 DEF MergeRemote, Return
  <2>2. CASE tracking \notin {0, localCommit[p]}
    <3>1. /\ pc[p] = "mRemote" /\ pc'[p] = "mListLocal" /\ remoteCommit'[p] = tracking
          /\ UNCHANGED <<dag, refs, editMem, base, localCommit>>
      BY <2>2, <1>13, <1>1 DEF MergeRemote, Goto
    <3>2. Merges(p)'
      BY <2>2, <3>1, <1>3 DEF Merges, Knows, Caught, Below, refs
    <3>3. QED
      BY <3>1, <3>2, <1>5 DEF Building
  <2>3. QED
    BY <2>1, <2>2
<1>14. CASE MergeListLocal(p)
  <2>1. CASE local = 0 \/ remoteCommit[p] \in History(dag, local)
    BY <2>1, <1>14, <1>1, <1>4 DEF MergeListLocal, Return
  <2>2. CASE ~ (local = 0 \/ remoteCommit[p] \in History(dag, local))
    <3>1. /\ pc[p] = "mListLocal" /\ pc'[p] = "mListRemote"
          /\ UNCHANGED <<dag, refs, editMem, base, merging>>
      BY <2>2, <1>14, <1>1 DEF MergeListLocal, Goto, Continue
    <3>2. Merges(p)'
      BY <2>2, <3>1, <1>3 DEF Merges, Knows, Caught, Below, refs
    <3>3. QED
      BY <3>1, <3>2, <1>5 DEF Building
  <2>3. QED
    BY <2>1, <2>2
<1>15. CASE MergeListRemote(p)
  <2>1. CASE tracking = 0
    BY <2>1, <1>15, <1>1, <1>4 DEF MergeListRemote, Return
  <2>2. CASE tracking # 0
    <3>1. /\ pc[p] = "mListRemote" /\ pc'[p] \in {"mForward", "mRead"}
          /\ UNCHANGED <<dag, refs, editMem, base, merging>>
      BY <2>2, <1>15, <1>1 DEF MergeListRemote, Goto, Continue
    <3>2. Merges(p)'
      BY <3>1, <1>3 DEF Merges, Knows, Caught, Below, refs
    <3>3. QED
      BY <3>1, <3>2, <1>5 DEF Building
  <2>3. QED
    BY <2>1, <2>2
<1>16. CASE MergeForward(p) \/ MergeUpdate(p)
  BY <1>16, <1>1, <1>4 DEF MergeForward, MergeUpdate, MergeUpdateRef, Return
<1>17. CASE MergeRead(p)
  <2>1. CASE local # 0 /\ Readable(dag, local)
    <3>1. /\ pc[p] = "mRead" /\ pc'[p] = "mWitnessLocal" /\ last'[p] = local
          /\ UNCHANGED <<dag, refs, editMem, base, merging>>
      BY <2>1, <1>17, <1>1 DEF MergeRead, Goto
    <3>2. Merges(p)'
      BY <2>1, <3>1, <1>3 DEF Merges, Knows, Caught, Below, refs
    <3>3. QED
      BY <3>1, <3>2, <1>5 DEF Building
  <2>2. CASE ~ (local # 0 /\ Readable(dag, local))
    BY <2>2, <1>17, <1>1, <1>4 DEF MergeRead, Return
  <2>3. QED
    BY <2>1, <2>2
<1>18. CASE MergeWitnessLocal(p)
  <2>1. /\ pc[p] = "mWitnessLocal" /\ pc'[p] = "mTick"
        /\ UNCHANGED <<dag, base, last, refs, merging>>
        /\ editMem' \in [Proc -> Nat]
        /\ editMem'[p] >= editMem[p] /\ editMem'[p] >= EditTime(dag, last[p])
    BY <1>18, <1>1, ClockTimes DEF MergeWitnessLocal, Goto, Continue
  <2>2. /\ Below(localCommit[p], last[p]) /\ Knows(p, remoteCommit[p])
        /\ p \in Puller /\ (local = 0 \/ Below(localCommit[p], local))
    BY <2>1, <1>3 DEF Merges
  <2>3. EditTime(dag, localCommit[p]) <= EditTime(dag, last[p])
    BY <2>2, <1>1, TimedFacts DEF Times, Shape
  <2>4. /\ EditTime(dag, localCommit[p]) <= editMem'[p]
        /\ EditTime(dag, remoteCommit[p]) <= editMem'[p]
    BY <2>1, <2>2, <2>3, <1>1, <1>2 DEF Knows
  <2>5. Merges(p)'
    BY <2>1, <2>2, <2>4 DEF Merges, Knows, Below, refs
  <2>6. QED
    BY <2>1, <2>5, <1>6 DEF Building
<1>19. CASE MergeTick(p)
  <2>1. /\ pc[p] = "mTick" /\ pc'[p] = "mStore"
        /\ UNCHANGED <<dag, base, last, refs, merging>>
        /\ editMem' \in [Proc -> Nat] /\ editMem'[p] > editMem[p]
    BY <1>19, <1>1, ClockTimes DEF MergeTick, Goto, Continue
  <2>2. /\ Knows(p, localCommit[p]) /\ Knows(p, remoteCommit[p])
        /\ p \in Puller /\ (local = 0 \/ Below(localCommit[p], local))
    BY <2>1, <1>3 DEF Merges
  <2>3. /\ EditTime(dag, localCommit[p]) < editMem'[p]
        /\ EditTime(dag, remoteCommit[p]) < editMem'[p]
    BY <2>1, <2>2, <1>1, <1>2 DEF Knows
  <2>4. Merges(p)'
    BY <2>1, <2>2, <2>3 DEF Merges, Below, refs
  <2>5. editMem'[p] >= editMem[p]
    BY <2>1, <1>1
  <2>6. QED
    BY <2>1, <2>4, <2>5, <1>6 DEF Building
<1>20. QED
  BY <1>7, <1>8, <1>9, <1>10, <1>11, <1>12, <1>13, <1>14, <1>15, <1>16, <1>17, <1>18, <1>19
     DEF Merging
------------------------------------------------------------------------------
(* The commits that are stored, and the theorem.                            *)

LEMMA StoreChunkTimes ==
  ASSUME Shape, Times, NEW p \in Proc, StoreChunk(p)
  PROVE  KeptTimes /\ Timed' /\ (Builds(p) /\ Merges(p))'
<1>0. DagShape /\ Len(dag) \in Nat
  BY DEF Shape, DagShape
<1>1. /\ DagShape /\ 0 \in Commit /\ Len(dag) \in Nat
      /\ editMem \in [Proc -> Nat] /\ pc \in [Proc -> Label]
      /\ base[p] \in Commit /\ last \in [Proc -> Commit] /\ pending[p] \in Seq(Op)
  BY <1>0, HistoryFacts DEF Shape, ClockShape, ProcShape
<1> DEFINE parents == IF last[p] = 0 THEN <<>> ELSE <<last[p]>>
           new == Len(dag) + 1
<1>2. PICK n \in 1..Len(pending[p]) :
        Store(Pack(dag, parents, {pending[p][i] : i \in 1..n}, editMem[p], last[p] = 0))
  BY DEF StoreChunk
<1>3. /\ pc[p] = "store" /\ pc'[p] \in {"update", "tick"} /\ last'[p] = new
      /\ UNCHANGED <<editMem, base>>
  BY <1>1 DEF StoreChunk, Goto, edits, handle
<1>4. parents \in Parents /\ (last[p] # 0 => Elements(parents) = {last[p]})
  BY <1>1 DEF Parents, Commit, Elements
<1>5. last[p] = 0 => Elements(parents) = {}
  BY DEF Elements
<1>6. {pending[p][i] : i \in 1..n} \in SUBSET Op /\ editMem[p] \in Nat
  BY <1>1, <1>2
<1>7. \A c \in Elements(parents) : EditTime(dag, c) < editMem[p]
  BY <1>3, <1>4, <1>5 DEF Times, Builds
<1> HIDE DEF parents
<1>8. /\ KeptTimes /\ Timed' /\ EditTime(dag', new) = editMem[p]
      /\ \A x : x \in History(dag', new) <=>
           x = new \/ \E c \in Elements(parents) : x \in History(dag, c)
  BY <1>1, <1>2, <1>4, <1>6, <1>7, StoreTimes, StoreKept DEF Times
<1> HIDE DEF new
<1>9. Below(base[p], last[p]) /\ Knows(p, base[p])
  BY <1>3 DEF Times, Builds, Building
<1>10. History(dag, base[p]) \subseteq History(dag', new)
  BY <1>4, <1>5, <1>8, <1>9, <1>1, HistoryFacts DEF Below
<1>11. History(dag', base[p]) = History(dag, base[p]) /\ EditTime(dag', base[p]) = EditTime(dag, base[p])
  BY <1>1, <1>8 DEF KeptTimes, Kept
<1>12. (Builds(p) /\ Merges(p))'
  BY <1>3, <1>6, <1>8, <1>9, <1>10, <1>11
     DEF Builds, Merges, Knows, Below, Building, MergeLabel, HasLocal
<1>13. QED
  BY <1>8, <1>12

LEMMA MergeStoreTimes ==
  ASSUME Shape, Times, NEW p \in Proc, MergeStore(p)
  PROVE  KeptTimes /\ Timed' /\ (Builds(p) /\ Merges(p))'
<1>0. DagShape /\ Len(dag) \in Nat
  BY DEF Shape, DagShape
<1>1. /\ DagShape /\ Len(dag) \in Nat /\ editMem[p] \in Nat
      /\ pc \in [Proc -> Label] /\ base[p] \in Commit
      /\ local \in Commit /\ localCommit[p] \in Commit /\ remoteCommit[p] \in Commit
  BY <1>0 DEF Shape, ClockShape, RefShape, ProcShape
<1> DEFINE parents == <<localCommit[p], remoteCommit[p]>>
<1>2. /\ pc[p] = "mStore" /\ pc'[p] = "mUpdate"
      /\ Store(Pack(dag, parents, {}, editMem[p], FALSE))
      /\ UNCHANGED <<editMem, base, local, localCommit>>
  BY <1>1 DEF MergeStore, Goto, edits, handle, refs, merging
<1>3. localCommit[p] # 0 /\ remoteCommit[p] # 0
  BY <1>2 DEF Shape, ProcShape, Resolved, HasLocal, HasRemote
<1>4. parents \in Parents /\ Elements(parents) = {localCommit[p], remoteCommit[p]}
  BY <1>1, <1>3 DEF Parents, Commit, Elements
<1>5. \A c \in Elements(parents) : EditTime(dag, c) < editMem[p]
  BY <1>2, <1>4 DEF Times, Merges
<1> HIDE DEF parents
<1>6. KeptTimes /\ Timed'
  BY <1>1, <1>2, <1>4, <1>5, StoreTimes DEF Times
<1>7. \A c \in Commit : History(dag', c) = History(dag, c) /\ EditTime(dag', c) = EditTime(dag, c)
  BY <1>6 DEF KeptTimes, Kept
<1>8. Knows(p, base[p]) /\ p \in Puller /\ (local = 0 \/ Below(localCommit[p], local))
  BY <1>2 DEF Times, Builds, Merges, MergeLabel, HasLocal
<1>9. (Builds(p) /\ Merges(p))'
  BY <1>1, <1>2, <1>7, <1>8 DEF Builds, Merges, Knows, Below, Building
<1>10. QED
  BY <1>6, <1>9

LEMMA PeerTimes ==
  ASSUME Shape, Times, NEW o \in Op, Peer(o)
  PROVE  KeptTimes /\ Timed'
<1>1. DagShape /\ server \in Commit /\ server # 0
  BY DEF Shape, RefShape, Peer
<1>2. EditTime(dag, server) \in Nat
  BY <1>1, EditTimeType
<1>3. PICK t \in EditTime(dag, server) + 1 .. EditTime(dag, server) + 1 + MaxSkew :
        Store(Pack(dag, <<server>>, {o}, t, FALSE))
  BY DEF Peer
<1>4. t \in Nat /\ EditTime(dag, server) < t
  BY <1>2, <1>3
<1>5. <<server>> \in Parents /\ Elements(<<server>>) = {server}
  BY <1>1 DEF Parents, Commit, Elements
<1>6. QED
  BY <1>1, <1>3, <1>4, <1>5, StoreTimes DEF Times

LEMMA StepTimes == OnePuller /\ Shape /\ Newborn /\ Times /\ [Next]_vars => Times'
<1> SUFFICES ASSUME OnePuller, Shape, Newborn, Times, [Next]_vars
             PROVE  Times'
  OBVIOUS
<1>1. ASSUME NEW q \in Proc,
             \/ Life(q) \/ Reading(q) \/ Staging(q) \/ Committing(q)
             \/ Merging(q) \/ Syncing(q) \/ Removing(q)
      PROVE  Times'
  <2>1. KeptTimes /\ Timed' /\ (Builds(q) /\ Merges(q))'
    <3>1. CASE Life(q) \/ Reading(q) \/ Staging(q) \/ Syncing(q) \/ Removing(q)
      <4>1. UNCHANGED dag
        BY <3>1 DEF Life, OpenClock, OpenWithoutClock, LoadClock, Exit, Crash, CrashInClock, Replace,
           Reading, Read, Witness, Staging, New, AppendOp, Syncing, Fetch, Push, Removing,
           RemoveBegin, RemoveLocal, RemoveResolveTracking, RemoveTracking
      <4>2. QED
        BY <4>1, <3>1, LifeTimes, QuietTimes DEF Times
    <3>2. CASE Committing(q) /\ ~ StoreChunk(q)
      <4>1. UNCHANGED dag
        BY <3>2 DEF Committing, CommitBegin, Tick, CommitDone, CommitConflict
      <4>2. QED
        BY <4>1, <3>2, CommitTimes, QuietTimes DEF Times
    <3>3. CASE Merging(q) /\ ~ MergeStore(q)
      <4>1. UNCHANGED dag
        BY <3>3 DEF Merging, MergeBegin, MergeWitness, MergeExist,
           MergeCopy, MergeCreate, MergeLocal, MergeRemote, MergeListLocal, MergeListRemote,
           MergeForward, MergeRead, MergeWitnessLocal, MergeTick, MergeUpdate, MergeUpdateRef
      <4>2. QED
        BY <4>1, <3>3, MergeTimes, QuietTimes DEF Times
    <3>4. QED
      BY <1>1, <3>1, <3>2, <3>3, StoreChunkTimes, MergeStoreTimes
  <2>2. ASSUME NEW p \in Proc, p # q
        PROVE  (Builds(p) /\ Merges(p))'
    <3>1. /\ Untouched(p) /\ editMem'[p] = editMem[p]
          /\ pc[p] \in MergeLabel => Drifts
      BY <1>1, <2>2, StepOthers
    <3>2. QED
      BY <2>1, <3>1, OthersTimes DEF Times
  <2>3. QED
    BY <2>1, <2>2 DEF Times
<1>2. ASSUME NEW o \in Op, Peer(o)
      PROVE  Times'
  <2>1. KeptTimes /\ Timed'
    BY <1>2, PeerTimes
  <2>2. ASSUME NEW p \in Proc
        PROVE  (Builds(p) /\ Merges(p))'
    <3>1. Untouched(p) /\ editMem'[p] = editMem[p] /\ Drifts
      BY <1>2 DEF Peer, Untouched, handle, merging, edits, Drifts
    <3>2. QED
      BY <2>1, <3>1, OthersTimes DEF Times
  <2>3. QED
    BY <2>1, <2>2 DEF Times
<1>3. CASE UNCHANGED vars
  <2>1. KeptTimes /\ Timed'
    BY <1>3, QuietTimes DEF vars, Times
  <2>2. ASSUME NEW p \in Proc
        PROVE  (Builds(p) /\ Merges(p))'
    <3>1. Untouched(p) /\ editMem'[p] = editMem[p] /\ Drifts
      BY <1>3 DEF vars, refs, Untouched, handle, merging, edits, Drifts
    <3>2. QED
      BY <2>1, <3>1, OthersTimes DEF Times
  <2>3. QED
    BY <2>1, <2>2 DEF Times
<1>4. QED
  BY <1>1, <1>2, <1>3 DEF Next

LEMMA InitTimes == Init => Times
  BY DEF Init, Times, Timed, Builds, Merges, Knows, EditTime, Building, MergeLabel, HasLocal, EditClock!Init

(* While one process at most pulls, every commit has a later edit time than *)
(* its parents - the commits of an edit, whose time comes after what was    *)
(* read, merges, and whatever other clones push - although references are   *)
(* removed, clock files are lost, and processes die at any point.           *)
THEOREM ClocksFollowDag ==
  ASSUME \A p, q \in Puller : p = q
  PROVE  Spec => []ClocksRespectDag
<1>1. OnePuller
  BY DEF OnePuller
<1>2. Shape /\ Times => ClocksRespectDag
  <2> SUFFICES ASSUME Shape, Times, NEW c \in DOMAIN dag, NEW i \in DOMAIN dag[c].parents
               PROVE  dag[dag[c].parents[i]].edit < dag[c].edit
    BY DEF ClocksRespectDag
  <2>1. c \in 1..Len(dag) /\ Len(dag) \in Nat
    BY DEF Shape, DagShape
  <2>2. dag[c].parents[i] \in Elements(dag[c].parents)
    BY DEF Elements
  <2>3. dag[c].parents[i] \in dag[c].hist /\ dag[c].parents[i] # c
    BY <2>1, <2>2 DEF Shape, DagShape, Reachable
  <2>4. QED
    BY <2>1, <2>3 DEF Times, Timed
<1>3. Init => Shape /\ Newborn /\ Times
  BY InitShape, InitNewborn, InitTimes
<1>4. Shape /\ Newborn /\ Times /\ [Next]_vars => (Shape /\ Newborn /\ Times)'
  BY <1>1, StepShape, NewbornStep, StepTimes
<1>5. QED
  BY <1>2, <1>3, <1>4, PTL DEF Spec
==============================================================================
