---------------------------- MODULE SubCache_proofs ----------------------------
(***************************************************************************)
(* Proofs about SubCache, for any goroutines, entities, operations and     *)
(* cache size, with removals and with pulls: types, LruLoaded,             *)
(* AckedDurable and LockProgress.                                          *)
(***************************************************************************)
EXTENDS SubCache, Numbers_proofs, SequenceTheorems, TLAPS

------------------------------------------------------------------------------
(* The inductive invariant.                                                *)

(* TypeOK but for the heap.                                                *)
RefTypes ==
  /\ stored \in [Entity -> SUBSET Commit] /\ remote \in [Entity -> SUBSET Commit]
  /\ fresh \subseteq Commit
  /\ cached \in [Entity -> Instance \union {0}]
  /\ excerpts \in [Entity -> SUBSET Commit]
  /\ index \subseteq Entity
  /\ lru \in Seq(Entity) /\ IsInjective(lru)
  /\ mu \in Thread \union {"free"}
  /\ held \in [Thread -> Instance \union {0}]
  /\ call \in [Thread -> CallRecord]
  /\ todo \subseteq Entity /\ merged \in Seq(Instance)
  /\ acked \in [Entity -> SUBSET Op]
HeapType == inst \in [Instance -> InstanceRecord]

(* An entity is cached as an instance of its own that was not evicted.     *)
CacheSound ==
  \A e \in Entity : cached[e] # 0 =>
    inst[cached[e]].ent = e /\ inst[cached[e]].lock # "evicted"

(* An instance on its way into the cache is not there yet, so that nobody  *)
(* evicts it, and nobody else will put it there.                           *)
Outside(i) == inst[i].lock # "evicted" /\ \A e \in Entity : cached[e] # i
PendingSound ==
  /\ \A t \in Thread : At(t, "insert") =>
       /\ call[t].got # 0 /\ inst[call[t].got].ent = call[t].id
       /\ Outside(call[t].got)
       /\ \A k \in DOMAIN merged : merged[k] # call[t].got
       /\ \A u \in Thread : At(u, "insert") /\ call[u].got = call[t].got => u = t
  /\ \A k \in DOMAIN merged : Outside(merged[k])
  /\ IsInjective(merged)

(* Between two steps only a Commit holds the lock of an instance.          *)
LockShape ==
  /\ \A t \in Thread : At(t, "commit") =>
       call[t].got # 0 /\ inst[call[t].got].lock = t
  /\ \A i \in Instance : inst[i].lock \in Thread =>
       At(inst[i].lock, "commit") /\ call[inst[i].lock].got = i

(* Who holds the subcache lock, and what the calls have found so far.      *)
Inside == {"scan", "lock", "describe"}
CallSound(c) ==
  /\ c.at \in {"scan", "lock"} => IsInjective(c.scan) /\ Range(c.scan) \subseteq Range(lru)
  /\ c.at = "lock" => c.scan # <<>>
  /\ c.at = "describe" => c.view # 0 /\ cached[inst[c.view].ent] = c.view
  /\ c.at \in {"evict", "scan", "lock", "excerpt", "remove"} => c.got # 0
  /\ c.at = "index" => c.view # 0
MutexShape ==
  \A t \in Thread : CallSound(call[t]) /\ (call[t].at \in Inside <=> mu = t)

(* Nothing refers to an entity that nobody has made yet.                   *)
Known(i) == i # 0 => inst[i].ent \notin fresh
KnownShape ==
  /\ \A e \in Entity : Known(cached[e])
  /\ \A t \in Thread : Known(held[t]) /\ Known(call[t].got) /\ Known(call[t].view)
  /\ \A k \in DOMAIN merged : Known(merged[k])
FreshShape ==
  \A e \in fresh \intersect Entity :
    e \notin Existing /\ stored[e] = {} /\ remote[e] = {} /\ excerpts[e] = {}

LruSound == \A e \in Range(lru) : cached[e] # 0

IInv ==
  /\ RefTypes /\ HeapType /\ CacheSound /\ PendingSound /\ LockShape /\ MutexShape
  /\ KnownShape /\ FreshShape /\ LruSound /\ AckedDurable

(* What IInv gives of the properties.                                      *)
LEMMA InvariantIsEnough == IInv => TypeOK /\ LruLoaded /\ AckedDurable
BY DEF IInv, RefTypes, HeapType, TypeOK, LruSound, CacheSound, LruLoaded

LEMMA InvariantGivesProgress == IInv => LockProgress
<1> SUFFICES ASSUME IInv, NEW t \in Thread, mu = t
             PROVE  /\ At(t, "scan") \/ At(t, "lock") \/ At(t, "describe")
                    /\ \A i \in AwaitedBy(t) :
                         /\ i # 0
                         /\ Free(i) \/ \E u \in Thread : inst[i].lock = u /\ At(u, "commit")
  BY DEF LockProgress
<1>1. call[t] \in CallRecord /\ CallSound(call[t]) /\ call[t].at \in Inside
  BY DEF IInv, RefTypes, MutexShape
<1>2. ASSUME NEW i \in Instance, inst[i].lock # "evicted"
      PROVE  Free(i) \/ \E u \in Thread : inst[i].lock = u /\ At(u, "commit")
  <2>1. inst[i] \in InstanceRecord
    BY DEF IInv, HeapType
  <2>2. inst[i].lock \in Thread \/ inst[i].lock = "free"
    BY <1>2, <2>1 DEF InstanceRecord
  <2>3. QED
    BY <2>2 DEF Free, IInv, LockShape
<1>3. ASSUME NEW e \in Entity, cached[e] # 0
      PROVE  cached[e] \in Instance /\ inst[cached[e]].lock # "evicted"
  BY <1>3 DEF IInv, RefTypes, CacheSound
<1>4. ASSUME call[t].at \in {"scan", "lock"}, call[t].scan # <<>>
      PROVE  Head(call[t].scan) \in Entity /\ cached[Head(call[t].scan)] # 0
  <2>1. call[t].scan \in Seq(Entity)
    BY <1>1 DEF CallRecord
  <2>2. Head(call[t].scan) \in Range(call[t].scan) /\ Head(call[t].scan) \in Entity
    BY <1>4, <2>1 DEF Range
  <2>3. QED
    BY <1>1, <1>4, <2>2 DEF CallSound, IInv, LruSound
<1>5. CASE At(t, "scan")
  <2>1. CASE call[t].scan = <<>>
    <3>1. AwaitedBy(t) = {}
      BY <1>5, <2>1 DEF AwaitedBy, At
    <3>2. QED
      BY <1>5, <3>1
  <2>2. CASE call[t].scan # <<>>
    <3>1. AwaitedBy(t) = {cached[Head(call[t].scan)]}
      BY <1>5, <2>2 DEF AwaitedBy, At
    <3>2. QED
      BY <1>2, <1>3, <1>4, <1>5, <2>2, <3>1 DEF At
  <2>3. QED
    BY <2>1, <2>2
<1>6. CASE At(t, "lock")
  <2>1. AwaitedBy(t) = {cached[Head(call[t].scan)]} /\ call[t].scan # <<>>
    BY <1>1, <1>6 DEF AwaitedBy, At, CallSound
  <2>2. QED
    BY <1>2, <1>3, <1>4, <1>6, <2>1 DEF At
<1>7. CASE At(t, "describe")
  <2>1. /\ AwaitedBy(t) = {call[t].view} /\ call[t].view # 0
        /\ cached[inst[call[t].view].ent] = call[t].view
        /\ call[t].view \in Instance
    BY <1>1, <1>7 DEF AwaitedBy, At, CallSound, CallRecord
  <2>2. inst[call[t].view].ent \in Entity
    BY <2>1 DEF IInv, HeapType, InstanceRecord
  <2>3. QED
    BY <1>2, <1>3, <1>7, <2>1, <2>2
<1>8. QED
  BY <1>1, <1>5, <1>6, <1>7 DEF Inside, At
------------------------------------------------------------------------------
(* The LRU list.                                                           *)

LEMMA WithoutFacts ==
  ASSUME NEW s \in Seq(Entity), IsInjective(s), NEW e \in Entity
  PROVE  /\ Without(s, e) \in Seq(Entity) /\ IsInjective(Without(s, e))
         /\ Range(Without(s, e)) = Range(s) \ {e}
<1>1. CASE e \notin Range(s)
  BY <1>1 DEF Without
<1>2. CASE e \in Range(s)
  <2> DEFINE n == CHOOSE k \in DOMAIN s : s[k] = e
             w == SubSeq(s, 1, n - 1) \o SubSeq(s, n + 1, Len(s))
  <2>1. n \in 1..Len(s) /\ s[n] = e /\ DOMAIN s = 1..Len(s) /\ Len(s) \in Nat
    BY <1>2 DEF Range
  <2> HIDE DEF n
  <2>2. /\ SubSeq(s, 1, n - 1) \in Seq(Entity) /\ Len(SubSeq(s, 1, n - 1)) = n - 1
        /\ \A k \in 1..n - 1 : SubSeq(s, 1, n - 1)[k] = s[k]
    BY <2>1
  <2>3. /\ SubSeq(s, n + 1, Len(s)) \in Seq(Entity)
        /\ Len(SubSeq(s, n + 1, Len(s))) = Len(s) - n
        /\ \A k \in 1..Len(s) - n : SubSeq(s, n + 1, Len(s))[k] = s[n + k]
    <3>1. /\ n + 1 \in Int /\ Len(s) \in Int /\ \A i \in n + 1 .. Len(s) : s[i] \in Entity
      BY <2>1
    <3>2. /\ SubSeq(s, n + 1, Len(s)) \in Seq(Entity)
          /\ Len(SubSeq(s, n + 1, Len(s))) = IF n + 1 <= Len(s) THEN Len(s) - (n + 1) + 1 ELSE 0
          /\ \A k \in 1 .. Len(s) - (n + 1) + 1 :
               SubSeq(s, n + 1, Len(s))[k] = s[(n + 1) + k - 1]
      <4> DEFINE m == n + 1
                 l == Len(s)
      <4>1. m \in Int /\ l \in Int /\ \A i \in m .. l : s[i] \in Entity
        BY <3>1
      <4> HIDE DEF m, l
      <4>2. /\ SubSeq(s, m, l) \in Seq(Entity)
            /\ Len(SubSeq(s, m, l)) = IF m <= l THEN l - m + 1 ELSE 0
            /\ \A i \in 1 .. l - m + 1 : SubSeq(s, m, l)[i] = s[m + i - 1]
        BY <4>1, SubSeqProperties
      <4>3. QED
        BY <4>2 DEF m, l
    <3>3. ASSUME NEW k \in 1..Len(s) - n
          PROVE  SubSeq(s, n + 1, Len(s))[k] = s[n + k]
      <4>1. k \in 1 .. Len(s) - (n + 1) + 1 /\ (n + 1) + k - 1 = n + k
        BY <2>1
      <4>2. SubSeq(s, n + 1, Len(s))[k] = s[(n + 1) + k - 1]
        BY <3>2, <4>1
      <4>3. QED
        BY <4>1, <4>2
    <3>4. (IF n + 1 <= Len(s) THEN Len(s) - (n + 1) + 1 ELSE 0) = Len(s) - n
      <4>1. /\ n \in Nat /\ Len(s) \in Nat /\ n <= Len(s)
        BY <2>1
      <4>2. CASE n + 1 <= Len(s)
        BY <4>1, <4>2
      <4>3. CASE ~ (n + 1 <= Len(s))
        BY <4>1, <4>3
      <4>4. QED
        BY <4>2, <4>3
    <3>5. QED
      BY <3>2, <3>3, <3>4
  <2>4. /\ w \in Seq(Entity) /\ Len(w) = Len(s) - 1
        /\ \A k \in 1..Len(s) - 1 : w[k] = IF k < n THEN s[k] ELSE s[k + 1]
    <3> DEFINE front == SubSeq(s, 1, n - 1)
               back == SubSeq(s, n + 1, Len(s))
    <3>1. /\ w \in Seq(Entity) /\ Len(w) = Len(front) + Len(back)
          /\ \A k \in 1..Len(front) + Len(back) :
               w[k] = IF k <= Len(front) THEN front[k] ELSE back[k - Len(front)]
      BY <2>2, <2>3, ConcatProperties
    <3> HIDE DEF w, front, back
    <3>2. Len(w) = Len(s) - 1
      BY <2>1, <2>2, <2>3, <3>1 DEF front, back
    <3>3. ASSUME NEW k \in 1..Len(s) - 1
          PROVE  w[k] = IF k < n THEN s[k] ELSE s[k + 1]
      <4>1. Len(front) = n - 1 /\ Len(back) = Len(s) - n
        BY <2>2, <2>3 DEF front, back
      <4>2. w[k] = IF k <= n - 1 THEN front[k] ELSE back[k - (n - 1)]
        <5>1. k \in 1..Len(front) + Len(back)
          BY <2>1, <4>1
        <5>2. QED
          BY <3>1, <4>1, <5>1
      <4>3. CASE k < n
        <5>1. k \in 1..n - 1
          BY <2>1, <4>3
        <5>2. QED
          BY <2>1, <2>2, <4>2, <5>1 DEF front
      <4>4. CASE k >= n
        <5>1. /\ k - (n - 1) \in 1..Len(s) - n /\ n + (k - (n - 1)) = k + 1
              /\ ~ (k <= n - 1) /\ ~ (k < n)
          BY <2>1, <4>4
        <5>2. back[k - (n - 1)] = s[n + (k - (n - 1))]
          BY <2>3, <5>1 DEF back
        <5>3. QED
          BY <4>2, <5>1, <5>2
      <4>5. QED
        BY <2>1, <4>3, <4>4
    <3>4. QED
      BY <3>1, <3>2, <3>3
  <2>5. Without(s, e) = w
    BY <1>2 DEF Without, n
  <2> HIDE DEF w
  <2>6. IsInjective(w)
    <3>1. \A j, k \in 1..Len(s) : s[j] = s[k] => j = k
      BY <2>1 DEF IsInjective
    <3>2. ASSUME NEW j \in 1..Len(s) - 1, NEW k \in 1..Len(s) - 1, w[j] = w[k]
          PROVE  j = k
      BY <2>1, <2>4, <3>1, <3>2
    <3>3. DOMAIN w = 1..Len(s) - 1
      BY <2>4
    <3>4. QED
      BY <3>2, <3>3 DEF IsInjective
  <2>7. ASSUME NEW d \in Range(w)
        PROVE  d \in Range(s) \ {e}
    <3>1. PICK k \in 1..Len(s) - 1 : d = w[k]
      BY <2>1, <2>4 DEF Range
    <3>2. PICK j \in 1..Len(s) : d = s[j] /\ j # n
      BY <2>1, <2>4, <3>1
    <3>3. \A m \in 1..Len(s) : s[m] = e => m = n
      BY <2>1 DEF IsInjective
    <3>4. QED
      BY <2>1, <3>2, <3>3 DEF Range
  <2>8. ASSUME NEW d \in Range(s) \ {e}
        PROVE  d \in Range(w)
    <3>1. PICK k \in 1..Len(s) : d = s[k]
      BY <2>1 DEF Range
    <3>2. CASE k < n
      BY <2>1, <2>4, <3>1, <3>2 DEF Range
    <3>3. CASE k > n
      <4>1. k - 1 \in 1..Len(s) - 1 /\ w[k - 1] = s[k]
        BY <2>1, <2>4, <3>1, <3>3
      <4>2. QED
        BY <2>4, <3>1, <4>1 DEF Range
    <3>4. QED
      BY <2>1, <3>1, <3>2, <3>3
  <2>9. QED
    BY <2>4, <2>5, <2>6, <2>7, <2>8
<1>3. QED
  BY <1>1, <1>2

LEMMA NewestFacts ==
  ASSUME NEW s \in Seq(Entity), IsInjective(s), NEW e \in Entity
  PROVE  /\ Newest(s, e) \in Seq(Entity) /\ IsInjective(Newest(s, e))
         /\ Range(Newest(s, e)) = Range(s) \union {e}
<1> DEFINE w == Without(s, e)
<1>1. w \in Seq(Entity) /\ IsInjective(w) /\ Range(w) = Range(s) \ {e}
  BY WithoutFacts
<1> HIDE DEF w
<1>2. /\ Append(w, e) \in Seq(Entity) /\ Len(Append(w, e)) = Len(w) + 1 /\ Len(w) \in Nat
      /\ \A k \in 1..Len(w) : Append(w, e)[k] = w[k]
      /\ Append(w, e)[Len(w) + 1] = e
  BY <1>1
<1>3. \A k \in 1..Len(w) : w[k] # e
  <2>1. \A k \in 1..Len(w) : w[k] \in Range(w)
    BY <1>1 DEF Range
  <2>2. QED
    BY <1>1, <2>1
<1>4. IsInjective(Append(w, e))
  BY <1>1, <1>2, <1>3 DEF IsInjective
<1>5. Range(Append(w, e)) = Range(w) \union {e}
  <2>1. /\ DOMAIN w = 1..Len(w) /\ DOMAIN Append(w, e) = 1..Len(w) + 1
        /\ Len(w) + 1 \in 1..Len(w) + 1 /\ 1..Len(w) + 1 = (1..Len(w)) \union {Len(w) + 1}
    BY <1>1, <1>2
  <2>2. QED
    BY <1>2, <2>1 DEF Range
<1>6. QED
  <2>1. Newest(s, e) = Append(w, e)
    BY DEF Newest, w
  <2>2. (Range(s) \ {e}) \union {e} = Range(s) \union {e}
    OBVIOUS
  <2>3. QED
    BY <1>1, <1>2, <1>4, <1>5, <2>1, <2>2

LEMMA TouchFacts ==
  ASSUME NEW s \in Seq(Entity), IsInjective(s), NEW e \in Entity
  PROVE  /\ Touch(s, e) \in Seq(Entity) /\ IsInjective(Touch(s, e))
         /\ Range(Touch(s, e)) = Range(s)
<1>1. CASE e \in Range(s)
  <2>1. Range(s) \union {e} = Range(s)
    BY <1>1
  <2>2. QED
    BY <1>1, <2>1, NewestFacts DEF Touch
<1>2. CASE e \notin Range(s)
  BY <1>2 DEF Touch
<1>3. QED
  BY <1>1, <1>2
------------------------------------------------------------------------------
(* The heap.                                                               *)

(* Everything that is referred to after a step is as the step leaves it.   *)
HeapIs(heap) ==
  /\ inst' \in [Instance -> InstanceRecord]
  /\ \A i \in Instance : inst'[i] = heap[i] \/ inst'[i] = Garbage
  /\ \A e \in Entity : cached'[e] # 0 => inst'[cached'[e]] = heap[cached'[e]]
  /\ \A t \in Thread :
       /\ held'[t] # 0 => inst'[held'[t]] = heap[held'[t]]
       /\ call'[t].got # 0 => inst'[call'[t].got] = heap[call'[t].got]
       /\ call'[t].view # 0 => inst'[call'[t].view] = heap[call'[t].view]
  /\ \A k \in DOMAIN merged' : inst'[merged'[k]] = heap[merged'[k]]

LEMMA GarbageType == Garbage \in InstanceRecord
BY EntityAssumption DEF Garbage, InstanceRecord

LEMMA HeapFacts ==
  ASSUME RefTypes', NEW heap \in [Instance -> InstanceRecord], Heap(heap)
  PROVE  HeapIs(heap)
<1>1. /\ \A e \in Entity : cached'[e] \in Instance \union {0}
      /\ \A t \in Thread :
           /\ held'[t] \in Instance \union {0}
           /\ call'[t].got \in Instance \union {0} /\ call'[t].view \in Instance \union {0}
      /\ \A k \in DOMAIN merged' : merged'[k] \in Instance
  BY DEF RefTypes, CallRecord
<1>2. /\ \A e \in Entity : cached'[e] \in Live'
      /\ \A t \in Thread :
           held'[t] \in Live' /\ call'[t].got \in Live' /\ call'[t].view \in Live'
      /\ \A k \in DOMAIN merged' : merged'[k] \in Live'
  BY DEF Live, Range, RefTypes
<1>3. \A i \in Instance : inst'[i] = IF i \in Live' THEN heap[i] ELSE Garbage
  BY DEF Heap
<1>4. inst' \in [Instance -> InstanceRecord]
  BY GarbageType DEF Heap
<1>5. QED
  BY <1>1, <1>2, <1>3, <1>4 DEF HeapIs

(* A new instance goes where nothing refers to.                            *)
LEMMA NextInstanceFacts ==
  ASSUME RefTypes, Unused # {}
  PROVE  /\ NextInstance \in Instance /\ NextInstance # 0
         /\ \A e \in Entity : cached[e] # NextInstance
         /\ \A t \in Thread :
              held[t] # NextInstance /\ call[t].got # NextInstance /\ call[t].view # NextInstance
         /\ \A k \in DOMAIN merged : merged[k] # NextInstance
<1>1. Unused \in SUBSET Nat
  BY DEF Unused, Instance
<1>2. NextInstance \in Unused
  BY <1>1, LeastMember DEF NextInstance
<1>3. NextInstance \in Instance /\ NextInstance \notin Live
  BY <1>2 DEF Unused
<1>4. NextInstance # 0
  BY <1>3 DEF Instance
<1>5. QED
  BY <1>3, <1>4 DEF Live, Range, RefTypes

LEMMA LoadType ==
  ASSUME HeapType, NEW i \in Instance, NEW e \in Entity, NEW base \in SUBSET Commit
  PROVE  /\ Load(i, e, base) \in [Instance -> InstanceRecord]
         /\ Load(i, e, base)[i] = [ent |-> e, base |-> base, staging |-> {}, lock |-> "free"]
         /\ \A j \in Instance : j # i => Load(i, e, base)[j] = inst[j]
<1>1. [ent |-> e, base |-> base, staging |-> {}, lock |-> "free"] \in InstanceRecord
  BY DEF InstanceRecord
<1>2. QED
  BY <1>1 DEF HeapType, Load
------------------------------------------------------------------------------
(* Steps of a call.                                                        *)

(* A thread's call gets on, and neither the cache nor the repository       *)
(* changes, nor any instance.                                              *)
LEMMA LocalStep ==
  ASSUME IInv, RefTypes', UNCHANGED inst \/ Heap(inst),
         UNCHANGED <<cached, merged, fresh>>,
         NEW t \in Thread, NEW c \in CallRecord, NEW h \in Instance \union {0},
         call' = [call EXCEPT ![t] = c], held' = [held EXCEPT ![t] = h],
         ~ At(t, "commit"), c.at \notin {"insert", "commit"},
         Known(c.got), Known(c.view), Known(h)
  PROVE  HeapIs(inst) /\ HeapType' /\ CacheSound' /\ PendingSound' /\ LockShape' /\ KnownShape'
<1>1. HeapIs(inst) /\ HeapType'
  <2>1. CASE Heap(inst)
    BY <2>1, HeapFacts DEF IInv, HeapType, HeapIs
  <2>2. CASE UNCHANGED inst
    BY <2>2 DEF IInv, HeapType, HeapIs
  <2>3. QED
    BY <2>1, <2>2
<1>2. /\ \A u \in Thread : call'[u] = IF u = t THEN c ELSE call[u]
      /\ \A u \in Thread : held'[u] = IF u = t THEN h ELSE held[u]
      /\ cached' = cached /\ merged' = merged /\ fresh' = fresh
  BY DEF IInv, RefTypes
<1>3. CacheSound'
  BY <1>1, <1>2 DEF CacheSound, HeapIs, IInv
<1>4. PendingSound'
  <2>1. ASSUME NEW u \in Thread, call'[u].at = "insert"
        PROVE  u # t /\ call'[u] = call[u] /\ At(u, "insert")
    BY <1>2, <2>1 DEF At
  <2>2. \A k \in DOMAIN merged : Outside(merged[k])'
    BY <1>1, <1>2 DEF Outside, HeapIs, IInv, PendingSound
  <2>3. ASSUME NEW u \in Thread, call'[u].at = "insert"
        PROVE  /\ call'[u].got # 0 /\ inst'[call'[u].got].ent = call'[u].id
               /\ Outside(call[u].got)'
               /\ \A k \in DOMAIN merged' : merged'[k] # call'[u].got
    <3>1. inst'[call[u].got] = inst[call[u].got] /\ call'[u] = call[u] /\ At(u, "insert")
          /\ call[u].got # 0
      BY <1>1, <2>1, <2>3 DEF HeapIs, IInv, PendingSound
    <3>2. QED
      BY <1>2, <3>1 DEF Outside, IInv, PendingSound
  <2>4. ASSUME NEW u \in Thread, NEW v \in Thread, call'[u].at = "insert", call'[v].at = "insert",
               call'[v].got = call'[u].got
        PROVE  u = v
    BY <2>1, <2>4 DEF IInv, PendingSound
  <2>5. QED
    BY <1>2, <2>1, <2>2, <2>3, <2>4 DEF PendingSound, At, Outside, IInv
<1>5. LockShape'
  <2>1. ASSUME NEW u \in Thread, call'[u].at = "commit"
        PROVE  call'[u].got # 0 /\ inst'[call'[u].got].lock = u
    <3>1. call'[u] = call[u] /\ At(u, "commit")
      BY <1>2, <2>1 DEF At
    <3>2. QED
      BY <1>1, <3>1 DEF HeapIs, IInv, LockShape
  <2>2. ASSUME NEW i \in Instance, inst'[i].lock \in Thread
        PROVE  call'[inst'[i].lock].at = "commit" /\ call'[inst'[i].lock].got = i
    <3>1. inst'[i] = inst[i]
      BY <1>1, <2>2, ThreadAssumption DEF HeapIs, Garbage
    <3>2. inst[i].lock \in Thread /\ At(inst[i].lock, "commit") /\ call[inst[i].lock].got = i
      BY <2>2, <3>1 DEF IInv, LockShape
    <3>3. inst[i].lock # t
      BY <3>2
    <3>4. QED
      BY <1>2, <3>1, <3>2, <3>3 DEF At
  <2>3. QED
    BY <2>1, <2>2 DEF LockShape, At
<1>6. KnownShape'
  <2>1. \A e \in Entity : Known(cached[e])'
    BY <1>1, <1>2 DEF Known, HeapIs, IInv, KnownShape
  <2>2. \A k \in DOMAIN merged : Known(merged[k])'
    BY <1>1, <1>2 DEF Known, HeapIs, IInv, KnownShape
  <2>3. ASSUME NEW u \in Thread
        PROVE  Known(held[u])' /\ Known(call[u].got)' /\ Known(call[u].view)'
    <3>1. Known(held'[u]) /\ Known(call'[u].got) /\ Known(call'[u].view)
      BY <1>2 DEF IInv, KnownShape
    <3>2. /\ held'[u] # 0 => inst'[held'[u]] = inst[held'[u]]
          /\ call'[u].got # 0 => inst'[call'[u].got] = inst[call'[u].got]
          /\ call'[u].view # 0 => inst'[call'[u].view] = inst[call'[u].view]
      BY <1>1 DEF HeapIs
    <3>3. QED
      BY <1>2, <3>1, <3>2 DEF Known
  <2>4. QED
    BY <1>2, <2>1, <2>2, <2>3 DEF KnownShape
<1>7. QED
  BY <1>1, <1>3, <1>4, <1>5, <1>6

(* The subcache lock: a thread that has it or finds it free takes it, keeps *)
(* it or gives it back. The others are not in it.                          *)
LEMMA MutexStep ==
  ASSUME IInv, NEW t \in Thread, NEW c \in CallRecord,
         call' = [call EXCEPT ![t] = c],
         CallSound(c)',
         c.at \in Inside <=> mu' = t,
         \/ mu \in {"free", t} /\ mu' \in {"free", t}
         \/ /\ UNCHANGED <<mu, cached, lru>>
            /\ \A u \in Thread : u # t /\ call[u].view # 0 =>
                 inst'[call[u].view].ent = inst[call[u].view].ent
  PROVE  MutexShape'
<1> SUFFICES ASSUME NEW u \in Thread
             PROVE  CallSound(call[u])' /\ (call'[u].at \in Inside <=> mu' = u)
  BY DEF MutexShape, CallSound
<1>1. /\ CallSound(call[u]) /\ (call[u].at \in Inside <=> mu = u)
      /\ call'[u] = IF u = t THEN c ELSE call[u]
  BY DEF IInv, MutexShape, RefTypes
<1>2. CASE u = t
  BY <1>1, <1>2 DEF CallSound
<1>3. CASE u # t
  <2>1. CASE mu \in {"free", t} /\ mu' \in {"free", t}
    <3>1. call[u].at \notin Inside /\ mu' # u
      BY <1>1, <1>3, <2>1, ThreadAssumption
    <3>2. CallSound(call[u])'
      BY <1>1, <1>3, <3>1 DEF CallSound, Inside
    <3>3. QED
      BY <1>1, <1>3, <3>1, <3>2
  <2>2. CASE /\ UNCHANGED <<mu, cached, lru>>
             /\ \A v \in Thread : v # t /\ call[v].view # 0 =>
                  inst'[call[v].view].ent = inst[call[v].view].ent
    BY <1>1, <1>3, <2>2 DEF CallSound
  <2>3. QED
    BY <2>1, <2>2
<1>4. QED
  BY <1>2, <1>3

(* Both at once, when the excerpts stay too and the LRU list names what it *)
(* did.                                                                    *)
LEMMA QuietStep ==
  ASSUME IInv, UNCHANGED inst \/ Heap(inst),
         UNCHANGED <<git, cached, excerpts, pull, acked>>,
         index' \subseteq Entity,
         lru' \in Seq(Entity), IsInjective(lru'), Range(lru') = Range(lru),
         NEW t \in Thread, NEW c \in CallRecord, NEW h \in Instance \union {0},
         call' = [call EXCEPT ![t] = c], held' = [held EXCEPT ![t] = h],
         ~ At(t, "commit"), c.at \notin {"insert", "commit"}, CallSound(c),
         Known(c.got), Known(c.view), Known(h),
         mu' \in Thread \union {"free"}, c.at \in Inside <=> mu' = t,
         (mu \in {"free", t} /\ mu' \in {"free", t}) \/ UNCHANGED <<mu, lru>>
  PROVE  IInv'
<1>1. RefTypes'
  BY DEF IInv, RefTypes, git, pull
<1>2. HeapIs(inst) /\ HeapType' /\ CacheSound' /\ PendingSound' /\ LockShape' /\ KnownShape'
  BY <1>1, LocalStep DEF git, pull
<1>3. MutexShape'
  <2>1. \A u \in Thread : call'[u] = IF u = t THEN c ELSE call[u]
    BY DEF IInv, RefTypes
  <2>2. \A u \in Thread : call'[u].view # 0 => inst'[call'[u].view] = inst[call'[u].view]
    BY <1>2 DEF HeapIs
  <2>3. /\ c.view # 0 => inst'[c.view] = inst[c.view]
        /\ \A u \in Thread : u # t /\ call[u].view # 0 =>
             inst'[call[u].view].ent = inst[call[u].view].ent
    BY <2>1, <2>2
  <2>4. CallSound(c)'
    BY <2>3 DEF CallSound
  <2>5. QED
    BY <2>3, <2>4, MutexStep
<1>4. LruSound'
  BY DEF IInv, LruSound
<1>5. FreshShape' /\ AckedDurable'
  BY DEF IInv, FreshShape, AckedDurable, git
<1>6. QED
  BY <1>1, <1>2, <1>3, <1>4, <1>5 DEF IInv

LEMMA NoCallFacts ==
  /\ NoCall \in CallRecord /\ CallSound(NoCall)
  /\ NoCall.at = "idle" /\ NoCall.got = 0 /\ NoCall.view = 0
BY EntityAssumption DEF NoCall, CallRecord, CallSound

(* What IInv says of a call and of an entity.                              *)
LEMMA CallFacts ==
  ASSUME IInv, NEW t \in Thread
  PROVE  /\ call[t] \in CallRecord /\ CallSound(call[t])
         /\ held[t] \in Instance \union {0}
         /\ Known(held[t]) /\ Known(call[t].got) /\ Known(call[t].view)
         /\ call[t].at \in Inside <=> mu = t
         /\ mu = "free" => mu # t
BY ThreadAssumption DEF IInv, RefTypes, MutexShape, KnownShape

(* What Return does.                                                       *)
LEMMA ReturnStep ==
  ASSUME IInv, UNCHANGED inst \/ Heap(inst),
         UNCHANGED <<git, cached, excerpts, pull, acked>>,
         index' \subseteq Entity,
         lru' \in Seq(Entity), IsInjective(lru'), Range(lru') = Range(lru),
         NEW t \in Thread, NEW h \in Instance \union {0}, Return(t, h), Known(h),
         ~ At(t, "commit"),
         (mu \in {"free", t} /\ mu' = "free") \/ (mu # t /\ UNCHANGED <<mu, lru>>)
  PROVE  IInv'
<1>1. call' = [call EXCEPT ![t] = NoCall] /\ held' = [held EXCEPT ![t] = h]
  BY DEF Return
<1>2. NoCall.at \notin Inside /\ Known(NoCall.got) /\ Known(NoCall.view)
  BY NoCallFacts DEF Inside, Known
<1>3. mu' # t /\ mu' \in Thread \union {"free"}
  BY ThreadAssumption DEF IInv, RefTypes
<1>4. NoCall.at \notin {"insert", "commit"}
  BY NoCallFacts
<1>5. (mu \in {"free", t} /\ mu' \in {"free", t}) \/ UNCHANGED <<mu, lru>>
  OBVIOUS
<1> QED
  BY <1>1, <1>2, <1>3, <1>4, <1>5, NoCallFacts, QuietStep

LEMMA ResolveHitStep ==
  ASSUME IInv, NEW t \in Thread, NEW e \in Entity, NEW then \in {"hold", "remove"},
         ResolveHit(t, e, then)
  PROVE  IInv'
<1>1. /\ cached[e] \in Instance /\ Known(cached[e]) /\ Known(0)
      /\ lru \in Seq(Entity) /\ IsInjective(lru) /\ index \subseteq Entity
      /\ cached[e] # 0
  BY DEF ResolveHit, IInv, RefTypes, KnownShape, Known
<1>2. /\ lru' = Touch(lru, e) /\ UNCHANGED <<git, cached, excerpts, index, mu, pull, acked>>
      /\ Heap(inst) /\ mu = "free" /\ Idle(t)
  BY DEF ResolveHit, Ask
<1>3. lru' \in Seq(Entity) /\ IsInjective(lru') /\ Range(lru') = Range(lru)
  BY <1>1, <1>2, TouchFacts
<1>4. CASE then = "hold"
  <2>1. Return(t, cached[e]) /\ ~ At(t, "commit")
    BY <1>2, <1>4 DEF ResolveHit, Idle, At
  <2>2. QED
    BY <1>1, <1>2, <1>3, <2>1, ReturnStep
<1>5. CASE then = "remove"
  <2> DEFINE c == [call[t] EXCEPT !.at = "remove", !.got = cached[e]]
  <2>1. call' = [call EXCEPT ![t] = c] /\ held' = [held EXCEPT ![t] = 0]
    BY <1>5 DEF ResolveHit, IInv, RefTypes
  <2>2. /\ c \in CallRecord /\ CallSound(c) /\ c.at = "remove"
        /\ Known(c.got) /\ Known(c.view) /\ c.at \notin Inside
    BY <1>1, CallFacts DEF CallRecord, CallSound, Inside
  <2>3. mu' # t /\ mu' \in Thread \union {"free"} /\ ~ At(t, "commit")
    BY <1>2, CallFacts DEF Idle, At
  <2> HIDE DEF c
  <2>4. QED
    BY <1>1, <1>2, <1>3, <2>1, <2>2, <2>3, QuietStep
<1>6. QED
  BY <1>4, <1>5

LEMMA ResolveMissStep ==
  ASSUME IInv, NEW t \in Thread, NEW e \in Entity, NEW then \in {"hold", "remove"},
         ResolveMiss(t, e, then)
  PROVE  IInv'
<1> DEFINE c == [call[t] EXCEPT !.at = "read", !.id = e, !.then = then]
<1>1. /\ UNCHANGED <<git, maps, mu, pull, acked>> /\ Heap(inst) /\ mu = "free" /\ Idle(t)
      /\ call' = [call EXCEPT ![t] = c] /\ held' = [held EXCEPT ![t] = 0]
  BY DEF ResolveMiss, Ask, IInv, RefTypes
<1>2. /\ c \in CallRecord /\ CallSound(c) /\ c.at = "read"
      /\ Known(c.got) /\ Known(c.view) /\ c.at \notin Inside /\ Known(0)
  BY CallFacts DEF CallRecord, CallSound, Inside, Known
<1>3. mu' # t /\ mu' \in Thread \union {"free"} /\ ~ At(t, "commit")
  BY <1>1, CallFacts DEF Idle, At
<1>4. /\ lru' \in Seq(Entity) /\ IsInjective(lru') /\ Range(lru') = Range(lru)
      /\ index' \subseteq Entity /\ UNCHANGED <<git, cached, excerpts, pull, acked>>
  BY <1>1 DEF maps, IInv, RefTypes
<1>5. UNCHANGED <<mu, lru>>
  BY <1>1 DEF maps
<1> HIDE DEF c
<1>6. QED
  BY <1>1, <1>2, <1>3, <1>4, <1>5, QuietStep

(* A call that changes nothing but its own variables, outside the lock.    *)
LEMMA OutsideStep ==
  ASSUME IInv, UNCHANGED <<git, maps, mu, pull, acked>>, UNCHANGED inst \/ Heap(inst),
         NEW t \in Thread, NEW c \in CallRecord, NEW h \in Instance \union {0},
         call' = [call EXCEPT ![t] = c], held' = [held EXCEPT ![t] = h],
         call[t].at \notin Inside \union {"commit"},
         c.at \notin Inside \union {"insert", "commit"}, CallSound(c),
         Known(c.got), Known(c.view), Known(h)
  PROVE  IInv'
<1>1. /\ lru' \in Seq(Entity) /\ IsInjective(lru') /\ Range(lru') = Range(lru)
      /\ index' \subseteq Entity /\ UNCHANGED <<git, cached, excerpts, pull, acked>>
      /\ UNCHANGED <<mu, lru>>
  BY DEF maps, IInv, RefTypes
<1>2. mu' # t /\ mu' \in Thread \union {"free"} /\ ~ At(t, "commit")
  BY CallFacts DEF At, IInv, RefTypes
<1>3. QED
  BY <1>1, <1>2, QuietStep

LEMMA ReadNotFoundStep ==
  ASSUME IInv, NEW t \in Thread, ReadNotFound(t)
  PROVE  IInv'
<1>1. /\ Return(t, 0) /\ Known(0) /\ call[t].at \notin Inside /\ ~ At(t, "commit")
      /\ 0 \in Instance \union {0}
      /\ UNCHANGED <<git, maps, mu, pull, acked>> /\ Heap(inst)
  BY DEF ReadNotFound, At, Inside, Known
<1>2. mu # t
  BY <1>1, CallFacts
<1>3. /\ lru' \in Seq(Entity) /\ IsInjective(lru') /\ Range(lru') = Range(lru)
      /\ index' \subseteq Entity /\ UNCHANGED <<git, cached, excerpts, pull, acked>>
      /\ UNCHANGED <<mu, lru>>
  BY <1>1 DEF maps, IInv, RefTypes
<1>4. QED
  BY <1>1, <1>2, <1>3, ReturnStep

(* What follows once the instance is found or made.                        *)
LEMMA ProceedFacts ==
  ASSUME IInv, NEW t \in Thread, NEW i \in Instance, Known(i), Proceed(t, i)
  PROVE  \E c \in CallRecord, h \in Instance \union {0} :
           /\ call' = [call EXCEPT ![t] = c] /\ held' = [held EXCEPT ![t] = h]
           /\ c.at \notin Inside \union {"insert", "commit"}
           /\ CallSound(c) /\ Known(c.got) /\ Known(c.view) /\ Known(h)
<1>1. CASE call[t].then = "hold"
  <2>1. call' = [call EXCEPT ![t] = NoCall] /\ held' = [held EXCEPT ![t] = i]
    BY <1>1 DEF Proceed, Return
  <2>2. NoCall.at \notin Inside \union {"insert", "commit"} /\ Known(NoCall.got) /\ Known(NoCall.view)
    BY NoCallFacts DEF Inside, Known
  <2>3. QED
    BY <2>1, <2>2, NoCallFacts
<1>2. CASE call[t].then # "hold"
  <2> DEFINE c == [NoCall EXCEPT !.at = call[t].then, !.got = i]
  <2>1. /\ call' = [call EXCEPT ![t] = c] /\ held' = [held EXCEPT ![t] = held[t]]
    BY <1>2 DEF Proceed, IInv, RefTypes
  <2>2. call[t].then \in {"excerpt", "remove"}
    BY <1>2, CallFacts DEF CallRecord
  <2>3. /\ c \in CallRecord /\ c.at = call[t].then /\ c.got = i /\ c.view = 0
    BY <2>2, NoCallFacts DEF CallRecord
  <2> HIDE DEF c
  <2>4. c.at \notin Inside \union {"insert", "commit"} /\ CallSound(c) /\ Known(c.view)
    BY <2>2, <2>3 DEF CallSound, Inside, Known, Instance
  <2>5. QED
    BY <2>1, <2>3, <2>4, CallFacts
<1>3. QED
  BY <1>1, <1>2

LEMMA EvictNothingStep ==
  ASSUME IInv, NEW t \in Thread, EvictNothing(t)
  PROVE  IInv'
<1>1. /\ call[t].at = "evict" /\ Proceed(t, call[t].got)
      /\ UNCHANGED <<git, maps, mu, pull, acked>> /\ Heap(inst)
  BY DEF EvictNothing, At
<1>2. call[t].got \in Instance /\ Known(call[t].got)
  BY <1>1, CallFacts DEF CallSound, CallRecord
<1>3. call[t].at \notin Inside \union {"commit"}
  BY <1>1 DEF Inside
<1>4. PICK c \in CallRecord, h \in Instance \union {0} :
        /\ call' = [call EXCEPT ![t] = c] /\ held' = [held EXCEPT ![t] = h]
        /\ c.at \notin Inside \union {"insert", "commit"}
        /\ CallSound(c) /\ Known(c.got) /\ Known(c.view) /\ Known(h)
  BY <1>1, <1>2, ProceedFacts
<1>5. QED
  BY <1>1, <1>3, <1>4, OutsideStep

LEMMA EvictBeginStep ==
  ASSUME IInv, NEW t \in Thread, EvictBegin(t)
  PROVE  IInv'
<1> DEFINE c == [call[t] EXCEPT !.at = "scan", !.scan = lru]
<1>1. /\ call[t].at = "evict" /\ mu = "free" /\ mu' = t
      /\ call' = [call EXCEPT ![t] = c] /\ held' = [held EXCEPT ![t] = held[t]]
      /\ UNCHANGED <<git, inst, maps, pull, acked>>
  BY DEF EvictBegin, At, IInv, RefTypes
<1>2. /\ c \in CallRecord /\ c.at = "scan" /\ CallSound(c) /\ Known(c.got) /\ Known(c.view)
      /\ held[t] \in Instance \union {0} /\ Known(held[t])
  BY <1>1, CallFacts DEF CallRecord, CallSound, IInv, RefTypes
<1>3. /\ lru' \in Seq(Entity) /\ IsInjective(lru') /\ Range(lru') = Range(lru)
      /\ index' \subseteq Entity /\ UNCHANGED <<git, cached, excerpts, pull, acked>>
  BY <1>1 DEF maps, IInv, RefTypes
<1> HIDE DEF c
<1>4. ~ At(t, "commit") /\ c.at \notin {"insert", "commit"} /\ c.at \in Inside
  BY <1>1, <1>2 DEF At, Inside
<1>5. QED
  BY <1>1, <1>2, <1>3, <1>4, QuietStep

LEMMA EvictScanStep ==
  ASSUME IInv, NEW t \in Thread, EvictScan(t)
  PROVE  IInv'
<1> DEFINE s == call[t].scan
<1>1. /\ call[t].at = "scan" /\ mu = t /\ s # <<>>
      /\ UNCHANGED <<git, inst, maps, mu, held, pull, acked>>
  BY CallFacts DEF EvictScan, At, Inside
<1>2. s \in Seq(Entity) /\ IsInjective(s) /\ Range(s) \subseteq Range(lru)
  BY <1>1, CallFacts DEF CallSound, CallRecord
<1>3. Tail(s) \in Seq(Entity) /\ IsInjective(Tail(s)) /\ Range(Tail(s)) \subseteq Range(s)
  <2>1. /\ Tail(s) \in Seq(Entity) /\ Len(Tail(s)) = Len(s) - 1
        /\ \A k \in 1..Len(s) - 1 : Tail(s)[k] = s[k + 1] /\ k + 1 \in 1..Len(s)
        /\ DOMAIN Tail(s) = 1..Len(s) - 1 /\ DOMAIN s = 1..Len(s)
    BY <1>1, <1>2
  <2> HIDE DEF s
  <2>2. QED
    BY <1>2, <2>1 DEF IsInjective, Range
<1>4. PICK c \in CallRecord :
        /\ call' = [call EXCEPT ![t] = c]
        /\ c.at \in {"scan", "lock"} /\ c.got = call[t].got /\ c.view = call[t].view
        /\ c.at = "lock" => c.scan # <<>>
        /\ IsInjective(c.scan) /\ Range(c.scan) \subseteq Range(lru)
  <2>1. CASE call' = [call EXCEPT ![t].scan = Tail(@)]
    <3> DEFINE c == [call[t] EXCEPT !.scan = Tail(s)]
    <3>1. c \in CallRecord /\ call' = [call EXCEPT ![t] = c]
      BY <1>3, <2>1, CallFacts DEF CallRecord, IInv, RefTypes
    <3>2. /\ c.at = "scan" /\ c.got = call[t].got /\ c.view = call[t].view
          /\ c.scan = Tail(s)
      BY <1>1, CallFacts DEF CallRecord
    <3> HIDE DEF c, s
    <3>3. Range(c.scan) \subseteq Range(lru)
      BY <1>2, <1>3, <3>2
    <3>4. QED
      BY <1>3, <3>1, <3>2, <3>3
  <2>2. CASE call' = [call EXCEPT ![t].at = "lock"]
    <3> DEFINE c == [call[t] EXCEPT !.at = "lock"]
    <3>1. c \in CallRecord /\ call' = [call EXCEPT ![t] = c]
      BY <2>2, CallFacts DEF CallRecord, IInv, RefTypes
    <3>2. /\ c.at = "lock" /\ c.got = call[t].got /\ c.view = call[t].view /\ c.scan = s
      BY CallFacts DEF CallRecord
    <3> HIDE DEF c, s
    <3>3. QED
      BY <1>1, <1>2, <3>1, <3>2
  <2>3. QED
    BY <2>1, <2>2 DEF EvictScan
<1>5. /\ CallSound(c) /\ Known(c.got) /\ Known(c.view) /\ c.at \notin {"insert", "commit"}
      /\ c.at \in Inside
  BY <1>1, <1>4, CallFacts DEF CallSound, Inside
<1>6. /\ lru' \in Seq(Entity) /\ IsInjective(lru') /\ Range(lru') = Range(lru)
      /\ index' \subseteq Entity /\ UNCHANGED <<git, cached, excerpts, pull, acked>>
      /\ held[t] \in Instance \union {0} /\ held' = [held EXCEPT ![t] = held[t]]
      /\ mu' = t /\ mu = t /\ ~ At(t, "commit") /\ UNCHANGED inst
  BY <1>1 DEF maps, IInv, RefTypes, At
<1>7. QED
  BY <1>4, <1>5, <1>6, CallFacts, QuietStep

LEMMA EvictEndStep ==
  ASSUME IInv, NEW t \in Thread, EvictEnd(t)
  PROVE  IInv'
<1>1. /\ call[t].at = "scan" /\ mu' = "free" /\ Proceed(t, call[t].got)
      /\ UNCHANGED <<git, maps, pull, acked>> /\ Heap(inst)
  BY DEF EvictEnd, At
<1>2. mu = t /\ call[t].got \in Instance /\ Known(call[t].got) /\ mu' # t
  BY <1>1, CallFacts, ThreadAssumption DEF CallSound, CallRecord, Inside
<1>3. PICK c \in CallRecord, h \in Instance \union {0} :
        /\ call' = [call EXCEPT ![t] = c] /\ held' = [held EXCEPT ![t] = h]
        /\ c.at \notin Inside \union {"insert", "commit"}
        /\ CallSound(c) /\ Known(c.got) /\ Known(c.view) /\ Known(h)
  BY <1>1, <1>2, ProceedFacts
<1>4. /\ lru' \in Seq(Entity) /\ IsInjective(lru') /\ Range(lru') = Range(lru)
      /\ index' \subseteq Entity /\ UNCHANGED <<git, cached, excerpts, pull, acked>>
      /\ ~ At(t, "commit")
  BY <1>1 DEF maps, IInv, RefTypes, At
<1>5. QED
  BY <1>1, <1>2, <1>3, <1>4, QuietStep

LEMMA CommitNotNeededStep ==
  ASSUME IInv, NEW t \in Thread, CommitNotNeeded(t)
  PROVE  IInv'
<1> DEFINE c == [call[t] EXCEPT !.at = "excerpt", !.got = held[t]]
<1>1. /\ call[t].at = "idle" /\ held[t] # 0
      /\ call' = [call EXCEPT ![t] = c] /\ held' = [held EXCEPT ![t] = held[t]]
      /\ UNCHANGED <<git, inst, maps, mu, pull, acked>>
  BY DEF CommitNotNeeded, Idle, At, IInv, RefTypes
<1>2. /\ c \in CallRecord /\ c.at = "excerpt" /\ CallSound(c) /\ Known(c.got) /\ Known(c.view)
  BY <1>1, CallFacts DEF CallRecord, CallSound
<1> HIDE DEF c
<1>3. /\ call[t].at \notin Inside \union {"commit"}
      /\ c.at \notin Inside \union {"insert", "commit"}
  BY <1>1, <1>2 DEF Inside
<1>4. QED
  BY <1>1, <1>2, <1>3, CallFacts, OutsideStep

(* The instance a call has found is one of an entity.                      *)
LEMMA EntOf ==
  ASSUME IInv, NEW i \in Instance
  PROVE  inst[i] \in InstanceRecord /\ inst[i].ent \in Entity
BY DEF IInv, HeapType, InstanceRecord

LEMMA ExcerptLockStep ==
  ASSUME IInv, NEW t \in Thread, ExcerptLock(t)
  PROVE  IInv'
<1> DEFINE e == inst[call[t].got].ent
           c == [call[t] EXCEPT !.at = "describe", !.view = cached[e]]
<1>1. /\ call[t].at = "excerpt" /\ mu = "free" /\ mu' = t /\ cached[e] # 0
      /\ call' = [call EXCEPT ![t] = c] /\ held' = [held EXCEPT ![t] = held[t]]
      /\ UNCHANGED <<git, inst, maps, pull, acked>>
  BY DEF ExcerptLock, At, IInv, RefTypes
<1>2. e \in Entity /\ cached[e] \in Instance /\ inst[cached[e]].ent = e /\ Known(cached[e])
  <2>1. call[t].got \in Instance
    BY <1>1, CallFacts DEF CallSound, CallRecord
  <2>2. QED
    BY <1>1, <2>1, EntOf DEF IInv, RefTypes, CacheSound, KnownShape
<1> HIDE DEF e
<1>3. /\ c \in CallRecord /\ c.at = "describe" /\ CallSound(c) /\ Known(c.got) /\ Known(c.view)
  BY <1>1, <1>2, CallFacts DEF CallRecord, CallSound
<1>4. /\ lru' \in Seq(Entity) /\ IsInjective(lru') /\ Range(lru') = Range(lru)
      /\ index' \subseteq Entity /\ UNCHANGED <<git, cached, excerpts, pull, acked>>
      /\ ~ At(t, "commit")
  BY <1>1 DEF maps, IInv, RefTypes, At
<1> HIDE DEF c
<1>5. c.at \notin {"insert", "commit"} /\ c.at \in Inside
  BY <1>3 DEF Inside
<1>6. QED
  BY <1>1, <1>3, <1>4, <1>5, CallFacts, QuietStep

LEMMA ExcerptMissingStep ==
  ASSUME IInv, NEW t \in Thread, ExcerptMissing(t)
  PROVE  IInv'
<1>1. /\ call[t].at = "excerpt" /\ mu = "free" /\ Return(t, held[t])
      /\ UNCHANGED <<git, maps, mu, pull, acked>> /\ Heap(inst)
  BY DEF ExcerptMissing, At
<1>2. /\ lru' \in Seq(Entity) /\ IsInjective(lru') /\ Range(lru') = Range(lru)
      /\ index' \subseteq Entity /\ UNCHANGED <<git, cached, excerpts, pull, acked>>
      /\ ~ At(t, "commit") /\ mu' = "free"
  BY <1>1 DEF maps, IInv, RefTypes, At
<1>3. QED
  BY <1>1, <1>2, CallFacts, ReturnStep

LEMMA IndexOneStep ==
  ASSUME IInv, NEW t \in Thread, IndexOne(t)
  PROVE  IInv'
<1> DEFINE h == IF held[t] = 0 THEN call[t].got ELSE held[t]
<1>1. /\ call[t].at = "index" /\ Return(t, h)
      /\ index' = index \union {inst[call[t].view].ent}
      /\ UNCHANGED <<git, cached, excerpts, lru, mu, pull, acked>> /\ Heap(inst)
  BY DEF IndexOne, At
<1>2. call[t].view \in Instance /\ h \in Instance \union {0} /\ Known(h)
  BY <1>1, CallFacts DEF CallSound, CallRecord
<1> HIDE DEF h
<1>3. /\ lru' \in Seq(Entity) /\ IsInjective(lru') /\ Range(lru') = Range(lru)
      /\ index' \subseteq Entity /\ UNCHANGED <<git, cached, excerpts, pull, acked>>
      /\ ~ At(t, "commit") /\ UNCHANGED <<mu, lru>>
  BY <1>1, <1>2, EntOf DEF IInv, RefTypes, At
<1>4. mu # t
  BY <1>1, CallFacts DEF Inside
<1>5. QED
  BY <1>1, <1>2, <1>3, <1>4, ReturnStep

LEMMA ExcerptWriteStep ==
  ASSUME IInv, NEW t \in Thread, ExcerptWrite(t)
  PROVE  IInv'
<1> DEFINE i == call[t].view
           e == inst[i].ent
<1>0. PICK c \in CallRecord : c = [call[t] EXCEPT !.at = "index"]
  BY CallFacts DEF CallRecord
<1>1. /\ call[t].at = "describe" /\ mu = t /\ mu' = "free"
      /\ excerpts' = [excerpts EXCEPT ![e] = Content(i)] /\ lru' = Touch(lru, e)
      /\ call' = [call EXCEPT ![t] = c] /\ held' = [held EXCEPT ![t] = held[t]]
      /\ UNCHANGED <<git, inst, cached, index, pull, acked>>
  BY <1>0, CallFacts DEF ExcerptWrite, Goto, At, Inside, IInv, RefTypes
<1>2. i \in Instance /\ i # 0 /\ e \in Entity /\ e \notin fresh /\ Content(i) \in SUBSET Commit
  <2>1. i \in Instance /\ i # 0
    BY <1>1, CallFacts DEF CallSound, CallRecord
  <2>2. inst[i] \in InstanceRecord
    BY <2>1, EntOf
  <2>3. QED
    BY <2>1, <2>2, CallFacts DEF Content, InstanceRecord, Commit, Known
<1>3. /\ c.at = "index" /\ CallSound(c)' /\ Known(c.got) /\ Known(c.view)
  BY <1>0, <1>1, <1>2, CallFacts DEF CallRecord, CallSound
<1>4. lru' \in Seq(Entity) /\ IsInjective(lru') /\ Range(lru') = Range(lru)
  BY <1>1, <1>2, TouchFacts DEF IInv, RefTypes
<1>5. RefTypes'
  <2>1. excerpts' \in [Entity -> SUBSET Commit]
    BY <1>1, <1>2 DEF IInv, RefTypes
  <2>2. call' \in [Thread -> CallRecord] /\ held' \in [Thread -> Instance \union {0}]
    BY <1>1, <1>3 DEF IInv, RefTypes
  <2>3. QED
    BY <1>1, <1>4, <2>1, <2>2 DEF IInv, RefTypes, git, pull
<1>6. ~ At(t, "commit") /\ c.at \notin {"insert", "commit"} /\ c.at \notin Inside /\ mu' # t
      /\ UNCHANGED <<cached, merged, fresh>>
  BY <1>1, <1>3, ThreadAssumption DEF At, Inside, git, pull
<1>7. HeapType' /\ CacheSound' /\ PendingSound' /\ LockShape' /\ KnownShape'
  BY <1>1, <1>3, <1>5, <1>6, CallFacts, LocalStep
<1>8. MutexShape'
  BY <1>1, <1>3, <1>6, MutexStep
<1>9. FreshShape'
  <2>1. \A d \in Entity : d # e => excerpts'[d] = excerpts[d]
    BY <1>1, <1>2 DEF IInv, RefTypes
  <2>2. QED
    BY <1>1, <1>2, <2>1 DEF IInv, FreshShape, git
<1>10. LruSound' /\ AckedDurable'
  BY <1>1, <1>4 DEF IInv, LruSound, AckedDurable, git
<1>11. QED
  BY <1>5, <1>7, <1>8, <1>9, <1>10 DEF IInv
------------------------------------------------------------------------------
(* Steps that change one instance.                                         *)

(* It remains one of its entity, and the thread that holds its lock, if    *)
(* any, is the one that commits it.                                        *)
LEMMA InstanceStep ==
  ASSUME IInv, RefTypes', NEW i \in Instance, NEW r \in InstanceRecord,
         Heap([inst EXCEPT ![i] = r]), r.ent = inst[i].ent,
         UNCHANGED <<cached, merged>>, fresh' \subseteq fresh,
         NEW t \in Thread, NEW c \in CallRecord, NEW h \in Instance \union {0},
         call' = [call EXCEPT ![t] = c], held' = [held EXCEPT ![t] = h],
         Known(c.got), Known(c.view), Known(h), c.at # "insert",
         inst[i].lock \in {"free", t}, At(t, "commit") => call[t].got = i,
         r.lock = IF c.at = "commit" THEN t ELSE "free",
         c.at = "commit" => c.got = i
  PROVE  /\ HeapIs([inst EXCEPT ![i] = r])
         /\ HeapType' /\ CacheSound' /\ PendingSound' /\ LockShape' /\ KnownShape'
         /\ \A u \in Thread : call'[u].view # 0 =>
              inst'[call'[u].view].ent = inst[call'[u].view].ent
<1> DEFINE heap == [inst EXCEPT ![i] = r]
<1>1. heap \in [Instance -> InstanceRecord] /\ HeapIs(heap)
  <2>1. heap \in [Instance -> InstanceRecord]
    BY DEF IInv, HeapType
  <2>2. Heap(heap)
    OBVIOUS
  <2> HIDE DEF heap
  <2>3. QED
    BY <2>1, <2>2, HeapFacts
<1>2. /\ \A j \in Instance : heap[j] = IF j = i THEN r ELSE inst[j]
      /\ \A j \in Instance : heap[j].ent = inst[j].ent
      /\ \A j \in Instance : inst[j].lock # "evicted" => heap[j].lock # "evicted"
  BY ThreadAssumption DEF IInv, HeapType
<1> HIDE DEF heap
<1>3. /\ \A u \in Thread : call'[u] = IF u = t THEN c ELSE call[u]
      /\ \A u \in Thread : held'[u] = IF u = t THEN h ELSE held[u]
      /\ cached' = cached /\ merged' = merged
  BY DEF IInv, RefTypes
<1>4. /\ \A e \in Entity : cached[e] \in Instance \union {0}
      /\ \A k \in DOMAIN merged : merged[k] \in Instance
      /\ \A u \in Thread :
           /\ call'[u].got \in Instance \union {0} /\ call'[u].view \in Instance \union {0}
           /\ held'[u] \in Instance \union {0}
  BY DEF IInv, RefTypes, CallRecord
<1>5. CacheSound'
  BY <1>1, <1>2, <1>3, <1>4 DEF CacheSound, HeapIs, IInv
<1>6. PendingSound'
  <2>1. ASSUME NEW u \in Thread, call'[u].at = "insert"
        PROVE  u # t /\ call'[u] = call[u] /\ At(u, "insert")
    BY <1>3, <2>1 DEF At
  <2>2. \A k \in DOMAIN merged : Outside(merged[k])'
    BY <1>1, <1>2, <1>3, <1>4 DEF Outside, HeapIs, IInv, PendingSound
  <2>3. ASSUME NEW u \in Thread, call'[u].at = "insert"
        PROVE  /\ call'[u].got # 0 /\ inst'[call'[u].got].ent = call'[u].id
               /\ Outside(call[u].got)'
               /\ \A k \in DOMAIN merged' : merged'[k] # call'[u].got
    <3>1. inst'[call[u].got] = heap[call[u].got] /\ call'[u] = call[u] /\ At(u, "insert")
          /\ call[u].got # 0 /\ call[u].got \in Instance
      BY <1>1, <1>4, <2>1, <2>3 DEF HeapIs, IInv, PendingSound
    <3>2. QED
      BY <1>2, <1>3, <3>1 DEF Outside, IInv, PendingSound
  <2>4. ASSUME NEW u \in Thread, NEW v \in Thread, call'[u].at = "insert", call'[v].at = "insert",
               call'[v].got = call'[u].got
        PROVE  u = v
    BY <2>1, <2>4 DEF IInv, PendingSound
  <2>5. QED
    BY <1>3, <2>1, <2>2, <2>3, <2>4 DEF PendingSound, At, Outside, IInv
<1>7. LockShape'
  <2>1. ASSUME NEW u \in Thread, call'[u].at = "commit"
        PROVE  call'[u].got # 0 /\ inst'[call'[u].got].lock = u
    <3>1. CASE u = t
      <4>1. call'[u].got = i /\ i # 0
        BY <1>3, <2>1, <3>1 DEF Instance
      <4>2. inst'[i] = r
        BY <1>1, <1>2, <4>1 DEF HeapIs
      <4>3. QED
        BY <1>3, <2>1, <3>1, <4>1, <4>2
    <3>2. CASE u # t
      <4>1. call'[u] = call[u] /\ call[u].got # 0 /\ inst[call[u].got].lock = u
        BY <1>3, <2>1, <3>2 DEF At, IInv, LockShape
      <4>2. call[u].got # i /\ call[u].got \in Instance
        BY <1>4, <3>2, <4>1, ThreadAssumption
      <4>3. QED
        BY <1>1, <1>2, <4>1, <4>2 DEF HeapIs
    <3>3. QED
      BY <3>1, <3>2
  <2>2. ASSUME NEW j \in Instance, inst'[j].lock \in Thread
        PROVE  call'[inst'[j].lock].at = "commit" /\ call'[inst'[j].lock].got = j
    <3>1. inst'[j] = heap[j]
      BY <1>1, <2>2, ThreadAssumption DEF HeapIs, Garbage
    <3>2. CASE j = i
      <4>1. inst'[j].lock = r.lock /\ r.lock = t /\ c.at = "commit"
        BY <1>2, <2>2, <3>1, <3>2, ThreadAssumption
      <4>2. QED
        BY <1>3, <3>2, <4>1
    <3>3. CASE j # i
      <4>1. /\ inst'[j].lock = inst[j].lock /\ inst[j].lock \in Thread
            /\ At(inst[j].lock, "commit") /\ call[inst[j].lock].got = j
        BY <1>2, <2>2, <3>1, <3>3 DEF IInv, LockShape
      <4>2. inst[j].lock # t
        BY <3>3, <4>1
      <4>3. QED
        BY <1>3, <4>1, <4>2 DEF At
    <3>4. QED
      BY <3>2, <3>3
  <2>3. QED
    BY <2>1, <2>2 DEF LockShape, At
<1>8. KnownShape'
  <2>1. \A e \in Entity : Known(cached[e])'
    BY <1>1, <1>2, <1>3, <1>4 DEF Known, HeapIs, IInv, KnownShape
  <2>2. \A k \in DOMAIN merged : Known(merged[k])'
    BY <1>1, <1>2, <1>3, <1>4 DEF Known, HeapIs, IInv, KnownShape
  <2>3. ASSUME NEW u \in Thread
        PROVE  Known(held[u])' /\ Known(call[u].got)' /\ Known(call[u].view)'
    <3>1. Known(held'[u]) /\ Known(call'[u].got) /\ Known(call'[u].view)
      BY <1>3 DEF IInv, KnownShape
    <3>2. /\ held'[u] # 0 => inst'[held'[u]].ent = inst[held'[u]].ent
          /\ call'[u].got # 0 => inst'[call'[u].got].ent = inst[call'[u].got].ent
          /\ call'[u].view # 0 => inst'[call'[u].view].ent = inst[call'[u].view].ent
      BY <1>1, <1>2, <1>4 DEF HeapIs
    <3>3. QED
      BY <3>1, <3>2 DEF Known
  <2>4. QED
    BY <1>3, <2>1, <2>2, <2>3 DEF KnownShape
<1>9. \A u \in Thread : call'[u].view # 0 =>
        inst'[call'[u].view].ent = inst[call'[u].view].ent
  BY <1>1, <1>2, <1>4 DEF HeapIs
<1>10. QED
  BY <1>1, <1>5, <1>6, <1>7, <1>8, <1>9 DEF HeapIs, heap, HeapType

(* When it leaves the lists alone, and the repository but for the version  *)
(* of that entity.                                                         *)
LEMMA OneInstanceStep ==
  ASSUME IInv, NEW i \in Instance, NEW r \in InstanceRecord,
         Heap([inst EXCEPT ![i] = r]), r.ent = inst[i].ent,
         UNCHANGED <<maps, mu, pull, remote>>, fresh' \subseteq fresh,
         NEW t \in Thread, NEW c \in CallRecord, NEW h \in Instance \union {0},
         call' = [call EXCEPT ![t] = c], held' = [held EXCEPT ![t] = h],
         Known(i), Known(c.got), Known(c.view), Known(h),
         CallSound(c), call[t].at \notin Inside, c.at \notin Inside \union {"insert"},
         inst[i].lock \in {"free", t}, At(t, "commit") => call[t].got = i,
         r.lock = IF c.at = "commit" THEN t ELSE "free",
         c.at = "commit" => c.got = i,
         \/ UNCHANGED <<stored, acked>>
         \/ /\ stored[inst[i].ent] = inst[i].base
            /\ stored' = [stored EXCEPT ![inst[i].ent] = Content(i)]
            /\ acked' = [acked EXCEPT ![inst[i].ent] = @ \union inst[i].staging]
  PROVE  IInv'
<1> DEFINE e == inst[i].ent
<1>1. /\ e \in Entity /\ e \notin fresh
      /\ Content(i) \in SUBSET Commit /\ inst[i].staging \in SUBSET Op
      /\ inst[i].base \subseteq Content(i) /\ inst[i].staging \subseteq Content(i)
  <2>1. inst[i] \in InstanceRecord /\ i # 0
    BY EntOf DEF Instance
  <2>2. QED
    BY <2>1 DEF Content, InstanceRecord, Commit, Known
<1> HIDE DEF e
<1>2. /\ stored' \in [Entity -> SUBSET Commit] /\ acked' \in [Entity -> SUBSET Op]
      /\ \A d \in Entity : d # e => stored'[d] = stored[d] /\ acked'[d] = acked[d]
      /\ acked'[e] \subseteq stored'[e]
  BY <1>1 DEF e, IInv, RefTypes, AckedDurable
<1>3. RefTypes'
  BY <1>2 DEF IInv, RefTypes, maps, pull
<1>4. UNCHANGED <<cached, merged>>
  BY DEF maps, pull
<1>5. /\ HeapType' /\ CacheSound' /\ PendingSound' /\ LockShape' /\ KnownShape'
      /\ \A u \in Thread : call'[u].view # 0 =>
           inst'[call'[u].view].ent = inst[call'[u].view].ent
  BY <1>3, <1>4, InstanceStep
<1>6. MutexShape'
  <2>1. \A u \in Thread : u # t => call'[u] = call[u]
    BY DEF IInv, RefTypes
  <2>2. \A u \in Thread : u # t /\ call[u].view # 0 =>
          inst'[call[u].view].ent = inst[call[u].view].ent
    BY <1>5, <2>1
  <2>3. CallSound(c)'
    BY DEF CallSound, Inside, maps
  <2>4. UNCHANGED <<mu, cached, lru>> /\ mu' # t
    BY CallFacts DEF maps
  <2>5. QED
    BY <2>2, <2>3, <2>4, MutexStep
<1>7. FreshShape'
  BY <1>1, <1>2 DEF IInv, FreshShape, maps
<1>8. LruSound' /\ AckedDurable'
  BY <1>2 DEF IInv, LruSound, AckedDurable, maps
<1>9. QED
  BY <1>3, <1>5, <1>6, <1>7, <1>8 DEF IInv

LEMMA EditStep ==
  ASSUME IInv, NEW t \in Thread, NEW o \in Op, Edit(t, o)
  PROVE  IInv'
<1> DEFINE i == held[t]
           r == [inst[i] EXCEPT !.staging = inst[i].staging \union {o}]
           c == [call[t] EXCEPT !.at = "excerpt", !.got = i]
<1>1. /\ call[t].at = "idle" /\ i \in Instance /\ i # 0 /\ Known(i) /\ inst[i].lock = "free"
      /\ inst[i] \in InstanceRecord
  BY CallFacts, EntOf DEF Edit, Idle, At, Free
<1>2. /\ r \in InstanceRecord /\ r.ent = inst[i].ent /\ r.lock = "free"
  BY <1>1 DEF InstanceRecord
<1>3. /\ c \in CallRecord /\ c.at = "excerpt" /\ CallSound(c) /\ Known(c.got) /\ Known(c.view)
  BY <1>1, CallFacts DEF CallRecord, CallSound
<1>4. /\ call' = [call EXCEPT ![t] = c] /\ held' = [held EXCEPT ![t] = i]
      /\ fresh' \subseteq fresh /\ UNCHANGED <<maps, mu, pull, remote>> /\ UNCHANGED <<stored, acked>>
  BY DEF Edit, IInv, RefTypes
<1>5. Heap([inst EXCEPT ![i] = r])
  <2>1. [inst EXCEPT ![i].staging = @ \union {o}] = [inst EXCEPT ![i] = r]
    BY <1>1 DEF IInv, HeapType
  <2>2. Heap([inst EXCEPT ![i].staging = @ \union {o}])
    BY DEF Edit
  <2> HIDE DEF r
  <2>3. QED
    BY <2>1, <2>2 DEF Heap
<1> HIDE DEF i, r, c
<1>6. /\ call[t].at \notin Inside /\ c.at \notin Inside \union {"insert"} /\ ~ At(t, "commit")
      /\ c.at # "commit"
  BY <1>1, <1>3 DEF Inside, At
<1>7. QED
  BY <1>1, <1>2, <1>3, <1>4, <1>5, <1>6, OneInstanceStep

LEMMA CommitLockStep ==
  ASSUME IInv, NEW t \in Thread, CommitLock(t)
  PROVE  IInv'
<1> DEFINE i == held[t]
           r == [inst[i] EXCEPT !.lock = t]
           c == [call[t] EXCEPT !.at = "commit", !.got = i]
<1>1. /\ call[t].at = "idle" /\ i \in Instance /\ i # 0 /\ Known(i) /\ inst[i].lock = "free"
      /\ inst[i] \in InstanceRecord
  BY CallFacts, EntOf DEF CommitLock, Idle, At, Free
<1>2. /\ r \in InstanceRecord /\ r.ent = inst[i].ent /\ r.lock = t
  BY <1>1 DEF InstanceRecord
<1>3. /\ c \in CallRecord /\ c.at = "commit" /\ CallSound(c) /\ Known(c.got) /\ Known(c.view)
      /\ c.got = i
  BY <1>1, CallFacts DEF CallRecord, CallSound
<1>4. /\ call' = [call EXCEPT ![t] = c] /\ held' = [held EXCEPT ![t] = i]
      /\ fresh' \subseteq fresh /\ UNCHANGED <<maps, mu, pull, remote>> /\ UNCHANGED <<stored, acked>>
  BY DEF CommitLock, IInv, RefTypes, git
<1>5. Heap([inst EXCEPT ![i] = r])
  <2>1. [inst EXCEPT ![i].lock = t] = [inst EXCEPT ![i] = r]
    BY <1>1 DEF IInv, HeapType
  <2>2. Heap([inst EXCEPT ![i].lock = t])
    BY DEF CommitLock
  <2> HIDE DEF r
  <2>3. QED
    BY <2>1, <2>2 DEF Heap
<1> HIDE DEF i, r, c
<1>6. /\ call[t].at \notin Inside /\ c.at \notin Inside \union {"insert"} /\ ~ At(t, "commit")
  BY <1>1, <1>3 DEF Inside, At
<1>7. QED
  BY <1>1, <1>2, <1>3, <1>4, <1>5, <1>6, OneInstanceStep

(* What is known of a Commit that holds the lock of its instance.          *)
LEMMA CommittingFacts ==
  ASSUME IInv, NEW t \in Thread, At(t, "commit")
  PROVE  /\ call[t].at = "commit" /\ call[t].got \in Instance /\ Known(call[t].got)
         /\ inst[call[t].got].lock = t /\ inst[call[t].got] \in InstanceRecord
         /\ call[t].at \notin Inside
BY CallFacts, EntOf DEF At, IInv, LockShape, CallRecord, Inside

LEMMA CommitDoneStep ==
  ASSUME IInv, NEW t \in Thread, CommitDone(t)
  PROVE  IInv'
<1> DEFINE i == call[t].got
           r == [inst[i] EXCEPT !.base = Content(i), !.staging = {}, !.lock = "free"]
           c == [call[t] EXCEPT !.at = "excerpt"]
<1>1. /\ call[t].at = "commit" /\ i \in Instance /\ Known(i) /\ inst[i].lock = t
      /\ inst[i] \in InstanceRecord /\ call[t].at \notin Inside
  BY CommittingFacts DEF CommitDone
<1>2. /\ r \in InstanceRecord /\ r.ent = inst[i].ent /\ r.lock = "free"
  <2>1. Content(i) \in SUBSET Commit
    BY <1>1 DEF Content, InstanceRecord, Commit
  <2>2. QED
    BY <1>1, <2>1, ThreadAssumption DEF InstanceRecord
<1>3. /\ c \in CallRecord /\ c.at = "excerpt" /\ CallSound(c) /\ Known(c.got) /\ Known(c.view)
  BY <1>1, CallFacts DEF CallRecord, CallSound, Instance
<1>4. /\ call' = [call EXCEPT ![t] = c] /\ held' = [held EXCEPT ![t] = held[t]]
      /\ fresh' \subseteq fresh /\ UNCHANGED <<maps, mu, pull, remote>>
      /\ stored[inst[i].ent] = inst[i].base
      /\ stored' = [stored EXCEPT ![inst[i].ent] = Content(i)]
      /\ acked' = [acked EXCEPT ![inst[i].ent] = @ \union inst[i].staging]
  BY DEF CommitDone, Goto, IInv, RefTypes
<1>5. Heap([inst EXCEPT ![i] = r])
  <2>1. [inst EXCEPT ![i].base = Content(i), ![i].staging = {}, ![i].lock = "free"]
          = [inst EXCEPT ![i] = r]
    BY <1>1 DEF IInv, HeapType
  <2>2. Heap([inst EXCEPT ![i].base = Content(i), ![i].staging = {}, ![i].lock = "free"])
    BY DEF CommitDone
  <2> HIDE DEF r
  <2>3. QED
    BY <2>1, <2>2 DEF Heap
<1> HIDE DEF i, r, c
<1>6. c.at \notin Inside \union {"insert", "commit"} /\ call[t].got = i
  BY <1>3 DEF Inside, i
<1>7. QED
  BY <1>1, <1>2, <1>3, <1>4, <1>5, <1>6, CallFacts, OneInstanceStep

LEMMA CommitConflictStep ==
  ASSUME IInv, NEW t \in Thread, CommitConflict(t)
  PROVE  IInv'
<1> DEFINE i == call[t].got
           r == [inst[i] EXCEPT !.lock = "free"]
<1>1. /\ call[t].at = "commit" /\ i \in Instance /\ Known(i) /\ inst[i].lock = t
      /\ inst[i] \in InstanceRecord /\ call[t].at \notin Inside
  BY CommittingFacts DEF CommitConflict
<1>2. /\ r \in InstanceRecord /\ r.ent = inst[i].ent /\ r.lock = "free"
  BY <1>1 DEF InstanceRecord
<1>3. /\ call' = [call EXCEPT ![t] = NoCall] /\ held' = [held EXCEPT ![t] = held[t]]
      /\ fresh' \subseteq fresh /\ UNCHANGED <<maps, mu, pull, remote>> /\ UNCHANGED <<stored, acked>>
  BY DEF CommitConflict, Return, git
<1>4. Heap([inst EXCEPT ![i] = r])
  <2>1. [inst EXCEPT ![i].lock = "free"] = [inst EXCEPT ![i] = r]
    BY <1>1 DEF IInv, HeapType
  <2>2. Heap([inst EXCEPT ![i].lock = "free"])
    BY DEF CommitConflict
  <2> HIDE DEF r
  <2>3. QED
    BY <2>1, <2>2 DEF Heap
<1> HIDE DEF i, r
<1>5. /\ NoCall.at \notin Inside \union {"insert", "commit"} /\ call[t].got = i
      /\ Known(NoCall.got) /\ Known(NoCall.view)
  BY NoCallFacts DEF Inside, Known, i
<1>6. QED
  BY <1>1, <1>2, <1>3, <1>4, <1>5, CallFacts, NoCallFacts, OneInstanceStep
------------------------------------------------------------------------------
(* Steps that make an instance.                                            *)

(* A call has it for Insert.                                               *)
LEMMA LoadStep ==
  ASSUME IInv, RefTypes', Unused # {}, NEW e \in Entity, NEW base \in SUBSET Commit,
         Heap(Load(NextInstance, e, base)),
         UNCHANGED <<maps, mu, pull>>, fresh' \subseteq fresh, e \notin fresh',
         NEW t \in Thread, NEW c \in CallRecord, NEW h \in {0, held[t]},
         call' = [call EXCEPT ![t] = c], held' = [held EXCEPT ![t] = h],
         ~ At(t, "commit"), call[t].at \notin Inside,
         c.at = "insert", c.id = e, c.got = NextInstance, c.view = call[t].view
  PROVE  HeapType' /\ CacheSound' /\ PendingSound' /\ LockShape' /\ KnownShape' /\ MutexShape'
<1> DEFINE heap == Load(NextInstance, e, base)
<1>0. PICK n \in Instance : n = NextInstance
  BY NextInstanceFacts DEF IInv
<1>1. /\ n # 0
      /\ \A d \in Entity : cached[d] # n
      /\ \A u \in Thread : held[u] # n /\ call[u].got # n /\ call[u].view # n
      /\ \A k \in DOMAIN merged : merged[k] # n
  BY <1>0, NextInstanceFacts DEF IInv
<1>2. /\ heap \in [Instance -> InstanceRecord] /\ heap[n].ent = e /\ heap[n].lock = "free"
      /\ \A j \in Instance : j # n => heap[j] = inst[j]
  <2>1. heap = Load(n, e, base)
    BY <1>0
  <2> HIDE DEF heap
  <2>2. /\ heap \in [Instance -> InstanceRecord]
        /\ heap[n] = [ent |-> e, base |-> base, staging |-> {}, lock |-> "free"]
        /\ \A j \in Instance : j # n => heap[j] = inst[j]
    BY <2>1, LoadType DEF IInv
  <2>3. QED
    BY <2>2
<1> HIDE DEF heap
<1>3. HeapIs(heap)
  BY <1>2, HeapFacts DEF heap
<1>4. /\ \A u \in Thread : call'[u] = IF u = t THEN c ELSE call[u]
      /\ \A u \in Thread : held'[u] = IF u = t THEN h ELSE held[u]
      /\ cached' = cached /\ merged' = merged /\ lru' = lru /\ mu' = mu
  BY DEF IInv, RefTypes, maps, pull
<1>5. /\ \A d \in Entity : cached[d] \in Instance \union {0}
      /\ \A k \in DOMAIN merged : merged[k] \in Instance
      /\ \A u \in Thread :
           /\ call[u].got \in Instance \union {0} /\ call[u].view \in Instance \union {0}
           /\ held[u] \in Instance \union {0}
  BY DEF IInv, RefTypes, CallRecord
<1>6. /\ \A d \in Entity : cached[d] # 0 => inst'[cached[d]] = inst[cached[d]]
      /\ \A k \in DOMAIN merged : inst'[merged[k]] = inst[merged[k]]
      /\ \A u \in Thread : call[u].view # 0 => inst'[call[u].view] = inst[call[u].view]
      /\ \A u \in Thread : u # t =>
           /\ call[u].got # 0 => inst'[call[u].got] = inst[call[u].got]
           /\ held[u] # 0 => inst'[held[u]] = inst[held[u]]
      /\ h # 0 => inst'[h] = inst[h]
      /\ inst'[n] = heap[n]
  <2>1. \A d \in Entity : cached[d] # 0 => inst'[cached[d]] = inst[cached[d]]
    BY <1>1, <1>2, <1>3, <1>4, <1>5 DEF HeapIs
  <2>2. \A k \in DOMAIN merged : inst'[merged[k]] = inst[merged[k]]
    BY <1>1, <1>2, <1>3, <1>4, <1>5 DEF HeapIs
  <2>3. ASSUME NEW u \in Thread, call[u].view # 0
        PROVE  inst'[call[u].view] = inst[call[u].view]
    <3>1. call'[u].view = call[u].view
      BY <1>4
    <3>2. QED
      BY <1>1, <1>2, <1>3, <1>5, <2>3, <3>1 DEF HeapIs
  <2>4. ASSUME NEW u \in Thread, u # t
        PROVE  /\ call[u].got # 0 => inst'[call[u].got] = inst[call[u].got]
               /\ held[u] # 0 => inst'[held[u]] = inst[held[u]]
    <3>1. call'[u] = call[u] /\ held'[u] = held[u]
      BY <1>4, <2>4
    <3>2. QED
      BY <1>1, <1>2, <1>3, <1>5, <3>1 DEF HeapIs
  <2>5. inst'[n] = heap[n]
    BY <1>0, <1>1, <1>3, <1>4 DEF HeapIs
  <2>6. ASSUME h # 0
        PROVE  inst'[h] = inst[h]
    <3>1. h = held[t] /\ h = held'[t]
      BY <1>4, <2>6
    <3>2. h \in Instance /\ h # n
      BY <1>1, <1>5, <2>6, <3>1
    <3>3. inst'[h] = heap[h]
      BY <1>3, <2>6, <3>1 DEF HeapIs
    <3>4. QED
      BY <1>2, <3>2, <3>3
  <2>7. QED
    BY <2>1, <2>2, <2>3, <2>4, <2>5, <2>6
<1>7. CacheSound'
  BY <1>4, <1>6 DEF CacheSound, IInv
<1>8. PendingSound'
  <2>1. ASSUME NEW u \in Thread, call'[u].at = "insert", u # t
        PROVE  call'[u] = call[u] /\ At(u, "insert")
    BY <1>4, <2>1 DEF At
  <2>2. \A k \in DOMAIN merged : Outside(merged[k])'
    BY <1>4, <1>6 DEF Outside, IInv, PendingSound
  <2>3. ASSUME NEW u \in Thread, call'[u].at = "insert"
        PROVE  /\ call'[u].got # 0 /\ inst'[call'[u].got].ent = call'[u].id
               /\ inst'[call'[u].got].lock # "evicted"
               /\ \A d \in Entity : cached'[d] # call'[u].got
               /\ \A k \in DOMAIN merged' : merged'[k] # call'[u].got
    <3>1. CASE u = t
      BY <1>0, <1>1, <1>2, <1>4, <1>6, <3>1
    <3>2. CASE u # t
      BY <1>4, <1>6, <2>1, <2>3, <3>2 DEF Outside, IInv, PendingSound
    <3>3. QED
      BY <3>1, <3>2
  <2>4. ASSUME NEW u \in Thread, NEW v \in Thread, call'[u].at = "insert", call'[v].at = "insert",
               call'[v].got = call'[u].got
        PROVE  u = v
    BY <1>0, <1>1, <1>4, <2>1, <2>4 DEF IInv, PendingSound
  <2>5. QED
    BY <1>4, <2>2, <2>3, <2>4 DEF PendingSound, At, Outside, IInv
<1>9. LockShape'
  <2>1. ASSUME NEW u \in Thread, call'[u].at = "commit"
        PROVE  call'[u].got # 0 /\ inst'[call'[u].got].lock = u
    <3>1. u # t /\ call'[u] = call[u] /\ At(u, "commit")
      BY <1>4, <2>1 DEF At
    <3>2. QED
      BY <1>6, <3>1 DEF IInv, LockShape
  <2>2. ASSUME NEW j \in Instance, inst'[j].lock \in Thread
        PROVE  call'[inst'[j].lock].at = "commit" /\ call'[inst'[j].lock].got = j
    <3>1. inst'[j] = heap[j]
      BY <1>3, <2>2, ThreadAssumption DEF HeapIs, Garbage
    <3>2. j # n /\ heap[j] = inst[j]
      BY <1>2, <2>2, <3>1, ThreadAssumption
    <3>3. inst[j].lock \in Thread /\ At(inst[j].lock, "commit") /\ call[inst[j].lock].got = j
      BY <2>2, <3>1, <3>2 DEF IInv, LockShape
    <3>4. inst[j].lock # t
      BY <3>3
    <3>5. QED
      BY <1>4, <3>1, <3>2, <3>3, <3>4 DEF At
  <2>3. QED
    BY <2>1, <2>2 DEF LockShape, At
<1>10. KnownShape'
  <2>1. ASSUME NEW u \in Thread
        PROVE  Known(held[u])' /\ Known(call[u].got)' /\ Known(call[u].view)'
    <3>1. Known(call[u].view)'
      BY <1>4, <1>6 DEF Known, IInv, KnownShape
    <3>2. CASE u = t
      <4>1. Known(call[u].got)'
        BY <1>0, <1>2, <1>4, <1>6, <3>2 DEF Known
      <4>2. Known(h)'
        BY <1>6 DEF Known, IInv, KnownShape
      <4>3. held'[u] = h
        BY <1>4, <3>2
      <4>4. QED
        BY <3>1, <4>1, <4>2, <4>3 DEF Known
    <3>3. CASE u # t
      BY <1>4, <1>6, <3>1, <3>3 DEF Known, IInv, KnownShape
    <3>4. QED
      BY <3>2, <3>3
  <2>2. \A d \in Entity : Known(cached[d])'
    BY <1>4, <1>6 DEF Known, IInv, KnownShape
  <2>3. \A k \in DOMAIN merged : Known(merged[k])'
    BY <1>4, <1>6 DEF Known, IInv, KnownShape
  <2>4. QED
    BY <1>4, <2>1, <2>2, <2>3 DEF KnownShape
<1>11. MutexShape'
  <2>1. CallSound(c)' /\ c.at \notin Inside
    BY DEF CallSound, Inside
  <2>2. mu' # t /\ UNCHANGED <<mu, cached, lru>>
    BY <1>4, CallFacts
  <2>3. QED
    BY <1>6, <2>1, <2>2, MutexStep
<1>12. QED
  BY <1>3, <1>7, <1>8, <1>9, <1>10, <1>11 DEF HeapIs, HeapType

LEMMA ReadStep ==
  ASSUME IInv, NEW t \in Thread, Read(t)
  PROVE  IInv'
<1> DEFINE e == call[t].id
<1>0. PICK c \in CallRecord : c = [call[t] EXCEPT !.at = "insert", !.got = NextInstance]
  <2>1. Unused # {}
    BY DEF Read
  <2>2. NextInstance \in Instance
    BY <2>1, NextInstanceFacts DEF IInv
  <2>3. QED
    BY <2>2, CallFacts DEF CallRecord
<1>1. /\ call[t].at = "read" /\ stored[e] # {} /\ Unused # {} /\ e \in Entity
      /\ call' = [call EXCEPT ![t] = c] /\ held' = [held EXCEPT ![t] = held[t]]
      /\ UNCHANGED <<git, maps, mu, pull, acked>>
      /\ Heap(Load(NextInstance, e, stored[e])) /\ stored[e] \in SUBSET Commit
  BY <1>0, CallFacts DEF Read, At, IInv, RefTypes, CallRecord
<1>2. /\ c.at = "insert" /\ c.id = e /\ c.got = NextInstance /\ c.view = call[t].view
  BY <1>0, CallFacts DEF CallRecord
<1>3. RefTypes'
  BY <1>1, CallFacts DEF IInv, RefTypes, git, maps, pull
<1>4. /\ UNCHANGED <<maps, mu, pull>> /\ fresh' \subseteq fresh /\ e \notin fresh'
      /\ ~ At(t, "commit") /\ call[t].at \notin Inside
  BY <1>1 DEF git, IInv, FreshShape, At, Inside
<1> HIDE DEF e
<1>5. HeapType' /\ CacheSound' /\ PendingSound' /\ LockShape' /\ KnownShape' /\ MutexShape'
  BY <1>1, <1>2, <1>3, <1>4, LoadStep
<1>6. FreshShape' /\ LruSound' /\ AckedDurable'
  BY <1>1 DEF IInv, FreshShape, LruSound, AckedDurable, git, maps
<1>7. QED
  BY <1>3, <1>5, <1>6 DEF IInv

LEMMA NewStep ==
  ASSUME IInv, NEW t \in Thread, NEW e \in Entity, New(t, e)
  PROVE  IInv'
<1>0. PICK c \in CallRecord :
        c = [call[t] EXCEPT !.at = "insert", !.id = e, !.got = NextInstance, !.then = "excerpt"]
  <2>1. Unused # {}
    BY DEF New
  <2>2. NextInstance \in Instance
    BY <2>1, NextInstanceFacts DEF IInv
  <2>3. QED
    BY <2>2, CallFacts DEF CallRecord
<1>1. /\ call[t].at = "idle" /\ Unused # {} /\ e \in fresh
      /\ call' = [call EXCEPT ![t] = c] /\ held' = [held EXCEPT ![t] = 0]
      /\ stored' = [stored EXCEPT ![e] = {e}] /\ fresh' = fresh \ {e}
      /\ UNCHANGED <<remote, maps, mu, pull, acked>>
      /\ Heap(Load(NextInstance, e, {e})) /\ {e} \in SUBSET Commit
  BY <1>0 DEF New, Idle, At, Commit, IInv, RefTypes
<1>2. /\ c.at = "insert" /\ c.id = e /\ c.got = NextInstance /\ c.view = call[t].view
  BY <1>0, CallFacts DEF CallRecord
<1>3. RefTypes'
  BY <1>1, CallFacts DEF IInv, RefTypes, maps, pull
<1>4. /\ UNCHANGED <<maps, mu, pull>> /\ fresh' \subseteq fresh /\ e \notin fresh'
      /\ ~ At(t, "commit") /\ call[t].at \notin Inside /\ 0 \in {0, held[t]}
  BY <1>1 DEF At, Inside
<1>5. HeapType' /\ CacheSound' /\ PendingSound' /\ LockShape' /\ KnownShape' /\ MutexShape'
  BY <1>1, <1>2, <1>3, <1>4, LoadStep
<1>6. \A d \in Entity : d # e => stored'[d] = stored[d]
  BY <1>1 DEF IInv, RefTypes
<1>7. FreshShape' /\ LruSound'
  BY <1>1, <1>6 DEF IInv, FreshShape, LruSound, maps
<1>8. AckedDurable'
  <2>1. acked[e] \subseteq stored[e] /\ stored[e] = {}
    BY <1>1 DEF IInv, AckedDurable, FreshShape
  <2>2. QED
    BY <1>1, <1>6, <2>1 DEF IInv, AckedDurable
<1>9. QED
  BY <1>3, <1>5, <1>7, <1>8 DEF IInv
------------------------------------------------------------------------------
(* Steps that change what is cached.                                       *)

LEMMA LockKept ==
  ASSUME IInv, RefTypes', NEW heap, HeapIs(heap),
         \A j \in Instance : \/ heap[j].lock = inst[j].lock
                             \/ inst[j].lock = "free" /\ heap[j].lock = "evicted",
         \A u \in Thread : \/ call'[u] = call[u]
                           \/ call[u].at # "commit" /\ call'[u].at # "commit"
  PROVE  LockShape'
<1>1. ASSUME NEW u \in Thread, call'[u].at = "commit"
      PROVE  call'[u].got # 0 /\ inst'[call'[u].got].lock = u
  <2>1. call'[u] = call[u] /\ At(u, "commit")
    BY <1>1 DEF At
  <2>2. /\ call[u].got # 0 /\ inst[call[u].got].lock = u /\ call[u].got \in Instance
    BY <2>1, CommittingFacts DEF IInv, LockShape
  <2>3. inst'[call[u].got] = heap[call[u].got]
    BY <2>1, <2>2 DEF HeapIs
  <2>4. heap[call[u].got].lock = u
    BY <2>2, ThreadAssumption
  <2>5. QED
    BY <2>1, <2>2, <2>3, <2>4
<1>2. ASSUME NEW j \in Instance, inst'[j].lock \in Thread
      PROVE  call'[inst'[j].lock].at = "commit" /\ call'[inst'[j].lock].got = j
  <2>1. inst'[j] = heap[j]
    BY <1>2, ThreadAssumption DEF HeapIs, Garbage
  <2>2. inst'[j].lock = inst[j].lock
    BY <1>2, <2>1, ThreadAssumption
  <2>3. inst[j].lock \in Thread /\ At(inst[j].lock, "commit") /\ call[inst[j].lock].got = j
    BY <1>2, <2>2 DEF IInv, LockShape
  <2>4. call'[inst[j].lock] = call[inst[j].lock]
    BY <2>3 DEF At
  <2>5. QED
    BY <2>2, <2>3, <2>4 DEF At
<1>3. QED
  BY <1>1, <1>2 DEF LockShape, At

LEMMA KnownKept ==
  ASSUME RefTypes', NEW heap, HeapIs(heap), fresh' \subseteq fresh,
         \A j \in Instance : heap[j].ent = inst[j].ent,
         \A e \in Entity : Known(cached'[e]),
         \A u \in Thread : Known(held'[u]) /\ Known(call'[u].got) /\ Known(call'[u].view),
         \A k \in DOMAIN merged' : Known(merged'[k])
  PROVE  KnownShape'
<1>1. /\ \A e \in Entity : cached'[e] \in Instance \union {0}
      /\ \A k \in DOMAIN merged' : merged'[k] \in Instance
      /\ \A u \in Thread :
           /\ call'[u].got \in Instance \union {0} /\ call'[u].view \in Instance \union {0}
           /\ held'[u] \in Instance \union {0}
  BY DEF RefTypes, CallRecord
<1>2. \A e \in Entity : Known(cached[e])'
  BY <1>1 DEF Known, HeapIs
<1>3. \A k \in DOMAIN merged' : Known(merged[k])'
  BY <1>1 DEF Known, HeapIs
<1>4. ASSUME NEW u \in Thread
      PROVE  Known(held[u])' /\ Known(call[u].got)' /\ Known(call[u].view)'
  BY <1>1 DEF Known, HeapIs
<1>5. QED
  BY <1>2, <1>3, <1>4 DEF KnownShape

LEMMA InsertStep ==
  ASSUME IInv, NEW t \in Thread, Insert(t)
  PROVE  IInv'
<1>0. PICK c \in CallRecord : c = [call[t] EXCEPT !.at = "evict"]
  BY CallFacts DEF CallRecord
<1>1. PICK n, e : n = call[t].got /\ e = call[t].id
  OBVIOUS
<1>2. /\ At(t, "insert") /\ mu = "free" /\ mu' = "free"
      /\ cached' = [cached EXCEPT ![e] = n] /\ lru' = Newest(lru, e)
      /\ call' = [call EXCEPT ![t] = c] /\ held' = held
      /\ UNCHANGED <<git, excerpts, index, pull, acked>> /\ Heap(inst)
  BY <1>0, <1>1 DEF Insert, Goto, IInv, RefTypes
<1>3. /\ n \in Instance /\ n # 0 /\ e \in Entity /\ inst[n].ent = e /\ Known(n)
      /\ Outside(n) /\ \A k \in DOMAIN merged : merged[k] # n
      /\ \A u \in Thread : At(u, "insert") /\ call[u].got = n => u = t
  BY <1>1, <1>2, CallFacts DEF IInv, PendingSound, CallRecord
<1>4. /\ c.at = "evict" /\ c.got = n /\ c.view = call[t].view
      /\ \A u \in Thread : call'[u] = IF u = t THEN c ELSE call[u]
      /\ \A d \in Entity : cached'[d] = IF d = e THEN n ELSE cached[d]
  BY <1>0, <1>1, <1>2, CallFacts DEF CallRecord, IInv, RefTypes
<1>5. /\ lru' \in Seq(Entity) /\ IsInjective(lru') /\ Range(lru') = Range(lru) \union {e}
  BY <1>2, <1>3, NewestFacts DEF IInv, RefTypes
<1>6. RefTypes'
  <2>1. cached' \in [Entity -> Instance \union {0}] /\ call' \in [Thread -> CallRecord]
    BY <1>2, <1>3 DEF IInv, RefTypes
  <2>2. QED
    BY <1>2, <1>5, <2>1 DEF IInv, RefTypes, git, pull
<1>7. HeapIs(inst)
  BY <1>2, <1>6, HeapFacts DEF IInv, HeapType
<1>8. CacheSound'
  BY <1>3, <1>4, <1>7 DEF IInv, CacheSound, HeapIs, Outside
<1>9. PendingSound'
  <2>1. ASSUME NEW u \in Thread, call'[u].at = "insert"
        PROVE  call'[u] = call[u] /\ At(u, "insert") /\ call[u].got # n
    BY <1>3, <1>4, <2>1 DEF At
  <2>2. ASSUME NEW u \in Thread, call'[u].at = "insert"
        PROVE  inst'[call'[u].got] = inst[call'[u].got] /\ call'[u].got # 0
    BY <1>7, <2>1, <2>2 DEF HeapIs, IInv, PendingSound
  <2>3. ASSUME NEW k \in DOMAIN merged
        PROVE  Outside(merged[k])'
    BY <1>2, <1>3, <1>4, <1>7 DEF Outside, HeapIs, IInv, PendingSound, pull
  <2>4. QED
    BY <1>2, <1>4, <2>1, <2>2, <2>3 DEF PendingSound, At, Outside, IInv, pull
<1>10. LockShape'
  BY <1>2, <1>4, <1>6, <1>7, LockKept DEF At
<1>11. KnownShape'
  <2>1. \A u \in Thread : Known(held'[u]) /\ Known(call'[u].got) /\ Known(call'[u].view)
    BY <1>2, <1>3, <1>4, CallFacts
  <2>2. (\A d \in Entity : Known(cached'[d])) /\ (\A k \in DOMAIN merged' : Known(merged'[k]))
    BY <1>2, <1>3, <1>4 DEF IInv, KnownShape, pull
  <2>3. fresh' \subseteq fresh
    BY <1>2 DEF git
  <2>4. QED
    BY <1>6, <1>7, <2>1, <2>2, <2>3, KnownKept
<1>12. MutexShape'
  <2>1. CallSound(c)' /\ c.at \notin Inside /\ mu' # t
    BY <1>2, <1>3, <1>4, ThreadAssumption DEF CallSound, Inside
  <2>2. QED
    BY <1>2, <2>1, MutexStep
<1>13. FreshShape' /\ AckedDurable'
  BY <1>2 DEF IInv, FreshShape, AckedDurable, git
<1>14. LruSound'
  <2>1. Range(lru) \subseteq Entity
    BY DEF IInv, RefTypes, Range
  <2>2. QED
    BY <1>3, <1>4, <1>5, <2>1 DEF IInv, LruSound
<1>15. QED
  BY <1>6, <1>7, <1>8, <1>9, <1>10, <1>11, <1>12, <1>13, <1>14 DEF IInv, HeapIs, HeapType

LEMMA EvictLockStep ==
  ASSUME IInv, NEW t \in Thread, EvictLock(t)
  PROVE  IInv'
<1>0. PICK e, n, s : e = Head(call[t].scan) /\ n = cached[e] /\ s = call[t].scan
  OBVIOUS
<1> DEFINE heap == [inst EXCEPT ![n].lock = "evicted"]
<1>1. /\ call[t].at = "lock" /\ mu = t /\ Free(n)
      /\ lru' = Without(lru, e) /\ cached' = [cached EXCEPT ![e] = 0]
      /\ UNCHANGED <<git, excerpts, index, pull, acked>> /\ Heap(heap)
  <2>1. call[t].at = "lock"
    BY DEF EvictLock, At
  <2>2. mu = t
    BY <2>1, CallFacts DEF Inside
  <2>3. QED
    BY <1>0, <2>1, <2>2 DEF EvictLock
<1>2. /\ s \in Seq(Entity) /\ s # <<>> /\ IsInjective(s) /\ Range(s) \subseteq Range(lru)
      /\ call[t].got \in Instance /\ call[t].got # 0 /\ Known(call[t].got)
  BY <1>0, <1>1, CallFacts DEF CallSound, CallRecord
<1>3. /\ e \in Entity /\ e \in Range(lru)
      /\ Tail(s) \in Seq(Entity) /\ IsInjective(Tail(s)) /\ Range(Tail(s)) \subseteq Range(s) \ {e}
  <2>1. /\ Tail(s) \in Seq(Entity) /\ Len(Tail(s)) = Len(s) - 1 /\ Len(s) \in Nat /\ 1 \in 1..Len(s)
        /\ \A k \in 1..Len(s) - 1 : Tail(s)[k] = s[k + 1] /\ k + 1 \in 1..Len(s) /\ k + 1 # 1
        /\ DOMAIN Tail(s) = 1..Len(s) - 1 /\ DOMAIN s = 1..Len(s) /\ e = s[1]
    BY <1>0, <1>2
  <2>2. IsInjective(Tail(s))
    BY <1>2, <2>1 DEF IsInjective
  <2>3. Range(Tail(s)) \subseteq Range(s) \ {e}
    BY <1>2, <2>1 DEF IsInjective, Range
  <2>4. e \in Range(s) /\ e \in Entity
    BY <1>2, <2>1 DEF Range
  <2>5. QED
    BY <1>2, <2>1, <2>2, <2>3, <2>4
<1>4. n \in Instance /\ n # 0 /\ inst[n].ent = e /\ inst[n].lock = "free"
  BY <1>0, <1>1, <1>3 DEF IInv, LruSound, CacheSound, RefTypes, Free
<1>5. /\ lru' \in Seq(Entity) /\ IsInjective(lru') /\ Range(lru') = Range(lru) \ {e}
  BY <1>1, <1>3, WithoutFacts DEF IInv, RefTypes
<1>6. PICK c \in CallRecord, h \in Instance \union {0} :
        /\ call' = [call EXCEPT ![t] = c] /\ held' = [held EXCEPT ![t] = h]
        /\ c.at \notin {"insert", "commit"} /\ Known(c.got) /\ Known(c.view) /\ Known(h)
        /\ CallSound(c)' /\ mu' \in {"free", t} /\ (c.at \in Inside <=> mu' = t)
  <2>1. CASE call' = [call EXCEPT ![t].at = "scan", ![t].scan = Tail(@)] /\ UNCHANGED <<mu, held>>
    <3>1. PICK c \in CallRecord : c = [call[t] EXCEPT !.at = "scan", !.scan = Tail(s)]
      BY <1>3, CallFacts DEF CallRecord
    <3>2. /\ c.at = "scan" /\ c.scan = Tail(s) /\ c.got = call[t].got /\ c.view = call[t].view
      BY <3>1, CallFacts DEF CallRecord
    <3>3. call' = [call EXCEPT ![t] = c] /\ held' = [held EXCEPT ![t] = held[t]]
      BY <1>0, <2>1, <3>1 DEF IInv, RefTypes
    <3>4. Range(c.scan) \subseteq Range(lru')
      BY <1>2, <1>3, <1>5, <3>2
    <3>5. CallSound(c)'
      BY <1>2, <1>3, <3>2, <3>4 DEF CallSound
    <3>6. QED
      BY <1>1, <1>2, <2>1, <3>2, <3>3, <3>5, CallFacts DEF Inside
  <2>2. CASE mu' = "free" /\ Proceed(t, call[t].got)
    <3>1. PICK c \in CallRecord, h \in Instance \union {0} :
            /\ call' = [call EXCEPT ![t] = c] /\ held' = [held EXCEPT ![t] = h]
            /\ c.at \notin Inside \union {"insert", "commit"}
            /\ CallSound(c) /\ Known(c.got) /\ Known(c.view) /\ Known(h)
      BY <1>2, <2>2, ProceedFacts
    <3>2. CallSound(c)'
      BY <3>1 DEF CallSound, Inside
    <3>3. QED
      BY <2>2, <3>1, <3>2, ThreadAssumption
  <2>3. QED
    BY <2>1, <2>2 DEF EvictLock
<1>7. /\ \A u \in Thread : call'[u] = IF u = t THEN c ELSE call[u]
      /\ \A u \in Thread : held'[u] = IF u = t THEN h ELSE held[u]
      /\ \A d \in Entity : cached'[d] = IF d = e THEN 0 ELSE cached[d]
      /\ merged' = merged /\ ~ At(t, "commit")
  BY <1>1, <1>6 DEF IInv, RefTypes, pull, At
<1>8. RefTypes'
  <2>1. cached' \in [Entity -> Instance \union {0}]
    BY <1>1, <1>3 DEF IInv, RefTypes
  <2>2. call' \in [Thread -> CallRecord] /\ held' \in [Thread -> Instance \union {0}]
    BY <1>6 DEF IInv, RefTypes
  <2>3. mu' \in Thread \union {"free"}
    BY <1>6
  <2>4. QED
    BY <1>1, <1>5, <2>1, <2>2, <2>3 DEF IInv, RefTypes, git, pull
<1>9. /\ heap \in [Instance -> InstanceRecord]
      /\ \A j \in Instance : heap[j].ent = inst[j].ent
      /\ \A j \in Instance : heap[j].lock = IF j = n THEN "evicted" ELSE inst[j].lock
  <2>1. inst[n] \in InstanceRecord /\ [inst[n] EXCEPT !.lock = "evicted"] \in InstanceRecord
    BY <1>4, EntOf DEF InstanceRecord
  <2>2. heap = [inst EXCEPT ![n] = [inst[n] EXCEPT !.lock = "evicted"]]
    BY <1>4 DEF IInv, HeapType
  <2> DEFINE r == [inst[n] EXCEPT !.lock = "evicted"]
  <2>3. r.ent = inst[n].ent /\ r.lock = "evicted"
    BY <2>1 DEF InstanceRecord
  <2> HIDE DEF heap, r
  <2>4. /\ heap \in [Instance -> InstanceRecord]
        /\ \A j \in Instance : heap[j] = IF j = n THEN r ELSE inst[j]
    BY <1>4, <2>1, <2>2 DEF IInv, HeapType, r
  <2>5. QED
    BY <2>3, <2>4
<1> HIDE DEF heap
<1>10. HeapIs(heap)
  BY <1>1, <1>8, <1>9, HeapFacts
<1>11. \A d \in Entity : cached'[d] # 0 => cached[d] \in Instance /\ cached[d] # n /\ cached'[d] = cached[d]
  BY <1>4, <1>7 DEF IInv, CacheSound, RefTypes
<1>12. CacheSound'
  BY <1>9, <1>10, <1>11 DEF IInv, CacheSound, HeapIs
<1>13. PendingSound'
  <2>1. ASSUME NEW u \in Thread, call'[u].at = "insert"
        PROVE  call'[u] = call[u] /\ At(u, "insert") /\ call[u].got # n /\ call[u].got \in Instance
    <3>1. call'[u] = call[u] /\ At(u, "insert")
      BY <1>6, <1>7, <2>1 DEF At
    <3>2. call[u].got # n /\ call[u].got # 0
      BY <1>0, <1>3, <3>1 DEF IInv, PendingSound, Outside
    <3>3. QED
      BY <3>1, <3>2, CallFacts DEF CallRecord
  <2>2. ASSUME NEW u \in Thread, call'[u].at = "insert"
        PROVE  /\ inst'[call'[u].got].ent = inst[call[u].got].ent
               /\ inst'[call'[u].got].lock = inst[call[u].got].lock /\ call'[u].got # 0
    <3>1. call'[u].got # 0
      BY <2>1, <2>2 DEF IInv, PendingSound
    <3>2. QED
      BY <1>9, <1>10, <2>1, <2>2, <3>1 DEF HeapIs
  <2>3. ASSUME NEW k \in DOMAIN merged
        PROVE  Outside(merged[k])'
    <3>1. merged[k] \in Instance /\ merged[k] # n
      BY <1>0, <1>3 DEF IInv, PendingSound, Outside, RefTypes
    <3>2. inst'[merged[k]].lock = inst[merged[k]].lock
      BY <1>7, <1>9, <1>10, <3>1 DEF HeapIs
    <3>3. QED
      BY <1>7, <3>1, <3>2 DEF Outside, IInv, PendingSound, Instance
  <2>4. ASSUME NEW u \in Thread, call'[u].at = "insert"
        PROVE  Outside(call[u].got)'
    <3>1. Outside(call[u].got) /\ call'[u] = call[u]
      BY <2>1, <2>4 DEF IInv, PendingSound
    <3>2. QED
      BY <1>7, <2>2, <2>4, <3>1 DEF Outside
  <2>5. ASSUME NEW u \in Thread, call'[u].at = "insert"
        PROVE  /\ call'[u].got # 0 /\ inst'[call'[u].got].ent = call'[u].id
               /\ \A k \in DOMAIN merged' : merged'[k] # call'[u].got
               /\ \A v \in Thread : call'[v].at = "insert" /\ call'[v].got = call'[u].got => v = u
    BY <1>7, <2>1, <2>2, <2>5 DEF IInv, PendingSound
  <2>6. IsInjective(merged')
    BY <1>7 DEF IInv, PendingSound
  <2>7. QED
    BY <1>7, <2>3, <2>4, <2>5, <2>6 DEF PendingSound, At
<1>14. LockShape'
  BY <1>4, <1>6, <1>7, <1>8, <1>9, <1>10, LockKept DEF At
<1>15. KnownShape'
  <2>1. \A u \in Thread : Known(held'[u]) /\ Known(call'[u].got) /\ Known(call'[u].view)
    BY <1>6, <1>7, CallFacts
  <2>2. (\A d \in Entity : Known(cached'[d])) /\ (\A k \in DOMAIN merged' : Known(merged'[k]))
    BY <1>7 DEF IInv, KnownShape, Known
  <2>3. fresh' \subseteq fresh
    BY <1>1 DEF git
  <2>4. QED
    BY <1>8, <1>9, <1>10, <2>1, <2>2, <2>3, KnownKept
<1>16. MutexShape'
  BY <1>1, <1>6, MutexStep
<1>17. FreshShape' /\ AckedDurable'
  BY <1>1 DEF IInv, FreshShape, AckedDurable, git
<1>18. LruSound'
  <2>1. Range(lru) \subseteq Entity
    BY DEF IInv, RefTypes, Range
  <2>2. QED
    BY <1>5, <1>7, <2>1 DEF IInv, LruSound
<1>19. QED
  BY <1>8, <1>10, <1>12, <1>13, <1>14, <1>15, <1>16, <1>17, <1>18 DEF IInv, HeapIs, HeapType

LEMMA ForgetStep ==
  ASSUME IInv, NEW t \in Thread, Forget(t)
  PROVE  IInv'
<1>0. PICK e : e = inst[call[t].got].ent
  OBVIOUS
<1>1. /\ call[t].at = "remove" /\ mu = "free" /\ mu' = "free"
      /\ stored' = [stored EXCEPT ![e] = {}] /\ remote' = [remote EXCEPT ![e] = {}]
      /\ acked' = [acked EXCEPT ![e] = {}] /\ cached' = [cached EXCEPT ![e] = 0]
      /\ excerpts' = [excerpts EXCEPT ![e] = {}] /\ lru' = Without(lru, e)
      /\ index' = index \ {e} /\ Heap(inst) /\ UNCHANGED <<fresh, pull>>
      /\ call' = [call EXCEPT ![t] = NoCall] /\ held' = [held EXCEPT ![t] = 0]
  BY <1>0 DEF Forget, Return, At
<1>2. e \in Entity
  <2>1. call[t].got \in Instance
    BY <1>1, CallFacts DEF CallSound, CallRecord
  <2>2. QED
    BY <1>0, <2>1, EntOf
<1>3. /\ lru' \in Seq(Entity) /\ IsInjective(lru') /\ Range(lru') = Range(lru) \ {e}
  BY <1>1, <1>2, WithoutFacts DEF IInv, RefTypes
<1>4. /\ \A u \in Thread : call'[u] = IF u = t THEN NoCall ELSE call[u]
      /\ \A u \in Thread : held'[u] = IF u = t THEN 0 ELSE held[u]
      /\ \A d \in Entity : cached'[d] = IF d = e THEN 0 ELSE cached[d]
      /\ \A d \in Entity : stored'[d] = IF d = e THEN {} ELSE stored[d]
      /\ \A d \in Entity : remote'[d] = IF d = e THEN {} ELSE remote[d]
      /\ \A d \in Entity : acked'[d] = IF d = e THEN {} ELSE acked[d]
      /\ \A d \in Entity : excerpts'[d] = IF d = e THEN {} ELSE excerpts[d]
      /\ merged' = merged /\ fresh' = fresh
  BY <1>1 DEF IInv, RefTypes, pull
<1>5. RefTypes'
  <2>1. /\ cached' \in [Entity -> Instance \union {0}]
        /\ stored' \in [Entity -> SUBSET Commit] /\ remote' \in [Entity -> SUBSET Commit]
        /\ excerpts' \in [Entity -> SUBSET Commit] /\ acked' \in [Entity -> SUBSET Op]
    BY <1>1 DEF IInv, RefTypes
  <2>2. call' \in [Thread -> CallRecord] /\ held' \in [Thread -> Instance \union {0}]
    BY <1>1, NoCallFacts DEF IInv, RefTypes
  <2>3. index' \subseteq Entity
    BY <1>1 DEF IInv, RefTypes
  <2>4. QED
    BY <1>1, <1>3, <2>1, <2>2, <2>3 DEF IInv, RefTypes, pull
<1>6. HeapIs(inst)
  BY <1>1, <1>5, HeapFacts DEF IInv, HeapType
<1>7. CacheSound'
  BY <1>4, <1>6 DEF IInv, CacheSound, HeapIs
<1>8. PendingSound'
  <2>1. ASSUME NEW u \in Thread, call'[u].at = "insert"
        PROVE  call'[u] = call[u] /\ At(u, "insert")
    BY <1>4, <2>1, NoCallFacts DEF At
  <2>2. ASSUME NEW u \in Thread, call'[u].at = "insert"
        PROVE  /\ inst'[call'[u].got] = inst[call[u].got] /\ call'[u].got # 0
               /\ call[u].got \in Instance
    BY <1>6, <2>1, <2>2, CallFacts DEF HeapIs, IInv, PendingSound, CallRecord
  <2>3. ASSUME NEW i \in Instance, Outside(i), inst'[i] = inst[i]
        PROVE  Outside(i)'
    BY <1>4, <2>3 DEF Outside, Instance
  <2>4. \A k \in DOMAIN merged : Outside(merged[k])'
    <3>1. \A k \in DOMAIN merged :
            /\ merged[k] \in Instance /\ Outside(merged[k]) /\ inst'[merged[k]] = inst[merged[k]]
            /\ merged'[k] = merged[k]
      BY <1>4, <1>6 DEF HeapIs, IInv, PendingSound, RefTypes
    <3>2. QED
      BY <2>3, <3>1 DEF Outside
  <2>5. ASSUME NEW u \in Thread, call'[u].at = "insert"
        PROVE  Outside(call[u].got)'
    <3>1. Outside(call[u].got) /\ call'[u] = call[u]
      BY <2>1, <2>5 DEF IInv, PendingSound
    <3>2. QED
      BY <2>2, <2>3, <2>5, <3>1 DEF Outside
  <2>6. ASSUME NEW u \in Thread, call'[u].at = "insert"
        PROVE  /\ call'[u].got # 0 /\ inst'[call'[u].got].ent = call'[u].id
               /\ \A k \in DOMAIN merged' : merged'[k] # call'[u].got
               /\ \A v \in Thread : call'[v].at = "insert" /\ call'[v].got = call'[u].got => v = u
    BY <1>4, <2>1, <2>2, <2>6 DEF IInv, PendingSound
  <2>7. IsInjective(merged')
    BY <1>4 DEF IInv, PendingSound
  <2>8. QED
    BY <1>4, <2>4, <2>5, <2>6, <2>7 DEF PendingSound, At
<1>9. LockShape'
  BY <1>1, <1>4, <1>5, <1>6, NoCallFacts, LockKept
<1>10. KnownShape'
  <2>1. Known(0) /\ Known(NoCall.got) /\ Known(NoCall.view)
    BY NoCallFacts DEF Known
  <2>2. \A u \in Thread : Known(held'[u]) /\ Known(call'[u].got) /\ Known(call'[u].view)
    BY <1>4, <2>1, CallFacts
  <2>3. (\A d \in Entity : Known(cached'[d])) /\ (\A k \in DOMAIN merged' : Known(merged'[k]))
    BY <1>4, <2>1 DEF IInv, KnownShape
  <2>4. QED
    BY <1>4, <1>5, <1>6, <2>2, <2>3, KnownKept
<1>11. MutexShape'
  <2>1. CallSound(NoCall)' /\ NoCall.at \notin Inside /\ mu' # t
    BY <1>1, NoCallFacts, ThreadAssumption DEF CallSound, Inside, NoCall
  <2>2. QED
    BY <1>1, <2>1, NoCallFacts, MutexStep
<1>12. FreshShape' /\ AckedDurable'
  BY <1>4 DEF IInv, FreshShape, AckedDurable
<1>13. LruSound'
  <2>1. Range(lru) \subseteq Entity
    BY DEF IInv, RefTypes, Range
  <2>2. QED
    BY <1>3, <1>4, <2>1 DEF IInv, LruSound
<1>14. QED
  BY <1>5, <1>6, <1>7, <1>8, <1>9, <1>10, <1>11, <1>12, <1>13 DEF IInv, HeapIs, HeapType
------------------------------------------------------------------------------
(* Steps of the pull.                                                      *)

(* The remote and what is left to merge concern no instance.               *)
LEMMA GitStep ==
  ASSUME IInv, UNCHANGED <<stored, inst, maps, mu, held, call, merged, acked>>,
         RefTypes', fresh' \subseteq fresh,
         \A e \in fresh' \intersect Entity : remote'[e] = {}
  PROVE  IInv'
<1>1. HeapType' /\ CacheSound' /\ LruSound' /\ AckedDurable'
  BY DEF IInv, HeapType, CacheSound, LruSound, AckedDurable, maps
<1>2. PendingSound' /\ LockShape'
  BY DEF IInv, PendingSound, LockShape, Outside, At, maps
<1>3. MutexShape'
  BY DEF IInv, MutexShape, CallSound, maps
<1>4. KnownShape' /\ FreshShape'
  BY DEF IInv, KnownShape, Known, FreshShape, maps
<1>5. QED
  BY <1>1, <1>2, <1>3, <1>4 DEF IInv

LEMMA FetchStep ==
  ASSUME IInv, NEW e \in Entity, NEW c \in Commit, Fetch(e, c)
  PROVE  IInv'
<1>1. /\ c \in fresh /\ fresh' = fresh \ {c} /\ todo' = {d \in Entity : remote'[d] # {}}
      /\ UNCHANGED <<stored, inst, maps, mu, held, call, merged, acked>>
  BY DEF Fetch
<1>2. PICK version \in SUBSET Commit : remote' = [remote EXCEPT ![e] = version]
  <2>1. CASE e = c /\ remote' = [remote EXCEPT ![e] = {e}]
    BY <2>1
  <2>2. CASE \E known \in {remote[e], stored[e], {e}} : remote' = [remote EXCEPT ![e] = known \union {c}]
    <3>1. PICK known \in {remote[e], stored[e], {e}} :
            remote' = [remote EXCEPT ![e] = known \union {c}]
      BY <2>2
    <3>2. known \union {c} \in SUBSET Commit
      BY DEF IInv, RefTypes, Commit
    <3>3. QED
      BY <3>1, <3>2
  <2>3. QED
    BY <2>1, <2>2 DEF Fetch
<1>3. e \notin fresh'
  <2>1. CASE e = c
    BY <1>1, <2>1
  <2>2. CASE e # c
    <3>1. e \in Existing \/ remote[e] # {} \/ excerpts[e] # {}
      BY <2>2 DEF Fetch
    <3>2. e \notin fresh
      BY <3>1 DEF IInv, FreshShape
    <3>3. QED
      BY <1>1, <3>2
  <2>3. QED
    BY <2>1, <2>2
<1>4. RefTypes'
  <2>1. remote' \in [Entity -> SUBSET Commit]
    BY <1>2 DEF IInv, RefTypes
  <2>2. QED
    BY <1>1, <2>1 DEF IInv, RefTypes, maps
<1>5. \A d \in fresh' \intersect Entity : remote'[d] = {}
  BY <1>1, <1>2, <1>3 DEF IInv, RefTypes, FreshShape
<1>6. fresh' \subseteq fresh
  BY <1>1
<1>7. QED
  BY <1>1, <1>4, <1>5, <1>6, GitStep

LEMMA MergeNothingStep ==
  ASSUME IInv, NEW e \in Entity, MergeNothing(e)
  PROVE  IInv'
<1>1. UNCHANGED <<git, inst, maps, mu, held, call, merged, acked>> /\ todo' = todo \ {e}
  BY DEF MergeNothing
<1>2. /\ RefTypes' /\ fresh' \subseteq fresh
      /\ \A d \in fresh' \intersect Entity : remote'[d] = {}
      /\ UNCHANGED <<stored, inst, maps, mu, held, call, merged, acked>>
  BY <1>1 DEF IInv, RefTypes, FreshShape, git, maps
<1>3. QED
  BY <1>2, GitStep

(* The entity that was merged, on its way to the cache.                    *)
LEMMA ResultStep ==
  ASSUME IInv, NEW e \in Entity, NEW base \in SUBSET Commit, Result(e, base),
         stored' \in [Entity -> SUBSET Commit], fresh' \subseteq fresh, e \notin fresh,
         \A d \in Entity : stored[d] \subseteq stored'[d] /\ (d # e => stored'[d] = stored[d])
  PROVE  IInv'
<1> DEFINE heap == Load(NextInstance, e, base)
<1>0. PICK n \in Instance : n = NextInstance
  BY NextInstanceFacts DEF IInv, Result
<1>1. /\ n # 0
      /\ \A d \in Entity : cached[d] # n
      /\ \A u \in Thread : held[u] # n /\ call[u].got # n /\ call[u].view # n
      /\ \A k \in DOMAIN merged : merged[k] # n
  BY <1>0, NextInstanceFacts DEF IInv, Result
<1>2. /\ heap \in [Instance -> InstanceRecord] /\ heap[n].ent = e /\ heap[n].lock = "free"
      /\ \A j \in Instance : j # n => heap[j] = inst[j]
  <2>1. heap = Load(n, e, base)
    BY <1>0
  <2> HIDE DEF heap
  <2>2. /\ heap \in [Instance -> InstanceRecord]
        /\ heap[n] = [ent |-> e, base |-> base, staging |-> {}, lock |-> "free"]
        /\ \A j \in Instance : j # n => heap[j] = inst[j]
    BY <2>1, LoadType DEF IInv
  <2>3. QED
    BY <2>2
<1> HIDE DEF heap
<1>3. /\ todo' = todo \ {e} /\ merged' = Append(merged, n)
      /\ UNCHANGED <<remote, maps, mu, held, call, acked>> /\ Heap(heap)
  BY <1>0 DEF Result, heap
<1>4. RefTypes'
  <2>1. merged' \in Seq(Instance)
    BY <1>3 DEF IInv, RefTypes
  <2>2. fresh' \subseteq Commit
    BY DEF IInv, RefTypes
  <2>3. QED
    BY <1>3, <2>1, <2>2 DEF IInv, RefTypes, maps
<1>5. HeapIs(heap)
  BY <1>2, <1>3, <1>4, HeapFacts
<1>6. /\ DOMAIN merged' = (DOMAIN merged) \union {Len(merged) + 1}
      /\ Len(merged) + 1 \notin DOMAIN merged
      /\ \A k \in DOMAIN merged : merged'[k] = merged[k]
      /\ merged'[Len(merged) + 1] = n
  <2>1. merged \in Seq(Instance)
    BY DEF IInv, RefTypes
  <2>2. QED
    BY <1>3, <2>1
<1>7. /\ \A d \in Entity : cached[d] # 0 => inst'[cached[d]] = inst[cached[d]]
      /\ \A k \in DOMAIN merged : inst'[merged[k]] = inst[merged[k]]
      /\ \A u \in Thread :
           /\ call[u].view # 0 => inst'[call[u].view] = inst[call[u].view]
           /\ call[u].got # 0 => inst'[call[u].got] = inst[call[u].got]
           /\ held[u] # 0 => inst'[held[u]] = inst[held[u]]
      /\ inst'[n] = heap[n]
  <2>1. /\ \A d \in Entity : cached[d] \in Instance \union {0} /\ cached'[d] = cached[d]
        /\ \A k \in DOMAIN merged : merged[k] \in Instance
        /\ \A u \in Thread :
             /\ call[u].got \in Instance \union {0} /\ call[u].view \in Instance \union {0}
             /\ held[u] \in Instance \union {0}
             /\ call'[u] = call[u] /\ held'[u] = held[u]
    BY <1>3 DEF IInv, RefTypes, CallRecord, maps
  <2>2. \A d \in Entity : cached[d] # 0 => inst'[cached[d]] = inst[cached[d]]
    BY <1>1, <1>2, <1>5, <2>1 DEF HeapIs
  <2>3. \A k \in DOMAIN merged : inst'[merged[k]] = inst[merged[k]]
    BY <1>1, <1>2, <1>5, <1>6, <2>1 DEF HeapIs
  <2>4. ASSUME NEW u \in Thread
        PROVE  /\ call[u].view # 0 => inst'[call[u].view] = inst[call[u].view]
               /\ call[u].got # 0 => inst'[call[u].got] = inst[call[u].got]
               /\ held[u] # 0 => inst'[held[u]] = inst[held[u]]
    BY <1>1, <1>2, <1>5, <2>1 DEF HeapIs
  <2>5. inst'[n] = heap[n]
    BY <1>5, <1>6 DEF HeapIs
  <2>6. QED
    BY <2>2, <2>3, <2>4, <2>5
<1>8. CacheSound' /\ LruSound'
  BY <1>3, <1>7 DEF CacheSound, LruSound, IInv, maps
<1>9. PendingSound'
  <2>1. \A k \in DOMAIN merged' :
          inst'[merged'[k]].lock # "evicted" /\ \A d \in Entity : cached'[d] # merged'[k]
    BY <1>1, <1>2, <1>3, <1>6, <1>7 DEF Outside, IInv, PendingSound, maps
  <2>2. IsInjective(merged')
    BY <1>1, <1>6 DEF IInv, PendingSound, IsInjective
  <2>3. ASSUME NEW u \in Thread, At(u, "insert")
        PROVE  /\ call[u].got # 0 /\ inst'[call[u].got].ent = call[u].id
               /\ inst'[call[u].got].lock # "evicted"
               /\ \A d \in Entity : cached'[d] # call[u].got
               /\ \A k \in DOMAIN merged' : merged'[k] # call[u].got
               /\ \A v \in Thread : At(v, "insert") /\ call[v].got = call[u].got => v = u
    BY <1>1, <1>3, <1>6, <1>7, <2>3 DEF Outside, IInv, PendingSound, maps
  <2>4. QED
    BY <1>3, <2>1, <2>2, <2>3 DEF PendingSound, Outside, At
<1>10. LockShape'
  <2>1. \A u \in Thread : call[u].at = "commit" => call[u].got # 0 /\ inst'[call[u].got].lock = u
    BY <1>7 DEF IInv, LockShape, At
  <2>2. ASSUME NEW j \in Instance, inst'[j].lock \in Thread
        PROVE  At(inst'[j].lock, "commit") /\ call[inst'[j].lock].got = j
    <3>1. inst'[j] = heap[j]
      BY <1>5, <2>2, ThreadAssumption DEF HeapIs, Garbage
    <3>2. j # n /\ heap[j] = inst[j]
      BY <1>2, <2>2, <3>1, ThreadAssumption
    <3>3. QED
      BY <2>2, <3>1, <3>2 DEF IInv, LockShape
  <2>3. QED
    BY <1>3, <2>1, <2>2 DEF LockShape, At
<1>11. KnownShape'
  <2>1. \A u \in Thread : Known(held[u])' /\ Known(call[u].got)' /\ Known(call[u].view)'
    BY <1>3, <1>7 DEF Known, IInv, KnownShape
  <2>2. \A d \in Entity : Known(cached[d])'
    BY <1>3, <1>7 DEF Known, IInv, KnownShape, maps
  <2>3. \A k \in DOMAIN merged' : Known(merged[k])'
    BY <1>2, <1>6, <1>7 DEF Known, IInv, KnownShape
  <2>4. QED
    BY <2>1, <2>2, <2>3 DEF KnownShape
<1>12. MutexShape'
  BY <1>3, <1>7 DEF IInv, MutexShape, CallSound, maps
<1>13. FreshShape' /\ AckedDurable'
  BY <1>3 DEF IInv, FreshShape, AckedDurable, maps
<1>14. QED
  BY <1>4, <1>5, <1>8, <1>9, <1>10, <1>11, <1>12, <1>13 DEF IInv, HeapIs, HeapType

LEMMA MergeTakeRemoteStep ==
  ASSUME IInv, NEW e \in Entity, MergeTakeRemote(e)
  PROVE  IInv'
<1>1. /\ stored[e] \subseteq remote[e] /\ stored[e] # remote[e]
      /\ stored' = [stored EXCEPT ![e] = remote[e]] /\ fresh' = fresh
      /\ Result(e, remote[e]) /\ remote[e] \in SUBSET Commit
  BY DEF MergeTakeRemote, IInv, RefTypes
<1>2. e \notin fresh
  BY <1>1 DEF IInv, FreshShape
<1>3. /\ stored' \in [Entity -> SUBSET Commit]
      /\ \A d \in Entity : stored[d] \subseteq stored'[d] /\ (d # e => stored'[d] = stored[d])
  BY <1>1 DEF IInv, RefTypes
<1>4. fresh' \subseteq fresh
  BY <1>1
<1>5. QED
  BY <1>1, <1>2, <1>3, <1>4, ResultStep

LEMMA MergeJoinStep ==
  ASSUME IInv, NEW e \in Entity, NEW c \in Op, MergeJoin(e, c)
  PROVE  IInv'
<1>1. /\ ~ (stored[e] \subseteq remote[e]) /\ fresh' = fresh \ {c}
      /\ stored' = [stored EXCEPT ![e] = stored[e] \union remote[e] \union {c}]
      /\ Result(e, stored[e]) /\ stored[e] \in SUBSET Commit
  BY DEF MergeJoin, IInv, RefTypes
<1>2. e \notin fresh
  BY <1>1 DEF IInv, FreshShape
<1>3. /\ stored' \in [Entity -> SUBSET Commit]
      /\ \A d \in Entity : stored[d] \subseteq stored'[d] /\ (d # e => stored'[d] = stored[d])
  <2>1. stored[e] \union remote[e] \union {c} \in SUBSET Commit
    BY DEF IInv, RefTypes, Commit
  <2>2. QED
    BY <1>1, <2>1 DEF IInv, RefTypes
<1>4. fresh' \subseteq fresh
  BY <1>1
<1>5. QED
  BY <1>1, <1>2, <1>3, <1>4, ResultStep

LEMMA InstallStep ==
  ASSUME IInv, Install
  PROVE  IInv'
<1>0. PICK i, e : i = Head(merged) /\ e = inst[i].ent
  OBVIOUS
<1>1. /\ merged # <<>> /\ mu = "free" /\ mu' = "free" /\ merged' = Tail(merged)
      /\ cached' = [cached EXCEPT ![e] = i]
      /\ excerpts' = [excerpts EXCEPT ![e] = Content(i)]
      /\ UNCHANGED <<git, index, lru, held, call, todo, acked>> /\ Heap(inst)
  BY <1>0 DEF Install
<1>2. /\ merged' \in Seq(Instance)
      /\ 1 \in DOMAIN merged /\ i = merged[1]
      /\ \A k \in DOMAIN merged' : k + 1 \in DOMAIN merged /\ merged'[k] = merged[k + 1]
      /\ DOMAIN merged' \subseteq Nat \ {0}
  BY <1>0, <1>1 DEF IInv, RefTypes
<1>3. i \in Instance /\ i # 0 /\ Outside(i) /\ Known(i)
  <2>1. i \in Instance
    BY <1>2 DEF IInv, RefTypes
  <2>2. i # 0
    BY <2>1 DEF Instance
  <2>3. Outside(i) /\ Known(i)
    BY <1>2 DEF IInv, PendingSound, KnownShape
  <2>4. QED
    BY <2>1, <2>2, <2>3
<1>4. inst[i] \in InstanceRecord /\ e \in Entity /\ e \notin fresh /\ Content(i) \in SUBSET Commit
  <2>1. inst[i] \in InstanceRecord
    BY <1>3 DEF IInv, HeapType
  <2>2. QED
    BY <1>0, <1>3, <2>1 DEF InstanceRecord, Known, Content, Commit
<1>5. /\ \A d \in Entity : cached'[d] = IF d = e THEN i ELSE cached[d]
      /\ \A d \in Entity : excerpts'[d] = IF d = e THEN Content(i) ELSE excerpts[d]
  BY <1>1 DEF IInv, RefTypes
<1>6. RefTypes'
  <2>1. /\ cached' \in [Entity -> Instance \union {0}]
        /\ excerpts' \in [Entity -> SUBSET Commit]
    BY <1>1, <1>3, <1>4 DEF IInv, RefTypes
  <2>2. QED
    BY <1>1, <1>2, <2>1 DEF IInv, RefTypes, git
<1>7. HeapIs(inst)
  BY <1>1, <1>6, HeapFacts DEF IInv, HeapType
<1>8. CacheSound'
  BY <1>0, <1>3, <1>5, <1>7 DEF IInv, CacheSound, HeapIs, Outside
<1>9. PendingSound'
  <2>1. \A k \in DOMAIN merged' : merged'[k] # i
    BY <1>2 DEF IInv, PendingSound, IsInjective
  <2>2. IsInjective(merged')
    BY <1>2 DEF IInv, PendingSound, IsInjective
  <2>3. ASSUME NEW j \in Instance, Outside(j), j # i, inst'[j] = inst[j]
        PROVE  Outside(j)'
    BY <1>5, <2>3 DEF Outside
  <2>4. ASSUME NEW k \in DOMAIN merged'
        PROVE  Outside(merged[k])'
    <3>1. PICK j : j = merged'[k]
      OBVIOUS
    <3>2. j \in Instance /\ Outside(j) /\ inst'[j] = inst[j] /\ j # i
      BY <1>2, <1>7, <2>1, <3>1 DEF HeapIs, IInv, PendingSound, RefTypes
    <3>3. Outside(j)'
      BY <2>3, <3>2
    <3>4. QED
      BY <3>1, <3>3 DEF Outside
  <2>5. ASSUME NEW u \in Thread, call[u].at = "insert"
        PROVE  /\ call[u].got # 0 /\ inst'[call[u].got].ent = call[u].id
               /\ Outside(call[u].got)'
               /\ \A k \in DOMAIN merged' : merged'[k] # call[u].got
               /\ \A v \in Thread : At(v, "insert") /\ call[v].got = call[u].got => v = u
    <3>1. /\ call[u].got # 0 /\ inst[call[u].got].ent = call[u].id
          /\ Outside(call[u].got)
          /\ \A k \in DOMAIN merged : merged[k] # call[u].got
          /\ \A v \in Thread : At(v, "insert") /\ call[v].got = call[u].got => v = u
      BY <2>5 DEF IInv, PendingSound, At
    <3>2. PICK j : j = call[u].got
      OBVIOUS
    <3>3. j \in Instance /\ Outside(j) /\ j # i /\ inst'[j] = inst[j]
      BY <1>1, <1>2, <1>7, <3>1, <3>2, CallFacts DEF HeapIs, CallRecord
    <3>4. Outside(j)'
      BY <2>3, <3>3
    <3>5. Outside(call[u].got)'
      BY <1>1, <3>2, <3>4 DEF Outside
    <3>6. QED
      BY <1>2, <3>1, <3>2, <3>3, <3>5
  <2>6. call' = call
    BY <1>1
  <2>7. QED
    BY <2>2, <2>4, <2>5, <2>6 DEF PendingSound, At
<1>10. LockShape'
  BY <1>1, <1>6, <1>7, LockKept
<1>11. KnownShape'
  <2>1. \A u \in Thread : Known(held'[u]) /\ Known(call'[u].got) /\ Known(call'[u].view)
    BY <1>1, CallFacts
  <2>2. \A d \in Entity : Known(cached'[d])
    BY <1>3, <1>5 DEF IInv, KnownShape
  <2>3. \A k \in DOMAIN merged' : Known(merged'[k])
    BY <1>2 DEF IInv, KnownShape
  <2>4. fresh' \subseteq fresh
    BY <1>1 DEF git
  <2>5. QED
    BY <1>6, <1>7, <2>1, <2>2, <2>3, <2>4, KnownKept
<1>12. MutexShape'
  <2>1. ASSUME NEW u \in Thread
        PROVE  CallSound(call[u]) /\ call[u].at \notin Inside
    BY <1>1, ThreadAssumption DEF IInv, MutexShape
  <2>2. ASSUME NEW u \in Thread
        PROVE  CallSound(call[u])' /\ (call'[u].at \in Inside <=> mu' = u)
    BY <1>1, <2>1, <2>2, ThreadAssumption DEF CallSound, Inside
  <2>3. QED
    BY <2>2 DEF MutexShape
<1>13. FreshShape' /\ AckedDurable'
  BY <1>1, <1>4, <1>5 DEF IInv, FreshShape, AckedDurable, git
<1>14. LruSound'
  <2>1. Range(lru) \subseteq Entity /\ lru' = lru
    BY <1>1 DEF IInv, RefTypes, Range
  <2>2. QED
    BY <1>3, <1>5, <2>1 DEF IInv, LruSound
<1>15. QED
  BY <1>6, <1>7, <1>8, <1>9, <1>10, <1>11, <1>12, <1>13, <1>14 DEF IInv, HeapIs, HeapType
------------------------------------------------------------------------------
(* The specification.                                                      *)

(* A cache that was just built for the entities S, when the process starts *)
(* or, in TermUi, starts again.                                            *)
JustBuilt(S) ==
  /\ stored \in [Entity -> SUBSET Commit] /\ remote \in [Entity -> SUBSET Commit]
  /\ fresh \subseteq Commit /\ acked \in [Entity -> SUBSET Op]
  /\ S \intersect fresh = {} /\ FreshShape /\ AckedDurable
  /\ lru \in Newests(S) /\ cached = Built(lru) /\ inst = BuiltHeap(lru, stored)
  /\ excerpts = stored /\ index = S
  /\ mu = "free" /\ todo = {} /\ merged = <<>>
  /\ held = [t \in Thread |-> 0] /\ call = [t \in Thread |-> NoCall]
FitsIn(S) == IsFiniteSet(S) /\ (Cardinality(S) <= MaxInstances \/ MaxLoaded <= MaxInstances)

LEMMA NewestsFacts ==
  ASSUME NEW S \in SUBSET Entity, FitsIn(S), NEW l \in Newests(S)
  PROVE  /\ l \in Seq(Entity) /\ IsInjective(l) /\ DOMAIN l \subseteq Instance
         /\ Range(l) \subseteq S
<1>1. PICK size \in Nat : size <= MaxInstances /\ l \in [1 .. size -> S] /\ IsInjective(l)
  <2> DEFINE n == IF Cardinality(S) < MaxLoaded THEN Cardinality(S) ELSE MaxLoaded
  <2>1. Cardinality(S) \in Nat
    BY FS_CardinalityType DEF FitsIn
  <2>2. n \in Nat /\ n <= MaxInstances
    BY <2>1, BoundAssumption DEF FitsIn
  <2>3. l \in [1 .. n -> S] /\ IsInjective(l)
    BY DEF Newests
  <2>4. QED
    BY <2>2, <2>3
<1>2. l \in Seq(Entity)
  BY <1>1
<1>3. DOMAIN l \subseteq Instance
  BY <1>1, BoundAssumption DEF Instance
<1>4. Range(l) \subseteq S
  BY <1>1 DEF Range
<1>5. QED
  BY <1>1, <1>2, <1>3, <1>4

LEMMA BuiltEntry ==
  ASSUME NEW l, NEW e \in Entity
  PROVE  /\ e \in Range(l) => Built(l)[e] \in DOMAIN l /\ l[Built(l)[e]] = e
         /\ e \notin Range(l) => Built(l)[e] = 0
<1>1. CASE e \in Range(l)
  <2>1. \E n \in DOMAIN l : l[n] = e
    BY <1>1 DEF Range
  <2>2. Built(l)[e] = CHOOSE n \in DOMAIN l : l[n] = e
    BY <1>1 DEF Built
  <2>3. QED
    BY <1>1, <2>1, <2>2
<1>2. CASE e \notin Range(l)
  BY <1>2 DEF Built
<1>3. QED
  BY <1>1, <1>2

(* Such a cache holds unlocked instances of stored versions, nothing more. *)
LEMMA BuiltFacts ==
  ASSUME NEW S \in SUBSET Entity, FitsIn(S), JustBuilt(S)
  PROVE  /\ lru \in Seq(Entity) /\ IsInjective(lru) /\ Range(lru) \subseteq S
         /\ inst \in [Instance -> InstanceRecord]
         /\ cached \in [Entity -> Instance \union {0}]
         /\ \A i \in Instance :
              /\ inst[i].staging = {} /\ inst[i].lock = "free"
              /\ inst[i].base \subseteq stored[inst[i].ent]
         /\ \A e \in Entity : cached[e] # 0 =>
              e \in S /\ inst[cached[e]].ent = e /\ inst[cached[e]].base = stored[e]
         /\ \A e \in Range(lru) : cached[e] # 0
<1>1. lru \in Newests(S) /\ cached = Built(lru) /\ inst = BuiltHeap(lru, stored)
  BY DEF JustBuilt
<1>2. /\ lru \in Seq(Entity) /\ IsInjective(lru) /\ DOMAIN lru \subseteq Instance
      /\ Range(lru) \subseteq S
  BY <1>1, NewestsFacts
<1>3. 0 \notin Instance
  BY DEF Instance
<1>4. ASSUME NEW e \in Entity
      PROVE  /\ e \in Range(lru) => cached[e] \in DOMAIN lru /\ lru[cached[e]] = e
             /\ e \notin Range(lru) => cached[e] = 0
  BY <1>1, BuiltEntry
<1>5. stored \in [Entity -> SUBSET Commit]
  BY DEF JustBuilt
<1>6. ASSUME NEW i \in DOMAIN lru
      PROVE  /\ inst[i].ent = lru[i] /\ inst[i].lock = "free" /\ inst[i].staging = {}
             /\ inst[i].base = stored[lru[i]] /\ inst[i] \in InstanceRecord /\ lru[i] \in S
  <2>1. i \in Instance /\ lru[i] \in S
    BY <1>2 DEF Range
  <2>2. inst[i] = [ent |-> lru[i], base |-> stored[lru[i]], staging |-> {}, lock |-> "free"]
    BY <1>1, <2>1 DEF BuiltHeap
  <2>3. stored[lru[i]] \in SUBSET Commit /\ lru[i] \in Entity
    BY <1>5, <2>1
  <2>4. QED
    BY <2>1, <2>2, <2>3 DEF InstanceRecord
<1>7. ASSUME NEW i \in Instance, i \notin DOMAIN lru
      PROVE  inst[i] = Garbage
  BY <1>1, <1>7 DEF BuiltHeap
<1>8. Garbage.staging = {} /\ Garbage.lock = "free" /\ Garbage.base = {}
  BY DEF Garbage
<1>9. ASSUME NEW i \in Instance
      PROVE  /\ inst[i] \in InstanceRecord /\ inst[i].staging = {} /\ inst[i].lock = "free"
             /\ inst[i].base \subseteq stored[inst[i].ent]
  <2>1. CASE i \in DOMAIN lru
    BY <1>6, <2>1
  <2>2. CASE i \notin DOMAIN lru
    BY <1>7, <1>8, <2>2, GarbageType
  <2>3. QED
    BY <2>1, <2>2
<1>10. inst \in [Instance -> InstanceRecord]
  BY <1>1, <1>9 DEF BuiltHeap
<1>11. cached \in [Entity -> Instance \union {0}]
  <2>1. \A e \in Entity : cached[e] \in Instance \union {0}
    BY <1>2, <1>4
  <2>2. QED
    BY <1>1, <2>1 DEF Built
<1>12. ASSUME NEW e \in Entity, cached[e] # 0
       PROVE  e \in S /\ inst[cached[e]].ent = e /\ inst[cached[e]].base = stored[e]
  <2>1. PICK i \in DOMAIN lru : i = cached[e] /\ lru[i] = e
    BY <1>4, <1>12
  <2>2. inst[i].ent = e /\ inst[i].base = stored[e] /\ e \in S
    BY <1>6, <2>1
  <2>3. QED
    BY <2>1, <2>2
<1>13. ASSUME NEW e \in Range(lru)
       PROVE  cached[e] # 0
  <2>1. e \in Entity /\ cached[e] \in Instance
    BY <1>2, <1>4
  <2>2. QED
    BY <1>3, <2>1
<1>14. QED
  BY <1>2, <1>9, <1>10, <1>11, <1>12, <1>13

LEMMA BuiltIInv == \A S \in SUBSET Entity : FitsIn(S) /\ JustBuilt(S) => IInv
<1> SUFFICES ASSUME NEW S \in SUBSET Entity, FitsIn(S), JustBuilt(S)
             PROVE  IInv
  OBVIOUS
<1>1. /\ NoCall \in CallRecord /\ NoCall.at = "idle" /\ NoCall.got = 0 /\ NoCall.view = 0
      /\ \A t \in Thread : call[t] = NoCall /\ held[t] = 0
  BY NoCallFacts DEF JustBuilt
<1>2. RefTypes
  <2>1. /\ stored \in [Entity -> SUBSET Commit] /\ remote \in [Entity -> SUBSET Commit]
        /\ excerpts \in [Entity -> SUBSET Commit]
        /\ acked \in [Entity -> SUBSET Op] /\ fresh \subseteq Commit
    BY DEF JustBuilt
  <2>2. /\ held \in [Thread -> Instance \union {0}] /\ call \in [Thread -> CallRecord]
        /\ index \subseteq Entity /\ mu \in Thread \union {"free"}
        /\ todo \subseteq Entity /\ merged \in Seq(Instance)
    BY <1>1 DEF JustBuilt
  <2>3. QED
    BY <2>1, <2>2, BuiltFacts DEF RefTypes
<1>3. HeapType /\ CacheSound /\ LruSound
  BY <1>2, BuiltFacts DEF RefTypes, HeapType, CacheSound, LruSound
<1>4. PendingSound
  <2>1. merged = <<>>
    BY DEF JustBuilt
  <2>2. DOMAIN merged = {} /\ IsInjective(merged)
    BY <2>1 DEF IsInjective
  <2>3. QED
    BY <1>1, <2>2 DEF PendingSound, At
<1>5. LockShape
  <2>1. \A i \in Instance : inst[i].lock = "free"
    BY BuiltFacts
  <2>2. QED
    BY <1>1, <2>1, ThreadAssumption DEF LockShape, At
<1>6. MutexShape
  <2>1. mu = "free"
    BY DEF JustBuilt
  <2>2. QED
    BY <1>1, <2>1, ThreadAssumption DEF MutexShape, CallSound, Inside
<1>7. KnownShape
  <2>1. \A e \in Entity : Known(cached[e])
    BY BuiltFacts DEF Known, JustBuilt
  <2>2. merged = <<>>
    BY DEF JustBuilt
  <2>3. QED
    BY <1>1, <2>1, <2>2 DEF KnownShape, Known
<1>8. QED
  BY <1>2, <1>3, <1>4, <1>5, <1>6, <1>7 DEF IInv, JustBuilt

LEMMA InitBuilt == Init => FitsIn(Existing) /\ JustBuilt(Existing)
<1> SUFFICES ASSUME Init
             PROVE  FitsIn(Existing) /\ JustBuilt(Existing)
  OBVIOUS
<1>1. FitsIn(Existing)
  BY EntityAssumption, BoundAssumption DEF FitsIn
<1>2. /\ Existing \subseteq Entity /\ Entity \intersect Op = {}
      /\ Entity \subseteq Commit /\ Op \subseteq Commit
  BY EntityAssumption DEF Commit
<1>3. /\ stored \in [Entity -> SUBSET Commit] /\ remote \in [Entity -> SUBSET Commit]
      /\ acked \in [Entity -> SUBSET Op]
  <2>1. \A e \in Entity : (IF e \in Existing THEN {e} ELSE {}) \in SUBSET Commit
    BY <1>2
  <2>2. QED
    BY <2>1 DEF Init
<1>4. fresh \subseteq Commit /\ Existing \intersect fresh = {}
  BY DEF Init
<1>5. FreshShape /\ AckedDurable
  BY DEF Init, FreshShape, AckedDurable
<1>6. QED
  BY <1>1, <1>3, <1>4, <1>5 DEF Init, JustBuilt

LEMMA InitIInv == Init => IInv
BY InitBuilt, BuiltIInv, EntityAssumption

LEMMA BeginStep ==
  ASSUME IInv, NEW t \in Thread, Begin(t)
  PROVE  IInv'
<1>1. CASE \E e \in Entity : Resolve(t, e) \/ Remove(t, e)
  BY <1>1, ResolveHitStep, ResolveMissStep DEF Resolve, Remove
<1>2. CASE \E e \in Entity : New(t, e)
  BY <1>2, NewStep
<1>3. CASE \E o \in Op : Edit(t, o)
  BY <1>3, EditStep
<1>4. CASE CommitNotNeeded(t) \/ CommitLock(t)
  BY <1>4, CommitNotNeededStep, CommitLockStep
<1>5. QED
  BY <1>1, <1>2, <1>3, <1>4 DEF Begin

LEMMA StepStep ==
  ASSUME IInv, NEW t \in Thread, Step(t)
  PROVE  IInv'
<1>1. CASE Read(t) \/ ReadNotFound(t) \/ Insert(t)
  BY <1>1, ReadStep, ReadNotFoundStep, InsertStep
<1>2. CASE EvictNothing(t) \/ EvictBegin(t) \/ EvictScan(t) \/ EvictEnd(t) \/ EvictLock(t)
  BY <1>2, EvictNothingStep, EvictBeginStep, EvictScanStep, EvictEndStep, EvictLockStep
<1>3. CASE CommitDone(t) \/ CommitConflict(t)
  BY <1>3, CommitDoneStep, CommitConflictStep
<1>4. CASE ExcerptLock(t) \/ ExcerptMissing(t) \/ ExcerptWrite(t) \/ IndexOne(t)
  BY <1>4, ExcerptLockStep, ExcerptMissingStep, ExcerptWriteStep, IndexOneStep
<1>5. CASE Forget(t)
  BY <1>5, ForgetStep
<1>6. QED
  BY <1>1, <1>2, <1>3, <1>4, <1>5 DEF Step

LEMMA PullStep ==
  ASSUME IInv, Pull
  PROVE  IInv'
<1>1. CASE \E e \in Entity, c \in Commit : Fetch(e, c)
  BY <1>1, FetchStep
<1>2. CASE \E e \in Entity : MergeNothing(e) \/ MergeTakeRemote(e)
  BY <1>2, MergeNothingStep, MergeTakeRemoteStep
<1>3. CASE \E e \in Entity, c \in Op : MergeJoin(e, c)
  BY <1>3, MergeJoinStep
<1>4. CASE Install
  BY <1>4, InstallStep
<1>5. QED
  BY <1>1, <1>2, <1>3, <1>4 DEF Pull

LEMMA NextStep == IInv /\ [Next \/ Pull]_vars => IInv'
<1> SUFFICES ASSUME IInv, [Next \/ Pull]_vars
             PROVE  IInv'
  OBVIOUS
<1>1. CASE \E t \in Thread : Begin(t) \/ Step(t)
  BY <1>1, BeginStep, StepStep
<1>2. CASE Pull
  BY <1>2, PullStep
<1>3. CASE UNCHANGED vars
  <2>1. UNCHANGED <<stored, remote, fresh, inst, cached, excerpts, index, lru, mu, held,
                    call, todo, merged, acked>>
    BY <1>3 DEF vars, git, maps, pull
  <2>2. RefTypes' /\ HeapType' /\ CacheSound' /\ LruSound' /\ AckedDurable'
    BY <2>1 DEF IInv, RefTypes, HeapType, CacheSound, LruSound, AckedDurable
  <2>3. PendingSound' /\ LockShape'
    BY <2>1 DEF IInv, PendingSound, LockShape, Outside, At
  <2>4. MutexShape'
    BY <2>1 DEF IInv, MutexShape, CallSound
  <2>5. KnownShape' /\ FreshShape'
    BY <2>1 DEF IInv, KnownShape, Known, FreshShape
  <2>6. QED
    BY <2>2, <2>3, <2>4, <2>5 DEF IInv
<1>4. QED
  BY <1>1, <1>2, <1>3 DEF Next

(* IInv holds with a pull under way, and so without.                       *)
LEMMA Invariant == (Spec => []IInv) /\ (PullSpec => []IInv)
<1>1. IInv /\ [Next]_vars => IInv'
  BY NextStep
<1>2. Spec => []IInv
  BY <1>1, InitIInv, PTL DEF Spec
<1>3. PullSpec => []IInv
  BY NextStep, InitIInv, PTL DEF PullSpec
<1>4. QED
  BY <1>2, <1>3

(* What the cache keeps has its type, and no entity is twice in the LRU    *)
(* list, although it is entered by Resolve, by an edit and by a new entity *)
(* and taken out by an eviction and by a removal.                          *)
THEOREM TypeCorrect == (Spec => []TypeOK) /\ (PullSpec => []TypeOK)
BY Invariant, InvariantIsEnough, PTL

(* evictIfNeeded, which calls the entry of "cached" without looking, finds *)
(* one for whatever the LRU list holds; and Resolve never hands out an     *)
(* instance that eviction has locked for ever. For any number of callers   *)
(* that resolve, edit, commit and remove, any size of the cache, and with  *)
(* a pull that replaces instances as they are used.                        *)
THEOREM EvictionFindsLoaded == (Spec => []LruLoaded) /\ (PullSpec => []LruLoaded)
BY Invariant, InvariantIsEnough, PTL

(* An edit whose Commit returned without error is in the repository until  *)
(* its entity is removed: no Commit of another instance of the entity, no  *)
(* merge and no eviction loses it.                                         *)
THEOREM CommitsSurvive == (Spec => []AckedDurable) /\ (PullSpec => []AckedDurable)
BY Invariant, InvariantIsEnough, PTL

(* Who holds the lock of the subcache waits for no evicted instance and    *)
(* for no call that needs that lock, however many callers there are.       *)
THEOREM HolderGetsOn == (Spec => []LockProgress) /\ (PullSpec => []LockProgress)
BY Invariant, InvariantGivesProgress, PTL
=============================================================================
