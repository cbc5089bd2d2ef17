----------------------------- MODULE TermUi_proofs -----------------------------
(***************************************************************************)
(* Proofs about TermUi, for any bugs, operations, size of the cache and    *)
(* height of the terminal: types, TableMeansSaved, NeverHangs,             *)
(* ListedStored and NoPhantomEdit, with a pull in the background and the   *)
(* process starting anew at any time. IInv of SubCache_proofs holds here   *)
(* as well; what follows is what one careful thread adds to it.            *)
(***************************************************************************)
EXTENDS TermUi, SubCache_proofs

------------------------------------------------------------------------------
(* The inductive invariant.                                                *)

AllSaved == \A i \in Instance : inst[i].staging = {}
Evicting == {"evict", "scan", "lock"}
Asking == {"read", "insert"} \union Evicting

(* The invariant is stated of a heap, the call c of the one thread and the *)
(* instance h it works with, for the steps are proved before what is no    *)
(* longer referred to is collected.                                        *)

(* Only the bug that is shown has staged operations, none while another is *)
(* resolved or made, and a Commit is one of that bug.                      *)
StagedShape(heap, c, h) ==
  /\ \A i \in Instance : heap[i].staging # {} => i = h
  /\ c.at \in Asking => h = 0
  /\ c.at = "commit" => c.got = h

(* The entity that was just inserted is the newest of the LRU list, and    *)
(* since nothing is staged the scan is the list itself.                    *)
OnTop(heap, c) ==
  /\ c.at \in Evicting =>
       c.got # 0 /\ lru # <<>> /\ lru[Len(lru)] = c.id /\ heap[c.got].ent = c.id
  /\ c.at \in {"scan", "lock"} => c.scan = lru /\ Len(lru) > MaxLoaded

(* What was loaded is a version of the entity, and its history is stored;  *)
(* what the thread works with was not evicted.                             *)
Rooted(heap, i) == i # 0 => heap[i].base # {}
Usable(heap, i) == i # 0 => heap[i].lock # "evicted" /\ heap[i].base # {}
VersionShape(heap) ==
  /\ \A i \in Instance : heap[i].base \subseteq stored[heap[i].ent]
  /\ \A e \in Entity : Rooted(heap, cached[e])
  /\ \A k \in DOMAIN merged : Rooted(heap, merged[k])

(* What is stored is listed, or the call that made it or the pull that     *)
(* merged it is going to list it.                                          *)
Coming(heap, c, e) ==
  \/ c.at \in {"insert"} \union Evicting /\ c.then = "excerpt" /\ c.id = e
  \/ c.at = "excerpt" /\ heap[c.got].ent = e /\ cached[e] # 0
  \/ c.at = "describe" /\ heap[c.view].ent = e
Merged(heap, e) == \E k \in DOMAIN merged : heap[merged[k]].ent = e
ListShape(heap, c) ==
  /\ \A e \in Entity : excerpts[e] # {} => stored[e] # {}
  /\ \A e \in Entity :
       stored[e] # {} => excerpts[e] # {} \/ Coming(heap, c, e) \/ Merged(heap, e)
  /\ \A e \in index : excerpts[e] # {}
  /\ c.at = "index" => excerpts[heap[c.view].ent] # {}

(* What is listed is stored or staged.                                     *)
NoPhantom(heap) ==
  \A e \in Entity : \A o \in excerpts[e] :
    o \in stored[e] \/ \E i \in Instance : heap[i].ent = e /\ o \in heap[i].staging

ShapeOf(heap, c, h) ==
  /\ StagedShape(heap, c, h) /\ OnTop(heap, c) /\ Usable(heap, h) /\ Usable(heap, c.got)
  /\ VersionShape(heap) /\ ListShape(heap, c) /\ NoPhantom(heap)
Shape == ShapeOf(inst, call[Main], held[Main])

(* The table is shown, or will be once the call is over.                   *)
WindowShape ==
  /\ window \in [now : Windows, next : Windows]
  /\ window.now = "table" => AllSaved
  /\ window.next = "table" /\ ~ At(Main, "commit") => AllSaved

(* The table: every key leaves a page and a cursor, and a draw puts the    *)
(* cursor on a row.                                                        *)
TableShape ==
  /\ table \in [query : {"open", "all"}, page : Nat, select : Nat,
                drawn : [ids : Seq(Entity), rows : Seq(Entity), height : Nat]]
  /\ table.drawn # Undrawn =>
       table.drawn.height # 0 /\ (Rows # <<>> => table.select < Len(Rows))

UiInv == IInv /\ Shape /\ WindowShape /\ TableShape

LEMMA UiInvariantIsEnough ==
  UiInv => UiTypeOK /\ TableMeansSaved /\ NeverHangs /\ ListedStored /\ NoPhantomEdit
<1> SUFFICES ASSUME UiInv
             PROVE  UiTypeOK /\ TableMeansSaved /\ NeverHangs /\ ListedStored /\ NoPhantomEdit
  OBVIOUS
<1>1. UiTypeOK
  <2>1. TypeOK
    BY InvariantIsEnough DEF UiInv
  <2>2. window.now \in Windows /\ window.next \in Windows
    BY DEF UiInv, WindowShape
  <2>3. table.page \in Nat /\ table.select \in Nat /\ Rows \in Seq(Entity)
    BY DEF UiInv, TableShape, Rows
  <2>4. QED
    BY <2>1, <2>2, <2>3 DEF UiInv, TableShape, UiTypeOK
<1>2. TableMeansSaved
  BY DEF UiInv, WindowShape, TableMeansSaved, Ready, AllSaved
<1>3. NeverHangs
  BY MainAssumption DEF UiInv, Shape, ShapeOf, Usable, NeverHangs
<1>4. ListedStored
  <2>1. ListShape(inst, call[Main])
    BY DEF UiInv, Shape, ShapeOf
  <2>2. ASSUME Quiet, NEW e \in Entity
        PROVE  excerpts[e] # {} <=> stored[e] # {}
    <3>1. ~ Coming(inst, call[Main], e) /\ ~ Merged(inst, e)
      BY <2>2, MainAssumption DEF Quiet, Idle, At, Coming, Merged, Evicting
    <3>2. QED
      BY <2>1, <3>1 DEF ListShape
  <2>3. \A e \in index : excerpts[e] # {}
    BY <2>1 DEF ListShape
  <2>4. QED
    BY <2>2, <2>3 DEF ListedStored
<1>5. NoPhantomEdit
  <2>1. NoPhantom(inst)
    BY DEF UiInv, Shape, ShapeOf
  <2>2. QED
    BY <2>1 DEF NoPhantom, NoPhantomEdit
<1>6. QED
  BY <1>1, <1>2, <1>3, <1>4, <1>5
------------------------------------------------------------------------------
(* What the invariants say of the one thread.                              *)

LEMMA MainFacts ==
  ASSUME IInv
  PROVE  /\ Main \in Thread /\ call[Main] \in CallRecord /\ CallSound(call[Main])
         /\ held[Main] \in Instance \union {0}
         /\ call[Main].got \in Instance \union {0} /\ call[Main].view \in Instance \union {0}
         /\ call[Main].id \in Entity /\ 0 \notin Instance
         /\ \A e \in Entity : cached[e] \in Instance \union {0}
         /\ \A k \in DOMAIN merged : merged[k] \in Instance
         /\ \A i \in Instance : inst[i] \in InstanceRecord /\ inst[i].ent \in Entity
<1>1. Main \in Thread
  BY MainAssumption
<1>2. call[Main] \in CallRecord /\ CallSound(call[Main]) /\ held[Main] \in Instance \union {0}
  BY <1>1, CallFacts
<1>3. /\ call[Main].got \in Instance \union {0} /\ call[Main].view \in Instance \union {0}
      /\ call[Main].id \in Entity
  BY <1>2 DEF CallRecord
<1>4. 0 \notin Instance
  BY DEF Instance
<1>5. /\ \A e \in Entity : cached[e] \in Instance \union {0}
      /\ \A k \in DOMAIN merged : merged[k] \in Instance
  BY DEF IInv, RefTypes
<1>6. QED
  BY <1>1, <1>2, <1>3, <1>4, <1>5, EntOf

LEMMA GarbageFields == Garbage.staging = {} /\ Garbage.base = {} /\ Garbage.lock = "free"
BY DEF Garbage

LEMMA SameHeap ==
  ASSUME IInv, IInv', UNCHANGED inst \/ Heap(inst)
  PROVE  HeapIs(inst)
<1>1. CASE Heap(inst)
  BY <1>1, HeapFacts DEF IInv, HeapType
<1>2. CASE UNCHANGED inst
  BY <1>2 DEF IInv, HeapType, HeapIs
<1>3. QED
  BY <1>1, <1>2

(* Nothing is staged while a bug is resolved or made.                      *)
LEMMA AskingIsSaved ==
  ASSUME IInv, Shape, held[Main] = 0
  PROVE  AllSaved
BY MainFacts DEF Shape, ShapeOf, StagedShape, AllSaved
------------------------------------------------------------------------------
(* Steps that change no instance and no version.                           *)

(* What nothing refers to any more may go: nothing is staged there, and no *)
(* part of the invariant is about it.                                      *)
LEMMA Collected ==
  ASSUME IInv', NEW heap, HeapIs(heap), NEW c, NEW h,
         call'[Main] = c, held'[Main] = h, ShapeOf(heap, c, h)'
  PROVE  Shape'
<1>1. /\ c.got \in Instance \union {0} /\ c.view \in Instance \union {0}
      /\ h \in Instance \union {0} /\ CallSound(c)' /\ 0 \notin Instance
  <2>1. /\ (call[Main] \in CallRecord)' /\ (held[Main] \in Instance \union {0})'
        /\ CallSound(call[Main])'
    BY MainAssumption DEF IInv, RefTypes, MutexShape
  <2>2. CallSound(c)'
    BY <2>1 DEF CallSound
  <2>3. QED
    BY <2>1, <2>2 DEF CallRecord, Instance
<1>2. /\ h # 0 => inst'[h] = heap[h]
      /\ c.got # 0 => inst'[c.got] = heap[c.got]
      /\ c.view # 0 => inst'[c.view] = heap[c.view]
      /\ \A e \in Entity : cached'[e] # 0 => inst'[cached'[e]] = heap[cached'[e]]
      /\ \A k \in DOMAIN merged' : inst'[merged'[k]] = heap[merged'[k]]
      /\ \A i \in Instance : inst'[i] = heap[i] \/ inst'[i] = Garbage
  BY MainAssumption DEF HeapIs
<1>3. StagedShape(inst, c, h)'
  BY <1>2, GarbageFields DEF ShapeOf, StagedShape
<1>4. OnTop(inst, c)'
  BY <1>2 DEF ShapeOf, OnTop
<1>5. Usable(inst, h)' /\ Usable(inst, c.got)'
  BY <1>2 DEF ShapeOf, Usable
<1>6. VersionShape(inst)'
  <2>1. \A i \in Instance : inst'[i].base \subseteq stored'[inst'[i].ent]
    BY <1>2, GarbageFields DEF ShapeOf, VersionShape
  <2>2. QED
    BY <1>2, <2>1 DEF ShapeOf, VersionShape, Rooted
<1>7. ListShape(inst, c)'
  <2>1. /\ c.at = "excerpt" => c.got # 0
        /\ c.at = "describe" => c.view # 0
        /\ c.at = "index" => c.view # 0
    BY <1>1 DEF CallSound
  <2>2. \A e \in Entity : Coming(heap, c, e)' => Coming(inst, c, e)'
    BY <1>2, <2>1 DEF Coming
  <2>3. \A e \in Entity : Merged(heap, e)' => Merged(inst, e)'
    BY <1>2 DEF Merged
  <2>4. QED
    BY <1>2, <2>1, <2>2, <2>3 DEF ShapeOf, ListShape
<1>8. NoPhantom(inst)'
  <2>1. ASSUME NEW i \in Instance, heap[i].staging # {}
        PROVE  inst'[i] = heap[i]
    BY <1>1, <1>2, <2>1 DEF ShapeOf, StagedShape
  <2>2. QED
    BY <2>1 DEF ShapeOf, NoPhantom
<1>9. ShapeOf(inst, c, h)'
  BY <1>3, <1>4, <1>5, <1>6, <1>7, <1>8 DEF ShapeOf
<1>10. QED
  BY <1>9 DEF Shape, ShapeOf, StagedShape, OnTop, Usable, VersionShape, ListShape, Coming

LEMMA LocalShape ==
  ASSUME IInv, IInv', Shape, UNCHANGED inst \/ Heap(inst),
         UNCHANGED <<stored, cached, excerpts, merged>>,
         \A e \in index' : e \in index \/ excerpts[e] # {},
         NEW c, NEW h, call'[Main] = c, held'[Main] = h,
         h = held[Main] \/ AllSaved,
         c.at \in Asking => h = 0, c.at = "commit" => c.got = h, c.at # "insert",
         c.at \notin Evicting \/ (lru' = lru /\ OnTop(inst, c)),
         Usable(inst, h), Usable(inst, c.got),
         \A e \in Entity : Coming(inst, call[Main], e) => excerpts[e] # {} \/ Coming(inst, c, e),
         c.at = "index" => excerpts[inst[c.view].ent] # {}
  PROVE  Shape'
<1>1. PICK heap : heap = inst
  OBVIOUS
<1>2. HeapIs(heap)
  BY <1>1, SameHeap DEF HeapIs
<1>3. StagedShape(heap, c, h)'
  BY <1>1 DEF Shape, ShapeOf, StagedShape, AllSaved
<1>4. OnTop(heap, c)'
  BY <1>1 DEF OnTop, Evicting
<1>5. Usable(heap, h)' /\ Usable(heap, c.got)'
  BY <1>1 DEF Usable
<1>6. VersionShape(heap)'
  BY <1>1 DEF Shape, ShapeOf, VersionShape, Rooted
<1>7. ListShape(heap, c)'
  <2>1. \A e \in Entity : Coming(inst, c, e) => Coming(heap, c, e)'
    BY <1>1 DEF Coming
  <2>2. \A e \in Entity : Merged(inst, e) => Merged(heap, e)'
    BY <1>1 DEF Merged
  <2>3. QED
    BY <1>1, <2>1, <2>2 DEF Shape, ShapeOf, ListShape
<1>8. NoPhantom(heap)'
  BY <1>1 DEF Shape, ShapeOf, NoPhantom
<1>9. QED
  BY <1>2, <1>3, <1>4, <1>5, <1>6, <1>7, <1>8, Collected DEF ShapeOf

(* One thread, as the call and the caller's instance of a step of it.      *)
LEMMA MainStep ==
  ASSUME IInv, NEW c, NEW h
  PROVE  /\ call' = [call EXCEPT ![Main] = c] => call'[Main] = c
         /\ held' = [held EXCEPT ![Main] = h] => held'[Main] = h
BY MainAssumption DEF IInv, RefTypes

LEMMA IdleShape ==
  ASSUME NEW c, c.at = "idle"
  PROVE  /\ c.at \notin Asking /\ c.at \notin Evicting /\ c.at \notin {"commit", "insert", "index"}
         /\ \A e \in Entity : ~ Coming(inst, c, e)
BY DEF Asking, Evicting, Coming

(* A call that returns, with nothing coming that is not listed.            *)
LEMMA ReturnShape ==
  ASSUME IInv, IInv', Shape, UNCHANGED inst \/ Heap(inst),
         UNCHANGED <<stored, cached, excerpts, merged>>,
         \A e \in index' : e \in index \/ excerpts[e] # {},
         NEW h, Return(Main, h), h = held[Main] \/ AllSaved, Usable(inst, h),
         \A e \in Entity : Coming(inst, call[Main], e) => excerpts[e] # {}
  PROVE  Shape'
<1>1. PICK c : c = NoCall
  OBVIOUS
<1>2. call'[Main] = c /\ held'[Main] = h
  BY <1>1, MainStep DEF Return
<1>3. c.at = "idle" /\ c.got = 0
  BY <1>1, NoCallFacts
<1>4. Usable(inst, c.got)
  BY <1>3 DEF Usable
<1>5. QED
  BY <1>2, <1>3, <1>4, IdleShape, LocalShape

LEMMA ResolveHitShape ==
  ASSUME IInv, IInv', Shape, AllSaved, NEW e \in Entity, ResolveHit(Main, e, "hold")
  PROVE  Shape'
<1>1. /\ Return(Main, cached[e]) /\ Heap(inst) /\ cached[e] # 0 /\ call[Main].at = "idle"
      /\ UNCHANGED <<stored, cached, excerpts, merged, index>>
  BY DEF ResolveHit, Ask, Idle, At, git, pull
<1>2. Usable(inst, cached[e])
  BY <1>1 DEF Usable, Rooted, Shape, ShapeOf, VersionShape, IInv, CacheSound
<1>3. QED
  BY <1>1, <1>2, IdleShape, ReturnShape

LEMMA ResolveMissShape ==
  ASSUME IInv, IInv', Shape, AllSaved, NEW e \in Entity, ResolveMiss(Main, e, "hold")
  PROVE  Shape'
<1>0. PICK c : c = [call[Main] EXCEPT !.at = "read", !.id = e, !.then = "hold"]
  OBVIOUS
<1>1. /\ call'[Main] = c /\ held'[Main] = 0 /\ Heap(inst) /\ call[Main].at = "idle"
      /\ UNCHANGED <<stored, cached, excerpts, merged, index>>
  BY <1>0, MainStep, MainAssumption DEF ResolveMiss, Ask, Idle, At, git, pull, maps, IInv, RefTypes
<1>2. c.at = "read" /\ c.got = call[Main].got
  BY <1>0, MainFacts DEF CallRecord
<1>3. Usable(inst, 0) /\ Usable(inst, c.got)
  BY <1>2 DEF Shape, ShapeOf, Usable
<1>4. c.at \notin Evicting
  BY <1>2 DEF Evicting
<1>5. QED
  BY <1>1, <1>2, <1>3, <1>4, IdleShape, LocalShape

LEMMA ReadNotFoundShape ==
  ASSUME IInv, IInv', Shape, ReadNotFound(Main)
  PROVE  Shape'
<1>1. /\ Return(Main, 0) /\ Heap(inst) /\ call[Main].at = "read"
      /\ UNCHANGED <<stored, cached, excerpts, merged, index>>
  BY DEF ReadNotFound, At, git, pull, maps
<1>2. held[Main] = 0 /\ Usable(inst, 0)
  BY <1>1 DEF Shape, ShapeOf, StagedShape, Asking, Usable
<1>3. \A e \in Entity : ~ Coming(inst, call[Main], e)
  BY <1>1 DEF Coming, Evicting
<1>4. QED
  BY <1>1, <1>2, <1>3, ReturnShape

(* After the eviction: the caller gets the bug, or a new one is described. *)
LEMMA ProceedShape ==
  ASSUME IInv, IInv', Shape, Heap(inst), call[Main].at \in Evicting,
         UNCHANGED <<stored, cached, excerpts, merged, index>>,
         Proceed(Main, call[Main].got)
  PROVE  Shape'
<1>1. /\ held[Main] = 0 /\ AllSaved
      /\ Usable(inst, call[Main].got) /\ call[Main].got # 0
  BY AskingIsSaved DEF Shape, ShapeOf, StagedShape, Asking, Usable, OnTop
<1>2. CASE call[Main].then = "hold"
  <2>1. Return(Main, call[Main].got)
    BY <1>2 DEF Proceed
  <2>2. \A e \in Entity : ~ Coming(inst, call[Main], e)
    BY <1>2 DEF Coming, Evicting
  <2>3. QED
    BY <1>1, <2>1, <2>2, ReturnShape
<1>3. CASE call[Main].then # "hold"
  <2>0. PICK c : c = [NoCall EXCEPT !.at = call[Main].then, !.got = call[Main].got]
    OBVIOUS
  <2>1. /\ call'[Main] = c /\ held'[Main] = 0
        /\ c.at \in {"excerpt", "remove"} /\ c.got = call[Main].got /\ c.at = call[Main].then
    BY <1>1, <1>3, <2>0, MainStep, MainFacts, NoCallFacts DEF Proceed, CallRecord
  <2>2. ASSUME NEW e \in Entity, Coming(inst, call[Main], e)
        PROVE  Coming(inst, c, e)
    <3>1. call[Main].then = "excerpt" /\ call[Main].id = e
      BY <2>2 DEF Coming, Evicting
    <3>2. /\ inst[call[Main].got].ent = e /\ lru # <<>> /\ lru[Len(lru)] = e
      BY <3>1 DEF Shape, ShapeOf, OnTop
    <3>3. e \in Range(lru)
      <4>1. lru \in Seq(Entity)
        BY DEF IInv, RefTypes
      <4>2. QED
        BY <3>2, <4>1 DEF Range
    <3>4. cached[e] # 0
      BY <3>3 DEF IInv, LruSound
    <3>5. QED
      BY <2>1, <3>1, <3>2, <3>4 DEF Coming
  <2>3. c.at \notin Evicting /\ c.at \notin Asking /\ c.at \notin {"commit", "insert", "index"}
    BY <2>1 DEF Evicting, Asking
  <2>4. Usable(inst, 0) /\ Usable(inst, c.got)
    BY <1>1, <2>1 DEF Usable
  <2>5. QED
    BY <1>1, <2>1, <2>2, <2>3, <2>4, LocalShape
<1>4. QED
  BY <1>2, <1>3

LEMMA EvictNothingShape ==
  ASSUME IInv, IInv', Shape, EvictNothing(Main)
  PROVE  Shape'
<1>1. /\ call[Main].at \in Evicting /\ Heap(inst) /\ Proceed(Main, call[Main].got)
      /\ UNCHANGED <<stored, cached, excerpts, merged, index>>
  BY DEF EvictNothing, At, Evicting, git, pull, maps
<1>2. QED
  BY <1>1, ProceedShape

LEMMA EvictBeginShape ==
  ASSUME IInv, IInv', Shape, EvictBegin(Main)
  PROVE  Shape'
<1>0. PICK c : c = [call[Main] EXCEPT !.at = "scan", !.scan = lru]
  OBVIOUS
<1>1. /\ call'[Main] = c /\ held'[Main] = held[Main] /\ UNCHANGED inst
      /\ call[Main].at = "evict" /\ Len(lru) > MaxLoaded
      /\ UNCHANGED <<stored, cached, excerpts, merged, index, lru>>
  BY <1>0, MainAssumption DEF EvictBegin, At, git, pull, maps, IInv, RefTypes
<1>2. /\ c.at = "scan" /\ c.scan = lru /\ c.got = call[Main].got /\ c.id = call[Main].id
      /\ c.then = call[Main].then
  BY <1>0, MainFacts DEF CallRecord
<1>3. held[Main] = 0 /\ OnTop(inst, c)
  BY <1>1, <1>2 DEF Shape, ShapeOf, StagedShape, Asking, Evicting, OnTop
<1>4. Usable(inst, held[Main]) /\ Usable(inst, c.got)
  BY <1>2 DEF Shape, ShapeOf, Usable
<1>5. \A e \in Entity : Coming(inst, call[Main], e) => Coming(inst, c, e)
  BY <1>1, <1>2 DEF Coming, Evicting
<1>6. QED
  BY <1>1, <1>2, <1>3, <1>4, <1>5, LocalShape

(* Nothing is staged, so that the oldest entity is the one to go.          *)
LEMMA EvictScanShape ==
  ASSUME IInv, IInv', Shape, EvictScan(Main)
  PROVE  Shape'
<1>1. /\ call[Main].at = "scan" /\ call[Main].scan # <<>> /\ UNCHANGED inst
      /\ UNCHANGED <<stored, cached, excerpts, merged, index, lru, held>>
  BY DEF EvictScan, At, git, pull, maps
<1>2. held[Main] = 0 /\ AllSaved
  BY <1>1, AskingIsSaved DEF Shape, ShapeOf, StagedShape, Asking, Evicting
<1>3. inst[cached[Head(call[Main].scan)]].staging = {}
  <2>1. Head(call[Main].scan) \in Range(lru) /\ Head(call[Main].scan) \in Entity
    <3>1. call[Main].scan = lru /\ lru \in Seq(Entity)
      BY <1>1 DEF Shape, ShapeOf, OnTop, IInv, RefTypes
    <3>2. QED
      BY <1>1, <3>1 DEF Range
  <2>2. cached[Head(call[Main].scan)] \in Instance
    BY <2>1, MainFacts DEF IInv, LruSound
  <2>3. QED
    BY <1>2, <2>2 DEF AllSaved
<1>4. PICK c : c = [call[Main] EXCEPT !.at = "lock"]
  OBVIOUS
<1>5. call'[Main] = c
  BY <1>3, <1>4, MainAssumption DEF EvictScan, IInv, RefTypes
<1>6. /\ c.at = "lock" /\ c.scan = call[Main].scan /\ c.got = call[Main].got
      /\ c.id = call[Main].id /\ c.then = call[Main].then
  BY <1>4, MainFacts DEF CallRecord
<1>7. OnTop(inst, c)
  BY <1>1, <1>6 DEF Shape, ShapeOf, Evicting, OnTop
<1>8. Usable(inst, held[Main]) /\ Usable(inst, c.got) /\ held'[Main] = held[Main]
  BY <1>1, <1>6 DEF Shape, ShapeOf, Usable
<1>9. \A e \in Entity : Coming(inst, call[Main], e) => Coming(inst, c, e)
  BY <1>1, <1>6 DEF Coming, Evicting
<1>10. QED
  BY <1>1, <1>2, <1>5, <1>6, <1>7, <1>8, <1>9, LocalShape

LEMMA EvictEndShape ==
  ASSUME IInv, IInv', Shape, EvictEnd(Main)
  PROVE  Shape'
<1>1. /\ call[Main].at \in Evicting /\ Heap(inst) /\ Proceed(Main, call[Main].got)
      /\ UNCHANGED <<stored, cached, excerpts, merged, index>>
  BY DEF EvictEnd, At, Evicting, git, pull, maps
<1>2. QED
  BY <1>1, ProceedShape

LEMMA CommitNotNeededShape ==
  ASSUME IInv, IInv', Shape, CommitNotNeeded(Main)
  PROVE  Shape' /\ AllSaved
<1>0. PICK c : c = [call[Main] EXCEPT !.at = "excerpt", !.got = held[Main]]
  OBVIOUS
<1>1. /\ call'[Main] = c /\ held'[Main] = held[Main] /\ UNCHANGED inst
      /\ call[Main].at = "idle" /\ held[Main] # 0 /\ inst[held[Main]].staging = {}
      /\ UNCHANGED <<stored, cached, excerpts, merged, index, lru>>
  BY <1>0, MainAssumption DEF CommitNotNeeded, Idle, At, git, pull, maps, IInv, RefTypes
<1>2. c.at = "excerpt" /\ c.got = held[Main]
  BY <1>0, MainFacts DEF CallRecord
<1>3. Usable(inst, held[Main]) /\ Usable(inst, c.got)
  BY <1>2 DEF Shape, ShapeOf, Usable
<1>4. c.at \notin Evicting /\ c.at \notin Asking
  BY <1>2 DEF Evicting, Asking
<1>5. Shape'
  BY <1>1, <1>2, <1>3, <1>4, IdleShape, LocalShape
<1>6. QED
  BY <1>1, <1>5 DEF Shape, ShapeOf, StagedShape, AllSaved

LEMMA ExcerptLockShape ==
  ASSUME IInv, IInv', Shape, ExcerptLock(Main)
  PROVE  Shape'
<1>0. PICK e : e = inst[call[Main].got].ent
  OBVIOUS
<1>1. PICK c : c = [call[Main] EXCEPT !.at = "describe", !.view = cached[e]]
  OBVIOUS
<1>2. /\ call'[Main] = c /\ held'[Main] = held[Main] /\ UNCHANGED inst
      /\ call[Main].at = "excerpt" /\ cached[e] # 0
      /\ UNCHANGED <<stored, cached, excerpts, merged, index, lru>>
  BY <1>0, <1>1, MainAssumption DEF ExcerptLock, At, git, pull, maps, IInv, RefTypes
<1>3. c.at = "describe" /\ c.got = call[Main].got /\ c.view = cached[e]
  BY <1>1, MainFacts DEF CallRecord
<1>4. inst[c.view].ent = e
  <2>1. call[Main].got \in Instance
    BY <1>2, MainFacts DEF CallSound
  <2>2. e \in Entity
    BY <1>0, <2>1, MainFacts
  <2>3. QED
    BY <1>2, <1>3, <2>2 DEF IInv, CacheSound
<1>5. Usable(inst, held[Main]) /\ Usable(inst, c.got)
  BY <1>3 DEF Shape, ShapeOf, Usable
<1>6. c.at \notin Evicting /\ c.at \notin Asking
  BY <1>3 DEF Evicting, Asking
<1>7. \A d \in Entity : Coming(inst, call[Main], d) => Coming(inst, c, d)
  BY <1>0, <1>2, <1>3, <1>4 DEF Coming, Evicting
<1>8. QED
  BY <1>2, <1>3, <1>5, <1>6, <1>7, LocalShape

LEMMA ExcerptMissingShape ==
  ASSUME IInv, IInv', Shape, ExcerptMissing(Main)
  PROVE  Shape'
<1>1. /\ Return(Main, held[Main]) /\ Heap(inst) /\ call[Main].at = "excerpt"
      /\ cached[inst[call[Main].got].ent] = 0
      /\ UNCHANGED <<stored, cached, excerpts, merged, index>>
  BY DEF ExcerptMissing, At, git, pull, maps
<1>2. Usable(inst, held[Main])
  BY DEF Shape, ShapeOf, Usable
<1>3. \A e \in Entity : ~ Coming(inst, call[Main], e)
  BY <1>1 DEF Coming, Evicting
<1>4. QED
  BY <1>1, <1>2, <1>3, ReturnShape

LEMMA IndexOneShape ==
  ASSUME IInv, IInv', Shape, IndexOne(Main)
  PROVE  Shape'
<1>0. PICK h : h = IF held[Main] = 0 THEN call[Main].got ELSE held[Main]
  OBVIOUS
<1>1. /\ Return(Main, h) /\ Heap(inst) /\ call[Main].at = "index"
      /\ index' = index \union {inst[call[Main].view].ent}
      /\ UNCHANGED <<stored, cached, excerpts, merged>>
  BY <1>0 DEF IndexOne, At, git, pull
<1>2. Usable(inst, h) /\ (h = held[Main] \/ AllSaved)
  BY <1>0, AskingIsSaved DEF Shape, ShapeOf, Usable
<1>3. \A e \in Entity : ~ Coming(inst, call[Main], e)
  BY <1>1 DEF Coming, Evicting
<1>4. \A e \in index' : e \in index \/ excerpts[e] # {}
  BY <1>1 DEF Shape, ShapeOf, ListShape, At
<1>5. QED
  BY <1>1, <1>2, <1>3, <1>4, ReturnShape
------------------------------------------------------------------------------
(* The LRU list.                                                           *)

LEMMA NewestLast ==
  ASSUME NEW s \in Seq(Entity), IsInjective(s), NEW e \in Entity
  PROVE  Newest(s, e) # <<>> /\ Newest(s, e)[Len(Newest(s, e))] = e
<1>1. PICK w \in Seq(Entity) : w = Without(s, e)
  BY WithoutFacts
<1>2. Newest(s, e) = Append(w, e)
  BY <1>1 DEF Newest
<1>3. Append(w, e) # <<>> /\ Append(w, e)[Len(Append(w, e))] = e
  OBVIOUS
<1>4. QED
  BY <1>2, <1>3

(* Without its oldest entity the list is its tail, with the same newest.   *)
LEMMA WithoutHead ==
  ASSUME NEW s \in Seq(Entity), IsInjective(s), Len(s) > 1
  PROVE  /\ Without(s, Head(s)) = Tail(s) /\ Head(s) \in Range(s)
         /\ Head(s) # s[Len(s)] /\ Tail(s) # <<>> /\ Tail(s)[Len(Tail(s))] = s[Len(s)]
<1>1. /\ Len(s) \in Nat /\ DOMAIN s = 1..Len(s) /\ Head(s) = s[1]
      /\ 1 \in DOMAIN s /\ Len(s) \in DOMAIN s
  OBVIOUS
<1>2. Head(s) \in Range(s) /\ Head(s) # s[Len(s)]
  BY <1>1 DEF Range, IsInjective
<1>3. Tail(s) # <<>> /\ Tail(s)[Len(Tail(s))] = s[Len(s)]
  <2>1. /\ Tail(s) \in Seq(Entity) /\ Len(Tail(s)) = Len(s) - 1
        /\ \A k \in 1..Len(s) - 1 : Tail(s)[k] = s[k + 1]
    OBVIOUS
  <2>2. Len(s) - 1 \in 1..Len(s) - 1 /\ (Len(s) - 1) + 1 = Len(s)
    BY <1>1
  <2>3. Tail(s)[Len(s) - 1] = s[(Len(s) - 1) + 1]
    BY <2>1, <2>2
  <2>4. Tail(s)[Len(Tail(s))] = s[Len(s)]
    BY <2>1, <2>2, <2>3
  <2>5. Tail(s) # <<>>
    <3>1. PICK w \in Seq(Entity) : w = Tail(s) /\ Len(w) = Len(s) - 1
      BY <2>1
    <3>2. Len(w) # 0
      BY <1>1, <3>1
    <3>3. w # <<>>
      BY <3>2
    <3>4. QED
      BY <3>1, <3>3
  <2>6. QED
    BY <2>4, <2>5
<1>4. PICK n : n = (CHOOSE k \in DOMAIN s : s[k] = Head(s))
  OBVIOUS
<1>5. n = 1
  BY <1>1, <1>4 DEF IsInjective
<1>6. Without(s, Head(s)) = SubSeq(s, 1, n - 1) \o SubSeq(s, n + 1, Len(s))
  BY <1>2, <1>4 DEF Without
<1>7. SubSeq(s, 1, n - 1) = <<>> /\ SubSeq(s, n + 1, Len(s)) = Tail(s)
  BY <1>1, <1>5
<1>8. Tail(s) \in Seq(Entity) /\ <<>> \o Tail(s) = Tail(s)
  OBVIOUS
<1>9. QED
  BY <1>2, <1>3, <1>6, <1>7, <1>8
------------------------------------------------------------------------------
(* Steps of the cache.                                                     *)

LEMMA InsertShape ==
  ASSUME IInv, IInv', Shape, Insert(Main)
  PROVE  Shape'
<1>0. PICK c, e, n, h, heap :
        /\ c = [call[Main] EXCEPT !.at = "evict"] /\ e = call[Main].id /\ n = call[Main].got
        /\ h = held[Main] /\ heap = inst
  OBVIOUS
<1>1. /\ call[Main].at = "insert" /\ Heap(inst)
      /\ cached' = [cached EXCEPT ![e] = n] /\ lru' = Newest(lru, e)
      /\ call'[Main] = c /\ held'[Main] = h
      /\ UNCHANGED <<stored, excerpts, index, merged>>
  BY <1>0, MainAssumption DEF Insert, At, Goto, git, pull, IInv, RefTypes
<1>2. /\ c.at = "evict" /\ c.id = e /\ c.got = n /\ c.view = call[Main].view
      /\ c.then = call[Main].then
  BY <1>0, MainFacts DEF CallRecord
<1>3. /\ n # 0 /\ n \in Instance /\ e \in Entity /\ inst[n].ent = e
      /\ Rooted(inst, n) /\ Usable(inst, n)
  <2>1. n # 0 /\ inst[n].ent = e
    BY <1>0, <1>1, MainAssumption DEF IInv, PendingSound, At
  <2>2. Rooted(inst, n) /\ Usable(inst, n)
    BY <1>0 DEF Shape, ShapeOf, Usable, Rooted
  <2>3. QED
    BY <1>0, <2>1, <2>2, MainFacts
<1>4. HeapIs(heap)
  BY <1>0, <1>1, SameHeap DEF HeapIs
<1>5. StagedShape(heap, c, h)'
  BY <1>0, <1>1, <1>2 DEF Shape, ShapeOf, StagedShape, Asking, Evicting
<1>6. OnTop(heap, c)'
  <2>1. lru' # <<>> /\ lru'[Len(lru')] = e
    BY <1>1, <1>3, NewestLast DEF IInv, RefTypes
  <2>2. QED
    BY <1>0, <1>2, <1>3, <2>1 DEF OnTop
<1>7. Usable(heap, h)' /\ Usable(heap, c.got)'
  BY <1>0, <1>2, <1>3 DEF Shape, ShapeOf, Usable
<1>8. VersionShape(heap)'
  <2>1. \A d \in Entity : cached'[d] = n \/ cached'[d] = cached[d]
    BY <1>1 DEF IInv, RefTypes
  <2>2. QED
    BY <1>0, <1>1, <1>2, <1>3, <2>1 DEF Shape, ShapeOf, VersionShape, Rooted
<1>9. ListShape(heap, c)'
  <2>1. \A d \in Entity : Coming(inst, call[Main], d) => Coming(heap, c, d)'
    BY <1>0, <1>1, <1>2 DEF Coming, Evicting
  <2>2. \A d \in Entity : Merged(inst, d) => Merged(heap, d)'
    BY <1>0, <1>1 DEF Merged
  <2>3. QED
    BY <1>0, <1>1, <1>2, <2>1, <2>2 DEF Shape, ShapeOf, ListShape
<1>10. NoPhantom(heap)'
  BY <1>0, <1>1 DEF Shape, ShapeOf, NoPhantom
<1>11. QED
  BY <1>1, <1>4, <1>5, <1>6, <1>7, <1>8, <1>9, <1>10, Collected DEF ShapeOf

LEMMA EvictLockShape ==
  ASSUME IInv, IInv', Shape, EvictLock(Main)
  PROVE  Shape'
<1>0. PICK e, n, g : e = Head(call[Main].scan) /\ n = cached[e] /\ g = call[Main].got
  OBVIOUS
<1>1. PICK heap : heap = [inst EXCEPT ![n].lock = "evicted"]
  OBVIOUS
<1>2. /\ call[Main].at = "lock" /\ Heap(heap) /\ lru' = Without(lru, e)
      /\ cached' = [cached EXCEPT ![e] = 0]
      /\ UNCHANGED <<stored, excerpts, index, merged>>
  BY <1>0, <1>1 DEF EvictLock, At, git, pull
<1>3. /\ held[Main] = 0 /\ AllSaved
      /\ call[Main].scan = lru /\ Len(lru) > MaxLoaded /\ lru[Len(lru)] = call[Main].id
      /\ g # 0 /\ inst[g].ent = call[Main].id /\ Usable(inst, g)
  BY <1>0, <1>2, AskingIsSaved DEF Shape, ShapeOf, StagedShape, Asking, Evicting, OnTop
<1>4. /\ lru \in Seq(Entity) /\ IsInjective(lru) /\ Len(lru) > 1
  BY <1>3, BoundAssumption DEF IInv, RefTypes
<1>5. /\ lru' = Tail(lru) /\ e \in Range(lru) /\ e # call[Main].id
      /\ lru' # <<>> /\ lru'[Len(lru')] = call[Main].id
  BY <1>0, <1>2, <1>3, <1>4, WithoutHead
<1>6. /\ e \in Entity /\ n \in Instance /\ inst[n].ent = e /\ n # g /\ g \in Instance
  <2>1. e \in Entity
    BY <1>4, <1>5 DEF Range
  <2>2. n # 0
    BY <1>0, <1>5 DEF IInv, LruSound
  <2>3. n \in Instance /\ inst[n].ent = e
    BY <1>0, <2>1, <2>2, MainFacts DEF IInv, CacheSound
  <2>4. QED
    BY <1>0, <1>3, <1>5, <2>1, <2>3, MainFacts
<1>7. /\ heap \in [Instance -> InstanceRecord]
      /\ \A i \in Instance : /\ heap[i].ent = inst[i].ent /\ heap[i].base = inst[i].base
                             /\ heap[i].staging = inst[i].staging
                             /\ i # n => heap[i] = inst[i]
  <2>1. inst \in [Instance -> InstanceRecord]
    BY DEF IInv, HeapType
  <2>2. PICK r \in InstanceRecord : r = [inst[n] EXCEPT !.lock = "evicted"]
    BY <1>6, <2>1 DEF InstanceRecord
  <2>3. r.ent = inst[n].ent /\ r.base = inst[n].base /\ r.staging = inst[n].staging
    BY <1>6, <2>1, <2>2 DEF InstanceRecord
  <2>4. heap = [inst EXCEPT ![n] = r]
    BY <1>1, <1>6, <2>1, <2>2
  <2>5. QED
    BY <1>6, <2>1, <2>3, <2>4
<1>8. HeapIs(heap)
  BY <1>2, <1>7, HeapFacts DEF IInv
<1>9. \A d \in Entity : cached'[d] = IF d = e THEN 0 ELSE cached[d]
  BY <1>2 DEF IInv, RefTypes
<1>10. \A i \in Instance : heap[i].staging = {}
  BY <1>3, <1>7 DEF AllSaved
<1>11. /\ \A i \in Instance : heap[i].base \subseteq stored'[heap[i].ent]
       /\ \A d \in Entity : Rooted(heap, cached'[d])
       /\ \A k \in DOMAIN merged' : Rooted(heap, merged'[k])
  BY <1>2, <1>7, <1>9, MainFacts DEF Shape, ShapeOf, VersionShape, Rooted
<1>12. \A d \in Entity : Merged(inst, d) => Merged(heap, d)'
  BY <1>2, <1>7, MainFacts DEF Merged
<1>13. NoPhantom(heap)'
  BY <1>2, <1>3, <1>7 DEF Shape, ShapeOf, NoPhantom, AllSaved
<1>14. CASE call' = [call EXCEPT ![Main].at = "scan", ![Main].scan = Tail(@)] /\ Len(lru') > MaxLoaded
            /\ UNCHANGED held
  <2>0. PICK c : c = [call[Main] EXCEPT !.at = "scan", !.scan = Tail(call[Main].scan)]
    OBVIOUS
  <2>1. call'[Main] = c /\ held'[Main] = 0
    BY <1>3, <1>14, <2>0, MainAssumption DEF IInv, RefTypes
  <2>2. /\ c.at = "scan" /\ c.scan = lru' /\ c.id = call[Main].id /\ c.got = g
        /\ c.then = call[Main].then
    BY <1>0, <1>3, <1>5, <2>0, MainFacts DEF CallRecord
  <2>3. StagedShape(heap, c, 0)' /\ OnTop(heap, c)' /\ Usable(heap, 0)' /\ Usable(heap, c.got)'
    BY <1>3, <1>5, <1>6, <1>7, <1>10, <1>14, <2>2 DEF StagedShape, OnTop, Usable
  <2>4. VersionShape(heap)'
    BY <1>11, <2>2 DEF VersionShape, Rooted
  <2>5. ListShape(heap, c)'
    <3>1. \A d \in Entity : Coming(inst, call[Main], d) => Coming(heap, c, d)'
      BY <1>2, <2>2 DEF Coming, Evicting
    <3>2. QED
      BY <1>2, <1>12, <2>2, <3>1 DEF Shape, ShapeOf, ListShape
  <2>6. QED
    BY <1>8, <1>13, <2>1, <2>3, <2>4, <2>5, Collected DEF ShapeOf
<1>15. CASE Proceed(Main, g)
  <2>1. PICK c, h : call'[Main] = c /\ held'[Main] = h /\ h \in {0, g} /\ c.got \in {0, g}
                    /\ c.at \in {"idle", "excerpt", "remove"} /\ (c.at = "idle" <=> call[Main].then = "hold")
                    /\ (c.at = "excerpt" <=> call[Main].then = "excerpt")
                    /\ (c.at = "excerpt" => c.got = g)
    <3>1. CASE call[Main].then = "hold"
      <4>1. call'[Main] = NoCall /\ held'[Main] = g
        BY <1>15, <3>1, MainStep DEF Proceed, Return
      <4>2. QED
        BY <3>1, <4>1, NoCallFacts
    <3>2. CASE call[Main].then # "hold"
      <4>0. PICK c : c = [NoCall EXCEPT !.at = call[Main].then, !.got = g]
        OBVIOUS
      <4>1. call'[Main] = c /\ held'[Main] = 0
        BY <1>3, <1>15, <3>2, <4>0, MainStep DEF Proceed
      <4>2. c.at = call[Main].then /\ c.got = g /\ call[Main].then \in {"excerpt", "remove"}
        BY <3>2, <4>0, MainFacts, NoCallFacts DEF CallRecord
      <4>3. QED
        BY <3>2, <4>1, <4>2
    <3>3. QED
      BY <3>1, <3>2
  <2>2. StagedShape(heap, c, h)' /\ OnTop(heap, c)' /\ Usable(heap, h)' /\ Usable(heap, c.got)'
    BY <1>3, <1>6, <1>7, <1>10, <2>1 DEF StagedShape, OnTop, Usable, Asking, Evicting
  <2>3. VersionShape(heap)'
    BY <1>11, <2>1 DEF VersionShape, Rooted
  <2>4. ListShape(heap, c)'
    <3>1. ASSUME NEW d \in Entity, Coming(inst, call[Main], d)
          PROVE  Coming(heap, c, d)'
      <4>1. call[Main].then = "excerpt" /\ d = call[Main].id
        BY <1>2, <3>1 DEF Coming, Evicting
      <4>2. d \in Range(lru)
        BY <1>3, <1>4, <4>1 DEF Range
      <4>3. cached'[d] # 0
        BY <1>5, <1>9, <4>1, <4>2 DEF IInv, LruSound
      <4>4. QED
        BY <1>3, <1>6, <1>7, <2>1, <4>1, <4>3 DEF Coming
    <3>2. QED
      BY <1>2, <1>12, <2>1, <3>1 DEF Shape, ShapeOf, ListShape
  <2>5. QED
    BY <1>8, <1>13, <2>1, <2>2, <2>3, <2>4, Collected DEF ShapeOf
<1>16. QED
  BY <1>0, <1>14, <1>15 DEF EvictLock

(* A new instance is nobody's yet.                                         *)
LEMMA LoadFacts ==
  ASSUME IInv, IInv', Unused # {}, NEW e \in Entity, NEW base \in SUBSET Commit,
         Heap(Load(NextInstance, e, base))
  PROVE  \E n \in Instance, heap \in [Instance -> InstanceRecord] :
           /\ n = NextInstance /\ HeapIs(heap)
           /\ heap[n] = [ent |-> e, base |-> base, staging |-> {}, lock |-> "free"]
           /\ \A j \in Instance : j # n => heap[j] = inst[j]
           /\ held[Main] # n /\ call[Main].got # n /\ call[Main].view # n
           /\ \A d \in Entity : cached[d] # n
           /\ \A k \in DOMAIN merged : merged[k] # n
<1>1. PICK n \in Instance : n = NextInstance
  BY NextInstanceFacts DEF IInv
<1>2. PICK heap : heap = Load(n, e, base)
  OBVIOUS
<1>3. Heap(heap)
  BY <1>1, <1>2
<1>4. /\ heap \in [Instance -> InstanceRecord]
      /\ heap[n] = [ent |-> e, base |-> base, staging |-> {}, lock |-> "free"]
      /\ \A j \in Instance : j # n => heap[j] = inst[j]
  BY <1>2, LoadType DEF IInv
<1>5. HeapIs(heap)
  BY <1>3, <1>4, HeapFacts DEF IInv
<1>6. /\ held[Main] # n /\ call[Main].got # n /\ call[Main].view # n
      /\ \A d \in Entity : cached[d] # n
      /\ \A k \in DOMAIN merged : merged[k] # n
  BY <1>1, NextInstanceFacts, MainAssumption DEF IInv
<1>7. QED
  BY <1>1, <1>4, <1>5, <1>6

(* The entity that a call read, or made, on its way to the cache.          *)
LEMMA LoadShape ==
  ASSUME IInv, IInv', Shape, AllSaved, Unused # {},
         NEW e \in Entity, NEW base \in SUBSET Commit, base # {},
         Heap(Load(NextInstance, e, base)),
         UNCHANGED <<cached, excerpts, index, merged>>,
         \A d \in Entity : stored[d] \subseteq stored'[d], base \subseteq stored'[e],
         NEW c, call'[Main] = c, held'[Main] = 0,
         c.at = "insert", c.id = e, c.got = NextInstance,
         \A d \in Entity : stored'[d] # {} => stored[d] # {} \/ (c.then = "excerpt" /\ d = e),
         \A d \in Entity : ~ Coming(inst, call[Main], d)
  PROVE  Shape'
<1>1. PICK n \in Instance, heap \in [Instance -> InstanceRecord] :
           /\ n = NextInstance /\ HeapIs(heap)
           /\ heap[n] = [ent |-> e, base |-> base, staging |-> {}, lock |-> "free"]
           /\ \A j \in Instance : j # n => heap[j] = inst[j]
           /\ held[Main] # n /\ call[Main].got # n /\ call[Main].view # n
           /\ \A d \in Entity : cached[d] # n
           /\ \A k \in DOMAIN merged : merged[k] # n
  BY LoadFacts
<1>2. heap[n].ent = e /\ heap[n].base = base /\ heap[n].staging = {} /\ heap[n].lock = "free"
  BY <1>1
<1>3. StagedShape(heap, c, 0)'
  BY <1>1, <1>2 DEF StagedShape, AllSaved
<1>4. OnTop(heap, c)'
  BY DEF OnTop, Evicting
<1>5. Usable(heap, 0)' /\ Usable(heap, c.got)'
  BY <1>1, <1>2 DEF Usable
<1>6. VersionShape(heap)'
  <2>1. ASSUME NEW i \in Instance
        PROVE  heap[i].base \subseteq stored'[heap[i].ent]
    <3>1. CASE i = n
      BY <1>2, <3>1
    <3>2. CASE i # n
      BY <1>1, <3>2, MainFacts DEF Shape, ShapeOf, VersionShape
    <3>3. QED
      BY <3>1, <3>2
  <2>2. (\A d \in Entity : Rooted(heap, cached'[d])) /\ (\A k \in DOMAIN merged' : Rooted(heap, merged'[k]))
    BY <1>1, MainFacts DEF Shape, ShapeOf, VersionShape, Rooted
  <2>3. QED
    BY <2>1, <2>2 DEF VersionShape, Rooted
<1>7. ListShape(heap, c)'
  <2>1. \A d \in Entity : Merged(inst, d) => Merged(heap, d)'
    BY <1>1, MainFacts DEF Merged
  <2>2. c.then = "excerpt" => Coming(heap, c, e)'
    BY DEF Coming
  <2>3. QED
    BY <2>1, <2>2 DEF Shape, ShapeOf, ListShape
<1>8. NoPhantom(heap)'
  <2>1. \A d \in Entity : excerpts'[d] \subseteq stored'[d]
    BY DEF Shape, ShapeOf, NoPhantom, AllSaved
  <2>2. QED
    BY <2>1 DEF NoPhantom
<1>9. QED
  BY <1>1, <1>3, <1>4, <1>5, <1>6, <1>7, <1>8, Collected DEF ShapeOf

LEMMA ReadShape ==
  ASSUME IInv, IInv', Shape, Read(Main)
  PROVE  Shape'
<1>0. PICK e, base, c :
        /\ e = call[Main].id /\ base = stored[e]
        /\ c = [call[Main] EXCEPT !.at = "insert", !.got = NextInstance]
  OBVIOUS
<1>1. /\ call[Main].at = "read" /\ base # {} /\ Unused # {}
      /\ Heap(Load(NextInstance, e, base)) /\ call'[Main] = c /\ held'[Main] = held[Main]
      /\ UNCHANGED <<stored, cached, excerpts, index, merged>>
  BY <1>0, MainAssumption DEF Read, At, git, maps, pull, IInv, RefTypes
<1>2. e \in Entity /\ base \in SUBSET Commit
  BY <1>0, MainFacts DEF IInv, RefTypes
<1>3. held[Main] = 0 /\ AllSaved
  BY <1>1, AskingIsSaved DEF Shape, ShapeOf, StagedShape, Asking
<1>4. c.at = "insert" /\ c.id = e /\ c.got = NextInstance
  BY <1>0, MainFacts DEF CallRecord
<1>5. \A d \in Entity : ~ Coming(inst, call[Main], d)
  BY <1>1 DEF Coming, Evicting
<1>6. (\A d \in Entity : stored[d] \subseteq stored'[d]) /\ base \subseteq stored'[e]
  BY <1>0, <1>1
<1>7. QED
  BY <1>1, <1>2, <1>3, <1>4, <1>5, <1>6, LoadShape

LEMMA NewShape ==
  ASSUME IInv, IInv', Shape, AllSaved, NEW e \in Entity, New(Main, e)
  PROVE  Shape'
<1>0. PICK c : c = [call[Main] EXCEPT !.at = "insert", !.id = e, !.got = NextInstance,
                                      !.then = "excerpt"]
  OBVIOUS
<1>1. /\ call[Main].at = "idle" /\ Unused # {} /\ Heap(Load(NextInstance, e, {e}))
      /\ stored' = [stored EXCEPT ![e] = {e}] /\ call'[Main] = c /\ held'[Main] = 0
      /\ e \in fresh /\ UNCHANGED <<cached, excerpts, index, merged>>
  BY <1>0, MainAssumption DEF New, Idle, At, maps, pull, IInv, RefTypes
<1>2. c.at = "insert" /\ c.id = e /\ c.got = NextInstance /\ c.then = "excerpt"
  BY <1>0, MainFacts DEF CallRecord
<1>3. \A d \in Entity : stored'[d] = IF d = e THEN {e} ELSE stored[d]
  BY <1>1 DEF IInv, RefTypes
<1>4. stored[e] = {} /\ {e} \in SUBSET Commit
  BY <1>1 DEF IInv, FreshShape, Commit
<1>5. \A d \in Entity : ~ Coming(inst, call[Main], d)
  BY <1>1, IdleShape
<1>6. /\ \A d \in Entity : stored[d] \subseteq stored'[d]
      /\ {e} \subseteq stored'[e]
      /\ \A d \in Entity : stored'[d] # {} => stored[d] # {} \/ (c.then = "excerpt" /\ d = e)
  BY <1>2, <1>3, <1>4
<1>7. QED
  BY <1>1, <1>2, <1>4, <1>5, <1>6, LoadShape

(* The instance the thread works with is changed: an operation is staged,  *)
(* or a Commit locks it, makes its staging history, or unlocks it.         *)
LEMMA HeldShape ==
  ASSUME IInv, IInv', Shape, NEW i \in Instance, i = held[Main],
         NEW r \in InstanceRecord, Heap([inst EXCEPT ![i] = r]),
         r.ent = inst[i].ent, r.lock # "evicted", inst[i].base \subseteq r.base,
         UNCHANGED <<cached, excerpts, index, merged>>,
         \A d \in Entity : stored[d] \subseteq stored'[d],
         \A d \in Entity : stored'[d] # {} => stored[d] # {},
         r.base \subseteq stored'[r.ent],
         inst[i].staging \subseteq r.staging \union stored'[r.ent],
         NEW c, call'[Main] = c, held'[Main] = i,
         c.at \in {"idle", "commit", "excerpt"}, c.got \in {0, i}, c.at = "commit" => c.got = i,
         \A d \in Entity : ~ Coming(inst, call[Main], d)
  PROVE  Shape'
<1>1. PICK heap : heap = [inst EXCEPT ![i] = r]
  OBVIOUS
<1>2. /\ heap \in [Instance -> InstanceRecord]
      /\ heap[i] = r /\ \A j \in Instance : j # i => heap[j] = inst[j]
  BY <1>1 DEF IInv, HeapType
<1>3. HeapIs(heap)
  BY <1>1, <1>2, HeapFacts DEF IInv
<1>4. Usable(inst, i) /\ i # 0
  BY MainFacts DEF Shape, ShapeOf
<1>5. StagedShape(heap, c, i)'
  <2>1. \A j \in Instance : heap[j].staging # {} => j = i
    BY <1>2 DEF Shape, ShapeOf, StagedShape
  <2>2. QED
    BY <2>1 DEF StagedShape, Asking, Evicting
<1>6. OnTop(heap, c)'
  BY DEF OnTop, Evicting
<1>7. Usable(heap, i)' /\ Usable(heap, c.got)'
  BY <1>2, <1>4 DEF Usable
<1>8. \A j \in Instance : heap[j].ent = inst[j].ent /\ inst[j].base \subseteq heap[j].base
  BY <1>2
<1>9. VersionShape(heap)'
  <2>1. ASSUME NEW j \in Instance
        PROVE  heap[j].base \subseteq stored'[heap[j].ent]
    <3>1. CASE j = i
      BY <1>2, <3>1
    <3>2. CASE j # i
      BY <1>2, <3>2, MainFacts DEF Shape, ShapeOf, VersionShape
    <3>3. QED
      BY <3>1, <3>2
  <2>2. \A d \in Entity : Rooted(heap, cached'[d])
    BY <1>8, MainFacts DEF Shape, ShapeOf, VersionShape, Rooted
  <2>3. \A k \in DOMAIN merged' : Rooted(heap, merged'[k])
    BY <1>8, MainFacts DEF Shape, ShapeOf, VersionShape, Rooted
  <2>4. QED
    BY <2>1, <2>2, <2>3 DEF VersionShape, Rooted
<1>10. ListShape(heap, c)'
  <2>1. \A d \in Entity : Merged(inst, d) => Merged(heap, d)'
    BY <1>8, MainFacts DEF Merged
  <2>2. ListShape(inst, call[Main])
    BY DEF Shape, ShapeOf
  <2>3. \A d \in Entity : stored[d] # {} => stored'[d] # {}
    OBVIOUS
  <2>4. QED
    BY <2>1, <2>2, <2>3 DEF ListShape
<1>11. NoPhantom(heap)'
  <2>1. ASSUME NEW e \in Entity, NEW o \in excerpts[e], o \notin stored'[e]
        PROVE  \E j \in Instance : heap[j].ent = e /\ o \in heap[j].staging
    <3>1. PICK j \in Instance : inst[j].ent = e /\ o \in inst[j].staging
      BY <2>1 DEF Shape, ShapeOf, NoPhantom
    <3>2. CASE j = i
      BY <1>2, <2>1, <3>1, <3>2
    <3>3. CASE j # i
      BY <1>2, <3>1, <3>3
    <3>4. QED
      BY <3>2, <3>3
  <2>2. QED
    BY <2>1 DEF NoPhantom
<1>12. QED
  BY <1>3, <1>5, <1>6, <1>7, <1>9, <1>10, <1>11, Collected DEF ShapeOf

LEMMA EditShape ==
  ASSUME IInv, IInv', Shape, NEW o \in Op, Edit(Main, o)
  PROVE  Shape'
<1>0. PICK c, i : c = [call[Main] EXCEPT !.at = "excerpt", !.got = held[Main]] /\ i = held[Main]
  OBVIOUS
<1>1. /\ call[Main].at = "idle" /\ i # 0 /\ Free(i)
      /\ Heap([inst EXCEPT ![i].staging = @ \union {o}])
      /\ call'[Main] = c /\ held'[Main] = i
      /\ UNCHANGED <<stored, cached, excerpts, index, merged>>
  BY <1>0, MainAssumption DEF Edit, Idle, At, maps, pull, IInv, RefTypes
<1>2. i \in Instance /\ inst[i] \in InstanceRecord
  BY <1>0, <1>1, MainFacts
<1>3. PICK r : r = [inst[i] EXCEPT !.staging = inst[i].staging \union {o}]
  OBVIOUS
<1>4. /\ r \in InstanceRecord /\ r.ent = inst[i].ent /\ r.base = inst[i].base
      /\ r.lock = inst[i].lock /\ r.staging = inst[i].staging \union {o}
  BY <1>2, <1>3 DEF InstanceRecord
<1>5. Heap([inst EXCEPT ![i] = r])
  <2>1. [inst EXCEPT ![i].staging = @ \union {o}] = [inst EXCEPT ![i] = r]
    BY <1>2, <1>3
  <2>2. QED
    BY <1>1, <2>1
<1>6. c.at = "excerpt" /\ c.got = i
  BY <1>0, MainFacts DEF CallRecord
<1>7. /\ r.lock # "evicted" /\ inst[i].base \subseteq r.base /\ r.base \subseteq stored'[r.ent]
      /\ inst[i].staging \subseteq r.staging \union stored'[r.ent]
  BY <1>1, <1>2, <1>4 DEF Free, Shape, ShapeOf, VersionShape
<1>8. /\ \A d \in Entity : ~ Coming(inst, call[Main], d)
      /\ \A d \in Entity : stored[d] \subseteq stored'[d]
      /\ \A d \in Entity : stored'[d] # {} => stored[d] # {}
  BY <1>1, IdleShape
<1>9. QED
  BY <1>0, <1>1, <1>2, <1>4, <1>5, <1>6, <1>7, <1>8, HeldShape

LEMMA CommitLockShape ==
  ASSUME IInv, IInv', Shape, CommitLock(Main)
  PROVE  Shape'
<1>0. PICK c, i : c = [call[Main] EXCEPT !.at = "commit", !.got = held[Main]] /\ i = held[Main]
  OBVIOUS
<1>1. /\ call[Main].at = "idle" /\ i # 0
      /\ Heap([inst EXCEPT ![i].lock = Main])
      /\ call'[Main] = c /\ held'[Main] = i
      /\ UNCHANGED <<stored, cached, excerpts, index, merged>>
  BY <1>0, MainAssumption DEF CommitLock, Idle, At, git, maps, pull, IInv, RefTypes
<1>2. i \in Instance /\ inst[i] \in InstanceRecord
  BY <1>0, <1>1, MainFacts
<1>3. PICK r : r = [inst[i] EXCEPT !.lock = Main]
  OBVIOUS
<1>4. /\ r \in InstanceRecord /\ r.ent = inst[i].ent /\ r.base = inst[i].base
      /\ r.lock # "evicted" /\ r.staging = inst[i].staging
  BY <1>2, <1>3, MainAssumption, ThreadAssumption DEF InstanceRecord
<1>5. Heap([inst EXCEPT ![i] = r])
  <2>1. [inst EXCEPT ![i].lock = Main] = [inst EXCEPT ![i] = r]
    BY <1>2, <1>3
  <2>2. QED
    BY <1>1, <2>1
<1>6. c.at = "commit" /\ c.got = i
  BY <1>0, MainFacts DEF CallRecord
<1>7. /\ inst[i].base \subseteq r.base /\ r.base \subseteq stored'[r.ent]
      /\ inst[i].staging \subseteq r.staging \union stored'[r.ent]
  BY <1>1, <1>2, <1>4 DEF Shape, ShapeOf, VersionShape
<1>8. /\ \A d \in Entity : ~ Coming(inst, call[Main], d)
      /\ \A d \in Entity : stored[d] \subseteq stored'[d]
      /\ \A d \in Entity : stored'[d] # {} => stored[d] # {}
  BY <1>1, IdleShape
<1>9. QED
  BY <1>0, <1>1, <1>2, <1>4, <1>5, <1>6, <1>7, <1>8, HeldShape

(* After a Commit everything is saved.                                     *)
LEMMA CommitDoneShape ==
  ASSUME IInv, IInv', Shape, CommitDone(Main)
  PROVE  Shape' /\ AllSaved'
<1>0. PICK c, i, e : /\ c = [call[Main] EXCEPT !.at = "excerpt"] /\ i = call[Main].got
                     /\ e = inst[i].ent
  OBVIOUS
<1>1. /\ call[Main].at = "commit" /\ stored[e] = inst[i].base
      /\ stored' = [stored EXCEPT ![e] = Content(i)]
      /\ Heap([inst EXCEPT ![i].base = Content(i), ![i].staging = {}, ![i].lock = "free"])
      /\ call'[Main] = c /\ held'[Main] = held[Main]
      /\ UNCHANGED <<cached, excerpts, index, merged>>
  BY <1>0, MainAssumption DEF CommitDone, Goto, At, maps, pull, IInv, RefTypes
<1>2. i = held[Main] /\ i # 0
  BY <1>0, <1>1, MainAssumption DEF Shape, ShapeOf, StagedShape, IInv, LockShape, At
<1>3. i \in Instance /\ inst[i] \in InstanceRecord /\ e \in Entity
  BY <1>0, <1>2, MainFacts
<1>4. PICK r : r = [inst[i] EXCEPT !.base = Content(i), !.staging = {}, !.lock = "free"]
  OBVIOUS
<1>5. /\ r \in InstanceRecord /\ r.ent = e /\ r.base = Content(i)
      /\ r.lock = "free" /\ r.staging = {}
      /\ Content(i) = inst[i].base \union inst[i].staging
  BY <1>0, <1>3, <1>4 DEF InstanceRecord, Content, Commit
<1>6. [inst EXCEPT ![i].base = Content(i), ![i].staging = {}, ![i].lock = "free"]
        = [inst EXCEPT ![i] = r]
  BY <1>3, <1>4 DEF IInv, HeapType
<1>7. Heap([inst EXCEPT ![i] = r])
  BY <1>1, <1>6
<1>8. c.at = "excerpt" /\ c.got = i
  BY <1>0, MainFacts DEF CallRecord
<1>9. /\ \A d \in Entity : stored'[d] = IF d = e THEN Content(i) ELSE stored[d]
      /\ inst[i].base # {}
  <2>1. Usable(inst, i)
    BY <1>2 DEF Shape, ShapeOf
  <2>2. QED
    BY <1>1, <1>2, <2>1 DEF Usable, IInv, RefTypes
<1>10. /\ r.lock # "evicted" /\ inst[i].base \subseteq r.base /\ r.base \subseteq stored'[r.ent]
       /\ inst[i].staging \subseteq r.staging \union stored'[r.ent]
       /\ \A d \in Entity : stored[d] \subseteq stored'[d]
       /\ \A d \in Entity : stored'[d] # {} => stored[d] # {}
  BY <1>1, <1>3, <1>5, <1>9
<1>11. \A d \in Entity : ~ Coming(inst, call[Main], d)
  BY <1>1 DEF Coming, Evicting
<1>12. Shape'
  BY <1>0, <1>1, <1>2, <1>3, <1>5, <1>7, <1>8, <1>10, <1>11, HeldShape
<1>13. AllSaved'
  <2>1. PICK heap : heap = [inst EXCEPT ![i] = r]
    OBVIOUS
  <2>2. /\ heap \in [Instance -> InstanceRecord]
        /\ \A j \in Instance : heap[j].staging = {}
    BY <1>2, <1>3, <1>5, <2>1 DEF IInv, HeapType, Shape, ShapeOf, StagedShape
  <2>3. HeapIs(heap)
    BY <1>7, <2>1, <2>2, HeapFacts DEF IInv
  <2>4. QED
    BY <2>2, <2>3, GarbageFields DEF HeapIs, AllSaved
<1>14. QED
  BY <1>12, <1>13

LEMMA CommitConflictShape ==
  ASSUME IInv, IInv', Shape, CommitConflict(Main)
  PROVE  Shape'
<1>0. PICK i, c : i = call[Main].got /\ c = NoCall
  OBVIOUS
<1>1. /\ call[Main].at = "commit" /\ Heap([inst EXCEPT ![i].lock = "free"])
      /\ call'[Main] = c /\ held'[Main] = held[Main]
      /\ UNCHANGED <<stored, cached, excerpts, index, merged>>
  BY <1>0, MainStep DEF CommitConflict, Return, At, git, maps, pull
<1>2. i = held[Main] /\ i # 0
  BY <1>0, <1>1, MainAssumption DEF Shape, ShapeOf, StagedShape, IInv, LockShape, At
<1>3. i \in Instance /\ inst[i] \in InstanceRecord
  BY <1>2, MainFacts
<1>4. PICK r : r = [inst[i] EXCEPT !.lock = "free"]
  OBVIOUS
<1>5. /\ r \in InstanceRecord /\ r.ent = inst[i].ent /\ r.base = inst[i].base
      /\ r.lock = "free" /\ r.staging = inst[i].staging
  BY <1>3, <1>4 DEF InstanceRecord
<1>6. Heap([inst EXCEPT ![i] = r])
  <2>1. [inst EXCEPT ![i].lock = "free"] = [inst EXCEPT ![i] = r]
    BY <1>3, <1>4
  <2>2. QED
    BY <1>1, <2>1
<1>7. c.at = "idle" /\ c.got = 0
  BY <1>0, NoCallFacts
<1>8. /\ r.lock # "evicted" /\ inst[i].base \subseteq r.base /\ r.base \subseteq stored'[r.ent]
      /\ inst[i].staging \subseteq r.staging \union stored'[r.ent]
      /\ \A d \in Entity : stored[d] \subseteq stored'[d]
      /\ \A d \in Entity : stored'[d] # {} => stored[d] # {}
  BY <1>1, <1>3, <1>5 DEF Shape, ShapeOf, VersionShape
<1>9. \A d \in Entity : ~ Coming(inst, call[Main], d)
  BY <1>1 DEF Coming, Evicting
<1>10. QED
  BY <1>1, <1>2, <1>3, <1>5, <1>6, <1>7, <1>8, <1>9, HeldShape

(* What is written to the list is the content of a cached instance.        *)
LEMMA ContentFacts ==
  ASSUME IInv, Shape, NEW i \in Instance, Rooted(inst, i)
  PROVE  /\ inst[i].ent \in Entity /\ Content(i) # {} /\ stored[inst[i].ent] # {}
         /\ \A o \in Content(i) : o \in stored[inst[i].ent] \/ o \in inst[i].staging
<1>1. inst[i].base # {} /\ inst[i].ent \in Entity
  BY MainFacts DEF Rooted
<1>2. inst[i].base \subseteq stored[inst[i].ent]
  BY DEF Shape, ShapeOf, VersionShape
<1>3. QED
  BY <1>1, <1>2 DEF Content

LEMMA ExcerptWriteShape ==
  ASSUME IInv, IInv', Shape, ExcerptWrite(Main)
  PROVE  Shape'
<1>0. PICK c, h, heap, i, e :
        /\ c = [call[Main] EXCEPT !.at = "index"] /\ h = held[Main] /\ heap = inst
        /\ i = call[Main].view /\ e = inst[i].ent
  OBVIOUS
<1>1. /\ call[Main].at = "describe" /\ call'[Main] = c /\ held'[Main] = h
      /\ excerpts' = [excerpts EXCEPT ![e] = Content(i)]
      /\ UNCHANGED <<inst, stored, cached, index, merged>>
  BY <1>0, MainAssumption DEF ExcerptWrite, Goto, At, git, pull, IInv, RefTypes
<1>2. c.at = "index" /\ c.view = i /\ c.got = call[Main].got
  BY <1>0, MainFacts DEF CallRecord
<1>3. i \in Instance /\ cached[e] = i /\ e \in Entity
  BY <1>0, <1>1, MainFacts DEF CallSound
<1>4. /\ Content(i) # {} /\ stored[e] # {}
      /\ \A o \in Content(i) : o \in stored[e] \/ o \in inst[i].staging
  <2>1. Rooted(inst, i)
    BY <1>3 DEF Shape, ShapeOf, VersionShape
  <2>2. QED
    BY <1>0, <1>3, <2>1, ContentFacts
<1>5. \A d \in Entity : excerpts'[d] = IF d = e THEN Content(i) ELSE excerpts[d]
  BY <1>1 DEF IInv, RefTypes
<1>6. HeapIs(heap)
  BY <1>0, <1>1, SameHeap DEF HeapIs
<1>7. StagedShape(heap, c, h)'
  BY <1>0, <1>2 DEF Shape, ShapeOf, StagedShape, Asking, Evicting
<1>8. OnTop(heap, c)'
  BY <1>2 DEF OnTop, Evicting
<1>9. Usable(heap, h)' /\ Usable(heap, c.got)'
  BY <1>0, <1>2 DEF Shape, ShapeOf, Usable
<1>10. VersionShape(heap)'
  BY <1>0, <1>1 DEF Shape, ShapeOf, VersionShape, Rooted
<1>11. ListShape(heap, c)'
  <2>1. ListShape(inst, call[Main])
    BY DEF Shape, ShapeOf
  <2>2. \A d \in Entity : Coming(inst, call[Main], d) => d = e
    BY <1>0, <1>1 DEF Coming, Evicting
  <2>3. \A d \in Entity : Merged(inst, d) => Merged(heap, d)'
    BY <1>0, <1>1 DEF Merged
  <2>4. \A d \in Entity : excerpts'[d] # {} => stored'[d] # {}
    BY <1>1, <1>4, <1>5, <2>1 DEF ListShape
  <2>5. \A d \in Entity : stored'[d] # {} => excerpts'[d] # {} \/ Merged(heap, d)'
    BY <1>1, <1>4, <1>5, <2>1, <2>2, <2>3 DEF ListShape
  <2>6. \A d \in index' : excerpts'[d] # {}
    <3>1. index \subseteq Entity
      BY DEF IInv, RefTypes
    <3>2. QED
      BY <1>1, <1>4, <1>5, <2>1, <3>1 DEF ListShape
  <2>7. excerpts'[heap[c.view].ent] # {}
    BY <1>0, <1>2, <1>3, <1>4, <1>5
  <2>8. QED
    BY <2>4, <2>5, <2>6, <2>7 DEF ListShape
<1>12. NoPhantom(heap)'
  <2>1. ASSUME NEW d \in Entity, NEW o \in excerpts'[d], o \notin stored[d]
        PROVE  \E j \in Instance : inst[j].ent = d /\ o \in inst[j].staging
    <3>1. CASE d = e
      BY <1>0, <1>3, <1>4, <1>5, <2>1, <3>1
    <3>2. CASE d # e
      BY <1>5, <2>1, <3>2 DEF Shape, ShapeOf, NoPhantom
    <3>3. QED
      BY <3>1, <3>2
  <2>2. QED
    BY <1>0, <1>1, <2>1 DEF NoPhantom
<1>13. QED
  BY <1>1, <1>6, <1>7, <1>8, <1>9, <1>10, <1>11, <1>12, Collected DEF ShapeOf
------------------------------------------------------------------------------
(* Steps of the pull.                                                      *)

(* The remote and what is left to merge concern no instance.               *)
LEMMA QuietShape ==
  ASSUME Shape, UNCHANGED <<stored, inst, cached, excerpts, index, lru, held, call, merged>>
  PROVE  Shape'
<1>1. (StagedShape(inst, call[Main], held[Main]) /\ OnTop(inst, call[Main]))'
  BY DEF Shape, ShapeOf, StagedShape, OnTop
<1>2. (Usable(inst, held[Main]) /\ Usable(inst, call[Main].got))'
  BY DEF Shape, ShapeOf, Usable
<1>3. VersionShape(inst)' /\ NoPhantom(inst)'
  BY DEF Shape, ShapeOf, VersionShape, Rooted, NoPhantom
<1>4. ListShape(inst, call[Main])'
  <2>1. \A e \in Entity : Coming(inst, call[Main], e) => Coming(inst, call[Main], e)'
    BY DEF Coming
  <2>2. \A e \in Entity : Merged(inst, e) => Merged(inst, e)'
    BY DEF Merged
  <2>3. QED
    BY <2>1, <2>2 DEF Shape, ShapeOf, ListShape
<1>5. QED
  BY <1>1, <1>2, <1>3, <1>4 DEF Shape, ShapeOf

LEMMA ResultShape ==
  ASSUME IInv, IInv', Shape, NEW e \in Entity, NEW base \in SUBSET Commit, base # {},
         Result(e, base),
         base \subseteq stored'[e],
         \A d \in Entity : stored[d] \subseteq stored'[d] /\ (d # e => stored'[d] = stored[d])
  PROVE  Shape'
<1>1. PICK n \in Instance, heap \in [Instance -> InstanceRecord] :
           /\ n = NextInstance /\ HeapIs(heap)
           /\ heap[n] = [ent |-> e, base |-> base, staging |-> {}, lock |-> "free"]
           /\ \A j \in Instance : j # n => heap[j] = inst[j]
           /\ held[Main] # n /\ call[Main].got # n /\ call[Main].view # n
           /\ \A d \in Entity : cached[d] # n
           /\ \A k \in DOMAIN merged : merged[k] # n
  BY LoadFacts DEF Result
<1>2. heap[n].ent = e /\ heap[n].base = base /\ heap[n].staging = {}
  BY <1>1
<1>3. PICK c, h : c = call[Main] /\ h = held[Main]
  OBVIOUS
<1>4. /\ merged' = Append(merged, n) /\ call' = call /\ held' = held
      /\ UNCHANGED <<cached, excerpts, index, lru>>
  BY <1>1 DEF Result, maps
<1>5. /\ DOMAIN merged \subseteq DOMAIN merged'
      /\ \A k \in DOMAIN merged : merged'[k] = merged[k]
      /\ \A k \in DOMAIN merged' : merged'[k] = n \/ k \in DOMAIN merged
      /\ \E k \in DOMAIN merged' : merged'[k] = n
  <2>1. merged \in Seq(Instance)
    BY DEF IInv, RefTypes
  <2>2. Len(merged') \in DOMAIN merged' /\ merged'[Len(merged')] = n
    BY <1>4, <2>1
  <2>3. QED
    BY <1>4, <2>1, <2>2
<1>6. /\ c.got # 0 => heap[c.got] = inst[c.got]
      /\ c.view # 0 => heap[c.view] = inst[c.view]
      /\ h # 0 => heap[h] = inst[h]
      /\ \A d \in Entity : cached[d] # 0 => heap[cached[d]] = inst[cached[d]]
      /\ \A k \in DOMAIN merged : heap[merged[k]] = inst[merged[k]]
  BY <1>1, <1>3, MainFacts
<1>7. StagedShape(heap, c, h)'
  <2>1. \A i \in Instance : heap[i].staging # {} => i = h
    BY <1>1, <1>2, <1>3 DEF Shape, ShapeOf, StagedShape
  <2>2. QED
    BY <1>3, <2>1 DEF Shape, ShapeOf, StagedShape
<1>8. OnTop(heap, c)'
  BY <1>3, <1>4, <1>6 DEF Shape, ShapeOf, OnTop
<1>9. Usable(heap, h)' /\ Usable(heap, c.got)'
  BY <1>3, <1>6 DEF Shape, ShapeOf, Usable
<1>10. VersionShape(heap)'
  <2>1. ASSUME NEW i \in Instance
        PROVE  heap[i].base \subseteq stored'[heap[i].ent]
    <3>1. CASE i = n
      BY <1>2, <3>1
    <3>2. CASE i # n
      BY <1>1, <3>2, MainFacts DEF Shape, ShapeOf, VersionShape
    <3>3. QED
      BY <3>1, <3>2
  <2>2. \A d \in Entity : Rooted(heap, cached'[d])
    BY <1>4, <1>6 DEF Shape, ShapeOf, VersionShape, Rooted
  <2>3. \A k \in DOMAIN merged' : Rooted(heap, merged'[k])
    BY <1>2, <1>5, <1>6 DEF Shape, ShapeOf, VersionShape, Rooted
  <2>4. QED
    BY <2>1, <2>2, <2>3 DEF VersionShape, Rooted
<1>11. ListShape(heap, c)'
  <2>1. ListShape(inst, c) /\ CallSound(c)
    BY <1>3, MainFacts DEF Shape, ShapeOf
  <2>2. \A d \in Entity : Coming(inst, c, d) => Coming(heap, c, d)'
    BY <1>4, <1>6, <2>1 DEF Coming, CallSound
  <2>3. \A d \in Entity : Merged(inst, d) => Merged(heap, d)'
    BY <1>5, <1>6 DEF Merged
  <2>4. Merged(heap, e)'
    BY <1>2, <1>5 DEF Merged
  <2>5. c.at = "index" => excerpts'[heap[c.view].ent] # {}
    BY <1>4, <1>6, <2>1 DEF ListShape, CallSound
  <2>6. QED
    BY <1>4, <2>1, <2>2, <2>3, <2>4, <2>5 DEF ListShape
<1>12. NoPhantom(heap)'
  <2>1. ASSUME NEW d \in Entity, NEW o \in excerpts[d], o \notin stored'[d]
        PROVE  \E j \in Instance : heap[j].ent = d /\ o \in heap[j].staging
    <3>1. PICK j \in Instance : inst[j].ent = d /\ o \in inst[j].staging
      BY <2>1 DEF Shape, ShapeOf, NoPhantom
    <3>2. j # n
      BY <1>1, <3>1 DEF Shape, ShapeOf, StagedShape
    <3>3. QED
      BY <1>1, <3>1, <3>2
  <2>2. QED
    BY <1>4, <2>1 DEF NoPhantom
<1>13. QED
  BY <1>1, <1>3, <1>4, <1>7, <1>8, <1>9, <1>10, <1>11, <1>12, Collected DEF ShapeOf

LEMMA MergeTakeRemoteShape ==
  ASSUME IInv, IInv', Shape, NEW e \in Entity, MergeTakeRemote(e)
  PROVE  Shape'
<1>1. /\ stored[e] \subseteq remote[e] /\ stored[e] # remote[e]
      /\ stored' = [stored EXCEPT ![e] = remote[e]]
      /\ Result(e, remote[e]) /\ remote[e] \in SUBSET Commit
  BY DEF MergeTakeRemote, IInv, RefTypes
<1>2. /\ remote[e] # {} /\ remote[e] \subseteq stored'[e]
      /\ \A d \in Entity : stored[d] \subseteq stored'[d] /\ (d # e => stored'[d] = stored[d])
  BY <1>1 DEF IInv, RefTypes
<1>3. QED
  BY <1>1, <1>2, ResultShape

LEMMA MergeJoinShape ==
  ASSUME IInv, IInv', Shape, NEW e \in Entity, NEW c \in Op, MergeJoin(e, c)
  PROVE  Shape'
<1>1. /\ ~ (stored[e] \subseteq remote[e])
      /\ stored' = [stored EXCEPT ![e] = stored[e] \union remote[e] \union {c}]
      /\ Result(e, stored[e]) /\ stored[e] \in SUBSET Commit
  BY DEF MergeJoin, IInv, RefTypes
<1>2. /\ stored[e] # {} /\ stored[e] \subseteq stored'[e]
      /\ \A d \in Entity : stored[d] \subseteq stored'[d] /\ (d # e => stored'[d] = stored[d])
  BY <1>1 DEF IInv, RefTypes
<1>3. QED
  BY <1>1, <1>2, ResultShape

LEMMA InstallShape ==
  ASSUME IInv, IInv', Shape, Install
  PROVE  Shape'
<1>0. PICK c, h, heap, i, e :
        /\ c = call[Main] /\ h = held[Main] /\ heap = inst
        /\ i = Head(merged) /\ e = inst[i].ent
  OBVIOUS
<1>1. /\ merged # <<>> /\ merged' = Tail(merged) /\ call' = call /\ held' = held
      /\ cached' = [cached EXCEPT ![e] = i]
      /\ excerpts' = [excerpts EXCEPT ![e] = Content(i)]
      /\ UNCHANGED <<stored, index, lru>> /\ Heap(inst)
  BY <1>0 DEF Install, git
<1>2. /\ 1 \in DOMAIN merged /\ i = merged[1] /\ i \in Instance
      /\ \A k \in DOMAIN merged' : k + 1 \in DOMAIN merged /\ merged'[k] = merged[k + 1]
      /\ \A k \in DOMAIN merged : k = 1 \/ (k - 1 \in DOMAIN merged' /\ merged'[k - 1] = merged[k])
  <2>1. /\ merged \in Seq(Instance) /\ i = merged[1]
        /\ DOMAIN merged = 1..Len(merged) /\ Len(merged) \in Nat /\ Len(merged) # 0
    BY <1>0, <1>1 DEF IInv, RefTypes
  <2>2. /\ DOMAIN merged' = 1..Len(merged) - 1
        /\ \A k \in 1..Len(merged) - 1 : merged'[k] = merged[k + 1]
    BY <1>1, <2>1
  <2>3. \A k \in 1..Len(merged) : k = 1 \/ (k - 1 \in 1..Len(merged) - 1 /\ (k - 1) + 1 = k)
    BY <2>1
  <2>4. \A k \in 1..Len(merged) - 1 : k + 1 \in 1..Len(merged)
    BY <2>1
  <2>5. 1 \in DOMAIN merged
    BY <2>1
  <2>6. i \in Instance
    BY <2>1, <2>5
  <2>7. \A k \in DOMAIN merged : k = 1 \/ (k - 1 \in DOMAIN merged' /\ merged'[k - 1] = merged[k])
    BY <2>1, <2>2, <2>3
  <2>8. QED
    BY <2>1, <2>2, <2>4, <2>5, <2>6, <2>7
<1>3. Rooted(inst, i)
  BY <1>2 DEF Shape, ShapeOf, VersionShape
<1>4. /\ e \in Entity /\ Content(i) # {} /\ stored[e] # {}
      /\ \A o \in Content(i) : o \in stored[e] \/ o \in inst[i].staging
  BY <1>0, <1>2, <1>3, ContentFacts
<1>5. /\ \A d \in Entity : excerpts'[d] = IF d = e THEN Content(i) ELSE excerpts[d]
      /\ \A d \in Entity : cached'[d] = IF d = e THEN i ELSE cached[d]
      /\ i # 0
  BY <1>1, <1>2, MainFacts DEF IInv, RefTypes
<1>6. HeapIs(heap)
  BY <1>0, <1>1, SameHeap DEF HeapIs
<1>7. StagedShape(heap, c, h)'
  BY <1>0 DEF Shape, ShapeOf, StagedShape
<1>8. OnTop(heap, c)'
  BY <1>0, <1>1 DEF Shape, ShapeOf, OnTop
<1>9. Usable(heap, h)' /\ Usable(heap, c.got)'
  BY <1>0 DEF Shape, ShapeOf, Usable
<1>10. VersionShape(heap)'
  <2>1. \A d \in Entity : Rooted(heap, cached'[d])
    BY <1>0, <1>3, <1>5 DEF Shape, ShapeOf, VersionShape
  <2>2. \A k \in DOMAIN merged' : Rooted(heap, merged'[k])
    BY <1>0, <1>2 DEF Shape, ShapeOf, VersionShape
  <2>3. QED
    BY <1>0, <1>1, <2>1, <2>2 DEF Shape, ShapeOf, VersionShape, Rooted
<1>11. ListShape(heap, c)'
  <2>1. ListShape(inst, c)
    BY <1>0 DEF Shape, ShapeOf
  <2>2. \A d \in Entity : Coming(inst, c, d) => Coming(heap, c, d)'
    BY <1>0, <1>5 DEF Coming
  <2>3. ASSUME NEW d \in Entity, Merged(inst, d)
        PROVE  d = e \/ Merged(heap, d)'
    <3>1. PICK k \in DOMAIN merged : inst[merged[k]].ent = d
      BY <2>3 DEF Merged
    <3>2. CASE k = 1
      BY <1>0, <1>2, <3>1, <3>2
    <3>3. CASE k # 1
      BY <1>0, <1>2, <3>1, <3>3 DEF Merged
    <3>4. QED
      BY <3>2, <3>3
  <2>4. \A d \in Entity : excerpts'[d] # {} => stored'[d] # {}
    BY <1>1, <1>4, <1>5, <2>1 DEF ListShape
  <2>5. \A d \in Entity : excerpts[d] # {} => excerpts'[d] # {}
    BY <1>4, <1>5
  <2>6. \A d \in Entity :
          stored'[d] # {} => excerpts'[d] # {} \/ Coming(heap, c, d)' \/ Merged(heap, d)'
    BY <1>1, <1>4, <1>5, <2>1, <2>2, <2>3, <2>5 DEF ListShape
  <2>7. \A d \in index' : excerpts'[d] # {}
    <3>1. index \subseteq Entity
      BY DEF IInv, RefTypes
    <3>2. QED
      BY <1>1, <2>1, <2>5, <3>1 DEF ListShape
  <2>8. c.at = "index" => excerpts'[heap[c.view].ent] # {}
    <3>1. c.at = "index" => c.view \in Instance
      BY <1>0, MainFacts DEF CallSound
    <3>2. QED
      BY <1>0, <2>1, <2>5, <3>1, MainFacts DEF ListShape
  <2>9. QED
    BY <2>4, <2>6, <2>7, <2>8 DEF ListShape
<1>12. NoPhantom(heap)'
  <2>1. ASSUME NEW d \in Entity, NEW o \in excerpts'[d], o \notin stored[d]
        PROVE  \E j \in Instance : inst[j].ent = d /\ o \in inst[j].staging
    <3>1. CASE d = e
      BY <1>0, <1>2, <1>4, <1>5, <2>1, <3>1
    <3>2. CASE d # e
      BY <1>5, <2>1, <3>2 DEF Shape, ShapeOf, NoPhantom
    <3>3. QED
      BY <3>1, <3>2
  <2>2. QED
    BY <1>0, <1>1, <2>1 DEF NoPhantom
<1>13. QED
  BY <1>0, <1>1, <1>6, <1>7, <1>8, <1>9, <1>10, <1>11, <1>12, Collected DEF ShapeOf
------------------------------------------------------------------------------
(* The start of the process.                                               *)

Whole(S) == S = {e \in Entity : stored[e] # {}}

LEMMA BuiltShape ==
  \A S \in SUBSET Entity : FitsIn(S) /\ JustBuilt(S) /\ Whole(S) => Shape /\ AllSaved
<1> SUFFICES ASSUME NEW S \in SUBSET Entity, FitsIn(S), JustBuilt(S), Whole(S)
             PROVE  Shape /\ AllSaved
  OBVIOUS
<1>1. /\ NoCall.at = "idle" /\ NoCall.got = 0
      /\ call[Main] = NoCall /\ held[Main] = 0
  BY NoCallFacts, MainAssumption DEF JustBuilt
<1>2. AllSaved
  BY BuiltFacts DEF AllSaved
<1>3. StagedShape(inst, call[Main], held[Main])
  BY <1>1, <1>2 DEF StagedShape, AllSaved, Asking, Evicting
<1>4. OnTop(inst, call[Main]) /\ Usable(inst, held[Main]) /\ Usable(inst, call[Main].got)
  BY <1>1 DEF OnTop, Usable, Evicting
<1>5. VersionShape(inst)
  <2>1. \A e \in Entity : Rooted(inst, cached[e])
    BY BuiltFacts DEF Rooted, Whole
  <2>2. merged = <<>>
    BY DEF JustBuilt
  <2>3. QED
    BY <2>1, <2>2, BuiltFacts DEF VersionShape
<1>6. ListShape(inst, call[Main]) /\ NoPhantom(inst)
  <2>1. excerpts = stored /\ index = S
    BY DEF JustBuilt
  <2>2. QED
    BY <1>1, <2>1 DEF ListShape, NoPhantom, Whole
<1>7. QED
  BY <1>2, <1>3, <1>4, <1>5, <1>6 DEF Shape, ShapeOf

(* The same of the state after a step.                                     *)
LEMMA BuiltNext ==
  (\A S \in SUBSET Entity : FitsIn(S) /\ JustBuilt(S) /\ Whole(S) => IInv /\ Shape /\ AllSaved)'
<1>1. \A S \in SUBSET Entity : FitsIn(S) /\ JustBuilt(S) /\ Whole(S) => IInv /\ Shape /\ AllSaved
  BY BuiltIInv, BuiltShape
<1>2. QED
  BY <1>1, PTL

LEMMA RestartStep ==
  ASSUME IInv, Restart
  PROVE  IInv' /\ Shape' /\ AllSaved'
<1>1. PICK S \in SUBSET Entity : S = {e \in Entity : stored[e] # {}}
  OBVIOUS
<1>2. FitsIn(S)
  BY RestartAssumption, FS_Subset DEF FitsIn
<1>3. Whole(S)' /\ UNCHANGED <<stored, remote, fresh, acked>>
  BY <1>1 DEF Whole, Restart, git
<1>4. S \intersect fresh' = {}
  BY <1>1, <1>3 DEF IInv, FreshShape
<1>5. FreshShape' /\ AckedDurable'
  BY <1>3 DEF IInv, FreshShape, AckedDurable, Restart
<1>6. JustBuilt(S)'
  BY <1>1, <1>3, <1>4, <1>5 DEF JustBuilt, Restart, IInv, RefTypes
<1>7. FitsIn(S)'
  BY <1>2 DEF FitsIn
<1>8. QED
  BY <1>3, <1>6, <1>7, BuiltNext

LEMMA UiInitInv == UiInit => UiInv
<1> SUFFICES ASSUME UiInit
             PROVE  UiInv
  OBVIOUS
<1>1. FitsIn(Existing) /\ JustBuilt(Existing) /\ Existing \in SUBSET Entity
  BY InitBuilt, EntityAssumption DEF UiInit
<1>2. Whole(Existing)
  BY EntityAssumption DEF UiInit, Init, Whole
<1>3. IInv /\ Shape /\ AllSaved
  BY <1>1, <1>2, BuiltIInv, BuiltShape
<1>4. WindowShape
  BY <1>3 DEF UiInit, NewWindow, WindowShape, Windows
<1>5. TableShape
  BY DEF UiInit, NewTable, Undrawn, TableShape, Rows
<1>6. QED
  BY <1>3, <1>4, <1>5 DEF UiInv
------------------------------------------------------------------------------
(* Steps of the interface.                                                 *)

(* A step of the cache by Main that is not the start of an edit or of a    *)
(* Commit: IInv and Shape.                                                 *)
LEMMA ThreadStep ==
  ASSUME IInv, NEW t \in Thread, Begin(t) \/ Step(t)
  PROVE  IInv'
BY BeginStep, StepStep

(* What is saved stays saved but for an edit.                              *)
LEMMA HeapStaysSaved ==
  ASSUME IInv, IInv', AllSaved, UNCHANGED inst \/ Heap(inst)
  PROVE  AllSaved'
BY SameHeap, GarbageFields DEF HeapIs, AllSaved

LEMMA LoadStaysSaved ==
  ASSUME IInv, IInv', AllSaved, Unused # {}, NEW e \in Entity, NEW base \in SUBSET Commit,
         Heap(Load(NextInstance, e, base))
  PROVE  AllSaved'
<1>1. PICK n \in Instance, heap \in [Instance -> InstanceRecord] :
           /\ HeapIs(heap)
           /\ heap[n] = [ent |-> e, base |-> base, staging |-> {}, lock |-> "free"]
           /\ \A j \in Instance : j # n => heap[j] = inst[j]
  BY LoadFacts
<1>2. \A j \in Instance : heap[j].staging = {}
  BY <1>1 DEF AllSaved
<1>3. QED
  BY <1>1, <1>2, GarbageFields DEF HeapIs, AllSaved

LEMMA EvictStaysSaved ==
  ASSUME IInv, IInv', AllSaved, NEW i, Heap([inst EXCEPT ![i].lock = "evicted"])
  PROVE  AllSaved'
<1>1. PICK heap : heap = [inst EXCEPT ![i].lock = "evicted"]
  OBVIOUS
<1>2. \A j \in Instance : heap[j].staging = {}
  <2>1. ASSUME NEW j \in Instance
        PROVE  heap[j].staging = {}
    <3>1. inst \in [Instance -> InstanceRecord]
      BY DEF IInv, HeapType
    <3>2. CASE j = i
      <4>1. heap[j] = [inst[j] EXCEPT !.lock = "evicted"]
        BY <1>1, <3>1, <3>2
      <4>2. inst[j] \in InstanceRecord
        BY <3>1
      <4>3. heap[j].staging = inst[j].staging
        BY <4>1, <4>2 DEF InstanceRecord
      <4>4. QED
        BY <4>3 DEF AllSaved
    <3>3. CASE j # i
      BY <1>1, <3>1, <3>3 DEF AllSaved
    <3>4. QED
      BY <3>2, <3>3
  <2>2. QED
    BY <2>1
<1>3. \A j \in Instance : inst'[j] = heap[j] \/ inst'[j] = Garbage
  BY <1>1 DEF Heap
<1>4. QED
  BY <1>2, <1>3, GarbageFields DEF AllSaved

LEMMA GoingStaysSaved ==
  ASSUME IInv, IInv', AllSaved,
         \/ Read(Main) \/ Insert(Main)
         \/ EvictNothing(Main) \/ EvictBegin(Main) \/ EvictScan(Main)
         \/ EvictEnd(Main) \/ EvictLock(Main)
         \/ ExcerptLock(Main) \/ ExcerptWrite(Main) \/ IndexOne(Main)
  PROVE  AllSaved'
<1>1. CASE Read(Main)
  <2>1. stored[call[Main].id] \in SUBSET Commit /\ call[Main].id \in Entity
    BY MainFacts DEF IInv, RefTypes
  <2>2. QED
    BY <1>1, <2>1, LoadStaysSaved DEF Read
<1>2. CASE Insert(Main) \/ EvictNothing(Main) \/ EvictEnd(Main) \/ IndexOne(Main)
  BY <1>2, HeapStaysSaved DEF Insert, EvictNothing, EvictEnd, IndexOne
<1>3. CASE EvictBegin(Main) \/ EvictScan(Main) \/ ExcerptLock(Main) \/ ExcerptWrite(Main)
  BY <1>3, HeapStaysSaved DEF EvictBegin, EvictScan, ExcerptLock, ExcerptWrite
<1>4. CASE EvictLock(Main)
  BY <1>4, EvictStaysSaved DEF EvictLock
<1>5. QED
  BY <1>1, <1>2, <1>3, <1>4

LEMMA BackgroundStaysSaved ==
  ASSUME IInv, IInv', AllSaved, Background
  PROVE  AllSaved'
<1>1. CASE \E e \in Entity : MergeNothing(e)
  BY <1>1, HeapStaysSaved DEF MergeNothing
<1>2. ASSUME NEW e \in Entity, MergeTakeRemote(e)
      PROVE  AllSaved'
  <2>1. remote[e] \in SUBSET Commit
    BY DEF IInv, RefTypes
  <2>2. QED
    BY <1>2, <2>1, LoadStaysSaved DEF MergeTakeRemote, Result
<1>3. ASSUME NEW e \in Entity, NEW c \in Joint, MergeJoin(e, c)
      PROVE  AllSaved'
  <2>1. stored[e] \in SUBSET Commit
    BY DEF IInv, RefTypes
  <2>2. QED
    BY <1>3, <2>1, LoadStaysSaved DEF MergeJoin, Result
<1>4. CASE Install
  BY <1>4, HeapStaysSaved DEF Install
<1>5. QED
  BY <1>1, <1>2, <1>3, <1>4 DEF Background

(* How the window follows the call.                                        *)
LEMMA ActivateWindow ==
  ASSUME NEW w \in Windows, Activate(w), w = "table" => AllSaved'
  PROVE  WindowShape'
BY DEF Activate, WindowShape

LEMMA ThenWindow ==
  ASSUME WindowShape, NEW w \in Windows, Then(w),
         window.now = "table" => AllSaved',
         w = "table" => AllSaved' \/ call'[Main].at = "commit"
  PROVE  WindowShape'
<1>1. CASE call'[Main].at = "idle"
  BY <1>1, ActivateWindow DEF Then
<1>2. CASE call'[Main].at # "idle"
  <2>1. window' = [window EXCEPT !.next = w]
    BY <1>2 DEF Then
  <2>2. window' \in [now : Windows, next : Windows] /\ window'.now = window.now /\ window'.next = w
    BY <2>1 DEF WindowShape
  <2>3. QED
    BY <2>2 DEF WindowShape, At
<1>3. QED
  BY <1>1, <1>2

LEMMA SameWindow ==
  ASSUME WindowShape, AllSaved => AllSaved', UNCHANGED <<window, call>>
  PROVE  WindowShape'
BY DEF WindowShape, At

(* Nothing of the cache changes.                                           *)
LEMMA SameCache ==
  ASSUME IInv, Shape, UNCHANGED vars
  PROVE  IInv' /\ Shape' /\ (AllSaved => AllSaved')
<1>1. IInv'
  BY NextStep
<1>2. Shape'
  BY QuietShape DEF vars, git, maps, pull
<1>3. AllSaved => AllSaved'
  BY DEF vars, AllSaved
<1>4. QED
  BY <1>1, <1>2, <1>3
------------------------------------------------------------------------------
(* The table.                                                              *)

LEMMA TableFacts ==
  ASSUME TableShape
  PROVE  /\ table.page \in Nat /\ table.select \in Nat
         /\ table.drawn.height \in Nat /\ Len(table.drawn.ids) \in Nat
         /\ Rows \in Seq(Entity)
BY DEF TableShape, Rows

LEMMA UndrawnTable ==
  /\ Undrawn \in [ids : Seq(Entity), rows : Seq(Entity), height : Nat]
  /\ Undrawn.rows = <<>>
BY DEF Undrawn

(* The table is drawn again after a key.                                   *)
LEMMA TableMoves ==
  ASSUME TableShape, NEW page \in Nat, NEW select \in Nat, Moves(page, select)
  PROVE  TableShape'
BY UndrawnTable DEF Moves, TableShape, Rows

LEMMA TableLeft ==
  ASSUME TableShape, Leaves
  PROVE  TableShape'
BY UndrawnTable DEF Leaves, TableShape, Rows

LEMMA SameTable ==
  ASSUME TableShape, UNCHANGED table
  PROVE  TableShape'
BY DEF TableShape, Rows

LEMMA MoveKey ==
  ASSUME TableShape, CursorDown \/ CursorUp \/ NextPage \/ PreviousPage \/ ChangeQuery
  PROVE  TableShape'
<1>1. CASE CursorDown
  BY <1>1, TableFacts, TableMoves DEF CursorDown, HasNext, FirstOfNext
<1>2. CASE CursorUp
  <2>1. FirstOfPrevious \in Nat
    BY TableFacts DEF FirstOfPrevious, Larger
  <2>2. table.drawn.height - 1 \in Nat
    BY <1>2, TableFacts DEF CursorUp, Drawn, TableShape
  <2>3. table.select # 0 => table.select - 1 \in Nat
    BY TableFacts
  <2>4. QED
    BY <1>2, <2>1, <2>2, <2>3, TableFacts, TableMoves DEF CursorUp
<1>3. CASE NextPage
  BY <1>3, TableFacts, TableMoves DEF NextPage, FirstOfNext
<1>4. CASE PreviousPage
  <2>1. FirstOfPrevious \in Nat
    BY TableFacts DEF FirstOfPrevious, Larger
  <2>2. QED
    BY <1>4, <2>1, TableFacts, TableMoves DEF PreviousPage
<1>5. CASE ChangeQuery
  BY <1>5, UndrawnTable DEF ChangeQuery, TableShape, Rows
<1>6. QED
  BY <1>1, <1>2, <1>3, <1>4, <1>5

LEMMA DrawTable ==
  ASSUME TableShape, Draw
  PROVE  TableShape'
<1>1. PICK h, ids, rows :
        /\ h \in Height /\ ids \in Orders /\ rows = DoPaginate(ids, h)
        /\ table' = [table EXCEPT !.page = Page(ids), !.select = CursorClamp(rows),
                                  !.drawn = [ids |-> ids, rows |-> rows, height |-> h]]
  BY DEF Draw
<1>2. h \in Nat /\ h # 0
  BY <1>1, TableAssumption
<1>3. ids \in Seq(Entity)
  <2>1. PICK S \in SUBSET Entity : ids \in [1 .. Cardinality(S) -> S]
    BY <1>1 DEF Orders
  <2>2. Cardinality(S) \in Nat
    BY RestartAssumption, FS_Subset, FS_CardinalityType
  <2>3. QED
    BY <2>1, <2>2
<1>4. Page(ids) \in Nat /\ Page(ids) <= Len(ids)
  BY <1>3, TableFacts DEF Page, Smaller
<1>5. rows \in Seq(Entity)
  <2>1. PICK p, last : p = Page(ids) /\ last = Smaller(p + h, Len(ids))
    OBVIOUS
  <2>2. p \in Nat /\ last \in Nat /\ last <= Len(ids)
    BY <1>2, <1>3, <1>4, <2>1 DEF Smaller
  <2>3. SubSeq(ids, p + 1, last) \in Seq(Entity)
    BY <1>3, <2>2
  <2>4. QED
    BY <1>1, <2>1, <2>3 DEF DoPaginate
<1>6. /\ CursorClamp(rows) \in Nat
      /\ rows # <<>> => CursorClamp(rows) < Len(rows)
  BY <1>5, TableFacts DEF CursorClamp, Larger, Smaller
<1>7. [ids |-> ids, rows |-> rows, height |-> h] \in
        [ids : Seq(Entity), rows : Seq(Entity), height : Nat]
  BY <1>2, <1>3, <1>5
<1>8. QED
  BY <1>1, <1>2, <1>4, <1>6, <1>7 DEF TableShape, Rows

(* The row that `enter` opens.                                             *)
LEMMA RowOfCursor ==
  ASSUME TableShape, Drawn, Rows # <<>>
  PROVE  Rows[table.select + 1] \in Entity
<1>1. table.select < Len(Rows) /\ table.select \in Nat /\ Rows \in Seq(Entity)
  BY TableFacts DEF TableShape, Drawn
<1>2. table.select + 1 \in 1 .. Len(Rows)
  BY <1>1
<1>3. QED
  BY <1>1, <1>2
------------------------------------------------------------------------------
(* The keys.                                                               *)

LEMMA ScreenKey ==
  ASSUME UiInv, CursorDown \/ CursorUp \/ NextPage \/ PreviousPage \/ ChangeQuery \/ Draw
                \/ SelectItem \/ AddItem \/ Added \/ UNCHANGED uiVars
  PROVE  UiInv'
<1>1. UNCHANGED <<vars, window>>
  BY DEF CursorDown, CursorUp, NextPage, PreviousPage, ChangeQuery, Draw, Moves, SelectItem,
         AddItem, Added, uiVars, screen
<1>2. IInv' /\ Shape' /\ (AllSaved => AllSaved')
  BY <1>1, SameCache DEF UiInv
<1>3. UNCHANGED <<window, call>>
  BY <1>1 DEF vars
<1>4. WindowShape'
  BY <1>2, <1>3, SameWindow DEF UiInv
<1>5. TableShape'
  BY DrawTable, MoveKey, SameTable
     DEF UiInv, SelectItem, AddItem, Added, uiVars, screen
<1>6. QED
  BY <1>2, <1>4, <1>5 DEF UiInv

LEMMA LabelsKey ==
  ASSUME UiInv, EditLabels \/ Abort
  PROVE  UiInv'
<1>1. PICK w \in {"labels", "show"} : Activate(w) /\ UNCHANGED vars
  BY DEF EditLabels, Abort
<1>2. IInv' /\ Shape'
  BY <1>1, SameCache DEF UiInv
<1>3. WindowShape'
  BY <1>1, ActivateWindow DEF Windows
<1>4. TableShape'
  BY SameTable DEF UiInv, EditLabels, Abort
<1>5. QED
  BY <1>2, <1>3, <1>4 DEF UiInv

(* A call that ends with a bug to show.                                    *)
LEMMA ShowingWindow ==
  ASSUME WindowShape, Then("show"), window.now = "table" => AllSaved'
  PROVE  WindowShape'
BY ThenWindow DEF Windows

LEMMA OpenBugStep ==
  ASSUME UiInv, OpenBug
  PROVE  UiInv'
<1>1. AllSaved /\ Main \in Thread
  BY MainAssumption DEF UiInv, WindowShape, OpenBug, Drawn, Ready
<1>2. PICK e \in Entity : Resolve(Main, e) /\ Then("show")
  BY RowOfCursor DEF OpenBug, UiInv
<1>3. IInv'
  BY <1>1, <1>2, BeginStep DEF Begin, UiInv
<1>4. Shape'
  BY <1>1, <1>2, <1>3, ResolveHitShape, ResolveMissShape DEF Resolve, UiInv
<1>5. AllSaved'
  BY <1>1, <1>2, <1>3, HeapStaysSaved DEF Resolve, ResolveHit, ResolveMiss, UiInv
<1>6. TableShape'
  BY TableLeft DEF OpenBug, UiInv
<1>7. QED
  BY <1>2, <1>3, <1>4, <1>5, <1>6, ShowingWindow DEF UiInv

LEMMA NewBugStep ==
  ASSUME UiInv, NewBug
  PROVE  UiInv'
<1>1. AllSaved /\ Main \in Thread
  BY MainAssumption DEF UiInv, WindowShape, NewBug, Drawn, Ready
<1>2. PICK e \in Entity : New(Main, e) /\ Then("show")
  BY DEF NewBug
<1>3. IInv'
  BY <1>1, <1>2, BeginStep DEF Begin, UiInv
<1>4. Shape'
  BY <1>1, <1>2, <1>3, NewShape DEF UiInv
<1>5. AllSaved'
  <2>1. {e} \in SUBSET Commit
    BY DEF Commit
  <2>2. QED
    BY <1>1, <1>2, <1>3, <2>1, LoadStaysSaved DEF New, UiInv
<1>6. TableShape'
  BY TableLeft DEF NewBug, UiInv
<1>7. QED
  BY <1>2, <1>3, <1>4, <1>5, <1>6, ShowingWindow DEF UiInv

LEMMA PullKeyStep ==
  ASSUME UiInv, PullKey
  PROVE  UiInv'
<1>1. PICK e \in Entity, c \in Commit : Fetch(e, c)
  BY DEF PullKey
<1>2. IInv'
  BY <1>1, PullStep DEF Pull, UiInv
<1>3. Shape'
  BY <1>1, QuietShape DEF Fetch, UiInv, maps
<1>4. WindowShape'
  BY <1>1, SameWindow DEF Fetch, UiInv, PullKey, AllSaved
<1>5. TableShape'
  BY TableLeft DEF PullKey, UiInv
<1>6. QED
  BY <1>2, <1>3, <1>4, <1>5 DEF UiInv

(* The keys of the bug that is shown.                                      *)
LEMMA EditKey ==
  ASSUME UiInv, NEW o \in Op, Edit(Main, o), Then("show"), window.now # "table",
         UNCHANGED table
  PROVE  UiInv'
<1>1. IInv'
  BY MainAssumption, BeginStep DEF Begin, UiInv
<1>2. Shape'
  BY <1>1, EditShape DEF UiInv
<1>3. WindowShape'
  BY ShowingWindow DEF UiInv
<1>4. TableShape'
  BY SameTable DEF UiInv
<1>5. QED
  BY <1>1, <1>2, <1>3, <1>4 DEF UiInv

LEMMA ShownKey ==
  ASSUME UiInv, EditText \/ ToggleOpenClose \/ SaveAndReturn
  PROVE  UiInv'
<1>1. Text \subseteq Op /\ Closing \subseteq Op /\ Opening \subseteq Op
  BY StatusAssumption DEF Text
<1>2. CASE EditText \/ ToggleOpenClose
  BY <1>1, <1>2, EditKey DEF EditText, ToggleOpenClose, Ready
<1>3. CASE SaveAndReturn /\ labels.changed
  BY <1>1, <1>3, EditKey DEF SaveAndReturn, Ready
<1>4. CASE SaveAndReturn /\ ~ labels.changed
  <2>1. IInv' /\ Shape'
    BY <1>4, SameCache DEF SaveAndReturn, UiInv
  <2>2. WindowShape'
    BY <1>4, ActivateWindow DEF SaveAndReturn, Windows
  <2>3. TableShape'
    BY <1>4, SameTable DEF SaveAndReturn, UiInv
  <2>4. QED
    BY <2>1, <2>2, <2>3 DEF UiInv
<1>5. QED
  BY <1>2, <1>3, <1>4

LEMMA SaveAndBackStep ==
  ASSUME UiInv, SaveAndBack
  PROVE  UiInv'
<1>0. TableShape'
  BY SameTable DEF SaveAndBack, UiInv
<1>1. window.now # "table" /\ Then("table")
  BY DEF SaveAndBack, Ready
<1>2. IInv'
  BY MainAssumption, BeginStep DEF SaveAndBack, Begin, UiInv
<1>3. CASE CommitNotNeeded(Main)
  <2>1. Shape' /\ AllSaved
    BY <1>2, <1>3, CommitNotNeededShape DEF UiInv
  <2>2. AllSaved'
    BY <1>3, <2>1 DEF CommitNotNeeded, AllSaved
  <2>3. WindowShape'
    BY <1>1, <2>2, ThenWindow DEF UiInv, Windows
  <2>4. QED
    BY <1>0, <1>2, <2>1, <2>3 DEF UiInv
<1>4. CASE CommitLock(Main)
  <2>1. Shape'
    BY <1>2, <1>4, CommitLockShape DEF UiInv
  <2>2. call'[Main].at = "commit"
    BY <1>4, MainFacts, MainAssumption DEF CommitLock, UiInv, IInv, RefTypes, CallRecord
  <2>3. WindowShape'
    BY <1>1, <2>2, ThenWindow DEF UiInv, Windows
  <2>4. QED
    BY <1>0, <1>2, <2>1, <2>3 DEF UiInv
<1>5. QED
  BY <1>3, <1>4 DEF SaveAndBack
------------------------------------------------------------------------------
(* The call goes on, or ends with an error.                                *)

LEMMA GoesStep ==
  ASSUME UiInv, Goes
  PROVE  UiInv'
<1>1. IInv'
  BY MainAssumption, ThreadStep DEF Goes, Step, UiInv
<1>2. Shape'
  <2>1. CASE Read(Main) \/ Insert(Main)
    BY <1>1, <2>1, ReadShape, InsertShape DEF UiInv
  <2>2. CASE EvictNothing(Main) \/ EvictBegin(Main) \/ EvictScan(Main)
    BY <1>1, <2>2, EvictNothingShape, EvictBeginShape, EvictScanShape DEF UiInv
  <2>3. CASE EvictEnd(Main) \/ EvictLock(Main)
    BY <1>1, <2>3, EvictEndShape, EvictLockShape DEF UiInv
  <2>4. CASE CommitDone(Main)
    BY <1>1, <2>4, CommitDoneShape DEF UiInv
  <2>5. CASE ExcerptLock(Main) \/ ExcerptWrite(Main) \/ IndexOne(Main)
    BY <1>1, <2>5, ExcerptLockShape, ExcerptWriteShape, IndexOneShape DEF UiInv
  <2>6. QED
    BY <2>1, <2>2, <2>3, <2>4, <2>5 DEF Goes
<1>3. window.now = "table" \/ window.next = "table" => AllSaved'
  <2>1. CASE CommitDone(Main)
    BY <1>1, <2>1, CommitDoneShape DEF UiInv
  <2>2. CASE ~ CommitDone(Main)
    <3>1. ~ At(Main, "commit")
      BY <2>2 DEF Goes, At, Read, Insert, EvictNothing, EvictBegin, EvictScan, EvictEnd,
                  EvictLock, ExcerptLock, ExcerptWrite, IndexOne
    <3>2. window.now = "table" \/ window.next = "table" => AllSaved
      BY <3>1 DEF UiInv, WindowShape
    <3>3. QED
      BY <1>1, <2>2, <3>2, GoingStaysSaved DEF Goes, UiInv
  <2>3. QED
    BY <2>1, <2>2
<1>4. WindowShape'
  <2>1. window.next \in Windows
    BY DEF UiInv, WindowShape
  <2>2. QED
    BY <1>3, <2>1, ThenWindow DEF Goes, UiInv
<1>5. TableShape'
  BY SameTable DEF Goes, UiInv
<1>6. QED
  BY <1>1, <1>2, <1>4, <1>5 DEF UiInv

LEMMA FailsStep ==
  ASSUME UiInv, Fails
  PROVE  UiInv'
<1>1. IInv'
  BY MainAssumption, ThreadStep DEF Fails, Error, Step, UiInv
<1>2. Shape'
  BY <1>1, ReadNotFoundShape, CommitConflictShape, ExcerptMissingShape DEF Fails, Error, UiInv
<1>3. WindowShape'
  BY ActivateWindow DEF Fails, Windows
<1>4. TableShape'
  BY SameTable DEF Fails, UiInv
<1>5. QED
  BY <1>1, <1>2, <1>3, <1>4 DEF UiInv

LEMMA BackgroundStep ==
  ASSUME UiInv, Background
  PROVE  UiInv'
<1>1. Joint \subseteq Op /\ Joint \subseteq Commit
  BY StatusAssumption DEF Commit
<1>2. IInv'
  BY <1>1, PullStep DEF Background, Pull, UiInv
<1>3. Shape'
  <2>1. CASE \E e \in Entity : MergeNothing(e)
    BY <2>1, QuietShape DEF MergeNothing, UiInv, git, maps
  <2>2. CASE \E e \in Entity : MergeTakeRemote(e)
    BY <1>2, <2>2, MergeTakeRemoteShape DEF UiInv
  <2>3. CASE \E e \in Entity, c \in Joint : MergeJoin(e, c)
    BY <1>1, <1>2, <2>3, MergeJoinShape DEF UiInv
  <2>4. CASE Install
    BY <1>2, <2>4, InstallShape DEF UiInv
  <2>5. QED
    BY <2>1, <2>2, <2>3, <2>4 DEF Background
<1>4. UNCHANGED <<window, call, table>>
  BY DEF Background, screen, MergeNothing, MergeTakeRemote, MergeJoin, Result, Install
<1>5. WindowShape' /\ TableShape'
  BY <1>2, <1>4, BackgroundStaysSaved, SameWindow, SameTable DEF UiInv
<1>6. QED
  BY <1>2, <1>3, <1>5 DEF UiInv

LEMMA RestartUi ==
  ASSUME UiInv, Restart
  PROVE  UiInv'
<1>1. IInv' /\ Shape' /\ AllSaved'
  BY RestartStep DEF UiInv
<1>2. WindowShape'
  BY <1>1 DEF Restart, NewWindow, WindowShape, Windows
<1>3. TableShape'
  BY UndrawnTable DEF Restart, NewTable, TableShape, Rows
<1>4. QED
  BY <1>1, <1>2, <1>3 DEF UiInv

LEMMA UiNextStep == UiInv /\ [UiNext]_uiVars => UiInv'
<1> SUFFICES ASSUME UiInv, [UiNext]_uiVars
             PROVE  UiInv'
  OBVIOUS
<1>1. CASE Key
  <2>1. CASE CursorDown \/ CursorUp \/ NextPage \/ PreviousPage \/ ChangeQuery
             \/ SelectItem \/ AddItem
    BY <2>1, ScreenKey
  <2>2. CASE EditLabels \/ Abort
    BY <2>2, LabelsKey
  <2>3. CASE OpenBug \/ NewBug \/ PullKey
    BY <2>3, OpenBugStep, NewBugStep, PullKeyStep
  <2>4. CASE EditText \/ ToggleOpenClose \/ SaveAndReturn \/ SaveAndBack
    BY <2>4, ShownKey, SaveAndBackStep
  <2>5. QED
    BY <1>1, <2>1, <2>2, <2>3, <2>4 DEF Key
<1>2. CASE Draw \/ Added \/ UNCHANGED uiVars
  BY <1>2, ScreenKey
<1>3. CASE DrawUnmarked \/ Restart
  BY <1>3, RestartUi DEF DrawUnmarked
<1>4. CASE Goes \/ Fails
  BY <1>4, GoesStep, FailsStep
<1>5. CASE Background
  BY <1>5, BackgroundStep
<1>6. QED
  BY <1>1, <1>2, <1>3, <1>4, <1>5 DEF UiNext
------------------------------------------------------------------------------
LEMMA UiInvariant == UiSpec => []UiInv
<1>1. UiInit => UiInv
  BY UiInitInv
<1>2. UiInv /\ [UiNext]_uiVars => UiInv'
  BY UiNextStep
<1>3. QED
  BY <1>1, <1>2, PTL DEF UiSpec

(* Types, and the cursor on a row: with what was listed when the table was *)
(* drawn, `enter` finds a bug under it.                                    *)
THEOREM UiTypeCorrect == UiSpec => []UiTypeOK
BY UiInvariant, UiInvariantIsEnough, PTL

(* Back at the table everything is saved: ctrl-C and `q` there lose no     *)
(* edit, neither does an eviction or the next bug to be opened.            *)
THEOREM BackIsSaved == UiSpec => []TableMeansSaved
BY UiInvariant, UiInvariantIsEnough, PTL

(* The interface never works with an instance that was evicted: every call *)
(* would wait for its mutex for ever.                                      *)
THEOREM ShownIsNotEvicted == UiSpec => []NeverHangs
BY UiInvariant, UiInvariantIsEnough, PTL

(* With no call and no pull under way, the bugs listed are those stored,   *)
(* and a text search finds no other.                                       *)
THEOREM ListIsStore == UiSpec => []ListedStored
BY UiInvariant, UiInvariantIsEnough, PTL

(* Nothing is listed that neither the repository nor an open bug has: no   *)
(* failed commit and no replaced instance leaves its edits in the table.   *)
THEOREM ListedIsReal == UiSpec => []NoPhantomEdit
BY UiInvariant, UiInvariantIsEnough, PTL
==============================================================================
