------------------------------- MODULE SubCache -------------------------------
(***************************************************************************)
(* The cache of one kind of entity in one process (cache.SubCache): which  *)
(* entities are loaded, their excerpts, the text index and the LRU list,   *)
(* under the lock of the subcache and a lock per loaded instance.          *)
(*                                                                         *)
(* Threads are goroutines that resolve, create, edit, commit and remove    *)
(* entities; one more goroutine may pull. A stretch of code that holds the *)
(* subcache lock and waits for nothing is one step; where it waits for the *)
(* lock of an instance, or gives the subcache lock up, a new step starts.  *)
(*                                                                         *)
(* A version of an entity is the set of the commits in its history. Git    *)
(* itself is atomic here: EntityStore takes its steps apart.               *)
(***************************************************************************)
EXTENDS Integers, Sequences, FiniteSets, Functions

CONSTANTS
  Thread,               \* goroutines that use the cache
  Remover,              \* those that also remove entities
  Careful,              \* those that commit before they turn to another entity
  Entity,               \* ids; the id of an entity is its first commit
  Existing,             \* those in the repository when the cache is built
  Op,                   \* later commits, and staged operations
  MaxLoaded,            \* SubCache.maxLoaded
  MaxInstances          \* bound: instances in memory at once

ASSUME ThreadAssumption ==
  Remover \union Careful \subseteq Thread /\ {"free", "evicted"} \intersect Thread = {}
ASSUME EntityAssumption ==
  Existing \subseteq Entity /\ Entity # {} /\ IsFiniteSet(Existing) /\ Entity \intersect Op = {}
ASSUME BoundAssumption ==
  /\ MaxLoaded \in Nat \ {0}
  /\ MaxInstances \in Nat
  /\ Cardinality(Existing) <= MaxInstances

VARIABLES
  stored,               \* refs/bugs/<id>: the version stored, {} if there is none
  remote,               \* refs/remotes/<remote>/bugs/<id>
  fresh,                \* commits nobody has made yet
  inst,                 \* the heap: loaded instances of entities
  cached, excerpts,     \* SubCache.cached (0: absent), SubCache.excerpts ({}: absent)
  index,                \* ids in the text index
  lru,                  \* SubCache.lru, oldest first
  mu,                   \* SubCache.mu: the thread that holds it, or "free"
  held,                 \* the instance a thread's caller works with, or 0
  call,                 \* the local variables of the call a thread is in
  todo,                 \* dag.MergeAll: entities still to merge
  merged,               \* results on their way to SubCache.MergeAll
  acked                 \* history: operations whose Commit returned without
                        \* error since the entity was last removed

git == <<stored, remote, fresh>>
maps == <<cached, excerpts, index, lru>>
pull == <<todo, merged>>
vars == <<git, inst, maps, mu, held, call, pull, acked>>

Instance == 1 .. MaxInstances
Commit == Entity \union Op

(* What a caller gets to see of an instance: its Snapshot.                  *)
Content(i) == inst[i].base \union inst[i].staging

NoCall == [at |-> "idle", id |-> CHOOSE e \in Entity : TRUE, got |-> 0,
           view |-> 0, scan |-> <<>>, then |-> "hold"]

------------------------------------------------------------------------------
(* The heap is garbage collected: what nobody refers to is gone.            *)

Live ==
  Range(cached) \union Range(held) \union Range(merged)
    \union {call[t].got : t \in Thread} \union {call[t].view : t \in Thread}

Garbage == [ent |-> CHOOSE e \in Entity : TRUE, base |-> {}, staging |-> {}, lock |-> "free"]

(* The heap becomes "heap". Stated last in an action: it looks at what the   *)
(* action leaves in the other variables.                                    *)
Heap(heap) == inst' = [i \in Instance |-> IF i \in Live' THEN heap[i] ELSE Garbage]

(* Where a new instance goes.                                               *)
Unused == Instance \ Live
NextInstance == CHOOSE i \in Unused : \A j \in Unused : i <= j

(* i is a new instance of e with the given history and nothing staged.      *)
Load(i, e, base) ==
  [inst EXCEPT ![i] = [ent |-> e, base |-> base, staging |-> {}, lock |-> "free"]]

Free(i) == inst[i].lock = "free"
------------------------------------------------------------------------------
(* lruIdCache.                                                              *)

Without(s, e) ==
  IF e \in Range(s)
  THEN LET n == CHOOSE k \in DOMAIN s : s[k] = e
       IN  SubSeq(s, 1, n - 1) \o SubSeq(s, n + 1, Len(s))
  ELSE s

(* Mutant: an entity that is in the list already is entered again.          *)
NewestTwice(s, e) == Append(s, e)

Newest(s, e) == Append(Without(s, e), e)
Touch(s, e) == IF e \in Range(s) THEN Newest(s, e) ELSE s
------------------------------------------------------------------------------
(* Build loads and indexes every entity of the repository; SetCacheSize then *)
(* evicts all but the newest MaxLoaded of them, whichever those are.        *)
Newests(ids) ==
  LET size == IF Cardinality(ids) < MaxLoaded THEN Cardinality(ids) ELSE MaxLoaded
  IN  {l \in [1 .. size -> ids] : IsInjective(l)}
Built(l) == [e \in Entity |-> IF e \in Range(l) THEN CHOOSE n \in DOMAIN l : l[n] = e ELSE 0]
BuiltHeap(l, versions) ==
  [i \in Instance |->
     IF i \in DOMAIN l
     THEN [ent |-> l[i], base |-> versions[l[i]], staging |-> {}, lock |-> "free"]
     ELSE Garbage]

Init ==
  /\ stored = [e \in Entity |-> IF e \in Existing THEN {e} ELSE {}]
  /\ remote = [e \in Entity |-> {}]
  /\ fresh = Commit \ Existing
  /\ lru \in Newests(Existing)
  /\ cached = Built(lru)
  /\ inst = BuiltHeap(lru, stored)
  /\ excerpts = stored
  /\ index = Existing
  /\ mu = "free"
  /\ held = [t \in Thread |-> 0]
  /\ call = [t \in Thread |-> NoCall]
  /\ todo = {} /\ merged = <<>>
  /\ acked = [e \in Entity |-> {}]

At(t, label) == call[t].at = label
Idle(t) == At(t, "idle")
Goto(t, label) == call' = [call EXCEPT ![t].at = label]

(* The call returns and leaves the caller with instance i (0: with none).    *)
Return(t, i) ==
  /\ call' = [call EXCEPT ![t] = NoCall]
  /\ held' = [held EXCEPT ![t] = i]

(* saveAndBack commits before the bug is left, and the commands before they  *)
(* end; nothing in the cache makes a caller do it.                          *)
MayLeave(t) == held[t] # 0 /\ t \in Careful => inst[held[t]].staging = {}
------------------------------------------------------------------------------
(* Resolve.                                                                 *)

(* What follows once the instance is found or made: hold it, write its      *)
(* excerpt (add) or remove the entity (Remove).                             *)
Proceed(t, i) ==
  \/ /\ call[t].then = "hold"
     /\ Return(t, i)
  \/ /\ call[t].then # "hold"
     /\ call' = [call EXCEPT ![t] = [NoCall EXCEPT !.at = call[t].then, !.got = i]]
     /\ UNCHANGED held

(* A caller asks for one of the ids it was shown: ResolvePrefix and the      *)
(* tables of the terminal interface take them from the excerpts.            *)
Ask(t, e) == Idle(t) /\ MayLeave(t) /\ excerpts[e] # {} /\ mu = "free"

ResolveHit(t, e, then) ==
  /\ Ask(t, e)
  /\ cached[e] # 0
  /\ lru' = Touch(lru, e)
  /\ \/ /\ then = "hold"
        /\ Return(t, cached[e])
     \/ /\ then = "remove"
        /\ call' = [call EXCEPT ![t].at = then, ![t].got = cached[e]]
        /\ held' = [held EXCEPT ![t] = 0]
  /\ UNCHANGED <<git, cached, excerpts, index, mu, pull, acked>>
  /\ Heap(inst)

ResolveMiss(t, e, then) ==
  /\ Ask(t, e)
  /\ cached[e] = 0
  /\ call' = [call EXCEPT ![t].at = "read", ![t].id = e, ![t].then = then]
  /\ held' = [held EXCEPT ![t] = 0]
  /\ UNCHANGED <<git, maps, mu, pull, acked>>
  /\ Heap(inst)

Resolve(t, e) == ResolveHit(t, e, "hold") \/ ResolveMiss(t, e, "hold")

(* ReadWithResolver, with no lock held.                                     *)
Read(t) ==
  LET e == call[t].id IN
  /\ At(t, "read")
  /\ stored[e] # {}
  /\ Unused # {}
  /\ call' = [call EXCEPT ![t].at = "insert", ![t].got = NextInstance]
  /\ UNCHANGED <<git, maps, mu, held, pull, acked>>
  /\ Heap(Load(NextInstance, e, stored[e]))

ReadNotFound(t) ==
  /\ At(t, "read")
  /\ stored[call[t].id] = {}
  /\ Return(t, 0)
  /\ UNCHANGED <<git, maps, mu, pull, acked>>
  /\ Heap(inst)

Insert(t) ==
  LET e == call[t].id IN
  /\ At(t, "insert") /\ mu = "free"
  /\ cached' = [cached EXCEPT ![e] = call[t].got]
  /\ lru' = Newest(lru, e)
  /\ Goto(t, "evict")
  /\ UNCHANGED <<git, excerpts, index, mu, held, pull, acked>>
  /\ Heap(inst)
------------------------------------------------------------------------------
(* evictIfNeeded, which holds the subcache lock throughout.                 *)

EvictNothing(t) ==
  /\ At(t, "evict") /\ mu = "free"
  /\ Len(lru) <= MaxLoaded
  /\ Proceed(t, call[t].got)
  /\ UNCHANGED <<git, maps, mu, pull, acked>>
  /\ Heap(inst)

EvictBegin(t) ==
  /\ At(t, "evict") /\ mu = "free"
  /\ Len(lru) > MaxLoaded
  /\ mu' = t
  /\ call' = [call EXCEPT ![t].at = "scan", ![t].scan = lru]
  /\ UNCHANGED <<git, inst, maps, held, pull, acked>>

(* The next entity of the list; one with staged operations is skipped.      *)
EvictScan(t) ==
  /\ At(t, "scan") /\ call[t].scan # <<>>
  /\ LET e == Head(call[t].scan) IN
       /\ Free(cached[e])
       /\ call' = IF inst[cached[e]].staging # {}
                  THEN [call EXCEPT ![t].scan = Tail(@)]
                  ELSE [call EXCEPT ![t].at = "lock"]
  /\ UNCHANGED <<git, inst, maps, mu, held, pull, acked>>

EvictEnd(t) ==
  /\ At(t, "scan") /\ call[t].scan = <<>>
  /\ mu' = "free"
  /\ Proceed(t, call[t].got)
  /\ UNCHANGED <<git, maps, pull, acked>>
  /\ Heap(inst)

(* Mutant: the early return leaves the subcache locked.                     *)
EvictKeepsMutex(t) ==
  LET e == Head(call[t].scan) IN
  /\ At(t, "lock")
  /\ Free(cached[e])
  /\ lru' = Without(lru, e)
  /\ cached' = [cached EXCEPT ![e] = 0]
  /\ \/ /\ Len(lru') > MaxLoaded
        /\ call' = [call EXCEPT ![t].at = "scan", ![t].scan = Tail(@)]
        /\ UNCHANGED held
     \/ /\ Len(lru') <= MaxLoaded
        /\ Proceed(t, call[t].got)
  /\ UNCHANGED <<git, excerpts, index, mu, pull, acked>>
  /\ Heap([inst EXCEPT ![cached[e]].lock = "evicted"])

(* Mutant: the evicted instance stays in the cache.                         *)
EvictKeepsCached(t) ==
  LET e == Head(call[t].scan) IN
  /\ At(t, "lock")
  /\ Free(cached[e])
  /\ lru' = Without(lru, e)
  /\ \/ /\ Len(lru') > MaxLoaded
        /\ call' = [call EXCEPT ![t].at = "scan", ![t].scan = Tail(@)]
        /\ UNCHANGED <<mu, held>>
     \/ /\ Len(lru') <= MaxLoaded
        /\ mu' = "free"
        /\ Proceed(t, call[t].got)
  /\ UNCHANGED <<git, cached, excerpts, index, pull, acked>>
  /\ Heap([inst EXCEPT ![cached[e]].lock = "evicted"])

(* The evicted instance is locked and never unlocked.                       *)
EvictLock(t) ==
  LET e == Head(call[t].scan) IN
  /\ At(t, "lock")
  /\ Free(cached[e])
  /\ lru' = Without(lru, e)
  /\ cached' = [cached EXCEPT ![e] = 0]
  /\ \/ /\ Len(lru') > MaxLoaded
        /\ call' = [call EXCEPT ![t].at = "scan", ![t].scan = Tail(@)]
        /\ UNCHANGED <<mu, held>>
     \/ /\ Len(lru') <= MaxLoaded
        /\ mu' = "free"
        /\ Proceed(t, call[t].got)
  /\ UNCHANGED <<git, excerpts, index, pull, acked>>
  /\ Heap([inst EXCEPT ![cached[e]].lock = "evicted"])
------------------------------------------------------------------------------
(* NewRaw: the new entity is committed before the cache hears of it. Its id  *)
(* is new, so "already exist in the cache" does not happen.                 *)
New(t, e) ==
  /\ Idle(t) /\ MayLeave(t)
  /\ e \in fresh
  /\ Unused # {}
  /\ stored' = [stored EXCEPT ![e] = {e}]
  /\ fresh' = fresh \ {e}
  /\ call' = [call EXCEPT ![t].at = "insert", ![t].id = e,
                          ![t].got = NextInstance, ![t].then = "excerpt"]
  /\ held' = [held EXCEPT ![t] = 0]
  /\ UNCHANGED <<remote, maps, mu, pull, acked>>
  /\ Heap(Load(NextInstance, e, {e}))

(* AddComment, SetTitle, ChangeLabels...: an operation is appended under the *)
(* lock of the instance, then the cache is notified.                        *)
Edit(t, o) ==
  /\ Idle(t) /\ held[t] # 0 /\ Free(held[t])
  /\ o \in fresh
  /\ fresh' = fresh \ {o}
  /\ call' = [call EXCEPT ![t].at = "excerpt", ![t].got = held[t]]
  /\ UNCHANGED <<stored, remote, maps, mu, held, pull, acked>>
  /\ Heap([inst EXCEPT ![held[t]].staging = @ \union {o}])

(* CommitAsNeeded with nothing staged still notifies the cache.             *)
CommitNotNeeded(t) ==
  /\ Idle(t) /\ held[t] # 0 /\ Free(held[t])
  /\ inst[held[t]].staging = {}
  /\ call' = [call EXCEPT ![t].at = "excerpt", ![t].got = held[t]]
  /\ UNCHANGED <<git, inst, maps, mu, held, pull, acked>>

CommitLock(t) ==
  /\ Idle(t) /\ held[t] # 0 /\ Free(held[t])
  /\ inst[held[t]].staging # {}
  /\ call' = [call EXCEPT ![t].at = "commit", ![t].got = held[t]]
  /\ UNCHANGED <<git, maps, mu, held, pull, acked>>
  /\ Heap([inst EXCEPT ![held[t]].lock = t])

(* Mutant: the reference moves whatever it is by now.                       *)
CommitUnconditional(t) ==
  LET i == call[t].got
      e == inst[i].ent
  IN
  /\ At(t, "commit")
  /\ stored' = [stored EXCEPT ![e] = Content(i)]
  /\ acked' = [acked EXCEPT ![e] = @ \union inst[i].staging]
  /\ Goto(t, "excerpt")
  /\ UNCHANGED <<remote, fresh, maps, mu, held, pull>>
  /\ Heap([inst EXCEPT ![i].base = Content(i), ![i].staging = {}, ![i].lock = "free"])

(* UpdateRefIfMatches finds the reference where the instance was read.      *)
CommitDone(t) ==
  LET i == call[t].got
      e == inst[i].ent
  IN
  /\ At(t, "commit")
  /\ stored[e] = inst[i].base
  /\ stored' = [stored EXCEPT ![e] = Content(i)]
  /\ acked' = [acked EXCEPT ![e] = @ \union inst[i].staging]
  /\ Goto(t, "excerpt")
  /\ UNCHANGED <<remote, fresh, maps, mu, held, pull>>
  /\ Heap([inst EXCEPT ![i].base = Content(i), ![i].staging = {}, ![i].lock = "free"])

(* Mutant: the staging is dropped with the failed commit.                   *)
ConflictDropsStaging(t) ==
  LET i == call[t].got IN
  /\ At(t, "commit")
  /\ stored[inst[i].ent] # inst[i].base
  /\ Return(t, held[t])
  /\ UNCHANGED <<git, maps, mu, pull, acked>>
  /\ Heap([inst EXCEPT ![i].staging = {}, ![i].lock = "free"])

(* It does not: the error goes to the caller and the staging stays.         *)
CommitConflict(t) ==
  LET i == call[t].got IN
  /\ At(t, "commit")
  /\ stored[inst[i].ent] # inst[i].base
  /\ Return(t, held[t])
  /\ UNCHANGED <<git, maps, mu, pull, acked>>
  /\ Heap([inst EXCEPT ![i].lock = "free"])
------------------------------------------------------------------------------
(* updateExcerptAndIndex, for the instance the cache has, which may not be  *)
(* the one that was changed.                                                *)

ExcerptLock(t) ==
  LET e == inst[call[t].got].ent IN
  /\ At(t, "excerpt") /\ mu = "free"
  /\ cached[e] # 0
  /\ mu' = t
  /\ call' = [call EXCEPT ![t].at = "describe", ![t].view = cached[e]]
  /\ UNCHANGED <<git, inst, maps, held, pull, acked>>

(* "entity missing from cache". add gives its caller nothing, an edit or a  *)
(* commit leaves it with the instance it has.                               *)
ExcerptMissing(t) ==
  /\ At(t, "excerpt") /\ mu = "free"
  /\ cached[inst[call[t].got].ent] = 0
  /\ Return(t, held[t])
  /\ UNCHANGED <<git, maps, mu, pull, acked>>
  /\ Heap(inst)

(* makeExcerpt reads the snapshot of the instance with the subcache locked.  *)
ExcerptWrite(t) ==
  LET i == call[t].view
      e == inst[i].ent
  IN
  /\ At(t, "describe") /\ Free(i)
  /\ excerpts' = [excerpts EXCEPT ![e] = Content(i)]
  /\ lru' = Touch(lru, e)
  /\ mu' = "free"
  /\ Goto(t, "index")
  /\ UNCHANGED <<git, inst, cached, index, held, pull, acked>>

(* IndexOne, with the subcache unlocked again.                              *)
IndexOne(t) ==
  LET i == call[t].view IN
  /\ At(t, "index") /\ Free(i)
  /\ index' = index \union {inst[i].ent}
  /\ Return(t, IF held[t] = 0 THEN call[t].got ELSE held[t])
  /\ UNCHANGED <<git, cached, excerpts, lru, mu, pull, acked>>
  /\ Heap(inst)
------------------------------------------------------------------------------
(* Remove resolves the entity first, then does the rest in the lock.        *)
Remove(t, e) == ResolveHit(t, e, "remove") \/ ResolveMiss(t, e, "remove")

(* Mutant: the LRU list keeps the removed entity.                           *)
ForgetKeepsLru(t) ==
  LET e == inst[call[t].got].ent IN
  /\ At(t, "remove") /\ mu = "free"
  /\ stored' = [stored EXCEPT ![e] = {}]
  /\ remote' = [remote EXCEPT ![e] = {}]
  /\ acked' = [acked EXCEPT ![e] = {}]
  /\ cached' = [cached EXCEPT ![e] = 0]
  /\ excerpts' = [excerpts EXCEPT ![e] = {}]
  /\ index' = index \ {e}
  /\ Return(t, 0)
  /\ UNCHANGED <<fresh, lru, mu, pull>>
  /\ Heap(inst)

Forget(t) ==
  LET e == inst[call[t].got].ent IN
  /\ At(t, "remove") /\ mu = "free"
  /\ stored' = [stored EXCEPT ![e] = {}]
  /\ remote' = [remote EXCEPT ![e] = {}]
  /\ acked' = [acked EXCEPT ![e] = {}]
  /\ cached' = [cached EXCEPT ![e] = 0]
  /\ excerpts' = [excerpts EXCEPT ![e] = {}]
  /\ lru' = Without(lru, e)
  /\ index' = index \ {e}
  /\ Return(t, 0)
  /\ UNCHANGED <<fresh, mu, pull>>
  /\ Heap(inst)
------------------------------------------------------------------------------
(* The goroutine of a pull: Fetch, then dag.MergeAll one entity at a time,   *)
(* whose results SubCache.MergeAll installs one behind.                     *)

(* Somebody created e, or added c to the creation of e, to what was fetched  *)
(* before, or to what was pushed from here.                                 *)
Fetch(e, c) ==
  /\ todo = {} /\ merged = <<>>
  /\ c \in fresh
  /\ fresh' = fresh \ {c}
  /\ \/ e = c /\ remote' = [remote EXCEPT ![e] = {e}]
     \/ /\ c \in Op
        /\ e \in Existing \/ remote[e] # {} \/ excerpts[e] # {}
        /\ \E known \in {remote[e], stored[e], {e}} :
             /\ remote[e] \subseteq known /\ e \in known
             /\ remote' = [remote EXCEPT ![e] = known \union {c}]
  /\ todo' = {d \in Entity : remote'[d] # {}}
  /\ UNCHANGED <<stored, inst, maps, mu, held, call, merged, acked>>

(* The results still to install: one there, one waiting in the channel.     *)
MaxInFlight == 2

(* dag.merge of e ends with an instance of the given history.               *)
Result(e, base) ==
  /\ e \in todo /\ Len(merged) < MaxInFlight
  /\ todo' = todo \ {e}
  /\ Unused # {}
  /\ merged' = Append(merged, NextInstance)
  /\ UNCHANGED <<remote, maps, mu, held, call, acked>>
  /\ Heap(Load(NextInstance, e, base))

MergeNothing(e) ==
  /\ e \in todo
  /\ remote[e] \subseteq stored[e]
  /\ todo' = todo \ {e}
  /\ UNCHANGED <<git, inst, maps, mu, held, call, merged, acked>>

(* New here, or a fast-forward: the reference moves to the remote version,   *)
(* and the result is the remote entity.                                     *)
MergeTakeRemote(e) ==
  /\ stored[e] \subseteq remote[e] /\ stored[e] # remote[e]
  /\ stored' = [stored EXCEPT ![e] = remote[e]]
  /\ UNCHANGED fresh
  /\ Result(e, remote[e])

(* Both have new commits: a merge commit c joins them, but the result is    *)
(* the local entity as it was read before.                                  *)
MergeJoin(e, c) ==
  /\ ~ (stored[e] \subseteq remote[e]) /\ ~ (remote[e] \subseteq stored[e])
  /\ c \in fresh \intersect Op
  /\ fresh' = fresh \ {c}
  /\ stored' = [stored EXCEPT ![e] = @ \union remote[e] \union {c}]
  /\ Result(e, stored[e])

(* Mutant: the merged entity is cached without an excerpt.                  *)
InstallUnlisted ==
  LET i == Head(merged)
      e == inst[i].ent
  IN
  /\ merged # <<>> /\ mu = "free"
  /\ merged' = Tail(merged)
  /\ cached' = [cached EXCEPT ![e] = i]
  /\ UNCHANGED <<git, excerpts, index, lru, mu, held, call, todo, acked>>
  /\ Heap(inst)

(* The result replaces whatever instance the cache has; neither the LRU     *)
(* list nor the index hears of it.                                          *)
Install ==
  LET i == Head(merged)
      e == inst[i].ent
  IN
  /\ merged # <<>> /\ mu = "free"
  /\ merged' = Tail(merged)
  /\ cached' = [cached EXCEPT ![e] = i]
  /\ excerpts' = [excerpts EXCEPT ![e] = Content(i)]
  /\ UNCHANGED <<git, index, lru, mu, held, call, todo, acked>>
  /\ Heap(inst)
------------------------------------------------------------------------------
Begin(t) ==
  \/ \E e \in Entity : Resolve(t, e) \/ New(t, e)
  \/ \E e \in Entity : t \in Remover /\ Remove(t, e)
  \/ \E o \in Op : Edit(t, o)
  \/ CommitNotNeeded(t) \/ CommitLock(t)

Step(t) ==
  \/ Read(t) \/ ReadNotFound(t) \/ Insert(t)
  \/ EvictNothing(t) \/ EvictBegin(t) \/ EvictScan(t) \/ EvictEnd(t) \/ EvictLock(t)
  \/ CommitDone(t) \/ CommitConflict(t)
  \/ ExcerptLock(t) \/ ExcerptMissing(t) \/ ExcerptWrite(t) \/ IndexOne(t)
  \/ Forget(t)

Pull ==
  \/ \E e \in Entity, c \in Commit : Fetch(e, c)
  \/ \E e \in Entity : MergeNothing(e) \/ MergeTakeRemote(e)
  \/ \E e \in Entity, c \in Op : MergeJoin(e, c)
  \/ Install

Next == \E t \in Thread : Begin(t) \/ Step(t)

Spec == Init /\ [][Next]_vars
PullSpec == Init /\ [][Next \/ Pull]_vars
------------------------------------------------------------------------------
InstanceRecord ==
  [ent : Entity, base : SUBSET Commit, staging : SUBSET Op,
   lock : Thread \union {"free", "evicted"}]

CallRecord ==
  [at : {"idle", "read", "insert", "evict", "scan", "lock", "commit",
         "excerpt", "describe", "index", "remove"},
   id : Entity, got : Instance \union {0}, view : Instance \union {0},
   scan : Seq(Entity), then : {"hold", "excerpt", "remove"}]

TypeOK ==
  /\ stored \in [Entity -> SUBSET Commit] /\ remote \in [Entity -> SUBSET Commit]
  /\ fresh \subseteq Commit
  /\ inst \in [Instance -> InstanceRecord]
  /\ cached \in [Entity -> Instance \union {0}]
  /\ excerpts \in [Entity -> SUBSET Commit]
  /\ index \subseteq Entity
  /\ lru \in Seq(Entity) /\ IsInjective(lru)
  /\ mu \in Thread \union {"free"}
  /\ held \in [Thread -> Instance \union {0}]
  /\ call \in [Thread -> CallRecord]
  /\ todo \subseteq Entity /\ merged \in Seq(Instance)
  /\ acked \in [Entity -> SUBSET Op]

(* Whatever evictIfNeeded finds in the LRU list is loaded - it calls the      *)
(* entry of "cached" without looking (subcache.go:583) - and nothing in the  *)
(* cache is locked for ever, or Resolve would hand out an instance that      *)
(* hangs. Installing, inserting, evicting and removing each update one of    *)
(* the two maps, or both.                                                   *)
LruLoaded ==
  /\ \A e \in Range(lru) : cached[e] # 0
  /\ \A e \in Entity : cached[e] # 0 =>
       inst[cached[e]].ent = e /\ inst[cached[e]].lock # "evicted"

(* An edit whose Commit returned without error is in the repository until    *)
(* the entity is removed, although several instances of an entity may be     *)
(* loaded, each with its own idea of the last commit, and a pull moves the   *)
(* reference under them.                                                    *)
AckedDurable == \A e \in Entity : acked[e] \subseteq stored[e]

(* The instance a caller works with is never evicted: with one goroutine     *)
(* that leaves an entity only when everything is committed, the newest of    *)
(* the LRU list is safe, whatever a pull replaces meanwhile.                 *)
NeverHangs == \A t \in Thread : held[t] # 0 => inst[held[t]].lock # "evicted"

Quiet ==
  /\ \A t \in Thread : Idle(t)
  /\ todo = {} /\ merged = <<>>

(* When nothing is under way the lists of the interface show the entities    *)
(* of the repository, no more and no less; and what the text search finds    *)
(* is always among them (Query looks its hits up without a check).           *)
ListedStored ==
  /\ Quiet => {e \in Entity : excerpts[e] # {}} = {e \in Entity : stored[e] # {}}
  /\ \A e \in index : excerpts[e] # {}

(* A list shows no operation that is neither stored nor staged on an         *)
(* instance somebody can still commit.                                      *)
NoPhantomEdit ==
  \A e \in Entity :
    excerpts[e] \subseteq
      stored[e] \union UNION {inst[i].staging : i \in {j \in Instance : inst[j].ent = e}}

(* Who holds the subcache lock and waits for the lock of an instance - in    *)
(* evictIfNeeded or makeExcerpt - waits for a Commit that does not need the  *)
(* subcache lock: never for an evicted instance, and never in a circle.      *)
AwaitedBy(t) ==
  CASE At(t, "scan") /\ call[t].scan # <<>> -> {cached[Head(call[t].scan)]}
    [] At(t, "lock") -> {cached[Head(call[t].scan)]}
    [] At(t, "describe") -> {call[t].view}
    [] OTHER -> {}

LockProgress ==
  \A t \in Thread :
    mu = t =>
      /\ At(t, "scan") \/ At(t, "lock") \/ At(t, "describe")
      /\ \A i \in AwaitedBy(t) :
           /\ i # 0
           /\ Free(i) \/ \E u \in Thread : inst[i].lock = u /\ At(u, "commit")

(* Every call returns: it finds the subcache lock and the locks of the       *)
(* instances given back sooner or later.                                    *)
CallsReturn == \A t \in Thread : ~ Idle(t) ~> Idle(t)

(* entity_actions.go:228: merge need not update the local entity after a     *)
(* merge commit, "as we discard it entirely anyway" - but the cache keeps    *)
(* it. Stated: when nothing is under way, a cached instance is at the        *)
(* stored version, so that an edit of it can be committed. Violated.         *)
CachedIsCurrent ==
  Quiet => \A e \in Entity : cached[e] # 0 => inst[cached[e]].base = stored[e]
=============================================================================
