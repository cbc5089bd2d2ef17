---------------------------- MODULE Identity_proofs ----------------------------
(***************************************************************************)
(* Proofs about Identity, for any clones, processes, identities, keys and  *)
(* bounds: types, HistoryKept and ChainsAreValid.                          *)
(***************************************************************************)
EXTENDS Identity, Numbers_proofs, TLAPS

------------------------------------------------------------------------------
(* Prefixes.                                                               *)

LEMMA PrefixOfItself ==
  ASSUME NEW s \in Seq(Nat)
  PROVE  IsPrefix(s, s)
BY DEF IsPrefix

LEMMA PrefixOfEmpty ==
  ASSUME NEW s \in Seq(Nat)
  PROVE  IsPrefix(<<>>, s)
BY DEF IsPrefix
------------------------------------------------------------------------------
(* The inductive invariant.                                                *)

ContentRecord == [time : Nat, keys : SUBSET Key]
VersionRecord == [of : Person, time : Nat, keys : SUBSET Key, line : Seq(Nat)]
BugRecord == [author : Person, edit : Nat \ {0}, key : Key \cup {NoKey}]
InstanceRecord == [last : Nat, pending : Seq(ContentRecord)]
PullRecord ==
  [stage : {"idle", "merge", "write"}, todo : SUBSET Person, theirs : Nat, ours : Nat]

(* A chain is made of versions of one identity, and ends with its version. *)
LineShape(n) ==
  LET line == version[n].line
  IN /\ line # <<>> /\ line[Len(line)] = n
     /\ \A k \in 1..Len(line) : line[k] \in 1..n /\ version[line[k]].of = version[n].of

VersionShape ==
  /\ version \in Seq(VersionRecord)
  /\ \A n \in 1..Len(version) : LineShape(n)

RefShape ==
  /\ local \in [Clone -> [Person -> Nat]]
  /\ tracking \in [Clone -> [Person -> Nat]]
  /\ remote \in [Person -> Nat]
  /\ \A i \in Person : remote[i] \in Reference(i)
  /\ \A c \in Clone, i \in Person :
       local[c][i] \in Reference(i) /\ tracking[c][i] \in Reference(i)

BugShape ==
  /\ bug \in Seq(BugRecord)
  /\ \E b \in Nat : \A n \in 1..Len(bug) : bug[n].edit <= b
  /\ bugs \in [Clone -> SUBSET (1..Len(bug))]
  /\ seen \in [Clone -> SUBSET (1..Len(bug))]
  /\ remoteBugs \in SUBSET (1..Len(bug))
  /\ clock \in [Clone -> Nat]

(* Nothing is staged on an instance that is not there.                     *)
MemoryShape ==
  /\ memory \in [Proc -> [Person -> InstanceRecord]]
  /\ \A p \in Proc, i \in Person :
       /\ memory[p][i].last \in Reference(i)
       /\ memory[p][i].last = NoVersion => memory[p][i].pending = <<>>

PullShape ==
  /\ pull \in [Proc -> PullRecord]
  /\ \A p \in Proc :
       pull[p].stage = "write" =>
         /\ pull[p].todo # {}
         /\ pull[p].theirs \in Reference(Next_(p))
         /\ pull[p].ours \in Reference(Next_(p))

(* Every version that was ever committed ends a valid chain, those between *)
(* two references, fetched ones and those of removed clones included.      *)
AllValid == \A n \in 1..Len(version) : Valid(Chain(n))

Shape == VersionShape /\ RefShape /\ BugShape /\ MemoryShape /\ PullShape
IInv == Shape /\ AllValid

(* What TypeOK says of a version.                                          *)
LEMMA LineTypes ==
  ASSUME VersionShape, NEW n \in 1..Len(version)
  PROVE  /\ version[n] \in VersionRecord /\ version[n].line \in Seq(Nat)
         /\ version[n].of \in Person /\ version[n].time \in Nat
         /\ version[n].keys \in SUBSET Key
<1>1. version[n] \in VersionRecord
  BY DEF VersionShape
<1>2. QED
  BY <1>1 DEF VersionRecord

LEMMA ShapeIsTypeOK == Shape => TypeOK
<1> SUFFICES ASSUME Shape
             PROVE  TypeOK
  OBVIOUS
<1>1. ASSUME NEW n \in DOMAIN version
      PROVE  /\ version[n].of \in Person /\ version[n].time \in Nat
             /\ version[n].keys \subseteq Key
             /\ Last(version[n].line) = n
             /\ \A m \in Range(version[n].line) : m \in Reference(version[n].of)
  <2>1. n \in 1..Len(version) /\ DOMAIN version = 1..Len(version) /\ Len(version) \in Nat
    BY DEF Shape, VersionShape
  <2>2. LineShape(n) /\ version[n].line \in Seq(Nat)
    BY <2>1, LineTypes DEF Shape, VersionShape
  <2>3. QED
    BY <2>1, <2>2, LineTypes DEF Shape, LineShape, Last, Range, Reference
<1>2. \A b \in DOMAIN bug : bug[b] \in BugRecord
  BY DEF Shape, BugShape
<1>3. \A c \in Clone : bugs[c] \cup seen[c] \cup remoteBugs \subseteq DOMAIN bug
  <2>1. DOMAIN bug = 1..Len(bug)
    BY DEF Shape, BugShape
  <2>2. QED
    BY <2>1 DEF Shape, BugShape
<1>4. ASSUME NEW i \in Person
      PROVE  /\ remote[i] \in Reference(i)
             /\ \A c \in Clone : {local[c][i], tracking[c][i]} \subseteq Reference(i)
             /\ \A p \in Proc : memory[p][i].last \in Reference(i)
  BY DEF Shape, RefShape, MemoryShape
<1>5. ASSUME NEW p \in Proc
      PROVE  /\ pull[p].stage \in {"idle", "merge", "write"}
             /\ pull[p].todo \subseteq Person
             /\ pull[p].stage = "write" =>
                  /\ pull[p].todo # {}
                  /\ {pull[p].theirs, pull[p].ours} \subseteq Reference(Next_(p))
  BY DEF Shape, PullShape, PullRecord
<1>6. QED
  BY <1>1, <1>2, <1>3, <1>4, <1>5 DEF TypeOK, BugRecord

(* Everything a reference can name has a valid chain.                      *)
LEMMA AllValidIsEnough == IInv => ChainsAreValid
<1> SUFFICES ASSUME IInv
             PROVE  ChainsAreValid
  OBVIOUS
<1>1. Valid(Chain(NoVersion))
  BY DEF Valid, Chain, Line
<1>2. \A i \in Person : \A n \in Reference(i) : Valid(Chain(n))
  BY <1>1 DEF IInv, AllValid, Shape, VersionShape, Reference
<1>3. QED
  BY <1>2 DEF ChainsAreValid, IInv, Shape, RefShape
------------------------------------------------------------------------------
LEMMA InitIInv == Init => IInv
<1> SUFFICES ASSUME Init
             PROVE  IInv
  OBVIOUS
<1>1. VersionShape /\ AllValid
  BY DEF Init, VersionShape, AllValid
<1>2. RefShape
  BY DEF Init, RefShape, Reference, NoVersion
<1>3. BugShape
  <2>1. bug \in Seq(BugRecord) /\ Len(bug) = 0
    BY DEF Init
  <2>2. /\ bugs \in [Clone -> SUBSET (1..Len(bug))]
        /\ seen \in [Clone -> SUBSET (1..Len(bug))]
        /\ remoteBugs \in SUBSET (1..Len(bug))
        /\ clock \in [Clone -> Nat]
    BY DEF Init
  <2>3. \A n \in 1..Len(bug) : bug[n].edit <= 0
    BY <2>1
  <2>4. QED
    BY <2>1, <2>2, <2>3 DEF BugShape
<1>4. MemoryShape
  BY DEF Init, MemoryShape, InstanceRecord, NotLoaded, NoVersion, Reference
<1>5. PullShape
  BY DEF Init, PullShape, PullRecord, NoPull, NoVersion
<1>6. QED
  BY <1>1, <1>2, <1>3, <1>4, <1>5 DEF IInv, Shape
------------------------------------------------------------------------------
(* Versions are added and never changed.                                   *)
Grows ==
  /\ Len(version) <= Len(version')
  /\ \A n \in 1..Len(version) : version'[n] = version[n]

(* Then references go on to name what they named, with the same chain.     *)
LEMMA ReferencesKept ==
  ASSUME VersionShape, VersionShape', Grows
  PROVE  /\ \A i \in Person : Reference(i) \subseteq Reference(i)'
         /\ \A i \in Person : \A n \in Reference(i) :
              /\ n \in 0..Len(version)
              /\ Line(n) \in Seq(Nat)
              /\ Line(n)' = Line(n)
<1>1. /\ Len(version) \in Nat /\ Len(version') \in Nat
      /\ DOMAIN version = 1..Len(version) /\ DOMAIN version' = 1..Len(version')
  BY DEF VersionShape
<1>2. ASSUME NEW i \in Person, NEW n \in Reference(i)
      PROVE  /\ n \in Reference(i)' /\ n \in 0..Len(version)
             /\ Line(n) \in Seq(Nat) /\ Line(n)' = Line(n)
  <2>1. CASE n = NoVersion
    BY <1>1, <2>1 DEF Reference, Line, NoVersion
  <2>2. CASE n # NoVersion
    <3>1. n \in 1..Len(version) /\ version[n].of = i
      BY <1>1, <2>2 DEF Reference
    <3>2. version'[n] = version[n] /\ n \in 1..Len(version')
      BY <1>1, <3>1 DEF Grows
    <3>3. version[n].line \in Seq(Nat)
      BY <3>1, LineTypes
    <3>4. QED
      BY <1>1, <2>2, <3>1, <3>2, <3>3 DEF Reference, Line
  <2>3. QED
    BY <2>1, <2>2
<1>3. QED
  BY <1>2

(* Mostly the versions stay as they are.                                   *)
LEMMA SameVersions ==
  ASSUME IInv, UNCHANGED version
  PROVE  /\ VersionShape' /\ AllValid' /\ Grows
         /\ \A i \in Person : Reference(i)' = Reference(i)
<1>1. VersionShape' /\ Grows
  BY DEF IInv, Shape, VersionShape, LineShape, Grows
<1>2. AllValid'
  <2>1. \A n : Chain(n)' = Chain(n)
    BY DEF Chain, Line, Content
  <2>2. AllValid
    BY DEF IInv
  <2>3. QED
    BY <2>1, <2>2 DEF AllValid, Valid
<1>3. QED
  BY <1>1, <1>2 DEF Reference

(* What becomes of the contents that Write stores: the k-th of them ends a *)
(* chain made of the old one and of the first k.                           *)
LEMMA CommitsType ==
  ASSUME NEW i \in Person, NEW line \in Seq(Nat), NEW contents \in Seq(ContentRecord),
         Len(version) \in Nat, NEW k \in 1..Len(contents)
  PROVE  LET v == Commits(i, line, contents)[k]
         IN /\ v \in VersionRecord
            /\ v.of = i /\ v.time = contents[k].time /\ v.keys = contents[k].keys
            /\ Len(v.line) = Len(line) + k
            /\ \A j \in 1..Len(line) : v.line[j] = line[j]
            /\ \A j \in 1..k : v.line[Len(line) + j] = Len(version) + j
<1> DEFINE new == [j \in 1..k |-> Len(version) + j]
           v == [of |-> i, time |-> contents[k].time, keys |-> contents[k].keys,
                 line |-> line \o new]
<1>1. contents[k] \in ContentRecord /\ DOMAIN contents = 1..Len(contents)
  OBVIOUS
<1>2. Commits(i, line, contents)[k] = v
  BY <1>1 DEF Commits
<1>3. new \in Seq(Nat) /\ Len(new) = k
  OBVIOUS
<1>4. /\ line \o new \in Seq(Nat) /\ Len(line \o new) = Len(line) + k
      /\ \A j \in 1..Len(line) : (line \o new)[j] = line[j]
      /\ \A j \in 1..k : (line \o new)[Len(line) + j] = Len(version) + j
  BY <1>3
<1>5. v \in VersionRecord
  BY <1>1, <1>4 DEF ContentRecord, VersionRecord
<1>6. QED
  BY <1>2, <1>4, <1>5

(* The contents of a chain, one per version of its line.                   *)
LEMMA ChainTypes ==
  ASSUME VersionShape, NEW i \in Person, NEW n \in Reference(i)
  PROVE  /\ Line(n) \in Seq(Nat)
         /\ \A j \in 1..Len(Line(n)) :
              Line(n)[j] \in 1..Len(version) /\ version[Line(n)[j]].of = i
         /\ Chain(n) \in Seq(ContentRecord)
         /\ Len(Chain(n)) = Len(Line(n))
         /\ \A j \in 1..Len(Line(n)) : Chain(n)[j] = Content(Line(n)[j])
<1>1. Len(version) \in Nat /\ DOMAIN version = 1..Len(version)
  BY DEF VersionShape
<1>2. /\ Line(n) \in Seq(Nat)
      /\ \A j \in 1..Len(Line(n)) :
           Line(n)[j] \in 1..Len(version) /\ version[Line(n)[j]].of = i
  <2>1. CASE n = NoVersion
    BY <2>1 DEF Line
  <2>2. CASE n # NoVersion
    <3>1. n \in 1..Len(version) /\ version[n].of = i
      BY <1>1, <2>2 DEF Reference
    <3>2. version[n].line \in Seq(Nat) /\ LineShape(n)
      BY <3>1, LineTypes DEF VersionShape
    <3>3. QED
      BY <1>1, <2>2, <3>1, <3>2 DEF Line, LineShape
  <2>3. QED
    BY <2>1, <2>2
<1>3. \A j \in 1..Len(Line(n)) : Content(Line(n)[j]) \in ContentRecord
  BY <1>2, LineTypes DEF Content, ContentRecord
<1>4. DOMAIN Line(n) = 1..Len(Line(n)) /\ Len(Line(n)) \in Nat
  BY <1>2
<1>5. Chain(n) = [j \in 1..Len(Line(n)) |-> Content(Line(n)[j])]
  BY <1>4 DEF Chain
<1>6. Chain(n) \in Seq(ContentRecord) /\ Len(Chain(n)) = Len(Line(n))
  BY <1>3, <1>4, <1>5
<1>7. QED
  BY <1>2, <1>5, <1>6

(* A step that commits keeps all chains valid if the one it makes is, and  *)
(* moves from the last version of the instance to one on top of it.        *)
LEMMA WriteStep ==
  ASSUME IInv, NEW p \in Proc, NEW i \in Person,
         NEW contents \in Seq(ContentRecord), contents # <<>>,
         Valid(Chain(memory[p][i].last) \o contents),
         Write(p, i, contents)
  PROVE  /\ VersionShape' /\ AllValid' /\ Grows
         /\ Len(version') \in Reference(i)' /\ Len(version') \in Nat
         /\ IsPrefix(Line(memory[p][i].last), Line(Len(version))')
<1> DEFINE last == memory[p][i].last
           line == Line(last)
           N == Len(version)
           K == Len(contents)
           new == Commits(i, line, contents)
           ContentAfter(n) == [time |-> version'[n].time, keys |-> version'[n].keys]
<1>1. /\ N \in Nat /\ K \in Nat \ {0} /\ VersionShape /\ last \in Reference(i)
      /\ DOMAIN contents = 1..K /\ version \in Seq(VersionRecord)
  BY DEF IInv, Shape, VersionShape, MemoryShape
<1>2. /\ line \in Seq(Nat) /\ Len(line) \in Nat
      /\ \A j \in 1..Len(line) : line[j] \in 1..N /\ version[line[j]].of = i
  BY <1>1, ChainTypes
<1>3. \A k \in 1..K :
        /\ new[k] \in VersionRecord
        /\ new[k].of = i /\ new[k].time = contents[k].time /\ new[k].keys = contents[k].keys
        /\ Len(new[k].line) = Len(line) + k
        /\ \A j \in 1..Len(line) : new[k].line[j] = line[j]
        /\ \A j \in 1..k : new[k].line[Len(line) + j] = N + j
  BY <1>1, <1>2, CommitsType
<1>4. new = [k \in 1..K |-> new[k]] /\ version' = version \o new /\ N = Len(version)
  BY <1>1 DEF Commits, Write
<1> HIDE DEF last, line, N, K, new, ContentAfter
<1>5. /\ version' \in Seq(VersionRecord) /\ Len(version') = N + K
      /\ \A n \in 1..N : version'[n] = version[n]
      /\ \A k \in 1..K : version'[N + k] = new[k]
  <2>1. \A k \in 1..K : new[k] \in VersionRecord
    BY <1>3
  <2>2. new \in [1..K -> VersionRecord]
    BY <1>4, <2>1
  <2>3. new \in Seq(VersionRecord) /\ Len(new) = K
    BY <1>1, <2>2
  <2>4. \A n \in 1..(N + K) : version'[n] = IF n <= N THEN version[n] ELSE new[n - N]
    BY <1>1, <1>4, <2>3
  <2>5. version' \in Seq(VersionRecord) /\ Len(version') = N + K
    BY <1>1, <1>4, <2>3
  <2>6. QED
    BY <1>1, <2>4, <2>5
<1>6. Grows
  BY <1>1, <1>4, <1>5 DEF Grows
<1>7. ASSUME NEW n \in 1..N
      PROVE  LineShape(n)'
  <2>1. LineShape(n) /\ version[n].line \in Seq(Nat)
    BY <1>1, <1>4, LineTypes DEF VersionShape
  <2>2. \A k \in 1..Len(version[n].line) : version[n].line[k] \in 1..N
    BY <1>1, <2>1 DEF LineShape
  <2>3. QED
    BY <1>5, <2>1, <2>2 DEF LineShape
<1>8. ASSUME NEW n \in 1..(N + K), n > N
      PROVE  LineShape(n)'
  <2>1. PICK k \in 1..K : n = N + k
    BY <1>1, <1>8
  <2> DEFINE made == new[k].line
  <2>2. /\ made \in Seq(Nat) /\ Len(made) = Len(line) + k
        /\ \A j \in 1..Len(line) : made[j] = line[j]
        /\ \A j \in 1..k : made[Len(line) + j] = N + j
        /\ version'[n].line = made /\ version'[n].of = i
    BY <1>3, <1>5, <2>1 DEF VersionRecord
  <2> HIDE DEF made
  <2>3. made # <<>> /\ made[Len(made)] = n
    BY <1>2, <2>1, <2>2
  <2>4. ASSUME NEW j \in 1..Len(made)
        PROVE  made[j] \in 1..n /\ version'[made[j]].of = i
    <3>1. CASE j <= Len(line)
      <4>1. made[j] = line[j] /\ line[j] \in 1..N /\ version[line[j]].of = i
        BY <1>2, <2>2, <3>1
      <4>2. QED
        BY <1>1, <1>5, <2>1, <4>1
    <3>2. CASE j > Len(line)
      <4>1. PICK m \in 1..k : j = Len(line) + m
        <5>1. j - Len(line) \in 1..k /\ j = Len(line) + (j - Len(line))
          BY <1>2, <2>1, <2>2, <3>2
        <5>2. QED
          BY <5>1
      <4>2. made[j] = N + m /\ m \in 1..K
        BY <1>1, <2>1, <2>2, <4>1
      <4>3. version'[N + m].of = i
        BY <1>3, <1>5, <4>2
      <4>4. QED
        BY <1>1, <2>1, <4>1, <4>2, <4>3
    <3>3. QED
      BY <1>2, <2>2, <3>1, <3>2
  <2>5. QED
    BY <2>2, <2>3, <2>4 DEF LineShape
<1>9. VersionShape'
  <2>1. \A n \in 1..Len(version') : LineShape(n)'
    BY <1>1, <1>5, <1>7, <1>8
  <2>2. QED
    BY <1>5, <2>1 DEF VersionShape
<1>10. \A n \in 1..N : ContentAfter(n) = Content(n)
  BY <1>5 DEF Content, ContentAfter
<1>11. ASSUME NEW k \in 1..K
       PROVE  ContentAfter(N + k) = contents[k]
  <2>1. contents[k] = [time |-> contents[k].time, keys |-> contents[k].keys]
    <3>1. contents[k] \in ContentRecord
      BY DEF K
    <3>2. QED
      BY <3>1 DEF ContentRecord
  <2>2. version'[N + k].time = contents[k].time /\ version'[N + k].keys = contents[k].keys
    BY <1>3, <1>5
  <2>3. QED
    BY <2>1, <2>2 DEF ContentAfter
<1>12. ASSUME NEW n \in 1..N
       PROVE  Valid(Chain(n))'
  <2>1. version[n].of \in Person /\ n \in Reference(version[n].of)
    BY <1>1, <1>4, LineTypes DEF Reference
  <2>2. Line(n)' = Line(n)
    BY <1>1, <1>6, <1>9, <2>1, ReferencesKept
  <2>3. Line(n) \in Seq(Nat) /\ \A j \in 1..Len(Line(n)) : Line(n)[j] \in 1..N
    BY <1>1, <1>4, <2>1, ChainTypes
  <2>4. \A j \in DOMAIN Line(n) : ContentAfter(Line(n)[j]) = Content(Line(n)[j])
    BY <1>10, <2>3
  <2>5. Chain(n)' = Chain(n)
    BY <2>2, <2>4 DEF Chain, Content, ContentAfter
  <2>6. Valid(Chain(n))
    BY <1>4 DEF IInv, AllValid
  <2>7. QED
    BY <2>5, <2>6 DEF Valid
<1>13. ASSUME NEW n \in 1..(N + K), n > N
       PROVE  Valid(Chain(n))'
  <2>1. PICK k \in 1..K : n = N + k
    BY <1>1, <1>13
  <2> DEFINE old == Chain(last) \o contents
             chain == Chain(n)'
             made == new[k].line
  <2>2. n \in Reference(i)' /\ Line(n)' = made
    <3>1. n # NoVersion /\ n \in DOMAIN version' /\ version'[n] = new[k]
      BY <1>1, <1>5, <2>1 DEF NoVersion
    <3>2. QED
      BY <1>3, <3>1 DEF Reference, Line
  <2>3. /\ Len(chain) = Len(made)
        /\ \A j \in 1..Len(made) : chain[j] = ContentAfter(made[j])
    <3>1. made \in Seq(Nat)
      BY <1>3 DEF VersionRecord
    <3>2. chain = [j \in 1..Len(made) |-> ContentAfter(made[j])]
      BY <2>2, <3>1 DEF Chain, Content, ContentAfter
    <3>3. QED
      BY <3>1, <3>2
  <2>4. /\ Chain(last) \in Seq(ContentRecord) /\ Len(Chain(last)) = Len(line)
        /\ \A j \in 1..Len(line) : Chain(last)[j] = Content(line[j])
    BY <1>1, ChainTypes DEF line
  <2>5. /\ Len(old) = Len(line) + K
        /\ \A j \in 1..Len(line) : old[j] = Content(line[j])
        /\ \A j \in 1..K : old[Len(line) + j] = contents[j]
    <3>1. Len(old) = Len(line) + K
      BY <1>1, <2>4 DEF K
    <3>2. \A j \in 1..(Len(line) + K) :
            old[j] = IF j <= Len(line) THEN Chain(last)[j] ELSE contents[j - Len(line)]
      BY <1>1, <2>4 DEF K
    <3>3. QED
      BY <1>1, <1>2, <2>4, <3>1, <3>2
  <2>6. /\ Len(made) = Len(line) + k
        /\ \A j \in 1..Len(line) : made[j] = line[j]
        /\ \A j \in 1..k : made[Len(line) + j] = N + j
    BY <1>3
  <2>7. Valid(old)
    BY DEF last
  <2> HIDE DEF old, chain, made
  <2>8. ASSUME NEW j \in 1..(Len(line) + k)
        PROVE  chain[j] = old[j]
    <3>1. CASE j <= Len(line)
      <4>1. j \in 1..Len(line) /\ j \in 1..Len(made)
        BY <1>2, <2>6, <3>1
      <4>2. chain[j] = ContentAfter(line[j]) /\ old[j] = Content(line[j])
        BY <2>3, <2>5, <2>6, <4>1
      <4>3. QED
        BY <1>2, <1>10, <4>1, <4>2
    <3>2. CASE j > Len(line)
      <4>1. PICK m \in 1..k : j = Len(line) + m
        <5>1. j - Len(line) \in 1..k /\ j = Len(line) + (j - Len(line))
          BY <1>2, <2>1, <3>2
        <5>2. QED
          BY <5>1
      <4>2. made[j] = N + m /\ m \in 1..K
        BY <1>1, <2>1, <2>6, <4>1
      <4>3. chain[j] = ContentAfter(N + m) /\ old[j] = contents[m]
        BY <1>2, <2>3, <2>5, <2>6, <4>1, <4>2
      <4>4. QED
        BY <1>11, <4>2, <4>3
    <3>3. QED
      BY <1>2, <3>1, <3>2
  <2>9. \A j \in 1..(Len(line) + k) - 1 : old[j].time <= old[j + 1].time
    BY <1>1, <1>2, <2>1, <2>5, <2>7 DEF Valid
  <2>10. Valid(chain)
    <3>1. Len(chain) = Len(line) + k /\ Len(line) + k \in Nat
      BY <1>2, <2>1, <2>3, <2>6
    <3>2. ASSUME NEW j \in 1..(Len(line) + k) - 1
          PROVE  chain[j].time <= chain[j + 1].time
      <4>1. j \in 1..(Len(line) + k) /\ j + 1 \in 1..(Len(line) + k)
        BY <3>1
      <4>2. QED
        BY <2>8, <2>9, <4>1
    <3>3. QED
      BY <3>1, <3>2 DEF Valid
  <2>11. QED
    BY <2>10 DEF chain, Valid
<1>14. AllValid'
  <2>1. \A n \in 1..Len(version') : Valid(Chain(n))'
    BY <1>1, <1>5, <1>12, <1>13
  <2>2. QED
    BY <2>1 DEF AllValid
<1>15. /\ Len(version') \in Reference(i)'
       /\ Line(Len(version))' = new[K].line
  <2>1. /\ Len(version') # NoVersion /\ Len(version') \in DOMAIN version'
        /\ version'[Len(version')] = new[K]
    BY <1>1, <1>5 DEF NoVersion
  <2>2. QED
    BY <1>1, <1>3, <2>1 DEF Reference, Line
<1>16. IsPrefix(line, new[K].line)
  <2>1. new[K].line \in Seq(Nat)
    <3>1. new[K] \in VersionRecord
      BY <1>1, <1>3
    <3>2. QED
      BY <3>1 DEF VersionRecord
  <2>2. QED
    BY <1>1, <1>2, <1>3, <2>1 DEF IsPrefix
<1>17. QED
  BY <1>1, <1>5, <1>6, <1>9, <1>14, <1>15, <1>16 DEF line, last
------------------------------------------------------------------------------
(* What HistoryKept says of a step.                                        *)
Forward ==
  \A i \in Person :
    /\ \A c \in Clone : IsPrefix(Line(local[c][i]), Line(local[c][i])')
    /\ IsPrefix(Line(remote[i]), Line(remote[i])')

(* What a step leaves alone keeps its shape, although versions are added.  *)
LEMMA KeptMemory ==
  ASSUME IInv, VersionShape', Grows, UNCHANGED memory
  PROVE  MemoryShape'
BY ReferencesKept DEF IInv, Shape, MemoryShape

LEMMA KeptPull ==
  ASSUME IInv, VersionShape', Grows, UNCHANGED pull
  PROVE  PullShape'
<1>1. ASSUME NEW p \in Proc, pull[p].stage = "write"
      PROVE  /\ pull[p].todo # {}
             /\ pull[p].theirs \in Reference(Next_(p))'
             /\ pull[p].ours \in Reference(Next_(p))'
  <2>1. pull[p].todo # {} /\ pull[p].todo \in SUBSET Nat /\ Next_(p) \in Person
    <3>1. pull[p].todo # {} /\ pull[p].todo \in SUBSET Person
      BY <1>1 DEF IInv, Shape, PullShape, PullRecord
    <3>2. QED
      BY <3>1, PersonAssumption, MinMember DEF Next_
  <2>2. pull[p].theirs \in Reference(Next_(p)) /\ pull[p].ours \in Reference(Next_(p))
    BY <1>1 DEF IInv, Shape, PullShape
  <2>3. Next_(p)' = Next_(p)
    BY DEF Next_
  <2>4. QED
    BY <2>1, <2>2, <2>3, ReferencesKept DEF IInv, Shape, Reference
<1>2. QED
  BY <1>1 DEF IInv, Shape, PullShape

LEMMA KeptBugs ==
  ASSUME IInv, UNCHANGED <<stored, clock>>
  PROVE  BugShape'
BY DEF IInv, Shape, BugShape, stored

LEMMA KeptReferences ==
  ASSUME IInv, UNCHANGED identities
  PROVE  VersionShape' /\ AllValid' /\ Grows /\ RefShape' /\ Forward
<1>1. /\ VersionShape' /\ AllValid' /\ Grows
      /\ \A i \in Person : Reference(i)' = Reference(i)
  BY SameVersions DEF identities
<1>2. RefShape'
  BY <1>1 DEF IInv, Shape, RefShape, identities
<1>3. \A i \in Person : \A n \in Reference(i) : IsPrefix(Line(n), Line(n)) /\ Line(n)' = Line(n)
  BY <1>1, ReferencesKept, PrefixOfItself DEF IInv, Shape
<1>4. Forward
  BY <1>3 DEF IInv, Shape, RefShape, identities, Forward
<1>5. QED
  BY <1>1, <1>2, <1>4

(* The next identity of a pull is one of those left.                       *)
LEMMA NextOfTodo ==
  ASSUME PullShape, NEW p \in Proc, pull[p].todo # {}
  PROVE  Next_(p) \in pull[p].todo /\ Next_(p) \in Person
<1>1. pull[p].todo \in SUBSET Person
  BY DEF PullShape, PullRecord
<1>2. QED
  BY <1>1, PersonAssumption, MinMember DEF Next_
------------------------------------------------------------------------------
(* The contents that processes stage and commit.                           *)
LEMMA ViewTypes ==
  ASSUME Shape, NEW p \in Proc, NEW i \in Person
  PROVE  View(p, i) \in Seq(ContentRecord)
<1>1. memory[p][i].last \in Reference(i) /\ memory[p][i].pending \in Seq(ContentRecord)
  BY DEF Shape, MemoryShape, InstanceRecord
<1>2. local[Home[p]][i] \in Reference(i)
  BY HomeAssumption DEF Shape, RefShape
<1>3. /\ Chain(memory[p][i].last) \in Seq(ContentRecord)
      /\ Chain(local[Home[p]][i]) \in Seq(ContentRecord)
  BY <1>1, <1>2, ChainTypes DEF Shape
<1>4. QED
  BY <1>1, <1>3 DEF View

LEMMA NewVersionType ==
  ASSUME Shape, NEW p \in Proc, NEW keys \in SUBSET Key
  PROVE  NewVersion(p, keys) \in ContentRecord
BY HomeAssumption DEF NewVersion, AllClocks, ContentRecord, Shape, BugShape

(* NewRaw and Commit move the reference from the last version that the     *)
(* instance knows to what they have written on top of it.                  *)
LEMMA WriteRefs ==
  ASSUME IInv, NEW p \in Proc, NEW i \in Person,
         NEW contents \in Seq(ContentRecord), contents # <<>>,
         Valid(Chain(memory[p][i].last) \o contents),
         local[Home[p]][i] = memory[p][i].last,
         Write(p, i, contents),
         UNCHANGED <<tracking, remote, stored, clock, pull>>
  PROVE  IInv' /\ Forward
<1> DEFINE n == Len(version')
           c == Home[p]
<1>1. /\ VersionShape' /\ AllValid' /\ Grows /\ n \in Reference(i)' /\ n \in Nat
      /\ IsPrefix(Line(memory[p][i].last), Line(Len(version))')
  BY WriteStep
<1>2. /\ c \in Clone
      /\ local' = [local EXCEPT ![c][i] = n]
      /\ memory' = [memory EXCEPT ![p][i] = [last |-> n, pending |-> <<>>]]
  BY HomeAssumption DEF Write, Instance
<1>3. \A j \in Person : Reference(j) \subseteq Reference(j)'
  BY <1>1, ReferencesKept DEF IInv, Shape
<1> HIDE DEF n
<1>4. RefShape'
  <2>1. local' \in [Clone -> [Person -> Nat]]
    BY <1>1, <1>2 DEF IInv, Shape, RefShape
  <2>2. ASSUME NEW d \in Clone, NEW j \in Person
        PROVE  local'[d][j] \in Reference(j)' /\ tracking'[d][j] \in Reference(j)'
    <3>1. local'[d][j] = IF d = c /\ j = i THEN n ELSE local[d][j]
      BY <1>2 DEF IInv, Shape, RefShape
    <3>2. QED
      BY <1>1, <1>3, <3>1 DEF IInv, Shape, RefShape
  <2>3. QED
    BY <1>3, <2>1, <2>2 DEF IInv, Shape, RefShape
<1>5. MemoryShape'
  <2>1. [last |-> n, pending |-> <<>>] \in InstanceRecord
    BY <1>1 DEF InstanceRecord
  <2>2. memory' \in [Proc -> [Person -> InstanceRecord]]
    BY <1>2, <2>1 DEF IInv, Shape, MemoryShape
  <2>3. ASSUME NEW q \in Proc, NEW j \in Person
        PROVE  /\ memory'[q][j].last \in Reference(j)'
               /\ memory'[q][j].last = NoVersion => memory'[q][j].pending = <<>>
    <3>1. memory'[q][j] = IF q = p /\ j = i THEN [last |-> n, pending |-> <<>>] ELSE memory[q][j]
      BY <1>2 DEF IInv, Shape, MemoryShape
    <3>2. QED
      BY <1>1, <1>3, <3>1 DEF IInv, Shape, MemoryShape
  <2>4. QED
    BY <2>2, <2>3 DEF MemoryShape
<1>6. PullShape' /\ BugShape'
  BY <1>1, KeptPull, KeptBugs
<1>7. Forward
  <2>1. \A j \in Person : \A m \in Reference(j) :
          IsPrefix(Line(m), Line(m)) /\ Line(m)' = Line(m)
    BY <1>1, ReferencesKept, PrefixOfItself DEF IInv, Shape
  <2>2. ASSUME NEW d \in Clone, NEW j \in Person
        PROVE  IsPrefix(Line(local[d][j]), Line(local[d][j])')
    <3>1. CASE d = c /\ j = i
      <4>1. local'[d][j] = Len(version')
        BY <1>2, <3>1 DEF IInv, Shape, RefShape, n
      <4>2. Line(local[d][j])' = Line(Len(version))'
        BY <4>1 DEF Line
      <4>3. QED
        BY <1>1, <3>1, <4>2
    <3>2. CASE ~ (d = c /\ j = i)
      <4>1. local'[d][j] = local[d][j] /\ local[d][j] \in Reference(j)
        BY <1>2, <3>2 DEF IInv, Shape, RefShape
      <4>2. QED
        BY <2>1, <4>1 DEF Line
    <3>3. QED
      BY <3>1, <3>2
  <2>3. \A j \in Person : IsPrefix(Line(remote[j]), Line(remote[j])')
    BY <2>1 DEF IInv, Shape, RefShape, Line
  <2>4. QED
    BY <2>2, <2>3 DEF Forward
<1>8. QED
  BY <1>1, <1>4, <1>5, <1>6, <1>7 DEF IInv, Shape

LEMMA NewRawStep ==
  ASSUME IInv, NEW p \in Proc, NEW i \in Person, NEW keys \in SUBSET Key, NewRaw(p, i, keys)
  PROVE  IInv' /\ Forward
<1> DEFINE contents == <<NewVersion(p, keys)>>
<1>1. contents \in Seq(ContentRecord) /\ contents # <<>> /\ Len(contents) = 1
  BY NewVersionType DEF IInv
<1>2. Reference(i) = {NoVersion}
  BY DEF NewRaw, Reference
<1>3. local[Home[p]][i] = NoVersion /\ memory[p][i].last = NoVersion
  BY <1>2, HomeAssumption DEF IInv, Shape, RefShape, MemoryShape
<1>4. Valid(Chain(memory[p][i].last) \o contents)
  <2>1. Chain(memory[p][i].last) = <<>>
    BY <1>3 DEF Chain, Line
  <2>2. Chain(memory[p][i].last) \o contents = contents
    BY <1>1, <2>1
  <2>3. QED
    BY <1>1, <2>2 DEF Valid
<1>5. Write(p, i, contents) /\ UNCHANGED <<tracking, remote, stored, clock, pull>>
  BY DEF NewRaw
<1> HIDE DEF contents
<1>6. QED
  BY <1>1, <1>3, <1>4, <1>5, WriteRefs

LEMMA CommitStep ==
  ASSUME IInv, NEW p \in Proc, NEW i \in Person, Commit(p, i)
  PROVE  IInv' /\ Forward
<1> DEFINE contents == memory[p][i].pending
<1>1. contents \in Seq(ContentRecord) /\ contents # <<>>
  BY DEF Commit, IInv, Shape, MemoryShape, InstanceRecord
<1>2. local[Home[p]][i] = memory[p][i].last
  BY DEF Commit
<1>3. Valid(Chain(memory[p][i].last) \o contents)
  <2>1. CASE Loaded(p, i)
    BY <2>1 DEF Commit, View
  <2>2. CASE ~ Loaded(p, i)
    <3>1. memory[p][i].last = NoVersion
      BY <2>2 DEF Loaded
    <3>2. QED
      BY <1>1, <3>1 DEF IInv, Shape, MemoryShape
  <2>3. QED
    BY <2>1, <2>2
<1>4. Write(p, i, contents) /\ UNCHANGED <<tracking, remote, stored, clock, pull>>
  BY DEF Commit
<1>5. QED
  BY <1>1, <1>2, <1>3, <1>4, WriteRefs

(* Loading, changing and forgetting instances.                             *)
LEMMA InstanceStep ==
  ASSUME IInv, NEW p \in Proc, NEW i \in Person, NEW instance \in InstanceRecord,
         instance.last \in Reference(i),
         instance.last = NoVersion => instance.pending = <<>>,
         memory' = [memory EXCEPT ![p][i] = instance]
  PROVE  VersionShape' /\ Grows => MemoryShape'
<1> SUFFICES ASSUME VersionShape', Grows
             PROVE  MemoryShape'
  OBVIOUS
<1>1. memory' \in [Proc -> [Person -> InstanceRecord]]
  BY DEF IInv, Shape, MemoryShape
<1>2. \A q \in Proc, j \in Person :
        memory'[q][j] = IF q = p /\ j = i THEN instance ELSE memory[q][j]
  BY DEF IInv, Shape, MemoryShape
<1>3. \A j \in Person : Reference(j) \subseteq Reference(j)'
  BY ReferencesKept DEF IInv, Shape
<1>4. QED
  BY <1>1, <1>2, <1>3 DEF IInv, Shape, MemoryShape

LEMMA ForgottenStep ==
  ASSUME IInv, NEW p \in Proc, memory' = Forgotten(p)
  PROVE  VersionShape' /\ Grows => MemoryShape'
<1> SUFFICES ASSUME VersionShape', Grows
             PROVE  MemoryShape'
  OBVIOUS
<1>1. NotLoaded \in InstanceRecord /\ NotLoaded.last = NoVersion /\ NotLoaded.pending = <<>>
  BY DEF NotLoaded, InstanceRecord, NoVersion
<1>2. memory' \in [Proc -> [Person -> InstanceRecord]]
  BY <1>1 DEF IInv, Shape, MemoryShape, Forgotten
<1>3. \A q \in Proc, j \in Person : memory'[q][j] = IF q = p THEN NotLoaded ELSE memory[q][j]
  BY DEF IInv, Shape, MemoryShape, Forgotten
<1>4. \A j \in Person : Reference(j) \subseteq Reference(j)' /\ NoVersion \in Reference(j)'
  BY ReferencesKept DEF IInv, Shape, Reference
<1>5. QED
  BY <1>1, <1>2, <1>3, <1>4 DEF IInv, Shape, MemoryShape

LEMMA ResolveStep ==
  ASSUME IInv, NEW p \in Proc, NEW i \in Person, Resolve(p, i)
  PROVE  IInv' /\ Forward
<1> DEFINE instance == Instance(local[Home[p]][i])
<1>1. local[Home[p]][i] \in Reference(i) /\ local[Home[p]][i] \in Nat
  BY HomeAssumption DEF IInv, Shape, RefShape
<1>2. /\ instance \in InstanceRecord /\ instance.last \in Reference(i)
      /\ instance.pending = <<>>
  BY <1>1 DEF Instance, InstanceRecord
<1>3. /\ memory' = [memory EXCEPT ![p][i] = instance]
      /\ UNCHANGED <<identities, stored, clock, pull>>
  BY DEF Resolve
<1>4. VersionShape' /\ AllValid' /\ Grows /\ RefShape' /\ Forward /\ BugShape'
  BY <1>3, KeptReferences, KeptBugs
<1> HIDE DEF instance
<1>5. QED
  BY <1>2, <1>3, <1>4, InstanceStep, KeptPull DEF IInv, Shape

LEMMA StageStep ==
  ASSUME IInv, NEW p \in Proc, NEW i \in Person, NEW content \in ContentRecord,
         Stage(p, i, content)
  PROVE  IInv' /\ Forward
<1> DEFINE instance == [memory[p][i] EXCEPT !.pending = Append(@, content)]
<1>1. /\ memory[p][i] \in InstanceRecord /\ memory[p][i].last \in Reference(i)
      /\ memory[p][i].last # NoVersion
  BY DEF IInv, Shape, MemoryShape, Stage, Loaded
<1>2. /\ instance \in InstanceRecord /\ instance.last \in Reference(i)
      /\ instance.last # NoVersion
  <2>1. Append(memory[p][i].pending, content) \in Seq(ContentRecord)
    BY <1>1 DEF InstanceRecord
  <2>2. QED
    BY <1>1, <2>1 DEF InstanceRecord
<1>3. /\ memory' = [memory EXCEPT ![p][i] = instance]
      /\ UNCHANGED <<identities, stored, clock, pull>>
  BY DEF Stage, IInv, Shape, MemoryShape
<1>4. VersionShape' /\ AllValid' /\ Grows /\ RefShape' /\ Forward /\ BugShape'
  BY <1>3, KeptReferences, KeptBugs
<1> HIDE DEF instance
<1>5. QED
  BY <1>2, <1>3, <1>4, InstanceStep, KeptPull DEF IInv, Shape

LEMMA ChangeStep ==
  ASSUME IInv, NEW p \in Proc, NEW i \in Person, Change(p, i)
  PROVE  IInv' /\ Forward
<1>1. CASE Resolve(p, i)
  BY <1>1, ResolveStep
<1>2. ASSUME NEW keys \in SUBSET Key, Mutate(p, i, keys)
      PROVE  IInv' /\ Forward
  BY <1>2, NewVersionType, StageStep DEF Mutate, IInv
<1>3. CASE SetMetadata(p, i)
  <2>1. memory[p][i].last \in Reference(i) /\ memory[p][i].last # NoVersion
    BY <1>3 DEF SetMetadata, Loaded, IInv, Shape, MemoryShape
  <2>2. LET n == memory[p][i].last
        IN n \in 1..Len(version) /\ version[n].of = i /\ Len(version) \in Nat
    BY <2>1 DEF Reference, IInv, Shape, VersionShape
  <2>3. View(p, i) \in Seq(ContentRecord) /\ View(p, i) # <<>>
    <3>1. View(p, i) \in Seq(ContentRecord)
      BY ViewTypes DEF IInv
    <3>2. Line(memory[p][i].last) # <<>>
      BY <2>1, <2>2 DEF IInv, Shape, VersionShape, LineShape, Line
    <3>3. Chain(memory[p][i].last) # <<>> /\ Chain(memory[p][i].last) \in Seq(ContentRecord)
      BY <2>1, <3>2, ChainTypes DEF IInv, Shape
    <3>4. View(p, i) = Chain(memory[p][i].last) \o memory[p][i].pending
          /\ memory[p][i].pending = <<>>
      BY <1>3 DEF SetMetadata, View
    <3>5. QED
      BY <3>1, <3>3, <3>4
  <2>4. LastVersion(p, i) \in ContentRecord
    BY <2>3 DEF LastVersion, Last
  <2>5. QED
    BY <1>3, <2>4, StageStep DEF SetMetadata
<1>4. CASE Commit(p, i)
  BY <1>4, CommitStep
<1>5. QED
  BY <1>1, <1>2, <1>3, <1>4 DEF Change

LEMMA ExitStep ==
  ASSUME IInv, NEW p \in Proc, Exit(p)
  PROVE  IInv' /\ Forward
<1>1. memory' = Forgotten(p) /\ UNCHANGED <<identities, stored, clock, pull>>
  BY DEF Exit
<1>2. VersionShape' /\ AllValid' /\ Grows /\ RefShape' /\ Forward /\ BugShape'
  BY <1>1, KeptReferences, KeptBugs
<1>3. QED
  BY <1>1, <1>2, ForgottenStep, KeptPull DEF IInv, Shape
------------------------------------------------------------------------------
(* Bugs.                                                                   *)
LEMMA NewBugStep ==
  ASSUME IInv, NEW p \in Proc, NEW i \in Person, NewBug(p, i)
  PROVE  IInv' /\ Forward
<1> DEFINE c == Home[p]
           edit == IF clock[c] = 0 THEN 2 ELSE clock[c] + 1
           N == Len(bug)
<1>1. /\ c \in Clone /\ edit \in Nat \ {0} /\ N \in Nat
      /\ bug \in Seq(BugRecord)
  BY HomeAssumption DEF IInv, Shape, BugShape
<1>2. PICK key \in SigningKeys(p, i) :
        bug' = Append(bug, [author |-> i, edit |-> edit, key |-> key])
  BY DEF NewBug
<1>3. key \in Key \cup {NoKey}
  <2>1. Loaded(p, i)
    BY DEF NewBug
  <2>2. LastVersion(p, i).keys \subseteq Key
    <3>1. memory[p][i].last \in Reference(i) /\ memory[p][i].last # NoVersion
      BY <2>1 DEF Loaded, IInv, Shape, MemoryShape
    <3>2. LET n == memory[p][i].last
          IN n \in 1..Len(version) /\ version[n].of = i
      BY <3>1 DEF Reference, IInv, Shape, VersionShape
    <3>3. Line(memory[p][i].last) # <<>>
      BY <3>1, <3>2 DEF IInv, Shape, VersionShape, LineShape, Line
    <3>4. Chain(memory[p][i].last) # <<>> /\ Chain(memory[p][i].last) \in Seq(ContentRecord)
      BY <3>1, <3>3, ChainTypes DEF IInv, Shape
    <3>5. memory[p][i].pending \in Seq(ContentRecord)
      BY DEF IInv, Shape, MemoryShape, InstanceRecord
    <3>6. View(p, i) \in Seq(ContentRecord) /\ View(p, i) # <<>>
      BY <2>1, <3>4, <3>5 DEF View
    <3>7. LastVersion(p, i) \in ContentRecord
      BY <3>6 DEF LastVersion, Last
    <3>8. QED
      BY <3>7 DEF ContentRecord
  <2>3. QED
    BY <2>2 DEF SigningKeys
<1>4. /\ clock' = [clock EXCEPT ![c] = edit]
      /\ bugs' = [bugs EXCEPT ![c] = @ \cup {Len(bug')}]
      /\ UNCHANGED <<identities, seen, remoteBugs, memory, pull>>
  BY DEF NewBug
<1>5. /\ bug' \in Seq(BugRecord) /\ Len(bug') = N + 1
      /\ bug'[N + 1].edit = edit /\ \A n \in 1..N : bug'[n] = bug[n]
  <2>1. [author |-> i, edit |-> edit, key |-> key] \in BugRecord
    BY <1>1, <1>3 DEF BugRecord
  <2>2. QED
    BY <1>1, <1>2, <2>1
<1>6. \E b \in Nat : \A n \in 1..Len(bug') : bug'[n].edit <= b
  <2>1. PICK b \in Nat : \A n \in 1..N : bug[n].edit <= b
    BY DEF IInv, Shape, BugShape
  <2>2. \A n \in 1..N : bug[n].edit \in Nat
    <3>1. \A n \in 1..N : bug[n] \in BugRecord
      BY <1>1
    <3>2. QED
      BY <3>1 DEF BugRecord
  <2>3. b + edit \in Nat
    BY <1>1
  <2>4. ASSUME NEW n \in 1..Len(bug')
        PROVE  bug'[n].edit <= b + edit
    <3> HIDE DEF edit, N
    <3>1. CASE n \in 1..N
      BY <1>1, <1>5, <2>1, <2>2, <3>1
    <3>2. CASE n = N + 1
      BY <1>1, <1>5, <3>2
    <3>3. QED
      BY <1>1, <1>5, <3>1, <3>2
  <2>5. QED
    BY <2>3, <2>4
<1> HIDE DEF edit
<1>7. BugShape'
  <2>1. 1..N \subseteq 1..Len(bug') /\ Len(bug') \in 1..Len(bug')
    BY <1>1, <1>5
  <2>2. bugs' \in [Clone -> SUBSET (1..Len(bug'))]
    BY <1>1, <1>4, <2>1 DEF IInv, Shape, BugShape
  <2>3. /\ seen' \in [Clone -> SUBSET (1..Len(bug'))]
        /\ remoteBugs' \in SUBSET (1..Len(bug'))
    BY <1>4, <2>1 DEF IInv, Shape, BugShape
  <2>4. clock' \in [Clone -> Nat]
    BY <1>1, <1>4 DEF IInv, Shape, BugShape
  <2>5. QED
    BY <1>5, <1>6, <2>2, <2>3, <2>4 DEF BugShape
<1>8. VersionShape' /\ AllValid' /\ Grows /\ RefShape' /\ Forward
  BY <1>4, KeptReferences
<1>9. QED
  BY <1>4, <1>7, <1>8, KeptMemory, KeptPull DEF IInv, Shape

(* Witnessing the times of bugs leaves the clock a number.                 *)
LEMMA WitnessType ==
  ASSUME BugShape, NEW new \in SUBSET (1..Len(bug)), NEW t \in Nat
  PROVE  Max({t} \cup {bug[b].edit : b \in new}) \in Nat
<1> DEFINE times == {t} \cup {bug[b].edit : b \in new}
<1>1. \A b \in 1..Len(bug) : bug[b].edit \in Nat
  <2>1. \A b \in 1..Len(bug) : bug[b] \in BugRecord
    BY DEF BugShape
  <2>2. QED
    BY <2>1 DEF BugRecord
<1>2. PICK m \in Nat : \A n \in 1..Len(bug) : bug[n].edit <= m
  BY DEF BugShape
<1>3. times \in SUBSET Nat /\ times # {} /\ \A x \in times : x <= m + t
  <2>1. t \in Nat /\ t <= m + t
    OBVIOUS
  <2>2. \A b \in new : bug[b].edit \in Nat /\ bug[b].edit <= m + t
    BY <1>1, <1>2
  <2>3. QED
    BY <2>1, <2>2
<1>4. m + t \in Nat
  OBVIOUS
<1> HIDE DEF times
<1>5. Max(times) \in Nat
  BY <1>3, <1>4, MaxMember
<1>6. QED
  BY <1>5 DEF times

(* A process gets on with its pull.                                        *)
LEMMA PullStep ==
  ASSUME IInv, VersionShape', Grows, NEW p \in Proc, NEW new \in PullRecord,
         pull' = [pull EXCEPT ![p] = new],
         new.stage = "write" =>
           /\ new.todo # {}
           /\ new.theirs \in Reference(Min(new.todo))
           /\ new.ours \in Reference(Min(new.todo))
  PROVE  PullShape'
<1>1. pull' \in [Proc -> PullRecord]
  BY DEF IInv, Shape, PullShape
<1>2. \A j \in Person : Reference(j) \subseteq Reference(j)'
  BY ReferencesKept DEF IInv, Shape
<1>3. ASSUME NEW q \in Proc, pull'[q].stage = "write"
      PROVE  /\ pull'[q].todo # {}
             /\ pull'[q].theirs \in Reference(Next_(q))'
             /\ pull'[q].ours \in Reference(Next_(q))'
  <2>1. pull'[q].todo \in SUBSET Person
    BY <1>1 DEF PullRecord
  <2>2. /\ pull'[q].todo # {}
        /\ pull'[q].theirs \in Reference(Min(pull'[q].todo))
        /\ pull'[q].ours \in Reference(Min(pull'[q].todo))
    <3>1. CASE q = p
      BY <1>3, <3>1 DEF IInv, Shape, PullShape
    <3>2. CASE q # p
      BY <1>3, <3>2 DEF IInv, Shape, PullShape, Next_
    <3>3. QED
      BY <3>1, <3>2
  <2>3. Min(pull'[q].todo) \in Person /\ Next_(q)' = Min(pull'[q].todo)
    BY <2>1, <2>2, PersonAssumption, MinMember DEF Next_
  <2>4. QED
    BY <1>2, <2>2, <2>3 DEF Reference
<1>4. QED
  BY <1>1, <1>3 DEF PullShape

LEMMA MergeBugsStep ==
  ASSUME IInv, NEW p \in Proc, MergeBugs(p)
  PROVE  IInv' /\ Forward
<1> DEFINE c == Home[p]
           new == {b \in seen[c] \ bugs[c] : Readable(View(p, bug[b].author), bug[b])}
<1>1. c \in Clone /\ new \in SUBSET (1..Len(bug))
  BY HomeAssumption DEF IInv, Shape, BugShape
<1>2. /\ bugs' = [bugs EXCEPT ![c] = @ \cup new]
      /\ clock' = [clock EXCEPT ![c] = Max({clock[c]} \cup {bug[b].edit : b \in new})]
      /\ pull' = [pull EXCEPT ![p] = NoPull]
      /\ memory' = IF p \in Lasting THEN memory ELSE Forgotten(p)
      /\ UNCHANGED <<identities, bug, seen, remoteBugs>>
  BY <1>1 DEF MergeBugs, IInv, Shape, BugShape
<1> HIDE DEF new
<1>3. clock' \in [Clone -> Nat]
  <2>1. clock[c] \in Nat
    BY <1>1 DEF IInv, Shape, BugShape
  <2>2. Max({clock[c]} \cup {bug[b].edit : b \in new}) \in Nat
    BY <1>1, <2>1, WitnessType DEF IInv, Shape
  <2>3. QED
    BY <1>1, <1>2, <2>2 DEF IInv, Shape, BugShape
<1>4. BugShape'
  <2>1. bugs' \in [Clone -> SUBSET (1..Len(bug))]
    BY <1>1, <1>2 DEF IInv, Shape, BugShape
  <2>2. QED
    BY <1>2, <1>3, <2>1 DEF IInv, Shape, BugShape
<1>5. VersionShape' /\ AllValid' /\ Grows /\ RefShape' /\ Forward
  BY <1>2, KeptReferences
<1>6. MemoryShape'
  BY <1>2, <1>5, KeptMemory, ForgottenStep
<1>7. PullShape'
  <2>1. NoPull \in PullRecord /\ NoPull.stage # "write"
    BY DEF NoPull, PullRecord, NoVersion
  <2>2. QED
    BY <1>2, <1>5, <2>1, PullStep
<1>8. QED
  BY <1>4, <1>5, <1>6, <1>7 DEF IInv, Shape
------------------------------------------------------------------------------
(* Fetching, merging and pushing.                                          *)
LEMMA FetchStep ==
  ASSUME IInv, NEW p \in Proc, Fetch(p)
  PROVE  IInv' /\ Forward
<1> DEFINE c == Home[p]
           new == [pull[p] EXCEPT !.stage = "merge",
                                  !.todo = {i \in Person : remote[i] # NoVersion}]
<1>1. /\ c \in Clone
      /\ tracking' = [tracking EXCEPT ![c] = remote]
      /\ seen' = [seen EXCEPT ![c] = remoteBugs]
      /\ UNCHANGED <<version, local, remote, bug, bugs, remoteBugs, clock, memory>>
  BY HomeAssumption DEF Fetch
<1>2. new \in PullRecord /\ new.stage # "write"
  BY DEF IInv, Shape, PullShape, PullRecord
<1>3. pull' = [pull EXCEPT ![p] = new]
  BY DEF Fetch, IInv, Shape, PullShape
<1>4. /\ VersionShape' /\ AllValid' /\ Grows
      /\ \A i \in Person : Reference(i)' = Reference(i)
  BY <1>1, SameVersions
<1> HIDE DEF new
<1>5. RefShape'
  <2>1. tracking' \in [Clone -> [Person -> Nat]]
    BY <1>1 DEF IInv, Shape, RefShape
  <2>2. \A d \in Clone : tracking'[d] = IF d = c THEN remote ELSE tracking[d]
    BY <1>1 DEF IInv, Shape, RefShape
  <2>3. QED
    BY <1>1, <1>4, <2>1, <2>2 DEF IInv, Shape, RefShape
<1>6. BugShape'
  BY <1>1 DEF IInv, Shape, BugShape
<1>7. Forward
  <2>1. \A i \in Person : \A n \in Reference(i) : IsPrefix(Line(n), Line(n))
    BY <1>4, ReferencesKept, PrefixOfItself DEF IInv, Shape
  <2>2. QED
    BY <1>1, <2>1 DEF Forward, Line, IInv, Shape, RefShape
<1>8. QED
  BY <1>1, <1>2, <1>3, <1>4, <1>5, <1>6, <1>7, KeptMemory, PullStep DEF IInv, Shape

(* What is written over a pull that is done, or has stopped.               *)
LEMMA RestOfPull ==
  ASSUME IInv, NEW p \in Proc, pull' = Done(p) \/ pull' = Stop(p)
  PROVE  VersionShape' /\ Grows => PullShape'
<1> SUFFICES ASSUME VersionShape', Grows
             PROVE  PullShape'
  OBVIOUS
<1> DEFINE done == [NoPull EXCEPT !.stage = "merge", !.todo = pull[p].todo \ {Next_(p)}]
           stop == [NoPull EXCEPT !.stage = "merge"]
<1>1. done \in PullRecord /\ done.stage # "write"
  BY DEF IInv, Shape, PullShape, PullRecord, NoPull, NoVersion
<1>2. stop \in PullRecord /\ stop.stage # "write"
  BY DEF PullRecord, NoPull, NoVersion
<1>3. pull' = [pull EXCEPT ![p] = done] \/ pull' = [pull EXCEPT ![p] = stop]
  BY DEF Done, Stop
<1> HIDE DEF done, stop
<1>4. QED
  BY <1>1, <1>2, <1>3, PullStep

LEMMA MergeReadStep ==
  ASSUME IInv, NEW p \in Proc, MergeRead(p)
  PROVE  IInv' /\ Forward
<1> DEFINE c == Home[p]
           i == Next_(p)
           new == [pull[p] EXCEPT !.stage = "write", !.theirs = tracking[c][i], !.ours = local[c][i]]
<1>1. /\ UNCHANGED <<identities, stored, clock, memory>>
      /\ pull[p].todo # {}
      /\ pull' = [pull EXCEPT ![p] = new] \/ pull' = Done(p)
  BY DEF MergeRead, IInv, Shape, PullShape
<1>2. c \in Clone /\ i \in Person
  BY <1>1, HomeAssumption, NextOfTodo DEF IInv, Shape
<1>3. /\ tracking[c][i] \in Reference(i) /\ local[c][i] \in Reference(i)
      /\ tracking[c][i] \in Nat /\ local[c][i] \in Nat
  BY <1>2 DEF IInv, Shape, RefShape
<1>4. pull[p] \in PullRecord
  BY DEF IInv, Shape, PullShape
<1>5. /\ new \in PullRecord /\ new.todo # {} /\ Min(new.todo) = i
      /\ new.theirs \in Reference(i) /\ new.ours \in Reference(i)
  BY <1>1, <1>3, <1>4 DEF PullRecord, Next_
<1>6. VersionShape' /\ AllValid' /\ Grows /\ RefShape' /\ Forward /\ BugShape'
  BY <1>1, KeptReferences, KeptBugs
<1> HIDE DEF new, i
<1>7. PullShape'
  <2>1. CASE pull' = [pull EXCEPT ![p] = new]
    BY <1>5, <1>6, <2>1, PullStep
  <2>2. CASE pull' = Done(p)
    BY <1>6, <2>2, RestOfPull
  <2>3. QED
    BY <1>1, <2>1, <2>2
<1>8. QED
  BY <1>1, <1>6, <1>7, KeptMemory DEF IInv, Shape

(* What MergeNew and MergeForward have in common: the local reference goes *)
(* to a version on top of the one it had, the instance to the fetched one. *)
LEMMA MergeWriteStep ==
  ASSUME IInv, NEW p \in Proc, pull[p].stage = "write",
         NEW n \in Reference(Next_(p)),
         IsPrefix(Line(local[Home[p]][Next_(p)]), Line(n)),
         local' = [local EXCEPT ![Home[p]][Next_(p)] = n],
         Install(p, pull[p].theirs),
         pull' = Done(p),
         UNCHANGED <<version, tracking, remote, stored, clock>>
  PROVE  IInv' /\ Forward
<1> DEFINE c == Home[p]
           i == Next_(p)
           m == pull[p].theirs
           instance == Instance(m)
<1>1. /\ c \in Clone /\ i \in Person /\ m \in Reference(i) /\ m \in Nat
  BY HomeAssumption, NextOfTodo DEF IInv, Shape, PullShape, PullRecord
<1>2. /\ VersionShape' /\ AllValid' /\ Grows
      /\ \A j \in Person : Reference(j)' = Reference(j)
  BY SameVersions
<1>3. n \in Nat
  BY <1>1, ReferencesKept, <1>2 DEF IInv, Shape, VersionShape
<1>4. MemoryShape'
  <2>1. instance \in InstanceRecord /\ instance.last \in Reference(i) /\ instance.pending = <<>>
    BY <1>1 DEF Instance, InstanceRecord
  <2>2. memory' = [memory EXCEPT ![p][i] = instance]
    BY DEF Install
  <2> HIDE DEF instance, i
  <2>3. QED
    BY <1>1, <1>2, <2>1, <2>2, InstanceStep
<1> HIDE DEF i, m, instance
<1>5. \A d \in Clone, j \in Person :
        local'[d][j] = IF d = c /\ j = i THEN n ELSE local[d][j]
  BY <1>1 DEF i, IInv, Shape, RefShape
<1>6. RefShape'
  <2>1. local' \in [Clone -> [Person -> Nat]]
    BY <1>1, <1>3 DEF i, IInv, Shape, RefShape
  <2>2. n \in Reference(i)
    BY DEF i
  <2>3. QED
    BY <1>2, <1>5, <2>1, <2>2 DEF IInv, Shape, RefShape
<1>7. Forward
  <2>1. \A j \in Person : \A k \in Reference(j) : IsPrefix(Line(k), Line(k))
    BY <1>2, ReferencesKept, PrefixOfItself DEF IInv, Shape
  <2>2. \A d \in Clone, j \in Person : IsPrefix(Line(local[d][j]), Line(local'[d][j]))
    BY <1>5, <2>1 DEF i, IInv, Shape, RefShape
  <2>3. \A j \in Person : IsPrefix(Line(remote[j]), Line(remote[j]))
    BY <2>1 DEF IInv, Shape, RefShape
  <2>4. QED
    BY <2>2, <2>3 DEF Forward, Line
<1>8. QED
  BY <1>2, <1>4, <1>6, <1>7, KeptBugs, RestOfPull DEF IInv, Shape

LEMMA MergeNewStep ==
  ASSUME IInv, NEW p \in Proc, MergeNew(p)
  PROVE  IInv' /\ Forward
<1> DEFINE c == Home[p]
           i == Next_(p)
           n == tracking[c][i]
<1>1. c \in Clone /\ i \in Person /\ n \in Reference(i)
  BY HomeAssumption, NextOfTodo DEF MergeNew, IInv, Shape, PullShape, RefShape
<1>2. Line(n) \in Seq(Nat) /\ Line(local[c][i]) = <<>>
  BY <1>1, ChainTypes DEF MergeNew, Line, IInv, Shape
<1>3. IsPrefix(Line(local[c][i]), Line(n))
  BY <1>2, PrefixOfEmpty
<1>4. QED
  BY <1>1, <1>3, MergeWriteStep DEF MergeNew

LEMMA MergeForwardStep ==
  ASSUME IInv, NEW p \in Proc, MergeForward(p)
  PROVE  IInv' /\ Forward
<1>1. pull[p].theirs \in Reference(Next_(p))
  BY DEF MergeForward, IInv, Shape, PullShape
<1>2. IsPrefix(Line(local[Home[p]][Next_(p)]), Line(pull[p].theirs))
  BY DEF MergeForward, Extends
<1>3. QED
  BY <1>1, <1>2, MergeWriteStep DEF MergeForward

LEMMA MergeRestStep ==
  ASSUME IInv, NEW p \in Proc, MergeNothing(p) \/ MergeStops(p)
  PROVE  IInv' /\ Forward
<1>1. /\ UNCHANGED <<identities, stored, clock, memory>>
      /\ pull' = Done(p) \/ pull' = Stop(p)
  BY DEF MergeNothing, MergeStops
<1>2. VersionShape' /\ AllValid' /\ Grows /\ RefShape' /\ Forward /\ BugShape'
  BY <1>1, KeptReferences, KeptBugs
<1>3. QED
  BY <1>1, <1>2, KeptMemory, RestOfPull DEF IInv, Shape

LEMMA PushStep ==
  ASSUME IInv, NEW p \in Proc, Push(p)
  PROVE  IInv' /\ Forward
<1> DEFINE c == Home[p]
<1>1. /\ c \in Clone /\ CanPush(c)
      /\ remote' = local[c]
      /\ tracking' = [tracking EXCEPT ![c] = local[c]]
      /\ remoteBugs' = remoteBugs \cup bugs[c]
      /\ seen' = [seen EXCEPT ![c] = @ \cup bugs[c]]
      /\ UNCHANGED <<version, local, bug, bugs, clock, memory, pull>>
  BY HomeAssumption DEF Push
<1> HIDE DEF c
<1>2. /\ VersionShape' /\ AllValid' /\ Grows
      /\ \A i \in Person : Reference(i)' = Reference(i)
  BY <1>1, SameVersions
<1>3. RefShape'
  <2>1. tracking' \in [Clone -> [Person -> Nat]]
    BY <1>1 DEF IInv, Shape, RefShape
  <2>2. \A d \in Clone : tracking'[d] = IF d = c THEN local[c] ELSE tracking[d]
    BY <1>1 DEF IInv, Shape, RefShape
  <2>3. QED
    BY <1>1, <1>2, <2>1, <2>2 DEF IInv, Shape, RefShape
<1>4. BugShape'
  BY <1>1 DEF IInv, Shape, BugShape
<1>5. Forward
  <2>1. \A i \in Person : \A n \in Reference(i) : IsPrefix(Line(n), Line(n))
    BY <1>2, ReferencesKept, PrefixOfItself DEF IInv, Shape
  <2>2. \A i \in Person : IsPrefix(Line(remote[i]), Line(local[c][i]))
    BY <1>1 DEF CanPush, Extends
  <2>3. QED
    BY <1>1, <2>1, <2>2 DEF Forward, Line, IInv, Shape, RefShape
<1>6. QED
  BY <1>1, <1>2, <1>3, <1>4, <1>5, KeptMemory, KeptPull DEF IInv, Shape
------------------------------------------------------------------------------
LEMMA MergeStep ==
  ASSUME IInv, NEW p \in Proc, Merge(p)
  PROVE  IInv' /\ Forward
BY MergeReadStep, MergeNewStep, MergeForwardStep, MergeRestStep, MergeBugsStep DEF Merge

LEMMA NextStep == IInv /\ [Next]_vars => IInv' /\ (UNCHANGED vars \/ Forward)
<1> SUFFICES ASSUME IInv, [Next]_vars
             PROVE  IInv' /\ (UNCHANGED vars \/ Forward)
  OBVIOUS
<1>1. \A i \in Person : Makers[i] \cup Editors[i] \cup Authors[i] \subseteq Proc
  BY PersonAssumption
<1>2. ASSUME NEW i \in Person, NEW p \in Makers[i], NEW keys \in SUBSET Key, NewRaw(p, i, keys)
      PROVE  IInv' /\ Forward
  BY <1>1, <1>2, NewRawStep
<1>3. ASSUME NEW i \in Person, NEW p \in Editors[i], Change(p, i)
      PROVE  IInv' /\ Forward
  BY <1>1, <1>3, ChangeStep
<1>4. ASSUME NEW i \in Person, NEW p \in Authors[i], NewBug(p, i)
      PROVE  IInv' /\ Forward
  BY <1>1, <1>4, NewBugStep
<1>5. ASSUME NEW p \in Syncing, Fetch(p) \/ Merge(p) \/ Push(p)
      PROVE  IInv' /\ Forward
  BY <1>5, RoleAssumption, FetchStep, MergeStep, PushStep
<1>6. ASSUME NEW p \in Lasting, Exit(p)
      PROVE  IInv' /\ Forward
  BY <1>6, RoleAssumption, ExitStep
<1>7. CASE UNCHANGED vars
  <2>1. UNCHANGED <<identities, stored, clock, memory, pull>>
    BY <1>7 DEF vars, identities, stored
  <2>2. VersionShape' /\ AllValid' /\ Grows /\ RefShape' /\ BugShape'
    BY <2>1, KeptReferences, KeptBugs
  <2>3. QED
    BY <1>7, <2>1, <2>2, KeptMemory, KeptPull DEF IInv, Shape
<1>8. QED
  BY <1>2, <1>3, <1>4, <1>5, <1>6, <1>7 DEF Next

LEMMA Invariant == Spec => []IInv
<1>1. Init => IInv
  BY InitIInv
<1>2. IInv /\ [Next]_vars => IInv'
  BY NextStep
<1>3. QED
  BY <1>1, <1>2, PTL DEF Spec

(* References, instances and the state of a pull name versions of the      *)
(* identity they stand for, and a chain is made of versions of one.        *)
THEOREM TypeCorrect == Spec => []TypeOK
<1>1. IInv => TypeOK
  BY ShapeIsTypeOK DEF IInv
<1>2. QED
  BY <1>1, Invariant, PTL

(* Whatever is staged, committed, pulled and pushed, in whichever order    *)
(* and from however many clones, the chain behind every reference passes   *)
(* Identity.Validate.                                                      *)
THEOREM ChainsValid == Spec => []ChainsAreValid
<1>1. IInv => ChainsAreValid
  BY AllValidIsEnough
<1>2. QED
  BY <1>1, Invariant, PTL

(* The history of an identity is only ever added to, in a clone and at the *)
(* remote: neither a commit, a merge nor a push loses a version.           *)
THEOREM HistoryNeverCut == Spec => HistoryKept
<1>1. IInv /\ [Next]_vars => [Forward]_vars
  BY NextStep
<1>2. Spec => [][Forward]_vars
  BY <1>1, Invariant, PTL DEF Spec
<1>3. QED
  BY <1>2 DEF HistoryKept, Forward
==============================================================================
