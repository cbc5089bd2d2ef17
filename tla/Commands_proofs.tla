---------------------------- MODULE Commands_proofs ----------------------------
(***************************************************************************)
(* Proofs about Commands, for any processes, terminals, identities, bugs,  *)
(* commands on offer and number of runs: TypeOK, ActorsAsAsked,            *)
(* TargetsAsAsked, ConfigIsChosen, AnswersAreTrue, ConflictMeansProgress,  *)
(* LoadFailsOnlyOverRemoval, and TextIsTyped where one process at most is  *)
(* at a terminal.                                                          *)
(*                                                                         *)
(* CInv says what each process has in its hands at each place, that it has *)
(* noted what the shared files say now, and that the runs under way know   *)
(* of each other. On it rest four more invariants, one to a question: what *)
(* an answer says of the operations (OpsSound), that what was read stays   *)
(* the beginning of what is stored (SeenSound), what may be missing while  *)
(* something is removed (Removals), and where a text comes from            *)
(* (TextShape).                                                            *)
(***************************************************************************)
EXTENDS Commands, FiniteSetTheorems, TLAPS

------------------------------------------------------------------------------
(* Where a process is.                                                     *)

Kinds == {"bugs", "people"}
Loading == {"people", "read people", "read bugs"}
Asking == {"resolve", "selection", "unselect"}
Typing == {"input", "edit", "edited"}
Ready == Typing \union {"act"}
Places ==
  {"idle", "remove", "select", "user stored", "set user", "wipe", "wipe files"}
    \union Loading \union Asking \union Ready

ActKinds == {cmd.act : cmd \in Repertoire \union {NoCommand}}
TextKinds == {cmd.text : cmd \in Repertoire \union {NoCommand}}

ProcRecord ==
  [at : Places, run : 0 .. MaxRuns, todo : SUBSET (Person \union BugId \union Kinds),
   known : SUBSET Person, seen : [BugId -> Nat],
   cmd : Repertoire \union {NoCommand}, over : Person \union {NoOne},
   named : BugId \union {NoBug}, actor : Person \union {NoOne}, target : BugId \union {NoBug},
   text : 0 .. MaxRuns, fd : {"none", "open", "unlinked"}, failed : BOOLEAN,
   configs : SUBSET (Person \union {NoOne}), selected : SUBSET BugId]

Results == {"running", "failed", "not loaded", "ok", "conflict"}

RunRecord ==
  [act : ActKinds, text : TextKinds, result : Results,
   beside : SUBSET Nat, target : BugId \union {NoBug}, base : Nat]

(* What the processes share: ids that are in use have been handed out.     *)
Shared ==
  /\ people \in SUBSET Person /\ config \in Person \union {NoOne}
  /\ bugs \in [BugId -> Seq(OperationRecord)]
  /\ selection \in BugId \union {NoBug, NoFile} /\ draft \in 0 .. NoDraft
  /\ used \in SUBSET (Person \union BugId)
  /\ people \subseteq used /\ config \in used \union {NoOne}
  /\ \A b \in BugId : Exists(b) => b \in used

RunTypes == runs \in Seq(RunRecord) /\ Len(runs) <= MaxRuns

(* What a process has in its hands at each place.                          *)
Fresh(r) ==
  /\ r.cmd = NoCommand /\ r.over = NoOne /\ r.named = NoBug /\ r.actor = NoOne
  /\ r.target = NoBug /\ r.text = Blank /\ ~ r.failed
Has(r, b) == b \in BugId /\ r.seen[b] # 0

Begun(r) ==
  /\ r.at = "idle" => r = Idle
  /\ r.at \in Loading => Fresh(r)
  /\ r.at = "read people" => r.todo \subseteq Person
  /\ r.at = "read bugs" => r.todo \subseteq BugId
Asked(p, r) ==
  /\ r.at \notin Loading \union {"idle"} => r.cmd \in Repertoire
  /\ r.at \in Asking => r.named = NoBug /\ r.target = NoBug
  /\ r.at \in {"selection", "unselect"} =>
       r.cmd.target = "selected" \/ (r.cmd.target = "mutation" /\ p \in Terminal)
Resolved(r) ==
  /\ r.at \in Ready =>
       IF r.cmd.target \in {"none", "person"} THEN r.target = NoBug ELSE Has(r, r.target)
  /\ r.at \in Typing => r.cmd.text # "none"
Doing(r) ==
  /\ r.at = "remove" => r.cmd.act = "remove" /\ Has(r, r.target)
  /\ r.at = "select" => r.cmd.act = "select" /\ Has(r, r.target)
  /\ r.at = "user stored" => r.cmd.act = "user new" /\ r.actor \in Person
  /\ r.at = "set user" => r.cmd.act \in {"user new", "user adopt"} /\ r.actor \in Person
  /\ r.at = "set user" /\ r.cmd.act = "user new" => NoOne \in r.configs
  /\ r.at \in {"wipe", "wipe files"} => r.cmd.act = "wipe"
Control(p, r) == Begun(r) /\ Asked(p, r) /\ Resolved(r) /\ Doing(r)

(* Who acts, and on what.                                                  *)
ActorShape(r) ==
  r.at \in Asking \union Ready /\ r.cmd.user = "acting" =>
    /\ r.actor \in Person
    /\ IF r.over # NoOne THEN r.actor = r.over ELSE r.actor \in r.configs
TargetShape(p, r) ==
  r.at \in Ready /\ r.cmd.act = "append" =>
    r.named = r.target \/ (p \in Terminal /\ r.named = NoBug /\ r.target \in r.selected)
Context(p, r) ==
  r.at # "idle" =>
    /\ config \in r.configs
    /\ p \in Terminal /\ selection \in BugId => selection \in r.selected
Knowledge(r) ==
  /\ r.known \subseteq used /\ r.actor \in used \union {NoOne}
  /\ \A b \in BugId : r.seen[b] # 0 => b \in used

Sound(p, r) ==
  Control(p, r) /\ ActorShape(r) /\ TargetShape(p, r) /\ Context(p, r) /\ Knowledge(r)

(* The runs that are under way, each of one process.                       *)
Running ==
  /\ \A p \in Proc : Busy(p) =>
       proc[p].run \in DOMAIN runs /\ runs[proc[p].run].result = "running"
  /\ \A p, q \in Proc : p # q /\ Busy(p) /\ Busy(q) =>
       proc[p].run # proc[q].run /\ proc[q].run \in runs[proc[p].run].beside
  /\ \A s \in DOMAIN runs : runs[s].result = "running" => \E p \in Proc : Busy(p) /\ proc[p].run = s
  /\ \A s \in DOMAIN runs : \A t \in runs[s].beside : t \in DOMAIN runs /\ s \in runs[t].beside

CInv ==
  /\ Shared /\ RunTypes /\ Running
  /\ proc \in [Proc -> ProcRecord] /\ \A p \in Proc : Sound(p, proc[p])

Writes == {"append", "create"}
OpsSound ==
  /\ \A b \in BugId : \A n \in DOMAIN bugs[b] :
       LET r == bugs[b][n].run
       IN r # 0 => /\ r \in DOMAIN runs /\ runs[r].result = "ok" /\ runs[r].act \in Writes
                   /\ runs[r].target = b
  /\ \A b \in BugId : \A m, n \in DOMAIN bugs[b] : bugs[b][m].run = bugs[b][n].run => m = n
  /\ \A r \in DOMAIN runs : runs[r].result = "ok" /\ runs[r].act \in Writes =>
       /\ runs[r].target \in BugId /\ runs[r].target \in used
       /\ Exists(runs[r].target) =>
            \E n \in DOMAIN bugs[runs[r].target] : bugs[runs[r].target][n].run = r

Follows(b, seen, beside) ==
  Exists(b) => seen <= Count(b) /\ (seen < Count(b) => bugs[b][seen + 1].run \in beside)
SeenSound ==
  /\ \A p \in Proc, b \in BugId :
       Busy(p) /\ proc[p].seen[b] # 0 => Follows(b, proc[p].seen[b], runs[proc[p].run].beside)
  /\ \A r \in DOMAIN runs : runs[r].result = "conflict" =>
       /\ runs[r].target \in BugId /\ runs[r].target \in used
       /\ Follows(runs[r].target, runs[r].base, runs[r].beside)
       /\ Exists(runs[r].target) => runs[r].base < Count(runs[r].target)

DoesNow(s, act) ==
  IF runs[s].result = "running"
    THEN \E q \in Proc : Busy(q) /\ proc[q].run = s /\ Cmd(q).act = act
    ELSE runs[s].act = act
Interrupted(s) == DoesNow(s, "wipe") /\ (runs[s].result # "ok" \/ runs[s].beside # {})
Disturbed(s) ==
  /\ DoesNow(s, "wipe")
  /\ runs[s].result \notin {"running", "ok"} \/ runs[s].beside # {}
Meanwhile(p, act) == \E s \in runs[proc[p].run].beside : DoesNow(s, act)

(* Authors that are gone were taken by a wipe that is not done.            *)
AuthorsRead == \A b \in BugId : \A i \in Authors(b) : i \in people \/ \E s \in DOMAIN runs : Interrupted(s)
(* What a process knows or has listed is there, or is being removed.       *)
ActorsRead ==
  \A p \in Proc : Busy(p) /\ Cmd(p).act # "wipe" =>
    /\ \A i \in proc[p].known : i \in people \/ Meanwhile(p, "wipe")
    /\ proc[p].actor # NoOne => proc[p].actor \in people \/ Meanwhile(p, "wipe")
ListsRead ==
  /\ \A p \in Proc : At(p, "read people") =>
       \A i \in proc[p].todo : i \in people \/ Meanwhile(p, "wipe")
  /\ \A p \in Proc : At(p, "read bugs") =>
       \A b \in proc[p].todo : Exists(b) \/ Meanwhile(p, "remove") \/ Meanwhile(p, "wipe")
(* A wipe that is alone and has not failed forgets no bug.                 *)
Alone(p) == runs[proc[p].run].beside = {}
WipesAll ==
  /\ \A p \in Proc : At(p, "wipe") /\ ~ proc[p].failed /\ Alone(p) =>
       \A b \in BugId : Exists(b) => b \in proc[p].todo \/ "bugs" \in proc[p].todo
  /\ \A p \in Proc : At(p, "wipe files") /\ Alone(p) => \A b \in BugId : ~ Exists(b)
Excused(r) == \E s \in DOMAIN runs : Disturbed(s) \/ (s \in runs[r].beside /\ DoesNow(s, "remove"))
Removals ==
  /\ AuthorsRead /\ ActorsRead /\ ListsRead /\ WipesAll
  /\ \A r \in DOMAIN runs : runs[r].result = "not loaded" => Excused(r)

(* The text is what was typed, or the template as it was made.             *)
OneTerminal == \A p, q \in Terminal : p = q
TextShape ==
  \A p \in Proc :
    /\ At(p, "act") => \/ proc[p].text = proc[p].run
                       \/ proc[p].text = Blank /\ Cmd(p).text # "required"
    /\ proc[p].at \in {"edit", "edited"} =>
         p \in Terminal /\ draft \in {Blank, proc[p].run, NoDraft}
    /\ proc[p].at \in Asking \union {"input"} => proc[p].text = Blank
------------------------------------------------------------------------------
(* The commands and the records of processes and runs.                     *)

LEMMA RepertoireFacts ==
  \A cmd \in Repertoire \union {NoCommand} :
    /\ cmd.act \in Writes => cmd.user = "acting" /\ cmd # NoCommand
    /\ cmd.act = "append" => cmd.target \notin {"none", "person", "selected"}
    /\ cmd.act \in {"remove", "select"} => cmd.target = "named"
    /\ cmd.user = "acting" => cmd.act \in Writes
    /\ cmd.target = "mutation" => cmd.act = "append"
<1> SUFFICES ASSUME NEW cmd \in Repertoire \union {NoCommand}
             PROVE  /\ cmd.act \in Writes => cmd.user = "acting" /\ cmd.act # "none"
                    /\ cmd.act = "append" => cmd.target \in {"comment", "mutation"}
                    /\ cmd.act \in {"remove", "select"} => cmd.target = "named"
                    /\ cmd.user = "acting" => cmd.act \in Writes
                    /\ cmd.target = "mutation" => cmd.act = "append"
  BY DEF NoCommand, Command
<1>1. CASE cmd \in {BugCommentNew, BugLabelNew, BugLabelRm, BugStatusOpen}
  BY <1>1 DEF BugCommentNew, BugLabelNew, BugLabelRm, BugStatusOpen, Change, Command, Writes
<1>2. CASE cmd \in {BugStatusClose, BugTitleEdit, BugCommentEdit, BugNew}
  BY <1>2 DEF BugStatusClose, BugTitleEdit, BugCommentEdit, BugNew, Change, Command, Writes
<1>3. CASE cmd \in {BugRm, BugSelect, BugDeselect}
  BY <1>3 DEF BugRm, BugSelect, BugDeselect, Command, Writes
<1>4. CASE cmd \in {BugList, BugShow, BugComment, BugLabel}
  BY <1>4 DEF BugList, BugShow, BugComment, BugLabel, Show, Command, Writes
<1>5. CASE cmd \in {BugStatus, BugTitle, Label, UserList}
  BY <1>5 DEF BugStatus, BugTitle, Label, UserList, Show, Command, Writes
<1>6. CASE cmd = UserShow
  BY <1>6 DEF UserShow, Command, Writes
<1>7. CASE cmd = UserNew
  BY <1>7 DEF UserNew, Command, Writes
<1>8. CASE cmd = UserAdopt
  BY <1>8 DEF UserAdopt, Command, Writes
<1>9. CASE cmd = Wipe
  BY <1>9 DEF Wipe, Command, Writes
<1>10. CASE cmd = NoCommand
  BY <1>10 DEF NoCommand, Command, Writes
<1>11. QED
  BY <1>1, <1>2, <1>3, <1>4, <1>5, <1>6, <1>7, <1>8, <1>9, <1>10 DEF Repertoire

LEMMA NoCommandFacts ==
  NoCommand.act = "none" /\ NoCommand.text = "none" /\ NoCommand.target = "none"
BY DEF NoCommand, Command

LEMMA IdleFacts ==
  /\ Idle \in ProcRecord /\ Idle.at = "idle" /\ Idle.run = 0 /\ Idle.known = {}
  /\ Idle.todo = {} /\ Idle.cmd = NoCommand /\ Idle.over = NoOne /\ Idle.named = NoBug
  /\ Idle.actor = NoOne /\ Idle.target = NoBug /\ Idle.text = Blank /\ ~ Idle.failed
  /\ \A b \in BugId : Idle.seen[b] = 0
<1>1. Idle.seen \in [BugId -> Nat] /\ \A b \in BugId : Idle.seen[b] = 0
  BY DEF Idle
<1>2. Blank \in 0 .. MaxRuns
  BY BoundAssumption DEF Blank
<1>3. QED
  BY <1>1, <1>2, BoundAssumption DEF Idle, ProcRecord, Places

LEMMA IdleIsSound == ASSUME NEW p PROVE Sound(p, Idle)'
BY IdleFacts DEF Sound, Control, Begun, Asked, Resolved, Doing, ActorShape, TargetShape, Context,
                 Knowledge, Asking, Ready, Typing, Loading

(* A process that takes no step may be told of a file another one wrote.   *)
Alike(r, s) ==
  /\ s.at = r.at /\ s.run = r.run /\ s.todo = r.todo /\ s.known = r.known /\ s.seen = r.seen
  /\ s.cmd = r.cmd /\ s.over = r.over /\ s.named = r.named /\ s.actor = r.actor
  /\ s.target = r.target /\ s.text = r.text /\ s.failed = r.failed
  /\ r.configs \subseteq s.configs /\ r.selected \subseteq s.selected
  /\ r = Idle => s = Idle
Keeps(q) ==
  /\ proc'[q] \in ProcRecord /\ Alike(proc[q], proc'[q])
  /\ proc[q].at # "idle" =>
       /\ config' \in proc'[q].configs
       /\ q \in Terminal /\ selection' \in BugId => selection' \in proc'[q].selected

LEMMA AlikeControl ==
  ASSUME NEW q, NEW r, NEW s, Control(q, r), Alike(r, s)
  PROVE  Control(q, s)
<1>1. Begun(s)
  BY DEF Control, Begun, Alike, Fresh
<1>2. Asked(q, s)
  BY DEF Control, Asked, Alike
<1>3. Resolved(s)
  BY DEF Control, Resolved, Alike, Has
<1>4. Doing(s)
  BY DEF Control, Doing, Alike, Has
<1>5. QED
  BY <1>1, <1>2, <1>3, <1>4 DEF Control

LEMMA KeptIsSound ==
  ASSUME CInv, NEW q \in Proc, Keeps(q), used \subseteq used'
  PROVE  Sound(q, proc[q])'
<1>1. PICK r, s : r = proc[q] /\ s = proc'[q]
  OBVIOUS
<1>2. Control(q, r) /\ ActorShape(r) /\ TargetShape(q, r) /\ Context(q, r) /\ Knowledge(r)
  BY <1>1 DEF CInv, Sound
<1>3. Control(q, s)
  BY <1>1, <1>2, AlikeControl DEF Keeps
<1>4. ActorShape(s) /\ TargetShape(q, s)
  BY <1>1, <1>2 DEF Keeps, Alike, ActorShape, TargetShape
<1>5. Context(q, s)'
  BY <1>1, <1>2 DEF Keeps, Alike, Context
<1>6. Knowledge(s)'
  BY <1>1, <1>2 DEF Keeps, Alike, Knowledge
<1>7. Sound(q, s)'
  BY <1>3, <1>4, <1>5, <1>6 DEF Sound
<1>8. QED
  BY <1>1, <1>7 DEF Sound, Context, Knowledge
------------------------------------------------------------------------------
(* Steps of a run.                                                         *)

(* The run goes on, or ends with an answer.                                *)
GoesOn(p, s) == runs' = runs /\ s.at # "idle" /\ s.run = proc[p].run
Ends(p, s) ==
  s = Idle /\ \E result \in Results \ {"running"}, b \in BugId \union {NoBug} : Answer(p, result, b)

LEMMA RunFacts ==
  ASSUME CInv, NEW p \in Proc, Busy(p)
  PROVE  /\ proc[p] \in ProcRecord /\ Sound(p, proc[p]) /\ Cmd(p) \in Repertoire \union {NoCommand}
         /\ proc[p].run \in DOMAIN runs /\ runs[proc[p].run].result = "running"
         /\ proc[p].run \in 1 .. MaxRuns
<1>1. proc[p] \in ProcRecord
  BY DEF CInv
<1>2. proc[p].run \in DOMAIN runs /\ runs[proc[p].run].result = "running"
  BY DEF CInv, Running
<1>3. DOMAIN runs \subseteq 1 .. MaxRuns
  BY BoundAssumption DEF CInv, RunTypes
<1>4. QED
  BY <1>1, <1>2, <1>3 DEF CInv, ProcRecord, Cmd

(* The answer of a run is the only thing that changes with it.             *)
LEMMA AnswerFacts ==
  ASSUME CInv, NEW p \in Proc, Busy(p), NEW result \in Results, NEW b \in BugId \union {NoBug},
         Answer(p, result, b)
  PROVE  /\ RunTypes' /\ DOMAIN runs' = DOMAIN runs
         /\ \A s \in DOMAIN runs : runs'[s].beside = runs[s].beside
         /\ \A s \in DOMAIN runs : s # proc[p].run => runs'[s] = runs[s]
         /\ runs'[proc[p].run].result = result /\ runs'[proc[p].run].target = b
         /\ runs'[proc[p].run].act = Cmd(p).act /\ runs'[proc[p].run].text = Cmd(p).text
         /\ b \in BugId => runs'[proc[p].run].base = proc[p].seen[b]
<1>1. PICK n, r, s :
        /\ n = proc[p].run /\ r = runs[n]
        /\ s = [r EXCEPT !.act = Cmd(p).act, !.text = Cmd(p).text, !.result = result, !.target = b,
                         !.base = IF b = NoBug THEN 0 ELSE proc[p].seen[b]]
  OBVIOUS
<1>2. n \in DOMAIN runs /\ proc[p] \in ProcRecord /\ Cmd(p) \in Repertoire \union {NoCommand}
  BY <1>1, RunFacts
<1>3. runs' = [runs EXCEPT ![n] = s]
  BY <1>1 DEF Answer
<1>4. runs \in Seq(RunRecord) /\ Len(runs) <= MaxRuns
  BY DEF CInv, RunTypes
<1>5. r \in RunRecord
  BY <1>1, <1>2, <1>4
<1>6. /\ s.beside = r.beside /\ s.result = result /\ s.target = b
      /\ s.act = Cmd(p).act /\ s.text = Cmd(p).text
      /\ s.base = IF b = NoBug THEN 0 ELSE proc[p].seen[b]
  BY <1>1, <1>5 DEF RunRecord
<1>7. Cmd(p).act \in ActKinds /\ Cmd(p).text \in TextKinds
  BY <1>2 DEF ActKinds, TextKinds
<1>8. (IF b = NoBug THEN 0 ELSE proc[p].seen[b]) \in Nat
  BY <1>2 DEF ProcRecord
<1>9. s \in RunRecord
  BY <1>1, <1>5, <1>7, <1>8 DEF RunRecord
<1>10. runs' \in Seq(RunRecord) /\ Len(runs') = Len(runs) /\ DOMAIN runs' = DOMAIN runs
  BY <1>2, <1>3, <1>4, <1>9
<1>11. runs'[n] = s /\ \A m \in DOMAIN runs : m # n => runs'[m] = runs[m]
  BY <1>2, <1>3, <1>4
<1>12. \A m \in DOMAIN runs : runs'[m].beside = runs[m].beside
  BY <1>1, <1>6, <1>11
<1>13. QED
  BY <1>1, <1>4, <1>6, <1>10, <1>11, <1>12, EmptyAssumption DEF RunTypes

LEMMA ProcStep ==
  ASSUME CInv, NEW p \in Proc, Busy(p), NEW s \in ProcRecord, proc'[p] = s,
         proc' \in [Proc -> ProcRecord], \A q \in Proc : q # p => Keeps(q),
         Sound(p, s)', used \subseteq used', Shared', GoesOn(p, s) \/ Ends(p, s)
  PROVE  CInv'
<1>1. \A q \in Proc : Sound(q, proc[q])'
  <2>1. Sound(p, proc[p])'
    BY DEF Sound, Context, Knowledge
  <2>2. QED
    BY <2>1, KeptIsSound
<1>2. \A q \in Proc : q # p => proc'[q].at = proc[q].at /\ proc'[q].run = proc[q].run
  BY DEF Keeps, Alike
<1>3. CASE GoesOn(p, s)
  <2>1. \A q \in Proc : (Busy(q)' <=> Busy(q)) /\ proc'[q].run = proc[q].run
    BY <1>2, <1>3 DEF GoesOn, Busy
  <2>2. Running'
    BY <1>3, <2>1 DEF CInv, Running, GoesOn
  <2>3. QED
    BY <1>1, <1>3, <2>2 DEF CInv, GoesOn, RunTypes
<1>4. CASE Ends(p, s)
  <2>1. PICK n : n = proc[p].run
    OBVIOUS
  <2>2. PICK result \in Results \ {"running"}, b \in BugId \union {NoBug} : Answer(p, result, b)
    BY <1>4 DEF Ends
  <2>3. /\ RunTypes' /\ DOMAIN runs' = DOMAIN runs /\ n \in DOMAIN runs
        /\ \A m \in DOMAIN runs : runs'[m].beside = runs[m].beside
        /\ \A m \in DOMAIN runs : m # n => runs'[m] = runs[m]
        /\ runs'[n].result = result
    BY <2>1, <2>2, AnswerFacts, RunFacts
  <2>4. ~ Busy(p)'
    BY <1>4, IdleFacts DEF Ends, Busy
  <2>5. \A q \in Proc : Busy(q)' => q # p /\ Busy(q) /\ proc'[q].run = proc[q].run /\ proc[q].run # n
    BY <1>2, <2>1, <2>4 DEF Busy, CInv, Running
  <2>6. Running'
    <3>1. \A q \in Proc : Busy(q)' =>
            proc'[q].run \in DOMAIN runs' /\ runs'[proc'[q].run].result = "running"
      BY <2>3, <2>5 DEF CInv, Running
    <3>2. \A q, t \in Proc : q # t /\ Busy(q)' /\ Busy(t)' =>
            proc'[q].run # proc'[t].run /\ proc'[t].run \in runs'[proc'[q].run].beside
      BY <2>3, <2>5 DEF CInv, Running
    <3>3. \A m \in DOMAIN runs' : runs'[m].result = "running" =>
            \E q \in Proc : Busy(q)' /\ proc'[q].run = m
      <4>1. ASSUME NEW m \in DOMAIN runs, runs'[m].result = "running"
            PROVE  \E q \in Proc : Busy(q)' /\ proc'[q].run = m
        <5>1. m # n /\ runs[m].result = "running"
          BY <2>3, <4>1
        <5>2. PICK q \in Proc : Busy(q) /\ proc[q].run = m
          BY <5>1 DEF CInv, Running
        <5>3. QED
          BY <1>2, <2>1, <5>1, <5>2 DEF Busy
      <4>2. QED
        BY <2>3, <4>1
    <3>4. \A m \in DOMAIN runs' : \A t \in runs'[m].beside :
            t \in DOMAIN runs' /\ m \in runs'[t].beside
      BY <2>3 DEF CInv, Running
    <3>5. QED
      BY <3>1, <3>2, <3>3, <3>4 DEF Running
  <2>7. QED
    BY <1>1, <2>3, <2>6 DEF CInv
<1>5. QED
  BY <1>3, <1>4

LEMMA ProcExcept ==
  ASSUME CInv, NEW p \in Proc, NEW s \in ProcRecord, proc' = [proc EXCEPT ![p] = s],
         UNCHANGED config, selection' = selection \/ selection' \notin BugId
  PROVE  /\ proc'[p] = s /\ proc' \in [Proc -> ProcRecord]
         /\ \A q \in Proc : q # p => Keeps(q)
<1>1. proc \in [Proc -> ProcRecord]
  BY DEF CInv
<1>2. proc'[p] = s /\ proc' \in [Proc -> ProcRecord] /\ \A q \in Proc : q # p => proc'[q] = proc[q]
  BY <1>1
<1>3. ASSUME NEW q \in Proc, q # p
      PROVE  Keeps(q)
  <2>1. Context(q, proc[q])
    BY DEF CInv, Sound
  <2>2. QED
    BY <1>1, <1>2, <1>3, <2>1 DEF Keeps, Alike, Context
<1>4. QED
  BY <1>2, <1>3

(* A file that goes away stays open where it is.                           *)
LEMMA ProcUnlinked ==
  ASSUME CInv, NEW p \in Proc, NEW s \in ProcRecord,
         proc' = [Unlinked(proc) EXCEPT ![p] = s], UNCHANGED config, selection' \notin BugId
  PROVE  /\ proc'[p] = s /\ proc' \in [Proc -> ProcRecord]
         /\ \A q \in Proc : q # p => Keeps(q)
<1>1. proc \in [Proc -> ProcRecord]
  BY DEF CInv
<1>2. \A q \in Proc :
        q # p => proc'[q] = IF proc[q].fd = "open" THEN [proc[q] EXCEPT !.fd = "unlinked"]
                                                  ELSE proc[q]
  BY <1>1 DEF Unlinked
<1>3. ASSUME NEW q \in Proc, q # p
      PROVE  proc'[q] \in ProcRecord /\ Keeps(q)
  <2>1. PICK r, t : r = proc[q] /\ t = proc'[q]
    OBVIOUS
  <2>2. Context(q, r) /\ r \in ProcRecord
    BY <1>1, <2>1 DEF CInv, Sound
  <2>3. t = IF r.fd = "open" THEN [r EXCEPT !.fd = "unlinked"] ELSE r
    BY <1>2, <1>3, <2>1
  <2>4. t \in ProcRecord
    BY <2>2, <2>3 DEF ProcRecord
  <2>5. r = Idle => t = Idle
    BY <2>3 DEF Idle
  <2>6. Alike(r, t) /\ t.configs = r.configs /\ t.selected = r.selected
    BY <2>2, <2>3, <2>5 DEF Alike, ProcRecord
  <2>7. QED
    BY <2>1, <2>2, <2>4, <2>6 DEF Keeps, Context
<1>4. proc'[p] = s
  BY <1>1 DEF Unlinked
<1>5. proc' \in [Proc -> ProcRecord]
  <2>1. \A q \in Proc : proc'[q] \in ProcRecord
    BY <1>3, <1>4
  <2>2. proc' = [q \in Proc |-> proc'[q]]
    BY DEF Unlinked
  <2>3. QED
    BY <2>1, <2>2
<1>6. QED
  BY <1>3, <1>4, <1>5

(* Everybody is told of what a file has now.                               *)
LEMMA ProcTold ==
  ASSUME CInv, NEW p \in Proc, NEW s \in ProcRecord,
         proc' = [Told(config', selection') EXCEPT ![p] = s], config' \in Person \union {NoOne}
  PROVE  /\ proc'[p] = s /\ proc' \in [Proc -> ProcRecord]
         /\ \A q \in Proc : q # p => Keeps(q)
<1>1. proc \in [Proc -> ProcRecord]
  BY DEF CInv
<1>2. \A q \in Proc :
        q # p => proc'[q] = IF Busy(q) THEN Noted(q, proc[q], config', selection') ELSE proc[q]
  BY DEF Told
<1>3. ASSUME NEW q \in Proc, q # p
      PROVE  proc'[q] \in ProcRecord /\ Keeps(q)
  <2>1. PICK r, t, c, new :
          /\ r = proc[q] /\ t = proc'[q] /\ c = config'
          /\ new = IF q \in Terminal /\ selection' \in BugId THEN {selection'} ELSE {}
    OBVIOUS
  <2>2. Sound(q, r) /\ r \in ProcRecord /\ new \subseteq BugId /\ c \in Person \union {NoOne}
    BY <1>1, <2>1 DEF CInv
  <2>3. CASE r.at # "idle"
    <3>1. t = [r EXCEPT !.configs = @ \union {c}, !.selected = @ \union new]
      BY <1>2, <1>3, <2>1, <2>3 DEF Busy, Noted
    <3>2. t \in ProcRecord
      BY <2>2, <3>1 DEF ProcRecord
    <3>3. r # Idle
      BY <2>3, IdleFacts
    <3>4. Alike(r, t) /\ t.configs = r.configs \union {c} /\ t.selected = r.selected \union new
      BY <2>2, <3>1, <3>3 DEF Alike, ProcRecord
    <3>5. QED
      BY <2>1, <3>2, <3>4 DEF Keeps
  <2>4. CASE r.at = "idle"
    BY <1>2, <1>3, <2>1, <2>2, <2>4 DEF Keeps, Alike, Busy
  <2>5. QED
    BY <2>3, <2>4
<1>4. proc'[p] = s
  BY DEF Told
<1>5. proc' \in [Proc -> ProcRecord]
  <2>1. \A q \in Proc : proc'[q] \in ProcRecord
    BY <1>3, <1>4
  <2>2. proc' = [q \in Proc |-> proc'[q]]
    BY DEF Told
  <2>3. QED
    BY <2>1, <2>2
<1>6. QED
  BY <1>3, <1>4, <1>5

LEMMA SameShared ==
  ASSUME CInv, UNCHANGED <<refs, config, selection>>, draft' \in 0 .. NoDraft
  PROVE  Shared'
BY DEF CInv, Shared, refs, Exists

LEMMA LocalStep ==
  ASSUME CInv, NEW p \in Proc, Busy(p), NEW s \in ProcRecord, s.at # "idle", s.run = proc[p].run,
         Sound(p, s), proc' = [proc EXCEPT ![p] = s],
         UNCHANGED <<refs, config, selection, runs>>, draft' \in 0 .. NoDraft
  PROVE  CInv'
<1>1. Sound(p, s)'
  BY DEF Sound, Context, Knowledge, refs
<1>2. used \subseteq used'
  BY DEF refs
<1>3. QED
  BY <1>1, <1>2, ProcExcept, SameShared, ProcStep DEF GoesOn

LEMMA EndStep ==
  ASSUME CInv, NEW p \in Proc, Busy(p), NEW result \in Results \ {"running"}, Ended(p, result),
         UNCHANGED <<refs, config, selection>>, draft' \in 0 .. NoDraft
  PROVE  CInv'
<1>1. used \subseteq used'
  BY DEF refs
<1>2. proc[p].target \in BugId \union {NoBug}
  BY RunFacts DEF ProcRecord
<1>3. proc' = [proc EXCEPT ![p] = Idle] /\ Answer(p, result, proc[p].target)
  BY DEF Ended
<1>4. QED
  BY <1>1, <1>2, <1>3, IdleFacts, IdleIsSound, ProcExcept, SameShared, ProcStep DEF Ends

LEMMA DraftFacts ==
  ASSUME CInv
  PROVE  /\ draft \in 0 .. NoDraft /\ NoDraft \in 0 .. NoDraft /\ Blank \in 0 .. NoDraft
         /\ \A n \in 0 .. MaxRuns : n \in 0 .. NoDraft
         /\ draft # NoDraft => draft \in 0 .. MaxRuns
BY BoundAssumption DEF CInv, Shared, NoDraft, Blank

LEMMA PlaceFacts ==
  /\ {"people", "read people", "read bugs", "resolve", "selection", "unselect", "input", "edit",
      "edited", "act", "remove", "select", "user stored", "set user", "wipe", "wipe files"}
       \subseteq Places \ {"idle"}
BY DEF Places, Loading, Asking, Ready, Typing

LEMMA ResultFacts ==
  "failed" \in Results \ {"running"} /\ "not loaded" \in Results \ {"running"}
  /\ "ok" \in Results \ {"running"} /\ "conflict" \in Results \ {"running"}
BY DEF Results
------------------------------------------------------------------------------
(* The steps of a run, one by one.                                         *)

LEMMA KillStep ==
  ASSUME CInv, NEW p \in Proc, Kill(p)
  PROVE  CInv'
BY EndStep, DraftFacts, ResultFacts DEF Kill, files

LEMMA ListPeopleStep ==
  ASSUME CInv, NEW p \in Proc, ListPeople(p)
  PROVE  CInv'
<1>1. PICK r, s : r = proc[p] /\ s = [r EXCEPT !.at = "read people", !.todo = people]
  OBVIOUS
<1>2. /\ r.at = "people" /\ Busy(p) /\ proc' = [proc EXCEPT ![p] = s]
      /\ UNCHANGED <<refs, files, runs>>
  BY <1>1 DEF ListPeople, At, Busy, ListRefs
<1>3. r \in ProcRecord /\ Sound(p, r)
  BY <1>1, <1>2, RunFacts
<1>4. people \subseteq Person /\ people \in SUBSET (Person \union BugId \union Kinds)
  BY DEF CInv, Shared
<1>5. s \in ProcRecord
  BY <1>1, <1>3, <1>4, PlaceFacts DEF ProcRecord
<1>6. Sound(p, s)
  BY <1>1, <1>2, <1>3, <1>4 DEF ProcRecord, Sound, Control, Begun, Asked, Resolved, Doing, Fresh,
     ActorShape, TargetShape, Context, Knowledge, Loading, Asking, Ready, Typing
<1>7. QED
  BY <1>1, <1>2, <1>3, <1>5, <1>6, DraftFacts, LocalStep DEF files, ProcRecord

LEMMA ReadPersonStep ==
  ASSUME CInv, NEW p \in Proc, ReadPerson(p)
  PROVE  CInv'
<1>1. PICK i \in proc[p].todo :
        IF i \in people
          THEN /\ proc' = [proc EXCEPT ![p].todo = @ \ {i}, ![p].known = @ \union {i}]
               /\ UNCHANGED runs
          ELSE NotLoaded(p)
  BY DEF ReadPerson
<1>2. proc[p].at = "read people" /\ Busy(p) /\ UNCHANGED <<refs, files>>
  BY DEF ReadPerson, At, Busy
<1>3. CASE i \in people
  <2>1. PICK r, s : r = proc[p] /\ s = [r EXCEPT !.todo = @ \ {i}, !.known = @ \union {i}]
    OBVIOUS
  <2>2. r \in ProcRecord /\ Sound(p, r) /\ i \in Person /\ i \in used
    BY <1>2, <1>3, <2>1, RunFacts DEF CInv, Shared
  <2>3. s \in ProcRecord
    BY <2>1, <2>2 DEF ProcRecord
  <2>4. Sound(p, s)
    BY <1>2, <2>1, <2>2 DEF ProcRecord, Sound, Control, Begun, Asked, Resolved, Doing, Fresh,
     Has, ActorShape, TargetShape, Context, Knowledge, Loading, Asking, Ready, Typing
  <2>5. proc' = [proc EXCEPT ![p] = s] /\ s.at # "idle" /\ s.run = proc[p].run
    BY <1>1, <1>2, <1>3, <2>1, <2>2 DEF ProcRecord
  <2>6. QED
    BY <1>1, <1>2, <1>3, <2>3, <2>4, <2>5, DraftFacts, LocalStep DEF files
<1>4. CASE i \notin people
  BY <1>1, <1>2, <1>4, DraftFacts, ResultFacts, EndStep DEF NotLoaded, files
<1>5. QED
  BY <1>3, <1>4

LEMMA ListBugsStep ==
  ASSUME CInv, NEW p \in Proc, ListBugs(p)
  PROVE  CInv'
<1>1. PICK r, s, there :
        /\ r = proc[p] /\ there = {b \in BugId : Exists(b)}
        /\ s = [r EXCEPT !.at = "read bugs", !.todo = there]
  OBVIOUS
<1>2. /\ r.at = "read people" /\ Busy(p) /\ proc' = [proc EXCEPT ![p] = s]
      /\ UNCHANGED <<refs, files, runs>>
  BY <1>1 DEF ListBugs, At, Busy, ListRefs
<1>3. r \in ProcRecord /\ Sound(p, r)
  BY <1>1, <1>2, RunFacts
<1>4. there \subseteq BugId /\ there \in SUBSET (Person \union BugId \union Kinds)
  BY <1>1
<1>5. s \in ProcRecord
  BY <1>1, <1>3, <1>4, PlaceFacts DEF ProcRecord
<1>6. Sound(p, s)
  BY <1>1, <1>2, <1>3, <1>4 DEF ProcRecord, Sound, Control, Begun, Asked, Resolved, Doing, Fresh,
     Has, ActorShape, TargetShape, Context, Knowledge, Loading, Asking, Ready, Typing
<1>7. QED
  BY <1>1, <1>2, <1>3, <1>5, <1>6, DraftFacts, LocalStep DEF files, ProcRecord

(* A process reads bug b, with what it has in its hands otherwise.         *)
LEMMA SeenFacts ==
  ASSUME CInv, NEW r \in ProcRecord, NEW b \in BugId, Exists(b)
  PROVE  /\ Count(b) \in Nat /\ Count(b) # 0 /\ b \in used
         /\ [r.seen EXCEPT ![b] = Count(b)] \in [BugId -> Nat]
         /\ \A d \in BugId :
              [r.seen EXCEPT ![b] = Count(b)][d] = IF d = b THEN Count(b) ELSE r.seen[d]
<1>1. bugs[b] \in Seq(OperationRecord) /\ bugs[b] # <<>>
  BY DEF CInv, Shared, Exists
<1>2. Len(bugs[b]) \in Nat /\ Len(bugs[b]) # 0
  BY <1>1
<1>3. r.seen \in [BugId -> Nat]
  BY DEF ProcRecord
<1>4. b \in used
  BY DEF CInv, Shared
<1>5. QED
  BY <1>2, <1>3, <1>4 DEF Count

LEMMA ReadBugStep ==
  ASSUME CInv, NEW p \in Proc, ReadBug(p)
  PROVE  CInv'
<1>1. PICK b \in proc[p].todo :
        IF Readable(p, b)
          THEN /\ proc' = [proc EXCEPT ![p].todo = @ \ {b}, ![p].seen[b] = Count(b)]
               /\ UNCHANGED runs
          ELSE NotLoaded(p)
  BY DEF ReadBug
<1>2. proc[p].at = "read bugs" /\ Busy(p) /\ UNCHANGED <<refs, files>>
  BY DEF ReadBug, At, Busy
<1>3. CASE Readable(p, b)
  <2>1. PICK r, seen, s :
          /\ r = proc[p] /\ seen = [r.seen EXCEPT ![b] = Count(b)]
          /\ s = [r EXCEPT !.todo = @ \ {b}, !.seen = seen]
    OBVIOUS
  <2>2. r \in ProcRecord /\ Sound(p, r) /\ b \in BugId /\ Exists(b)
    BY <1>2, <1>3, <2>1, RunFacts DEF Sound, Control, Begun, Readable
  <2>3. /\ seen \in [BugId -> Nat] /\ b \in used
        /\ \A d \in BugId : seen[d] # 0 => d = b \/ r.seen[d] # 0
    BY <2>1, <2>2, SeenFacts
  <2>4. s \in ProcRecord
    BY <2>1, <2>2, <2>3 DEF ProcRecord
  <2>5. Sound(p, s)
    BY <1>2, <2>1, <2>2, <2>3 DEF ProcRecord, Sound, Control, Begun, Asked, Resolved, Doing, Fresh,
     Has, ActorShape, TargetShape, Context, Knowledge, Loading, Asking, Ready, Typing
  <2>6. proc' = [proc EXCEPT ![p] = s] /\ s.at # "idle" /\ s.run = proc[p].run
    BY <1>1, <1>2, <1>3, <2>1, <2>2 DEF ProcRecord
  <2>7. QED
    BY <1>1, <1>2, <1>3, <2>4, <2>5, <2>6, DraftFacts, LocalStep DEF files
<1>4. CASE ~ Readable(p, b)
  BY <1>1, <1>2, <1>4, DraftFacts, ResultFacts, EndStep DEF NotLoaded, files
<1>5. QED
  BY <1>3, <1>4

LEMMA OfferedFacts ==
  ASSUME NEW p \in Proc, NEW cmd \in Offered[p]
  PROVE  cmd \in Repertoire
BY OfferedAssumption

(* Who acts: an identity of this run, or the default during it.            *)
LEMMA ActsStep ==
  ASSUME CInv, NEW p \in Proc, Loaded(p), NEW cmd \in Offered[p],
         NEW over \in Person \union {NoOne}, NEW i \in (Person \intersect used) \union {NoOne},
         cmd.user = "acting" => i # NoOne /\ (over = NoOne => i = config),
         over # NoOne => i = over,
         proc' = [proc EXCEPT ![p] = [proc[p] EXCEPT !.at = "resolve", !.cmd = cmd, !.actor = i,
                                                     !.over = over]],
         UNCHANGED <<refs, files, runs>>
  PROVE  CInv'
<1>1. PICK r, s :
        r = proc[p] /\ s = [r EXCEPT !.at = "resolve", !.cmd = cmd, !.actor = i, !.over = over]
  OBVIOUS
<1>2. r.at = "read bugs" /\ Busy(p)
  BY <1>1 DEF Loaded, At, Busy
<1>3. r \in ProcRecord /\ Sound(p, r) /\ cmd \in Repertoire
  BY <1>1, <1>2, RunFacts, OfferedFacts
<1>4. s \in ProcRecord
  BY <1>1, <1>3, PlaceFacts DEF ProcRecord
<1>5. Sound(p, s)
  BY <1>1, <1>2, <1>3 DEF ProcRecord, Sound, Control, Begun, Asked, Resolved, Doing, Fresh,
     Has, ActorShape, TargetShape, Context, Knowledge, Loading, Asking, Ready, Typing
<1>6. QED
  BY <1>1, <1>2, <1>3, <1>4, <1>5, DraftFacts, LocalStep DEF files, ProcRecord

LEMMA ActorStep ==
  ASSUME CInv, NEW p \in Proc, Actor(p)
  PROVE  CInv'
<1>1. Loaded(p) /\ Busy(p) /\ UNCHANGED <<refs, files>>
  BY DEF Actor, ActorOverride, ActorDefault, ActorNone, Runs, Loaded, At, Busy
<1>2. /\ proc[p] \in ProcRecord /\ proc[p].known \subseteq Person \intersect used
      /\ proc[p].over = NoOne
  <2>1. proc[p].at = "read bugs"
    BY <1>1 DEF Loaded, At
  <2>2. QED
    BY <1>1, <2>1, RunFacts DEF ProcRecord, Sound, Control, Begun, Fresh, Knowledge, Loading
<1>3. proc \in [Proc -> ProcRecord]
  BY DEF CInv
<1>4. CASE ActorOverride(p)
  <2>1. PICK cmd \in Offered[p], over \in Person :
          IF over \in proc[p].known THEN ActsAs(p, cmd, over) /\ UNCHANGED runs
                                    ELSE Ended(p, "failed")
    BY <1>4 DEF ActorOverride
  <2>2. CASE over \in proc[p].known
    <3>1. proc' = [proc EXCEPT ![p] = [proc[p] EXCEPT !.at = "resolve", !.cmd = cmd,
                                                      !.actor = over, !.over = over]]
      BY <2>1, <2>2 DEF ActsAs
    <3>2. over # NoOne
      BY EmptyAssumption
    <3>3. QED
      BY <1>1, <1>2, <2>1, <2>2, <3>1, <3>2, ActsStep
  <2>3. CASE over \notin proc[p].known
    BY <1>1, <2>1, <2>3, DraftFacts, ResultFacts, EndStep DEF files
  <2>4. QED
    BY <2>2, <2>3
<1>5. CASE ActorDefault(p)
  <2>1. PICK cmd \in Offered[p] :
          IF HasUserIdentity(p) THEN Acts(p, cmd, config) /\ UNCHANGED runs
                                ELSE Ended(p, "failed")
    BY <1>5 DEF ActorDefault
  <2>2. CASE HasUserIdentity(p)
    <3>1. proc' = [proc EXCEPT ![p] = [proc[p] EXCEPT !.at = "resolve", !.cmd = cmd,
                                                      !.actor = config, !.over = NoOne]]
      <4>1. [proc[p] EXCEPT !.at = "resolve", !.cmd = cmd, !.actor = config]
              = [proc[p] EXCEPT !.at = "resolve", !.cmd = cmd, !.actor = config, !.over = NoOne]
        BY <1>2 DEF ProcRecord
      <4>2. QED
        BY <2>1, <2>2, <4>1 DEF Acts
    <3>2. config # NoOne /\ config \in Person \intersect used
      BY <2>2 DEF HasUserIdentity, CInv, Shared
    <3>3. QED
      BY <1>1, <2>1, <2>2, <3>1, <3>2, ActsStep
  <2>3. CASE ~ HasUserIdentity(p)
    BY <1>1, <2>1, <2>3, DraftFacts, ResultFacts, EndStep DEF files
  <2>4. QED
    BY <2>2, <2>3
<1>6. CASE ActorNone(p)
  <2>1. PICK cmd \in Offered[p] : cmd.user = "any" /\ Acts(p, cmd, NoOne)
    BY <1>6 DEF ActorNone
  <2>2. proc' = [proc EXCEPT ![p] = [proc[p] EXCEPT !.at = "resolve", !.cmd = cmd,
                                                    !.actor = NoOne, !.over = NoOne]]
    <3>1. [proc[p] EXCEPT !.at = "resolve", !.cmd = cmd, !.actor = NoOne]
            = [proc[p] EXCEPT !.at = "resolve", !.cmd = cmd, !.actor = NoOne, !.over = NoOne]
      BY <1>2 DEF ProcRecord
    <3>2. QED
      BY <2>1, <3>1 DEF Acts
  <2>3. QED
    BY <1>1, <1>6, <2>1, <2>2, ActsStep DEF ActorNone
<1>7. QED
  BY <1>4, <1>5, <1>6 DEF Actor
------------------------------------------------------------------------------
(* What the command is about.                                              *)

(* The command has what it is about, b, or needs nothing.                  *)
LEMMA InputFacts ==
  ASSUME NEW p
  PROVE  \/ Input(p) = "act"
         \/ Input(p) = "input" /\ Cmd(p).text # "none"
BY DEF Input

LEMMA ResolveNothingStep ==
  ASSUME CInv, NEW p \in Proc, ResolveNothing(p)
  PROVE  CInv'
<1>1. PICK r, s, w : r = proc[p] /\ w = Input(p) /\ s = [r EXCEPT !.at = w]
  OBVIOUS
<1>2. /\ r.at = "resolve" /\ Busy(p) /\ r.cmd.target \in {"none", "person"}
      /\ proc' = [proc EXCEPT ![p] = s] /\ UNCHANGED <<refs, files, runs>>
  BY <1>1 DEF ResolveNothing, At, Busy, Go, Cmd
<1>3. r \in ProcRecord /\ Sound(p, r)
  BY <1>1, <1>2, RunFacts
<1>4. w = "act" \/ (w = "input" /\ r.cmd.text # "none")
  BY <1>1, InputFacts DEF Cmd
<1>5. r.cmd.act # "append"
  BY <1>2, <1>3, RepertoireFacts DEF ProcRecord
<1>6. s \in ProcRecord
  BY <1>1, <1>3, <1>4, PlaceFacts DEF ProcRecord
<1>7. Sound(p, s)
  BY <1>1, <1>2, <1>3, <1>4, <1>5 DEF ProcRecord, Sound, Control, Begun, Asked, Resolved, Doing, Fresh,
     Has, ActorShape, TargetShape, Context, Knowledge, Loading, Asking, Ready, Typing
<1>8. QED
  BY <1>1, <1>2, <1>3, <1>4, <1>6, <1>7, DraftFacts, LocalStep DEF files, ProcRecord

LEMMA NamedStep ==
  ASSUME CInv, NEW p \in Proc, At(p, "resolve"), Cmd(p).target \notin {"none", "person"},
         NEW b \in Known(p),
         proc' = [proc EXCEPT ![p] = [proc[p] EXCEPT !.at = Input(p), !.target = b, !.named = b]],
         UNCHANGED <<refs, files, runs>>
  PROVE  CInv'
<1>1. PICK r, s, w :
        r = proc[p] /\ w = Input(p) /\ s = [r EXCEPT !.at = w, !.target = b, !.named = b]
  OBVIOUS
<1>2. r.at = "resolve" /\ Busy(p) /\ r.cmd.target \notin {"none", "person"} /\ Has(r, b)
  BY <1>1 DEF At, Busy, Cmd, Known, Has
<1>3. r \in ProcRecord /\ Sound(p, r)
  BY <1>1, <1>2, RunFacts
<1>4. w = "act" \/ (w = "input" /\ r.cmd.text # "none")
  BY <1>1, InputFacts DEF Cmd
<1>5. s \in ProcRecord
  BY <1>1, <1>2, <1>3, <1>4, PlaceFacts DEF ProcRecord, Has
<1>6. Sound(p, s)
  BY <1>1, <1>2, <1>3, <1>4 DEF ProcRecord, Sound, Control, Begun, Asked, Resolved, Doing, Fresh,
     Has, ActorShape, TargetShape, Context, Knowledge, Loading, Asking, Ready, Typing
<1>7. QED
  BY <1>1, <1>2, <1>3, <1>4, <1>5, <1>6, DraftFacts, LocalStep DEF files, ProcRecord

LEMMA ResolvePrefixStep ==
  ASSUME CInv, NEW p \in Proc, ResolvePrefix(p)
  PROVE  CInv'
BY NamedStep DEF ResolvePrefix

LEMMA ResolveCommentStep ==
  ASSUME CInv, NEW p \in Proc, ResolveComment(p)
  PROVE  CInv'
<1>1. Busy(p) /\ UNCHANGED <<refs, files>> /\ At(p, "resolve") /\ Cmd(p).target = "comment"
  BY DEF ResolveComment, At, Busy
<1>2. CASE Ended(p, "failed")
  BY <1>1, <1>2, DraftFacts, ResultFacts, EndStep DEF files
<1>3. CASE ~ Ended(p, "failed")
  BY <1>1, <1>3, NamedStep DEF ResolveComment
<1>4. QED
  BY <1>2, <1>3

LEMMA ResolveMissingStep ==
  ASSUME CInv, NEW p \in Proc, ResolveMissing(p)
  PROVE  CInv'
<1>1. PICK r, s : r = proc[p] /\ s = [r EXCEPT !.at = "selection"]
  OBVIOUS
<1>2. r.at = "resolve" /\ Busy(p) /\ UNCHANGED <<refs, files>>
  BY <1>1 DEF ResolveMissing, At, Busy
<1>3. r \in ProcRecord /\ Sound(p, r)
  BY <1>1, <1>2, RunFacts
<1>4. CASE AllowSelection(p)
  <2>1. proc' = [proc EXCEPT ![p] = s] /\ UNCHANGED runs
    BY <1>1, <1>4 DEF ResolveMissing, Go
  <2>2. r.cmd.target = "selected" \/ (r.cmd.target = "mutation" /\ p \in Terminal)
    BY <1>1, <1>4 DEF AllowSelection, Cmd
  <2>3. s \in ProcRecord
    BY <1>1, <1>3, PlaceFacts DEF ProcRecord
  <2>4. Sound(p, s)
    BY <1>1, <1>2, <1>3, <2>2 DEF ProcRecord, Sound, Control, Begun, Asked, Resolved, Doing, Fresh,
     Has, ActorShape, TargetShape, Context, Knowledge, Loading, Asking, Ready, Typing
  <2>5. QED
    BY <1>1, <1>2, <1>3, <2>1, <2>3, <2>4, DraftFacts, LocalStep DEF files, ProcRecord
<1>5. CASE ~ AllowSelection(p)
  BY <1>2, <1>5, DraftFacts, ResultFacts, EndStep DEF ResolveMissing, files
<1>6. QED
  BY <1>4, <1>5

LEMMA UnselectedStep ==
  ASSUME CInv, NEW p \in Proc, At(p, "selection"), Go(p, "unselect"),
         UNCHANGED <<refs, files, runs>>
  PROVE  CInv'
<1>1. PICK r, s : r = proc[p] /\ s = [r EXCEPT !.at = "unselect"]
  OBVIOUS
<1>2. r.at = "selection" /\ Busy(p) /\ proc' = [proc EXCEPT ![p] = s]
  BY <1>1 DEF At, Busy, Go
<1>3. r \in ProcRecord /\ Sound(p, r)
  BY <1>1, <1>2, RunFacts
<1>4. s \in ProcRecord
  BY <1>1, <1>3, PlaceFacts DEF ProcRecord
<1>5. Sound(p, s)
  BY <1>1, <1>2, <1>3 DEF ProcRecord, Sound, Control, Begun, Asked, Resolved, Doing, Fresh,
     Has, ActorShape, TargetShape, Context, Knowledge, Loading, Asking, Ready, Typing
<1>6. QED
  BY <1>1, <1>2, <1>3, <1>4, <1>5, DraftFacts, LocalStep DEF files, ProcRecord

(* The selected bug is the target: of a change, only at a terminal, and it *)
(* was selected while the command ran.                                     *)
LEMMA SelectedStep ==
  ASSUME CInv, NEW p \in Proc, At(p, "selection"), selection \in BugId,
         NEW seen \in [BugId -> Nat], seen[selection] # 0,
         \A b \in BugId : seen[b] # 0 => b \in used,
         proc' = [proc EXCEPT ![p] = [proc[p] EXCEPT !.at = Input(p), !.target = selection,
                                                     !.seen = seen]],
         UNCHANGED <<refs, files, runs>>
  PROVE  CInv'
<1>1. PICK r, s, w, b :
        /\ r = proc[p] /\ w = Input(p) /\ b = selection
        /\ s = [r EXCEPT !.at = w, !.target = b, !.seen = seen]
  OBVIOUS
<1>2. r.at = "selection" /\ Busy(p)
  BY <1>1 DEF At, Busy
<1>3. r \in ProcRecord /\ Sound(p, r)
  BY <1>1, <1>2, RunFacts
<1>4. w = "act" \/ (w = "input" /\ r.cmd.text # "none")
  BY <1>1, InputFacts DEF Cmd
<1>5. r.cmd.target = "selected" \/ (r.cmd.target = "mutation" /\ p \in Terminal)
  BY <1>2, <1>3 DEF Sound, Control, Asked
<1>6. r.cmd.act = "append" => p \in Terminal
  BY <1>3, <1>5, RepertoireFacts DEF ProcRecord
<1>7. s \in ProcRecord
  BY <1>1, <1>3, <1>4, PlaceFacts DEF ProcRecord
<1>8. Sound(p, s)
  BY <1>1, <1>2, <1>3, <1>4, <1>5, <1>6 DEF ProcRecord, Sound, Control, Begun, Asked, Resolved, Doing, Fresh,
     Has, ActorShape, TargetShape, Context, Knowledge, Loading, Asking, Ready, Typing
<1>9. QED
  BY <1>1, <1>2, <1>3, <1>4, <1>7, <1>8, DraftFacts, LocalStep DEF files, ProcRecord

LEMMA ReadSelectionStep ==
  ASSUME CInv, NEW p \in Proc, ReadSelection(p)
  PROVE  CInv'
<1>1. At(p, "selection") /\ Busy(p) /\ UNCHANGED <<refs, files>>
  BY DEF ReadSelection, At, Busy
<1>2. proc[p] \in ProcRecord /\ Sound(p, proc[p]) /\ proc \in [Proc -> ProcRecord]
  BY <1>1, RunFacts DEF CInv
<1>3. NoFile \notin BugId \union {NoBug} /\ NoBug \notin BugId
  BY IdAssumption, EmptyAssumption DEF NoFile
<1>4. CASE selection = NoBug \/ (selection \in BugId \ Known(p) /\ ~ Exists(selection))
  <2>1. Go(p, "unselect") /\ UNCHANGED runs
    BY <1>3, <1>4 DEF ReadSelection, Readable, Known
  <2>2. QED
    BY <1>1, <2>1, UnselectedStep
<1>5. CASE selection \in Known(p)
  <2>1. Found(p, selection) /\ UNCHANGED runs
    BY <1>3, <1>5 DEF ReadSelection, Known
  <2>2. PICK seen : seen = proc[p].seen
    OBVIOUS
  <2>3. seen \in [BugId -> Nat] /\ selection \in BugId /\ seen[selection] # 0
    BY <1>2, <1>5, <2>2 DEF ProcRecord, Known
  <2>4. \A b \in BugId : seen[b] # 0 => b \in used
    BY <1>2, <2>2 DEF Sound, Knowledge
  <2>5. [proc[p] EXCEPT !.at = Input(p), !.target = selection]
          = [proc[p] EXCEPT !.at = Input(p), !.target = selection, !.seen = seen]
    BY <1>2, <2>2 DEF ProcRecord
  <2>6. proc' = [proc EXCEPT ![p] = [proc[p] EXCEPT !.at = Input(p), !.target = selection,
                                                    !.seen = seen]]
    BY <2>1, <2>5 DEF Found
  <2>7. QED
    BY <1>1, <2>1, <2>3, <2>4, <2>6, SelectedStep
<1>6. CASE selection \in BugId \ Known(p) /\ Readable(p, selection)
  <2>1. /\ proc' = [proc EXCEPT ![p].at = Input(p), ![p].target = selection,
                                ![p].seen[selection] = Count(selection)]
        /\ UNCHANGED runs
    BY <1>3, <1>6 DEF ReadSelection, Readable
  <2>2. PICK seen : seen = [proc[p].seen EXCEPT ![selection] = Count(selection)]
    OBVIOUS
  <2>3. /\ seen \in [BugId -> Nat] /\ selection \in BugId /\ seen[selection] # 0
        /\ \A b \in BugId : seen[b] # 0 => b = selection \/ proc[p].seen[b] # 0
        /\ selection \in used
    BY <1>2, <1>6, <2>2, SeenFacts DEF Readable
  <2>4. \A b \in BugId : seen[b] # 0 => b \in used
    BY <1>2, <2>3 DEF Sound, Knowledge
  <2>5. proc' = [proc EXCEPT ![p] = [proc[p] EXCEPT !.at = Input(p), !.target = selection,
                                                    !.seen = seen]]
    BY <1>2, <2>1, <2>2
  <2>6. QED
    BY <1>1, <2>1, <2>3, <2>4, <2>5, SelectedStep
<1>7. CASE /\ selection # NoBug /\ selection \notin Known(p)
           /\ selection \in BugId => Exists(selection) /\ ~ Readable(p, selection)
  <2>1. Ended(p, "failed")
    BY <1>3, <1>7 DEF ReadSelection, Readable, Known
  <2>2. QED
    BY <1>1, <2>1, DraftFacts, ResultFacts, EndStep DEF files
<1>8. QED
  BY <1>4, <1>5, <1>6, <1>7

(* A process ends, and a file goes away.                                   *)
LEMMA EndUnlinkedStep ==
  ASSUME CInv, NEW p \in Proc, Busy(p), NEW result \in Results \ {"running"},
         NEW b \in BugId \union {NoBug}, Answer(p, result, b),
         proc' = [Unlinked(proc) EXCEPT ![p] = Idle], selection' = NoFile,
         UNCHANGED <<refs, config>>, draft' \in 0 .. NoDraft
  PROVE  CInv'
<1>1. used \subseteq used'
  BY DEF refs
<1>2. Shared'
  BY DEF CInv, Shared, refs, Exists
<1>3. selection' \notin BugId
  BY IdAssumption DEF NoFile
<1>4. QED
  BY <1>1, <1>2, <1>3, IdleFacts, IdleIsSound, ProcUnlinked, ProcStep DEF Ends

LEMMA UnselectStep ==
  ASSUME CInv, NEW p \in Proc, Unselect(p)
  PROVE  CInv'
<1>1. Busy(p)
  BY DEF Unselect, At, Busy
<1>2. proc[p].target \in BugId \union {NoBug}
  BY <1>1, RunFacts DEF ProcRecord
<1>3. QED
  BY <1>1, <1>2, DraftFacts, ResultFacts, EndUnlinkedStep DEF Unselect
------------------------------------------------------------------------------
(* The text.                                                               *)

LEMMA TextStep ==
  ASSUME CInv, NEW p \in Proc, proc[p].at \in Typing, NEW where \in Typing \union {"act"},
         where \in Typing => Cmd(p).text # "none", NEW text \in 0 .. MaxRuns,
         proc' = [proc EXCEPT ![p] = [proc[p] EXCEPT !.at = where, !.text = text]],
         UNCHANGED <<refs, config, selection, runs>>, draft' \in 0 .. NoDraft
  PROVE  CInv'
<1>1. PICK r, s : r = proc[p] /\ s = [r EXCEPT !.at = where, !.text = text]
  OBVIOUS
<1>2. r.at \in Typing /\ Busy(p) /\ where \in Ready
  BY <1>1 DEF Busy, Typing, Ready
<1>3. r \in ProcRecord /\ Sound(p, r)
  BY <1>1, <1>2, RunFacts
<1>4. s \in ProcRecord
  <2>1. where \in Places
    BY <1>2 DEF Places
  <2>2. QED
    BY <1>1, <1>3, <2>1 DEF ProcRecord
<1>5. Sound(p, s)
  <2>1. where \in {"input", "edit", "edited", "act"} /\ r.at \in {"input", "edit", "edited"}
    BY <1>2 DEF Ready, Typing
  <2>2. where # "act" => r.cmd.text # "none"
    BY <1>1, <2>1 DEF Typing, Cmd
  <2>3. /\ s.at = where /\ s.seen = r.seen /\ s.known = r.known /\ s.cmd = r.cmd
        /\ s.over = r.over /\ s.named = r.named /\ s.actor = r.actor /\ s.target = r.target
        /\ s.configs = r.configs /\ s.selected = r.selected
    BY <1>1, <1>3 DEF ProcRecord
  <2>4. Control(p, s)
    BY <1>3, <2>1, <2>2, <2>3 DEF Sound, Control, Begun, Asked, Resolved, Doing, Has, Loading,
                                  Asking, Ready, Typing
  <2>5. ActorShape(s) /\ TargetShape(p, s) /\ Context(p, s) /\ Knowledge(s)
    BY <1>3, <2>1, <2>3 DEF Sound, ActorShape, TargetShape, Context, Knowledge, Ready, Typing
  <2>6. QED
    BY <2>4, <2>5 DEF Sound
<1>6. QED
  BY <1>1, <1>2, <1>3, <1>4, <1>5, LocalStep DEF ProcRecord, Ready, Typing

LEMMA KeepTextFacts ==
  ASSUME CInv, NEW p \in Proc, proc[p].at \in Typing
  PROVE  /\ Busy(p) /\ Cmd(p).text # "none" /\ proc[p].text \in 0 .. MaxRuns
         /\ proc[p].run \in 0 .. MaxRuns
         /\ \A where : [proc[p] EXCEPT !.at = where]
                         = [proc[p] EXCEPT !.at = where, !.text = proc[p].text]
<1>1. Busy(p)
  BY DEF Busy, Typing
<1>2. proc[p] \in ProcRecord /\ Sound(p, proc[p])
  BY <1>1, RunFacts
<1>3. QED
  BY <1>1, <1>2 DEF ProcRecord, Sound, Control, Resolved, Cmd

LEMMA FlagStep ==
  ASSUME CInv, NEW p \in Proc, Flag(p)
  PROVE  CInv'
<1>1. proc[p].at \in Typing /\ proc[p].run \in 0 .. MaxRuns
  BY KeepTextFacts DEF Flag, At, Typing
<1>2. proc' = [proc EXCEPT ![p] = [proc[p] EXCEPT !.at = "act", !.text = proc[p].run]]
  BY DEF Flag
<1>3. QED
  BY <1>1, <1>2, TextStep, DraftFacts DEF Flag, files, Typing

LEMMA TemplateStep ==
  ASSUME CInv, NEW p \in Proc, Template(p)
  PROVE  CInv'
<1>1. proc[p].at \in Typing
  BY DEF Template, At, Typing
<1>2. proc' = [proc EXCEPT ![p] = [proc[p] EXCEPT !.at = "edit", !.text = proc[p].text]]
  BY <1>1, KeepTextFacts DEF Template, Go
<1>3. QED
  BY <1>1, <1>2, KeepTextFacts, TextStep, DraftFacts DEF Template, Typing

LEMMA TypeStep ==
  ASSUME CInv, NEW p \in Proc, Type(p)
  PROVE  CInv'
<1>1. proc[p].at \in Typing
  BY DEF Type, At, Typing
<1>2. proc' = [proc EXCEPT ![p] = [proc[p] EXCEPT !.at = "edited", !.text = proc[p].text]]
  BY <1>1, KeepTextFacts DEF Type, Go
<1>3. draft' \in 0 .. NoDraft
  BY <1>1, KeepTextFacts, DraftFacts DEF Type
<1>4. QED
  BY <1>1, <1>2, <1>3, KeepTextFacts, TextStep DEF Type, Typing

LEMMA ReadDraftStep ==
  ASSUME CInv, NEW p \in Proc, ReadDraft(p)
  PROVE  CInv'
<1>1. proc[p].at \in Typing /\ Busy(p) /\ UNCHANGED <<refs, config, selection>> /\ draft' = NoDraft
  BY DEF ReadDraft, At, Typing, Busy
<1>2. CASE draft = NoDraft \/ Empty(p)
  BY <1>1, <1>2, DraftFacts, ResultFacts, EndStep DEF ReadDraft
<1>3. CASE draft # NoDraft /\ ~ Empty(p)
  <2>1. proc' = [proc EXCEPT ![p] = [proc[p] EXCEPT !.at = "act", !.text = draft]] /\ UNCHANGED runs
    BY <1>3 DEF ReadDraft
  <2>2. QED
    BY <1>1, <1>3, <2>1, DraftFacts, TextStep DEF Typing
<1>4. QED
  BY <1>2, <1>3
------------------------------------------------------------------------------
(* What the command does.                                                  *)

LEMMA ReadRefuseStep ==
  ASSUME CInv, NEW p \in Proc, Read(p) \/ Refuse(p) \/ AppendConflict(p)
  PROVE  CInv'
<1>1. Busy(p) /\ UNCHANGED <<refs, config, selection>> /\ UNCHANGED draft
  BY DEF Read, Refuse, AppendConflict, Does, At, Busy, files
<1>2. Ended(p, "ok") \/ Ended(p, "failed") \/ Ended(p, "conflict")
  BY DEF Read, Refuse, AppendConflict
<1>3. QED
  BY <1>1, <1>2, DraftFacts, ResultFacts, EndStep

(* An operation of a run is by somebody who exists.                        *)
LEMMA OpFacts ==
  ASSUME CInv, NEW p \in Proc, Does(p, "append") \/ Does(p, "create")
  PROVE  /\ Busy(p) /\ Op(p) \in OperationRecord /\ Op(p).run = proc[p].run /\ proc[p].run # 0
         /\ Op(p).text = proc[p].text
         /\ IF proc[p].over # NoOne THEN Op(p).by = proc[p].over
                                    ELSE Op(p).by \in proc[p].configs
<1>1. proc[p].at = "act" /\ Busy(p) /\ proc[p].cmd.act \in Writes
  BY DEF Does, At, Busy, Cmd, Writes
<1>2. proc[p] \in ProcRecord /\ Sound(p, proc[p]) /\ proc[p].run # 0
  BY <1>1, RunFacts
<1>3. proc[p].cmd.user = "acting"
  BY <1>1, <1>2, RepertoireFacts DEF ProcRecord
<1>4. /\ proc[p].actor \in Person
      /\ IF proc[p].over # NoOne THEN proc[p].actor = proc[p].over
                                 ELSE proc[p].actor \in proc[p].configs
  BY <1>1, <1>2, <1>3 DEF Sound, ActorShape, Ready
<1>5. QED
  BY <1>1, <1>2, <1>4 DEF Op, OperationRecord, ProcRecord

(* The run ends, and leaves the operations of a bug as they are now.       *)
LEMMA EndChangeStep ==
  ASSUME CInv, NEW p \in Proc, Busy(p), NEW result \in Results \ {"running"},
         NEW c \in BugId \union {NoBug}, Answer(p, result, c),
         proc' = [proc EXCEPT ![p] = Idle],
         NEW b \in BugId, NEW ops \in Seq(OperationRecord), bugs' = [bugs EXCEPT ![b] = ops],
         used' \in {used, used \union {b}}, ops # <<>> => b \in used',
         UNCHANGED <<files, people>>
  PROVE  CInv'
<1>1. used \subseteq used'
  OBVIOUS
<1>2. Shared'
  <2>1. bugs' \in [BugId -> Seq(OperationRecord)]
    BY DEF CInv, Shared
  <2>2. \A d \in BugId : bugs'[d] # <<>> => d \in used'
    BY <1>1 DEF CInv, Shared, Exists
  <2>3. used' \subseteq Person \union BugId
    BY DEF CInv, Shared
  <2>4. QED
    BY <1>1, <2>1, <2>2, <2>3, DraftFacts DEF CInv, Shared, files, Exists
<1>3. UNCHANGED <<config, selection>>
  BY DEF files
<1>4. QED
  BY <1>1, <1>2, <1>3, IdleFacts, IdleIsSound, ProcExcept, ProcStep DEF Ends

LEMMA TargetFacts ==
  ASSUME CInv, NEW p \in Proc,
         \/ Does(p, "append") \/ At(p, "remove") \/ Does(p, "remove")
         \/ Does(p, "select") \/ At(p, "select")
  PROVE  /\ Busy(p) /\ proc[p].target \in BugId /\ proc[p].seen[proc[p].target] # 0
         /\ proc[p].target \in used /\ bugs[proc[p].target] \in Seq(OperationRecord)
<1>1. Busy(p)
  BY DEF Does, At, Busy
<1>2. proc[p] \in ProcRecord /\ Sound(p, proc[p]) /\ Cmd(p) \in Repertoire \union {NoCommand}
  BY <1>1, RunFacts
<1>3. Has(proc[p], proc[p].target)
  BY <1>2, RepertoireFacts DEF Sound, Control, Resolved, Doing, Does, At, Cmd, Ready
<1>4. QED
  BY <1>1, <1>2, <1>3 DEF Has, Sound, Knowledge, CInv, Shared

LEMMA AppendOperationStep ==
  ASSUME CInv, NEW p \in Proc, AppendOperation(p)
  PROVE  CInv'
<1>1. PICK b, ops : b = proc[p].target /\ ops = Append(bugs[b], Op(p))
  OBVIOUS
<1>2. Does(p, "append") /\ bugs' = [bugs EXCEPT ![b] = ops] /\ UNCHANGED <<files, people, used>>
  BY <1>1 DEF AppendOperation
<1>3. b \in BugId /\ b \in used /\ ops \in Seq(OperationRecord) /\ Busy(p)
  BY <1>1, <1>2, OpFacts, TargetFacts
<1>4. proc' = [proc EXCEPT ![p] = Idle] /\ Answer(p, "ok", b)
  BY <1>1 DEF AppendOperation, Ended
<1>5. QED
  BY <1>2, <1>3, <1>4, ResultFacts, EndChangeStep

LEMMA CreateStep ==
  ASSUME CInv, NEW p \in Proc, Create(p)
  PROVE  CInv'
<1>1. PICK b \in BugId \ used : /\ bugs' = [bugs EXCEPT ![b] = <<Op(p)>>]
                                /\ used' = used \union {b} /\ Answer(p, "ok", b)
  BY DEF Create
<1>2. Busy(p) /\ <<Op(p)>> \in Seq(OperationRecord)
  BY OpFacts DEF Create
<1>3. QED
  BY <1>1, <1>2, ResultFacts, EndChangeStep DEF Create

LEMMA RemoveResolveStep ==
  ASSUME CInv, NEW p \in Proc, RemoveResolve(p)
  PROVE  CInv'
<1>1. PICK r, b, seen, s :
        /\ r = proc[p] /\ b = r.target /\ seen = [r.seen EXCEPT ![b] = Count(b)]
        /\ s = [r EXCEPT !.at = "remove", !.seen = seen]
  OBVIOUS
<1>2. Does(p, "remove") /\ UNCHANGED <<refs, files>> /\ r.at = "act" /\ r.cmd.act = "remove"
  BY <1>1 DEF RemoveResolve, Does, At, Cmd
<1>3. r \in ProcRecord /\ Sound(p, r) /\ b \in BugId /\ Busy(p)
  BY <1>1, <1>2, RunFacts, TargetFacts
<1>4. CASE Exists(b)
  <2>1. /\ seen \in [BugId -> Nat] /\ b \in used /\ seen[b] # 0
        /\ \A d \in BugId : seen[d] # 0 => d = b \/ r.seen[d] # 0
    BY <1>1, <1>3, <1>4, SeenFacts
  <2>2. s \in ProcRecord
    BY <1>1, <1>3, <2>1, PlaceFacts DEF ProcRecord
  <2>3. Sound(p, s)
    BY <1>1, <1>2, <1>3, <2>1 DEF ProcRecord, Sound, Control, Begun, Asked, Resolved, Doing, Fresh,
     Has, ActorShape, TargetShape, Context, Knowledge, Loading, Asking, Ready, Typing
  <2>4. proc' = [proc EXCEPT ![p] = s] /\ UNCHANGED runs
    <3>1. /\ proc' = [proc EXCEPT ![p].at = "remove", ![p].seen[b] = Count(b)]
          /\ UNCHANGED runs
      BY <1>1, <1>4 DEF RemoveResolve
    <3>2. QED
      BY <1>1, <3>1 DEF CInv
  <2>5. QED
    BY <1>1, <1>2, <1>3, <2>2, <2>3, <2>4, DraftFacts, LocalStep DEF files, ProcRecord
<1>5. CASE ~ Exists(b)
  BY <1>1, <1>2, <1>3, <1>5, DraftFacts, ResultFacts, EndStep DEF RemoveResolve, files
<1>6. QED
  BY <1>4, <1>5

LEMMA RemoveIfMatchesStep ==
  ASSUME CInv, NEW p \in Proc, RemoveIfMatches(p)
  PROVE  CInv'
<1>1. PICK b : b = proc[p].target
  OBVIOUS
<1>2. At(p, "remove") /\ UNCHANGED <<files, people, used>> /\ b \in BugId /\ Busy(p)
  BY <1>1, TargetFacts DEF RemoveIfMatches
<1>3. CASE Count(b) \in {0, proc[p].seen[b]}
  <2>1. bugs' = [bugs EXCEPT ![b] = <<>>] /\ Answer(p, "ok", b) /\ proc' = [proc EXCEPT ![p] = Idle]
    BY <1>1, <1>3 DEF RemoveIfMatches, Ended
  <2>2. <<>> \in Seq(OperationRecord)
    OBVIOUS
  <2>3. QED
    BY <1>2, <2>1, <2>2, ResultFacts, EndChangeStep
<1>4. CASE Count(b) \notin {0, proc[p].seen[b]}
  BY <1>1, <1>2, <1>4, DraftFacts, ResultFacts, EndStep DEF RemoveIfMatches, refs, files
<1>5. QED
  BY <1>3, <1>4

(* The run goes on, and something that is shared changes.                  *)
LEMMA ChangeStep ==
  ASSUME CInv, NEW p \in Proc, Busy(p), NEW s \in ProcRecord, s.at # "idle", s.run = proc[p].run,
         proc' = [proc EXCEPT ![p] = s], Sound(p, s)', Shared', used \subseteq used',
         UNCHANGED <<config, runs>>, selection' = selection \/ selection' \notin BugId
  PROVE  CInv'
BY ProcExcept, ProcStep DEF GoesOn

LEMMA SelectOpenStep ==
  ASSUME CInv, NEW p \in Proc, SelectOpen(p)
  PROVE  CInv'
<1>1. PICK r, s : r = proc[p] /\ s = [r EXCEPT !.at = "select", !.fd = "open"]
  OBVIOUS
<1>2. /\ Does(p, "select") /\ r.at = "act" /\ r.cmd.act = "select" /\ selection' = NoBug
      /\ proc' = [proc EXCEPT ![p] = s] /\ UNCHANGED <<refs, config, draft, runs>>
  BY <1>1 DEF SelectOpen, Does, At, Cmd
<1>3. r \in ProcRecord /\ Sound(p, r) /\ Busy(p) /\ Has(r, r.target)
  BY <1>1, <1>2, RunFacts, TargetFacts DEF Has
<1>4. s \in ProcRecord
  BY <1>1, <1>3, PlaceFacts DEF ProcRecord
<1>5. selection' \notin BugId
  BY <1>2, EmptyAssumption
<1>6. Control(p, s) /\ ActorShape(s) /\ TargetShape(p, s)
  BY <1>1, <1>2, <1>3 DEF ProcRecord, Sound, Control, Begun, Asked, Resolved, Doing, Has,
                          ActorShape, TargetShape, Loading, Asking, Ready, Typing
<1>7. Context(p, s)' /\ Knowledge(s)'
  BY <1>1, <1>2, <1>3, <1>5 DEF ProcRecord, Sound, Context, Knowledge, refs
<1>8. Shared'
  BY <1>2, DraftFacts DEF CInv, Shared, refs, Exists
<1>9. Sound(p, s)'
  BY <1>6, <1>7 DEF Sound, Control, Begun, Asked, Resolved, Doing, ActorShape, TargetShape
<1>10. QED
  BY <1>1, <1>2, <1>3, <1>4, <1>5, <1>8, <1>9, ChangeStep DEF refs, ProcRecord

(* A process ends, and everybody is told of what a file has now.           *)
LEMMA EndToldStep ==
  ASSUME CInv, NEW p \in Proc, Busy(p), Answer(p, "ok", NoBug),
         proc' = [Told(config', selection') EXCEPT ![p] = Idle],
         config' \in (Person \intersect used) \union {NoOne},
         selection' \in BugId \union {NoBug, NoFile}, UNCHANGED <<refs, draft>>
  PROVE  CInv'
<1>1. used \subseteq used'
  BY DEF refs
<1>2. Shared'
  BY DraftFacts DEF CInv, Shared, refs, Exists
<1>3. Ends(p, Idle)
  BY ResultFacts DEF Ends
<1>4. QED
  BY <1>1, <1>2, <1>3, IdleFacts, IdleIsSound, ProcTold, ProcStep

LEMMA SelectWriteStep ==
  ASSUME CInv, NEW p \in Proc, SelectWrite(p)
  PROVE  CInv'
<1>1. Busy(p) /\ proc[p].target \in BugId
  BY TargetFacts DEF SelectWrite
<1>2. config' \in (Person \intersect used) \union {NoOne}
  BY DEF SelectWrite, CInv, Shared
<1>3. selection' \in BugId \union {NoBug, NoFile}
  BY <1>1 DEF SelectWrite, CInv, Shared
<1>4. proc' = [Told(config', selection') EXCEPT ![p] = Idle]
  BY DEF SelectWrite, Told
<1>5. QED
  BY <1>1, <1>2, <1>3, <1>4, EndToldStep DEF SelectWrite

LEMMA DeselectStep ==
  ASSUME CInv, NEW p \in Proc, Deselect(p)
  PROVE  CInv'
<1>1. Busy(p)
  BY DEF Deselect, Does, At, Busy
<1>2. PICK result \in {"failed", "ok"} : Answer(p, result, NoBug)
  BY DEF Deselect
<1>3. QED
  BY <1>1, <1>2, DraftFacts, ResultFacts, EndUnlinkedStep DEF Deselect

LEMMA UserStoreStep ==
  ASSUME CInv, NEW p \in Proc, UserStore(p)
  PROVE  CInv'
<1>1. PICK i \in Person \ used :
        /\ people' = people \union {i} /\ used' = used \union {i}
        /\ proc' = [proc EXCEPT ![p].at = "user stored", ![p].actor = i]
  BY DEF UserStore
<1>2. PICK r, s : r = proc[p] /\ s = [r EXCEPT !.at = "user stored", !.actor = i]
  OBVIOUS
<1>3. /\ r.at = "act" /\ r.cmd.act = "user new" /\ Busy(p) /\ UNCHANGED <<files, bugs, runs>>
      /\ proc' = [proc EXCEPT ![p] = s]
  BY <1>1, <1>2 DEF UserStore, Does, At, Cmd, Busy
<1>4. r \in ProcRecord /\ Sound(p, r)
  BY <1>2, <1>3, RunFacts
<1>5. s \in ProcRecord
  BY <1>2, <1>4, PlaceFacts DEF ProcRecord
<1>6. Control(p, s) /\ ActorShape(s) /\ TargetShape(p, s)
  BY <1>2, <1>3, <1>4 DEF ProcRecord, Sound, Control, Begun, Asked, Resolved, Doing, Has,
                          ActorShape, TargetShape, Loading, Asking, Ready, Typing
<1>7. Context(p, s)' /\ Knowledge(s)'
  BY <1>1, <1>2, <1>3, <1>4 DEF ProcRecord, Sound, Context, Knowledge, files
<1>8. Shared'
  BY <1>1, <1>3, DraftFacts DEF CInv, Shared, files, Exists
<1>9. Sound(p, s)'
  BY <1>6, <1>7 DEF Sound, Control, Begun, Asked, Resolved, Doing, ActorShape, TargetShape
<1>10. QED
  BY <1>1, <1>2, <1>3, <1>4, <1>5, <1>8, <1>9, ChangeStep DEF files, ProcRecord

LEMMA UserIsSetStep ==
  ASSUME CInv, NEW p \in Proc, UserIsSet(p)
  PROVE  CInv'
<1>1. PICK r, s : r = proc[p] /\ s = [r EXCEPT !.at = "set user"]
  OBVIOUS
<1>2. r.at = "user stored" /\ Busy(p) /\ UNCHANGED <<refs, files>>
  BY <1>1 DEF UserIsSet, At, Busy
<1>3. r \in ProcRecord /\ Sound(p, r)
  BY <1>1, <1>2, RunFacts
<1>4. CASE config = NoOne
  <2>1. s \in ProcRecord
    BY <1>1, <1>3, PlaceFacts DEF ProcRecord
  <2>2. Sound(p, s)
    BY <1>1, <1>2, <1>3, <1>4 DEF ProcRecord, Sound, Control, Begun, Asked, Resolved, Doing, Fresh,
     Has, ActorShape, TargetShape, Context, Knowledge, Loading, Asking, Ready, Typing
  <2>3. proc' = [proc EXCEPT ![p] = s] /\ UNCHANGED runs
    BY <1>1, <1>4 DEF UserIsSet, Go
  <2>4. s.at # "idle" /\ s.run = proc[p].run
    BY <1>1, <1>3 DEF ProcRecord
  <2>5. QED
    BY <1>2, <2>1, <2>2, <2>3, <2>4, DraftFacts, LocalStep DEF files
<1>5. CASE config # NoOne
  BY <1>2, <1>5, DraftFacts, ResultFacts, EndStep DEF UserIsSet, files
<1>6. QED
  BY <1>4, <1>5

LEMMA UserAdopteeStep ==
  ASSUME CInv, NEW p \in Proc, UserAdoptee(p)
  PROVE  CInv'
<1>1. /\ proc[p].at = "act" /\ proc[p].cmd.act = "user adopt" /\ Busy(p) /\ UNCHANGED <<refs, files>>
  BY DEF UserAdoptee, Does, At, Cmd, Busy
<1>2. CASE Ended(p, "failed")
  BY <1>1, <1>2, DraftFacts, ResultFacts, EndStep DEF files
<1>3. CASE ~ Ended(p, "failed")
  <2>1. PICK i \in proc[p].known :
          proc' = [proc EXCEPT ![p].at = "set user", ![p].actor = i] /\ UNCHANGED runs
    BY <1>3 DEF UserAdoptee
  <2>2. PICK r, s : r = proc[p] /\ s = [r EXCEPT !.at = "set user", !.actor = i]
    OBVIOUS
  <2>3. r \in ProcRecord /\ Sound(p, r) /\ i \in Person /\ i \in used
    BY <1>1, <2>2, RunFacts DEF ProcRecord, Sound, Knowledge
  <2>4. s \in ProcRecord
    BY <2>2, <2>3, PlaceFacts DEF ProcRecord
  <2>5. Sound(p, s)
    BY <1>1, <2>2, <2>3 DEF ProcRecord, Sound, Control, Begun, Asked, Resolved, Doing, Fresh,
     Has, ActorShape, TargetShape, Context, Knowledge, Loading, Asking, Ready, Typing
  <2>6. proc' = [proc EXCEPT ![p] = s] /\ s.at # "idle" /\ s.run = proc[p].run
    BY <2>1, <2>2, <2>3 DEF ProcRecord
  <2>7. QED
    BY <1>1, <2>1, <2>4, <2>5, <2>6, DraftFacts, LocalStep DEF files
<1>4. QED
  BY <1>2, <1>3

LEMMA SetUserIdentityStep ==
  ASSUME CInv, NEW p \in Proc, SetUserIdentity(p)
  PROVE  CInv'
<1>1. proc[p].at = "set user" /\ Busy(p)
  BY DEF SetUserIdentity, At, Busy
<1>2. proc[p].actor \in Person \intersect used
  BY <1>1, RunFacts, EmptyAssumption DEF Sound, Control, Doing, Knowledge
<1>3. proc' = [Told(config', selection') EXCEPT ![p] = Idle]
  BY DEF SetUserIdentity, Told
<1>4. QED
  BY <1>1, <1>2, <1>3, EndToldStep DEF SetUserIdentity, CInv, Shared
------------------------------------------------------------------------------
(* wipe.                                                                   *)

(* A wipe goes on with something else to remove.                           *)
LEMMA WipeShape ==
  ASSUME NEW p, NEW r \in ProcRecord, Sound(p, r), NEW s \in ProcRecord,
         r.at \in {"act", "wipe"}, r.cmd.act = "wipe", s.at = "wipe", s.cmd = r.cmd
  PROVE  Control(p, s) /\ ActorShape(s) /\ TargetShape(p, s)
BY DEF Sound, Control, Begun, Asked, Resolved, Doing, Has, ActorShape, TargetShape, Loading,
       Asking, Ready, Typing

LEMMA WipeLocalStep ==
  ASSUME CInv, NEW p \in Proc, proc[p].at \in {"act", "wipe"}, Cmd(p).act = "wipe",
         NEW todo \in SUBSET (Person \union BugId \union Kinds),
         NEW target \in BugId \union {NoBug}, NEW seen \in [BugId -> Nat],
         \A b \in BugId : seen[b] # 0 => b \in used,
         NEW s, s = [proc[p] EXCEPT !.at = "wipe", !.todo = todo, !.target = target, !.seen = seen],
         proc' = [proc EXCEPT ![p] = s], UNCHANGED <<refs, files, runs>>
  PROVE  CInv'
<1>1. PICK r :
        r = proc[p] /\ s = [r EXCEPT !.at = "wipe", !.todo = todo, !.target = target, !.seen = seen]
  OBVIOUS
<1>2. r \in ProcRecord /\ Sound(p, r) /\ Busy(p) /\ r.cmd.act = "wipe"
  BY <1>1, RunFacts DEF Busy, Cmd
<1>3. s \in ProcRecord
  BY <1>1, <1>2, PlaceFacts DEF ProcRecord
<1>4. /\ s.at = "wipe" /\ s.cmd = r.cmd /\ s.configs = r.configs /\ s.selected = r.selected
      /\ s.known = r.known /\ s.actor = r.actor /\ s.seen = seen /\ s.run = r.run
  BY <1>1, <1>2 DEF ProcRecord
<1>5. Control(p, s) /\ ActorShape(s) /\ TargetShape(p, s)
  BY <1>1, <1>2, <1>3, <1>4, WipeShape
<1>6. Context(p, s) /\ Knowledge(s)
  BY <1>1, <1>2, <1>4 DEF Sound, Context, Knowledge, Busy
<1>7. Sound(p, s)
  BY <1>5, <1>6 DEF Sound
<1>8. QED
  BY <1>1, <1>2, <1>3, <1>4, <1>7, DraftFacts, LocalStep DEF files

LEMMA WipeFacts ==
  ASSUME CInv, NEW p \in Proc, At(p, "wipe") \/ Does(p, "wipe")
  PROVE  /\ Busy(p) /\ Cmd(p).act = "wipe" /\ proc[p] \in ProcRecord /\ Sound(p, proc[p])
         /\ proc[p].todo \subseteq Person \union BugId \union Kinds
         /\ proc[p].seen \in [BugId -> Nat] /\ proc[p].target \in BugId \union {NoBug}
         /\ \A b \in BugId : proc[p].seen[b] # 0 => b \in used
<1>1. Busy(p)
  BY DEF At, Does, Busy
<1>2. proc[p] \in ProcRecord /\ Sound(p, proc[p])
  BY <1>1, RunFacts
<1>3. QED
  BY <1>1, <1>2 DEF ProcRecord, Sound, Knowledge, Control, Doing, At, Does, Cmd

(* The wipe keeps its target and what it has seen.                         *)
LEMMA WipeTodoStep ==
  ASSUME CInv, NEW p \in Proc, WipeBegin(p) \/ At(p, "wipe"), proc[p].at \in {"act", "wipe"},
         NEW todo \in SUBSET (Person \union BugId \union Kinds),
         NEW s, s = [proc[p] EXCEPT !.at = "wipe", !.todo = todo], proc' = [proc EXCEPT ![p] = s],
         UNCHANGED <<refs, files, runs>>
  PROVE  CInv'
<1>1. PICK target, seen : target = proc[p].target /\ seen = proc[p].seen
  OBVIOUS
<1>2. /\ Cmd(p).act = "wipe" /\ seen \in [BugId -> Nat] /\ target \in BugId \union {NoBug}
      /\ (\A b \in BugId : seen[b] # 0 => b \in used) /\ proc[p] \in ProcRecord
  BY <1>1, WipeFacts DEF WipeBegin
<1>3. s = [proc[p] EXCEPT !.at = "wipe", !.todo = todo, !.target = target, !.seen = seen]
  BY <1>1, <1>2 DEF ProcRecord
<1>4. QED
  BY <1>2, <1>3, WipeLocalStep

LEMMA WipeBeginStep ==
  ASSUME CInv, NEW p \in Proc, WipeBegin(p)
  PROVE  CInv'
<1>1. PICK todo, s :
        todo = {"bugs", "people"} /\ s = [proc[p] EXCEPT !.at = "wipe", !.todo = todo]
  OBVIOUS
<1>2. proc' = [proc EXCEPT ![p] = s]
  BY <1>1 DEF WipeBegin
<1>3. proc[p].at = "act" /\ UNCHANGED <<refs, files, runs>>
  BY DEF WipeBegin, Does, At
<1>4. todo \in SUBSET (Person \union BugId \union Kinds)
  BY <1>1 DEF Kinds
<1>5. QED
  BY <1>1, <1>2, <1>3, <1>4, WipeTodoStep

(* Writing where the wipe already is changes nothing.                      *)
LEMMA WipeAtFacts ==
  ASSUME CInv, NEW p \in Proc, At(p, "wipe"), NEW todo
  PROVE  [proc[p] EXCEPT !.todo = todo] = [proc[p] EXCEPT !.at = "wipe", !.todo = todo]
<1>1. proc[p] \in ProcRecord /\ proc[p].at = "wipe"
  BY WipeFacts DEF At
<1>2. QED
  BY <1>1 DEF ProcRecord

LEMMA WipeListStep ==
  ASSUME CInv, NEW p \in Proc, WipeList(p)
  PROVE  CInv'
<1>1. PICK kind \in proc[p].todo \intersect {"bugs", "people"} :
        proc' = [proc EXCEPT ![p].todo = (@ \ {kind}) \union ListRefs(kind)]
  BY DEF WipeList
<1>2. PICK todo, s : /\ todo = (proc[p].todo \ {kind}) \union ListRefs(kind)
                     /\ s = [proc[p] EXCEPT !.todo = todo]
  OBVIOUS
<1>3. At(p, "wipe") /\ proc[p].at \in {"act", "wipe"} /\ UNCHANGED <<refs, files, runs>>
  BY DEF WipeList, At
<1>4. proc' = [proc EXCEPT ![p] = s] /\ s = [proc[p] EXCEPT !.at = "wipe", !.todo = todo]
  BY <1>1, <1>2, <1>3, WipeAtFacts
<1>5. ListRefs(kind) \subseteq Person \union BugId
  BY DEF ListRefs, CInv, Shared
<1>6. todo \in SUBSET (Person \union BugId \union Kinds)
  BY <1>2, <1>3, <1>5, WipeFacts
<1>7. QED
  BY <1>3, <1>4, <1>6, WipeTodoStep

LEMMA WipeResolveStep ==
  ASSUME CInv, NEW p \in Proc, WipeResolve(p)
  PROVE  CInv'
<1>1. PICK b \in proc[p].todo \intersect BugId :
        proc' = IF Exists(b) THEN [proc EXCEPT ![p].target = b, ![p].seen[b] = Count(b)]
                             ELSE [proc EXCEPT ![p].todo = @ \ {b}]
  BY DEF WipeResolve
<1>2. At(p, "wipe") /\ proc[p].at \in {"act", "wipe"} /\ UNCHANGED <<refs, files, runs>>
  BY DEF WipeResolve, At
<1>3. CASE Exists(b)
  <2>1. PICK r, todo, seen, s :
          /\ r = proc[p] /\ todo = r.todo /\ seen = [r.seen EXCEPT ![b] = Count(b)]
          /\ s = [r EXCEPT !.target = b, !.seen = seen]
    OBVIOUS
  <2>2. /\ r \in ProcRecord /\ r.at = "wipe" /\ proc \in [Proc -> ProcRecord]
        /\ todo \in SUBSET (Person \union BugId \union Kinds) /\ Cmd(p).act = "wipe"
    BY <1>2, <2>1, WipeFacts DEF At, CInv
  <2>3. proc' = [proc EXCEPT ![p] = s]
    BY <1>1, <1>3, <2>1, <2>2
  <2>4. s = [proc[p] EXCEPT !.at = "wipe", !.todo = todo, !.target = b, !.seen = seen]
    BY <2>1, <2>2 DEF ProcRecord
  <2>5. /\ seen \in [BugId -> Nat] /\ b \in used
        /\ \A d \in BugId : seen[d] # 0 => d = b \/ r.seen[d] # 0
    BY <1>3, <2>1, <2>2, SeenFacts
  <2>6. \A d \in BugId : seen[d] # 0 => d \in used
    BY <1>2, <2>1, <2>5, WipeFacts
  <2>7. QED
    BY <1>2, <2>2, <2>3, <2>4, <2>5, <2>6, WipeLocalStep
<1>4. CASE ~ Exists(b)
  <2>1. PICK todo, s : todo = proc[p].todo \ {b} /\ s = [proc[p] EXCEPT !.todo = todo]
    OBVIOUS
  <2>2. proc' = [proc EXCEPT ![p] = s] /\ s = [proc[p] EXCEPT !.at = "wipe", !.todo = todo]
    BY <1>1, <1>2, <1>4, <2>1, WipeAtFacts
  <2>3. todo \in SUBSET (Person \union BugId \union Kinds)
    BY <1>2, <2>1, WipeFacts
  <2>4. QED
    BY <1>2, <2>2, <2>3, WipeTodoStep
<1>5. QED
  BY <1>3, <1>4

(* A wipe removes one reference, or gives up on a kind.                    *)
LEMMA WipeChangeStep ==
  ASSUME CInv, NEW p \in Proc, At(p, "wipe"), NEW s \in ProcRecord, s.at = "wipe",
         s.cmd = proc[p].cmd, s.run = proc[p].run, s.configs = proc[p].configs,
         s.selected = proc[p].selected, s.known = proc[p].known, s.actor = proc[p].actor,
         s.seen = proc[p].seen, proc' = [proc EXCEPT ![p] = s],
         bugs' = bugs \/ \E b \in BugId : bugs' = [bugs EXCEPT ![b] = <<>>],
         people' \subseteq people, UNCHANGED <<files, used, runs>>
  PROVE  CInv'
<1>1. PICK r : r = proc[p]
  OBVIOUS
<1>2. r \in ProcRecord /\ Sound(p, r) /\ Busy(p) /\ r.cmd.act = "wipe" /\ r.at = "wipe"
  BY <1>1, WipeFacts DEF Cmd, At
<1>3. Control(p, s) /\ ActorShape(s) /\ TargetShape(p, s)
  BY <1>1, <1>2, WipeShape
<1>4. Context(p, s)' /\ Knowledge(s)'
  BY <1>1, <1>2 DEF Sound, Context, Knowledge, files
<1>5. Sound(p, s)'
  BY <1>3, <1>4 DEF Sound, Control, Begun, Asked, Resolved, Doing, ActorShape, TargetShape
<1>6. bugs' \in [BugId -> Seq(OperationRecord)] /\ \A b \in BugId : bugs'[b] # <<>> => b \in used
  <2>1. bugs \in [BugId -> Seq(OperationRecord)] /\ \A b \in BugId : bugs[b] # <<>> => b \in used
    BY DEF CInv, Shared, Exists
  <2>2. ASSUME NEW b \in BugId, bugs' = [bugs EXCEPT ![b] = <<>>]
        PROVE  /\ bugs' \in [BugId -> Seq(OperationRecord)]
               /\ \A d \in BugId : bugs'[d] # <<>> => d \in used
    <3>1. <<>> \in Seq(OperationRecord)
      OBVIOUS
    <3>2. QED
      BY <2>1, <2>2, <3>1
  <2>3. QED
    BY <2>1, <2>2
<1>7. Shared'
  BY <1>6, DraftFacts DEF CInv, Shared, files, Exists
<1>8. QED
  BY <1>1, <1>2, <1>5, <1>7, ChangeStep DEF files

LEMMA WipeBugStep ==
  ASSUME CInv, NEW p \in Proc, WipeBug(p)
  PROVE  CInv'
<1>1. PICK r, b, s, t :
        /\ r = proc[p] /\ b = r.target /\ s = [r EXCEPT !.target = NoBug, !.todo = @ \ {b}]
        /\ t = [r EXCEPT !.target = NoBug, !.todo = @ \ BugId, !.failed = TRUE]
  OBVIOUS
<1>2. At(p, "wipe") /\ r.at = "wipe" /\ r \in ProcRecord /\ b \in BugId
  BY <1>1, WipeFacts DEF WipeBug, At
<1>3. UNCHANGED <<files, people, used, runs>>
  BY DEF WipeBug
<1>4. CASE Count(b) \in {0, r.seen[b]}
  <2>1. bugs' = [bugs EXCEPT ![b] = <<>>] /\ proc' = [proc EXCEPT ![p] = s]
    BY <1>1, <1>4 DEF WipeBug
  <2>2. /\ s \in ProcRecord /\ s.at = "wipe" /\ s.cmd = r.cmd /\ s.run = r.run
        /\ s.configs = r.configs /\ s.selected = r.selected /\ s.known = r.known
        /\ s.actor = r.actor /\ s.seen = r.seen
    BY <1>1, <1>2 DEF ProcRecord
  <2>3. QED
    BY <1>1, <1>2, <1>3, <2>1, <2>2, WipeChangeStep
<1>5. CASE Count(b) \notin {0, r.seen[b]}
  <2>1. UNCHANGED bugs /\ proc' = [proc EXCEPT ![p] = t]
    BY <1>1, <1>5 DEF WipeBug
  <2>2. /\ t \in ProcRecord /\ t.at = "wipe" /\ t.cmd = r.cmd /\ t.run = r.run
        /\ t.configs = r.configs /\ t.selected = r.selected /\ t.known = r.known
        /\ t.actor = r.actor /\ t.seen = r.seen
    BY <1>1, <1>2 DEF ProcRecord
  <2>3. QED
    BY <1>1, <1>2, <1>3, <2>1, <2>2, WipeChangeStep
<1>6. QED
  BY <1>4, <1>5

LEMMA WipePersonStep ==
  ASSUME CInv, NEW p \in Proc, WipePerson(p)
  PROVE  CInv'
<1>1. PICK i \in proc[p].todo \intersect Person :
        IF i \in people
         THEN /\ people' = people \ {i}
              /\ proc' = [proc EXCEPT ![p].todo = @ \ {i}]
         ELSE /\ UNCHANGED people
              /\ proc' = [proc EXCEPT ![p].todo = @ \ Person, ![p].failed = TRUE]
  BY DEF WipePerson
<1>2. PICK r, s, t :
        /\ r = proc[p] /\ s = [r EXCEPT !.todo = @ \ {i}]
        /\ t = [r EXCEPT !.todo = @ \ Person, !.failed = TRUE]
  OBVIOUS
<1>3. At(p, "wipe") /\ r.at = "wipe" /\ r \in ProcRecord /\ UNCHANGED <<files, bugs, used, runs>>
  BY <1>2, WipeFacts DEF WipePerson, At
<1>4. CASE i \in people
  <2>1. people' \subseteq people /\ proc' = [proc EXCEPT ![p] = s]
    BY <1>1, <1>2, <1>4
  <2>2. /\ s \in ProcRecord /\ s.at = "wipe" /\ s.cmd = r.cmd /\ s.run = r.run
        /\ s.configs = r.configs /\ s.selected = r.selected /\ s.known = r.known
        /\ s.actor = r.actor /\ s.seen = r.seen
    BY <1>2, <1>3 DEF ProcRecord
  <2>3. QED
    BY <1>2, <1>3, <2>1, <2>2, WipeChangeStep
<1>5. CASE i \notin people
  <2>1. people' \subseteq people /\ proc' = [proc EXCEPT ![p] = t]
    BY <1>1, <1>2, <1>5
  <2>2. /\ t \in ProcRecord /\ t.at = "wipe" /\ t.cmd = r.cmd /\ t.run = r.run
        /\ t.configs = r.configs /\ t.selected = r.selected /\ t.known = r.known
        /\ t.actor = r.actor /\ t.seen = r.seen
    BY <1>2, <1>3 DEF ProcRecord
  <2>3. QED
    BY <1>2, <1>3, <2>1, <2>2, WipeChangeStep
<1>6. QED
  BY <1>4, <1>5

LEMMA WipeFailedStep ==
  ASSUME CInv, NEW p \in Proc, WipeFailed(p)
  PROVE  CInv'
BY WipeFacts, DraftFacts, ResultFacts, EndStep DEF WipeFailed, files

LEMMA WipeConfigStep ==
  ASSUME CInv, NEW p \in Proc, WipeConfig(p)
  PROVE  CInv'
<1>1. PICK r, s, c :
        /\ c = config' /\ r = Told(config', selection)[p] /\ s = [r EXCEPT !.at = "wipe files"]
  OBVIOUS
<1>2. /\ c = NoOne /\ UNCHANGED <<refs, selection, draft, runs>>
      /\ Busy(p) /\ Cmd(p).act = "wipe" /\ proc[p] \in ProcRecord /\ Sound(p, proc[p])
  BY <1>1, WipeFacts DEF WipeConfig
<1>3. r = Noted(p, proc[p], c, selection)
  BY <1>1, <1>2 DEF Told
<1>4. proc' = [Told(config', selection') EXCEPT ![p] = s]
  BY <1>1, <1>2 DEF WipeConfig
<1>5. selection \in BugId \union {NoBug, NoFile}
  BY DEF CInv, Shared
<1>6. s \in ProcRecord
  <2>1. r \in ProcRecord
    BY <1>2, <1>3 DEF Noted, ProcRecord
  <2>2. QED
    BY <1>1, <2>1, PlaceFacts DEF ProcRecord
<1>7. /\ s.at = "wipe files" /\ s.cmd = proc[p].cmd /\ s.run = proc[p].run
      /\ s.known = proc[p].known /\ s.actor = proc[p].actor /\ s.seen = proc[p].seen
      /\ NoOne \in s.configs /\ (p \in Terminal /\ selection \in BugId => selection \in s.selected)
  BY <1>1, <1>2, <1>3 DEF Noted, ProcRecord
<1>8. Control(p, s) /\ ActorShape(s) /\ TargetShape(p, s)
  <2>1. Begun(s) /\ Resolved(s) /\ ActorShape(s) /\ TargetShape(p, s)
    BY <1>7 DEF Begun, Resolved, ActorShape, TargetShape, Loading, Asking, Ready, Typing
  <2>2. Asked(p, s)
    <3>1. s.cmd \in Repertoire
      BY <1>2, <1>7, NoCommandFacts DEF Cmd, ProcRecord
    <3>2. QED
      BY <1>7, <3>1 DEF Asked, Asking
  <2>3. Doing(s)
    BY <1>2, <1>7 DEF Doing, Cmd
  <2>4. QED
    BY <2>1, <2>2, <2>3 DEF Control
<1>9. Context(p, s)' /\ Knowledge(s)'
  BY <1>1, <1>2, <1>7 DEF Sound, Context, Knowledge, refs
<1>10. Sound(p, s)'
  BY <1>8, <1>9 DEF Sound, Control, Begun, Asked, Resolved, Doing, ActorShape, TargetShape
<1>11. Shared'
  BY <1>1, <1>2, DraftFacts DEF CInv, Shared, refs, Exists
<1>12. QED
  BY <1>1, <1>2, <1>4, <1>6, <1>7, <1>10, <1>11, ProcTold, ProcStep DEF GoesOn, refs

LEMMA WipeStorageStep ==
  ASSUME CInv, NEW p \in Proc, WipeStorage(p)
  PROVE  CInv'
<1>1. Busy(p)
  BY DEF WipeStorage, At, Busy
<1>2. QED
  BY <1>1, DraftFacts, ResultFacts, EndUnlinkedStep DEF WipeStorage
------------------------------------------------------------------------------
(* A run begins beside those under way.                                    *)

Others == {proc[q].run : q \in {q \in Proc : Busy(q)}}

LEMMA StartFacts ==
  ASSUME CInv, NEW p \in Proc, Start(p)
  PROVE  LET n == Len(runs) + 1
         IN /\ n \in 1 .. MaxRuns /\ RunTypes' /\ DOMAIN runs' = DOMAIN runs \union {n}
            /\ n \notin DOMAIN runs /\ Others \subseteq DOMAIN runs
            /\ runs'[n] = [act |-> "none", text |-> "none", result |-> "running",
                           beside |-> Others, target |-> NoBug, base |-> 0]
            /\ \A s \in DOMAIN runs :
                 runs'[s] = IF s \in Others THEN [runs[s] EXCEPT !.beside = @ \union {n}]
                                            ELSE runs[s]
<1>1. PICK n, met, new :
        /\ n = Len(runs) + 1
        /\ met = [s \in DOMAIN runs |->
                    IF s \in Others THEN [runs[s] EXCEPT !.beside = @ \union {n}] ELSE runs[s]]
        /\ new = [act |-> "none", text |-> "none", result |-> "running",
                  beside |-> Others, target |-> NoBug, base |-> 0]
  OBVIOUS
<1>2. runs' = Append(met, new) /\ Len(runs) < MaxRuns
  BY <1>1 DEF Start, Others
<1>3. runs \in Seq(RunRecord) /\ DOMAIN runs = 1 .. Len(runs) /\ Len(runs) \in Nat
  BY DEF CInv, RunTypes
<1>4. n \in 1 .. MaxRuns /\ n \in Nat /\ n \notin DOMAIN runs
  BY <1>1, <1>2, <1>3, BoundAssumption
<1>5. Others \subseteq DOMAIN runs
  BY DEF Others, CInv, Running
<1>6. \A s \in DOMAIN runs : met[s] \in RunRecord
  <2>1. ASSUME NEW s \in DOMAIN runs
        PROVE  met[s] \in RunRecord
    <3>1. runs[s] \in RunRecord
      BY <1>3
    <3>2. [runs[s] EXCEPT !.beside = @ \union {n}] \in RunRecord
      BY <1>4, <3>1 DEF RunRecord
    <3>3. QED
      BY <1>1, <3>1, <3>2
  <2>2. QED
    BY <2>1
<1>7. met \in Seq(RunRecord) /\ Len(met) = Len(runs) /\ DOMAIN met = DOMAIN runs
  BY <1>1, <1>3, <1>6
<1>8. new \in RunRecord
  <2>1. "none" \in ActKinds /\ "none" \in TextKinds
    BY NoCommandFacts DEF ActKinds, TextKinds
  <2>2. Others \in SUBSET Nat
    BY <1>3, <1>5
  <2>3. QED
    BY <1>1, <2>1, <2>2 DEF RunRecord, Results
<1>9. runs' \in Seq(RunRecord) /\ Len(runs') = n /\ DOMAIN runs' = 1 .. n
  BY <1>1, <1>2, <1>7, <1>8
<1>10. runs'[n] = new /\ \A s \in DOMAIN runs : runs'[s] = met[s]
  BY <1>1, <1>2, <1>3, <1>7, <1>8
<1>11. DOMAIN runs' = DOMAIN runs \union {n} /\ RunTypes'
  BY <1>1, <1>2, <1>3, <1>4, <1>9, BoundAssumption DEF RunTypes
<1>12. QED
  BY <1>1, <1>4, <1>5, <1>10, <1>11

LEMMA StartRunning ==
  ASSUME CInv, NEW p \in Proc, Start(p), NEW n, n = Len(runs) + 1, proc'[p].at # "idle",
         proc'[p].run = n, \A q \in Proc : q # p => proc'[q] = proc[q]
  PROVE  Running'
<1>1. /\ DOMAIN runs' = DOMAIN runs \union {n} /\ n \notin DOMAIN runs
      /\ Others \subseteq DOMAIN runs
  BY StartFacts
<1>2. runs'[n].result = "running" /\ runs'[n].beside = Others
  BY StartFacts
<1>3. \A s \in DOMAIN runs : runs[s] \in RunRecord
  BY DEF CInv, RunTypes
<1>4. \A s \in DOMAIN runs :
        /\ runs'[s].result = runs[s].result
        /\ runs'[s].beside = IF s \in Others THEN runs[s].beside \union {n} ELSE runs[s].beside
  BY <1>3, StartFacts DEF RunRecord
<1>5. \A q \in Proc : Busy(q)' <=> q = p \/ Busy(q)
  BY DEF Busy
<1>6. ~ Busy(p)
  BY DEF Start, At, Busy
<1>7. \A q \in Proc : Busy(q) => q # p /\ proc'[q].run = proc[q].run /\ proc[q].run \in Others
  BY <1>6 DEF Others
<1>8. \A s \in Others : \E q \in Proc : Busy(q) /\ proc[q].run = s
  BY DEF Others
<1>9. \A q \in Proc : Busy(q)' =>
        proc'[q].run \in DOMAIN runs' /\ runs'[proc'[q].run].result = "running"
  <2>1. \A q \in Proc : Busy(q) =>
          proc'[q].run \in DOMAIN runs' /\ runs'[proc'[q].run].result = "running"
    <3>1. ASSUME NEW q \in Proc, Busy(q), NEW m, m = proc[q].run
          PROVE  proc'[q].run = m /\ m \in DOMAIN runs' /\ runs'[m].result = "running"
      <4>1. m \in DOMAIN runs /\ runs[m].result = "running"
        BY <3>1 DEF CInv, Running
      <4>2. QED
        BY <1>1, <1>4, <1>7, <3>1, <4>1
    <3>2. QED
      BY <3>1
  <2>2. proc'[p].run \in DOMAIN runs' /\ runs'[proc'[p].run].result = "running"
    BY <1>1, <1>2
  <2>3. QED
    BY <1>5, <2>1, <2>2
<1>10. \A q, t \in Proc : q # t /\ Busy(q)' /\ Busy(t)' =>
         proc'[q].run # proc'[t].run /\ proc'[t].run \in runs'[proc'[q].run].beside
  <2>1. ASSUME NEW q \in Proc, NEW t \in Proc, q # t, Busy(q)', Busy(t)'
        PROVE  proc'[q].run # proc'[t].run /\ proc'[t].run \in runs'[proc'[q].run].beside
    <3>1. CASE q = p
      <4>1. Busy(t) /\ proc'[t].run \in Others /\ proc'[q].run = n
        BY <1>5, <1>7, <2>1, <3>1
      <4>2. QED
        BY <1>1, <1>2, <4>1
    <3>2. CASE t = p
      <4>1. PICK m : m = proc'[q].run
        OBVIOUS
      <4>2. m \in Others /\ proc'[t].run = n
        BY <1>5, <1>7, <2>1, <3>2, <4>1
      <4>3. m \in DOMAIN runs /\ runs'[m].beside = runs[m].beside \union {n}
        BY <1>1, <1>4, <4>2
      <4>4. QED
        BY <1>1, <4>1, <4>2, <4>3
    <3>3. CASE q # p /\ t # p
      <4>1. PICK m, k : m = proc[q].run /\ k = proc[t].run
        OBVIOUS
      <4>2. m # k /\ k \in runs[m].beside /\ m \in DOMAIN runs
        BY <1>5, <2>1, <3>3, <4>1 DEF CInv, Running
      <4>3. k \in runs'[m].beside
        BY <1>4, <4>2
      <4>4. QED
        BY <3>3, <4>1, <4>2, <4>3
    <3>4. QED
      BY <3>1, <3>2, <3>3
  <2>2. QED
    BY <2>1
<1>11. \A s \in DOMAIN runs' : runs'[s].result = "running" =>
         \E q \in Proc : Busy(q)' /\ proc'[q].run = s
  <2>1. ASSUME NEW s \in DOMAIN runs, runs'[s].result = "running"
        PROVE  \E q \in Proc : Busy(q)' /\ proc'[q].run = s
    <3>1. runs[s].result = "running"
      BY <1>4, <2>1
    <3>2. PICK q \in Proc : Busy(q) /\ proc[q].run = s
      BY <2>1, <3>1 DEF CInv, Running
    <3>3. Busy(q)' /\ proc'[q].run = s
      BY <1>5, <1>7, <3>2
    <3>4. QED
      BY <3>3
  <2>2. Busy(p)' /\ proc'[p].run = n
    BY <1>5
  <2>3. QED
    BY <1>1, <2>1, <2>2
<1>12. \A s \in DOMAIN runs' : \A t \in runs'[s].beside : t \in DOMAIN runs' /\ s \in runs'[t].beside
  <2>1. ASSUME NEW s \in DOMAIN runs', NEW t \in runs'[s].beside
        PROVE  t \in DOMAIN runs' /\ s \in runs'[t].beside
    <3>1. CASE s = n
      <4>1. t \in Others
        BY <1>2, <2>1, <3>1
      <4>2. t \in DOMAIN runs /\ runs'[t].beside = runs[t].beside \union {n}
        BY <1>1, <1>4, <4>1
      <4>3. QED
        BY <1>1, <3>1, <4>2
    <3>2. CASE s # n /\ t = n
      <4>1. s \in DOMAIN runs /\ t \notin runs[s].beside
        BY <1>1, <2>1, <3>2 DEF CInv, Running
      <4>2. s \in Others
        BY <1>4, <2>1, <4>1
      <4>3. QED
        BY <1>1, <1>2, <3>2, <4>2
    <3>3. CASE s # n /\ t # n
      <4>1. s \in DOMAIN runs /\ t \in runs[s].beside
        BY <1>1, <1>4, <2>1, <3>3
      <4>2. t \in DOMAIN runs /\ s \in runs[t].beside
        BY <4>1 DEF CInv, Running
      <4>3. QED
        BY <1>1, <1>4, <4>2
    <3>4. QED
      BY <3>1, <3>2, <3>3
  <2>2. QED
    BY <2>1
<1>13. QED
  BY <1>9, <1>10, <1>11, <1>12 DEF Running

LEMMA StartStep ==
  ASSUME CInv, NEW p \in Proc, Start(p)
  PROVE  CInv'
<1>1. PICK n, r, s :
        /\ n = Len(runs) + 1 /\ r = [Idle EXCEPT !.at = "people", !.run = n]
        /\ s = Noted(p, r, config, selection)
  OBVIOUS
<1>2. proc' = [proc EXCEPT ![p] = s] /\ UNCHANGED <<refs, files>>
  BY <1>1 DEF Start
<1>3. n \in 0 .. MaxRuns /\ RunTypes'
  BY <1>1, StartFacts, BoundAssumption
<1>4. r \in ProcRecord
  BY <1>1, <1>3, IdleFacts, PlaceFacts DEF ProcRecord
<1>5. s \in ProcRecord
  <2>1. PICK new :
          new = r.selected \union (IF p \in Terminal /\ selection \in BugId THEN {selection} ELSE {})
    OBVIOUS
  <2>2. new \in SUBSET BugId
    BY <1>4, <2>1 DEF ProcRecord
  <2>3. s = [r EXCEPT !.configs = @ \union {config}, !.selected = new]
    BY <1>1, <1>4, <2>1 DEF Noted, ProcRecord
  <2>4. config \in Person \union {NoOne}
    BY DEF CInv, Shared
  <2>5. QED
    BY <1>4, <2>2, <2>3, <2>4 DEF ProcRecord
<1>6. /\ r.at = "people" /\ r.run = n /\ r.known = {} /\ r.cmd = NoCommand /\ r.over = NoOne
      /\ r.named = NoBug /\ r.actor = NoOne /\ r.target = NoBug /\ r.text = Blank /\ ~ r.failed
      /\ \A b \in BugId : r.seen[b] = 0
  BY <1>1, IdleFacts DEF ProcRecord
<1>7. /\ s.at = "people" /\ s.run = n /\ s.known = {} /\ s.cmd = NoCommand /\ s.over = NoOne
      /\ s.named = NoBug /\ s.actor = NoOne /\ s.target = NoBug /\ s.text = Blank /\ ~ s.failed
      /\ \A b \in BugId : s.seen[b] = 0
  BY <1>1, <1>4, <1>6 DEF Noted, ProcRecord
<1>8. config \in s.configs /\ (p \in Terminal /\ selection \in BugId => selection \in s.selected)
  BY <1>1, <1>4 DEF Noted, ProcRecord
<1>9. Control(p, s) /\ ActorShape(s) /\ TargetShape(p, s)
  BY <1>7 DEF Control, Begun, Asked, Resolved, Doing, Fresh, ActorShape, TargetShape, Loading,
              Asking, Ready, Typing
<1>10. Context(p, s)' /\ Knowledge(s)'
  BY <1>2, <1>7, <1>8 DEF Context, Knowledge, files
<1>11. Sound(p, s)'
  BY <1>9, <1>10 DEF Sound, Control, Begun, Asked, Resolved, Doing, ActorShape, TargetShape
<1>12. /\ proc'[p] = s /\ proc' \in [Proc -> ProcRecord] /\ \A q \in Proc : q # p => Keeps(q)
  BY <1>2, <1>5, ProcExcept DEF files
<1>13. \A q \in Proc : Sound(q, proc[q])'
  <2>1. \A q \in Proc : q # p => Sound(q, proc[q])'
    BY <1>2, <1>12, KeptIsSound DEF refs
  <2>2. Sound(p, proc[p])'
    BY <1>11, <1>12 DEF Sound, Context, Knowledge
  <2>3. QED
    BY <2>1, <2>2
<1>14. Running'
  BY <1>1, <1>2, <1>7, <1>12, StartRunning DEF CInv
<1>15. Shared'
  BY <1>2, SameShared, DraftFacts DEF files
<1>16. QED
  BY <1>3, <1>12, <1>13, <1>14, <1>15 DEF CInv
------------------------------------------------------------------------------
LEMMA CInit == ASSUME Init PROVE CInv
<1>1. Shared
  <2>1. <<[by |-> Founder, run |-> 0, text |-> 0]>> \in Seq(OperationRecord)
    <3>1. [by |-> Founder, run |-> 0, text |-> 0] \in OperationRecord
      BY StartAssumption, BoundAssumption DEF OperationRecord
    <3>2. QED
      BY <3>1
  <2>2. bugs \in [BugId -> Seq(OperationRecord)] /\ \A b \in BugId : Exists(b) => b = FirstBug
    BY <2>1 DEF Init, Exists
  <2>3. NoDraft \in 0 .. NoDraft
    BY BoundAssumption DEF NoDraft
  <2>4. QED
    BY <2>2, <2>3, StartAssumption DEF Init, Shared
<1>2. RunTypes /\ DOMAIN runs = {}
  BY BoundAssumption DEF Init, RunTypes
<1>3. proc \in [Proc -> ProcRecord] /\ \A p \in Proc : proc[p] = Idle /\ ~ Busy(p)
  BY IdleFacts DEF Init, Busy
<1>4. Running
  BY <1>2, <1>3 DEF Running
<1>5. \A p \in Proc : Sound(p, Idle)
  BY IdleFacts DEF Sound, Control, Begun, Asked, Resolved, Doing, ActorShape, TargetShape, Context,
                   Knowledge, Asking, Ready, Typing, Loading
<1>6. QED
  BY <1>1, <1>2, <1>3, <1>4, <1>5 DEF CInv

LEMMA CNext == ASSUME CInv, [Next]_vars PROVE CInv'
<1>1. CASE UNCHANGED vars
  BY <1>1 DEF vars, CInv, Shared, RunTypes, Running, Sound, Context, Knowledge, Busy, Exists
<1>2. ASSUME NEW p \in Proc, Start(p) \/ Kill(p)
      PROVE  CInv'
  BY <1>2, StartStep, KillStep
<1>3. ASSUME NEW p \in Proc, Load(p) \/ Actor(p)
      PROVE  CInv'
  BY <1>3, ListPeopleStep, ReadPersonStep, ListBugsStep, ReadBugStep, ActorStep DEF Load
<1>4. ASSUME NEW p \in Proc, Resolve(p)
      PROVE  CInv'
  BY <1>4, ResolveNothingStep, ResolvePrefixStep, ResolveCommentStep, ResolveMissingStep,
     ReadSelectionStep, UnselectStep DEF Resolve
<1>5. ASSUME NEW p \in Proc, AskText(p)
      PROVE  CInv'
  BY <1>5, FlagStep, TemplateStep, TypeStep, ReadDraftStep DEF AskText
<1>6. ASSUME NEW p \in Proc, Act(p)
      PROVE  CInv'
  BY <1>6, ReadRefuseStep, AppendOperationStep, CreateStep, RemoveResolveStep, RemoveIfMatchesStep,
     SelectOpenStep, SelectWriteStep, DeselectStep, UserStoreStep, UserIsSetStep, UserAdopteeStep,
     SetUserIdentityStep DEF Act
<1>7. ASSUME NEW p \in Proc, WipeAll(p)
      PROVE  CInv'
  BY <1>7, WipeBeginStep, WipeListStep, WipeResolveStep, WipeBugStep, WipePersonStep,
     WipeFailedStep, WipeConfigStep, WipeStorageStep DEF WipeAll
<1>8. QED
  BY <1>1, <1>2, <1>3, <1>4, <1>5, <1>6, <1>7 DEF Next

(* Whatever the processes do, each is at a place with what it needs there  *)
(* in its hands, and the runs under way know of each other.                *)
THEOREM ProcessesAreSound == Spec => []CInv
<1>1. Init => CInv
  BY CInit
<1>2. CInv /\ [Next]_vars => CInv'
  BY CNext
<1>3. QED
  BY <1>1, <1>2, PTL DEF Spec

(* Identities and bugs in use, and those a process knows, have been given  *)
(* out, whoever kills, removes or wipes what in between.                   *)
THEOREM CommandsTypeCorrect == Spec => []TypeOK
<1>1. CInv => TypeOK
  <2>1. SUFFICES ASSUME CInv PROVE TypeOK
    OBVIOUS
  <2>2. ASSUME NEW p \in Proc
        PROVE  /\ proc[p].run \in 0 .. Len(runs) /\ proc[p].known \union Known(p) \subseteq used
               /\ proc[p].actor \in used \union {NoOne}
    <3>1. proc[p].run \in 0 .. Len(runs)
      <4>1. CASE Busy(p)
        <5>1. proc[p].run \in DOMAIN runs
          BY <2>1, <4>1, RunFacts
        <5>2. QED
          BY <2>1, <5>1 DEF CInv, RunTypes
      <4>2. CASE ~ Busy(p)
        <5>1. proc[p].run = 0
          BY <2>1, <4>2, IdleFacts DEF Busy, CInv, Sound, Control, Begun
        <5>2. QED
          BY <2>1, <5>1 DEF CInv, RunTypes
      <4>3. QED
        BY <4>1, <4>2
    <3>2. Knowledge(proc[p])
      BY <2>1 DEF CInv, Sound
    <3>3. QED
      BY <3>1, <3>2 DEF Knowledge, Known
  <2>3. QED
    BY <2>1, <2>2 DEF CInv, Shared, RunTypes, TypeOK, Exists
<1>2. QED
  BY <1>1, ProcessesAreSound, PTL
------------------------------------------------------------------------------
(* Which steps change which references.                                    *)

Step(p) ==
  Start(p) \/ Kill(p) \/ Load(p) \/ Actor(p) \/ Resolve(p) \/ AskText(p) \/ Act(p) \/ WipeAll(p)

LEMMA WhoChangesBugs ==
  ASSUME NEW p, Step(p)
  PROVE  \/ bugs' = bugs
         \/ AppendOperation(p) \/ Create(p) \/ RemoveIfMatches(p) \/ WipeBug(p)
<1>1. CASE Start(p) \/ Kill(p) \/ Load(p) \/ Actor(p)
  BY <1>1 DEF Start, Kill, Load, ListPeople, ReadPerson, ListBugs, ReadBug, Actor, ActorOverride,
              ActorDefault, ActorNone, refs
<1>2. CASE Resolve(p) \/ AskText(p)
  BY <1>2 DEF Resolve, ResolveNothing, ResolvePrefix, ResolveComment, ResolveMissing,
              ReadSelection, Unselect, AskText, Flag, Template, Type, ReadDraft, refs
<1>3. CASE Act(p)
  BY <1>3 DEF Act, Read, Refuse, AppendConflict, RemoveResolve, SelectOpen, SelectWrite, Deselect,
              UserStore, UserIsSet, UserAdoptee, SetUserIdentity, refs
<1>4. CASE WipeAll(p)
  BY <1>4 DEF WipeAll, WipeBegin, WipeList, WipeResolve, WipePerson, WipeFailed, WipeConfig,
              WipeStorage, refs
<1>5. QED
  BY <1>1, <1>2, <1>3, <1>4 DEF Step

(* Only the commit of a run adds operations: one, at the end of the bug.   *)
LEMMA WhoAdds ==
  ASSUME CInv, NEW p \in Proc, Step(p), NEW b \in BugId, Adds(b)
  PROVE  /\ Last(bugs'[b]) = Op(p)
         /\ (AppendOperation(p) /\ b = proc[p].target) \/ (Create(p) /\ Cmd(p).act = "create")
<1>1. bugs \in [BugId -> Seq(OperationRecord)] /\ bugs[b] \in Seq(OperationRecord)
  BY DEF CInv, Shared
<1>2. \A c \in BugId : bugs' # [bugs EXCEPT ![c] = <<>>]
  <2>1. ASSUME NEW c \in BugId, bugs' = [bugs EXCEPT ![c] = <<>>]
        PROVE  FALSE
    <3>1. bugs'[b] = bugs[b] \/ bugs'[b] = <<>>
      BY <1>1, <2>1
    <3>2. QED
      BY <1>1, <3>1 DEF Adds
  <2>2. QED
    BY <2>1
<1>3. bugs' # bugs
  BY <1>1 DEF Adds
<1>4. ~ RemoveIfMatches(p) /\ ~ WipeBug(p)
  <2>1. ~ RemoveIfMatches(p)
    BY <1>2, <1>3, TargetFacts DEF RemoveIfMatches
  <2>2. ~ WipeBug(p)
    BY <1>2, <1>3, WipeFacts DEF WipeBug
  <2>3. QED
    BY <2>1, <2>2
<1>5. CASE AppendOperation(p)
  <2>1. PICK c, ops : c = proc[p].target /\ ops = Append(bugs[c], Op(p))
    OBVIOUS
  <2>2. bugs' = [bugs EXCEPT ![c] = ops] /\ c \in BugId
    BY <1>5, <2>1, TargetFacts DEF AppendOperation
  <2>3. b = c /\ bugs'[b] = ops
    BY <1>1, <2>2 DEF Adds
  <2>4. Op(p) \in OperationRecord
    BY <1>5, OpFacts DEF AppendOperation
  <2>5. Last(ops) = Op(p)
    BY <1>1, <2>1, <2>3, <2>4 DEF Last
  <2>6. QED
    BY <1>5, <2>1, <2>3, <2>5
<1>6. CASE Create(p)
  <2>1. PICK c \in BugId : bugs' = [bugs EXCEPT ![c] = <<Op(p)>>]
    BY <1>6 DEF Create
  <2>2. bugs'[b] = <<Op(p)>>
    BY <1>1, <2>1 DEF Adds
  <2>3. Last(bugs'[b]) = Op(p)
    BY <2>2 DEF Last
  <2>4. QED
    BY <1>6, <2>3 DEF Create, Does
<1>7. QED
  BY <1>3, <1>4, <1>5, <1>6, WhoChangesBugs

(* The run that an operation names is the run of one process.              *)
LEMMA RunnerFacts ==
  ASSUME CInv, NEW p \in Proc, Busy(p)
  PROVE  Runner(proc[p].run) = p
<1>1. \A q \in Proc : proc[q].run = proc[p].run => q = p
  <2>1. ASSUME NEW q \in Proc, q # p, proc[q].run = proc[p].run
        PROVE  FALSE
    <3>1. CASE Busy(q)
      <4>1. proc[p].run # proc[q].run
        BY <2>1, <3>1 DEF CInv, Running
      <4>2. QED
        BY <2>1, <4>1
    <3>2. CASE ~ Busy(q)
      <4>1. proc[q].run = 0
        BY <3>2, IdleFacts DEF Busy, CInv, Sound, Control, Begun
      <4>2. proc[p].run # 0
        BY RunFacts
      <4>3. QED
        BY <2>1, <4>1, <4>2
    <3>3. QED
      BY <3>1, <3>2
  <2>2. QED
    BY <2>1
<1>2. QED
  BY <1>1 DEF Runner

LEMMA AddedFacts ==
  ASSUME CInv, NEW p \in Proc, Step(p), NEW b \in BugId, Adds(b)
  PROVE  Runner(Last(bugs'[b]).run) = p /\ Last(bugs'[b]) = Op(p)
<1>1. Last(bugs'[b]) = Op(p) /\ (Does(p, "append") \/ Does(p, "create"))
  BY WhoAdds DEF AppendOperation, Create
<1>2. QED
  BY <1>1, OpFacts, RunnerFacts

(* An operation is by the identity that was asked for with --identity or   *)
(* GIT_BUG_IDENTITY, or else by one that was the default during the run.   *)
THEOREM ActorsAreAsAsked == Spec => ActorsAsAsked
<1>1. ASSUME CInv, [Next]_vars, NEW b \in BugId, Adds(b), NEW op, op = Last(bugs'[b]), NEW q,
             q = Runner(op.run)
      PROVE  IF proc[q].over # NoOne THEN op.by = proc[q].over ELSE op.by \in proc[q].configs
  <2>1. bugs[b] \in Seq(OperationRecord)
    BY <1>1 DEF CInv, Shared
  <2>2. PICK p \in Proc : Step(p)
    BY <1>1, <2>1 DEF Next, Step, vars, Adds
  <2>3. q = p /\ op = Op(p) /\ (Does(p, "append") \/ Does(p, "create"))
    BY <1>1, <2>2, AddedFacts, WhoAdds DEF AppendOperation, Create
  <2>4. QED
    BY <1>1, <2>3, OpFacts
<1>2. CInv /\ [Next]_vars =>
        [\A b \in BugId : Adds(b) =>
           LET op == Last(bugs'[b])
               p == Runner(op.run)
           IN IF proc[p].over # NoOne THEN op.by = proc[p].over
                                      ELSE op.by \in proc[p].configs]_vars
  BY <1>1
<1>3. QED
  BY <1>2, ProcessesAreSound, PTL DEF Spec, ActorsAsAsked

(* A change lands on the bug that was named or, at a terminal and if none  *)
(* was, on one that was selected while the command ran.                    *)
THEOREM TargetsAreAsAsked == Spec => TargetsAsAsked
<1>1. ASSUME CInv, [Next]_vars, NEW b \in BugId, Adds(b), NEW q, q = Runner(Last(bugs'[b]).run)
      PROVE  \/ Cmd(q).act = "create"
             \/ proc[q].named = b
             \/ q \in Terminal /\ proc[q].named = NoBug /\ b \in proc[q].selected
  <2>1. bugs[b] \in Seq(OperationRecord)
    BY <1>1 DEF CInv, Shared
  <2>2. PICK p \in Proc : Step(p)
    BY <1>1, <2>1 DEF Next, Step, vars, Adds
  <2>3. q = p
    BY <1>1, <2>2, AddedFacts
  <2>4. CASE AppendOperation(p) /\ b = proc[p].target
    <3>1. proc[p].at = "act" /\ proc[p].cmd.act = "append" /\ Busy(p)
      BY <2>4 DEF AppendOperation, Does, At, Cmd, Busy
    <3>2. TargetShape(p, proc[p])
      BY <1>1, <3>1, RunFacts DEF Sound
    <3>3. QED
      BY <2>3, <2>4, <3>1, <3>2 DEF TargetShape, Ready
  <2>5. CASE Cmd(p).act = "create"
    BY <2>3, <2>5
  <2>6. QED
    BY <1>1, <2>2, <2>4, <2>5, WhoAdds
<1>2. CInv /\ [Next]_vars =>
        [\A b \in BugId : Adds(b) =>
           LET p == Runner(Last(bugs'[b]).run)
           IN \/ Cmd(p).act = "create"
              \/ proc[p].named = b
              \/ p \in Terminal /\ proc[p].named = NoBug /\ b \in proc[p].selected]_vars
  BY <1>1
<1>3. QED
  BY <1>2, ProcessesAreSound, PTL DEF Spec, TargetsAsAsked

LEMMA WhoSetsConfig ==
  ASSUME NEW p, Step(p)
  PROVE  config' = config \/ SetUserIdentity(p) \/ WipeConfig(p)
<1>1. CASE Start(p) \/ Kill(p) \/ Load(p) \/ Actor(p)
  BY <1>1 DEF Start, Kill, Load, ListPeople, ReadPerson, ListBugs, ReadBug, Actor, ActorOverride,
              ActorDefault, ActorNone, files
<1>2. CASE Resolve(p) \/ AskText(p)
  BY <1>2 DEF Resolve, ResolveNothing, ResolvePrefix, ResolveComment, ResolveMissing,
              ReadSelection, Unselect, AskText, Flag, Template, Type, ReadDraft, files
<1>3. CASE Act(p)
  BY <1>3 DEF Act, Read, Refuse, AppendOperation, AppendConflict, Create, RemoveResolve,
              RemoveIfMatches, SelectOpen, SelectWrite, Deselect, UserStore, UserIsSet,
              UserAdoptee, files
<1>4. CASE WipeAll(p)
  BY <1>4 DEF WipeAll, WipeBegin, WipeList, WipeResolve, WipeBug, WipePerson, WipeFailed,
              WipeStorage, files
<1>5. QED
  BY <1>1, <1>2, <1>3, <1>4 DEF Step

(* Only `user adopt`, `user new` when no default was set at some moment of *)
(* its run, and `wipe` change the default identity.                        *)
THEOREM ConfigIsOnlyChosen == Spec => ConfigIsChosen
<1>1. ASSUME CInv, [Next]_vars, config' # config
      PROVE  \E p \in Proc :
               \/ At(p, "set user") /\ Cmd(p).act = "user adopt"
               \/ At(p, "set user") /\ Cmd(p).act = "user new" /\ NoOne \in proc[p].configs
               \/ At(p, "wipe") /\ config' = NoOne
  <2>1. PICK p \in Proc : Step(p)
    BY <1>1 DEF Next, Step, vars
  <2>2. CASE SetUserIdentity(p)
    <3>1. proc[p].at = "set user" /\ Busy(p)
      BY <2>2 DEF SetUserIdentity, At, Busy
    <3>2. Doing(proc[p])
      BY <1>1, <3>1, RunFacts DEF Sound, Control
    <3>3. QED
      BY <3>1, <3>2 DEF Doing, At, Cmd
  <2>3. CASE WipeConfig(p)
    BY <2>3 DEF WipeConfig
  <2>4. QED
    BY <1>1, <2>1, <2>2, <2>3, WhoSetsConfig
<1>2. CInv /\ [Next]_vars =>
        [config' # config =>
           \E p \in Proc :
             \/ At(p, "set user") /\ Cmd(p).act = "user adopt"
             \/ At(p, "set user") /\ Cmd(p).act = "user new" /\ NoOne \in proc[p].configs
             \/ At(p, "wipe") /\ config' = NoOne]_vars
  BY <1>1
<1>3. QED
  BY <1>2, ProcessesAreSound, PTL DEF Spec, ConfigIsChosen
------------------------------------------------------------------------------
(* Every step begins a run, goes on with it or ends it, and leaves the     *)
(* other processes where they are.                                         *)

Goes(p) ==
  /\ Busy(p) /\ runs' = runs /\ proc'[p].at # "idle" /\ proc'[p].run = proc[p].run
  /\ \A b \in BugId : proc'[p].seen[b] = proc[p].seen[b] \/ proc'[p].seen[b] = Count(b)
Stops(p, result, c) ==
  /\ Busy(p) /\ proc'[p] = Idle /\ Answer(p, result, c)
  /\ result \in Results \ {"running"} /\ c \in BugId \union {NoBug}
Refused(p, c) == Does(p, "append") /\ c = proc[p].target /\ Count(c) # proc[p].seen[c]
Quiet(p, result, c) ==
  /\ Stops(p, result, c) /\ bugs' = bugs
  /\ result = "ok" => Cmd(p).act \notin Writes
  /\ result = "conflict" => Refused(p, c)
  /\ result = "not loaded" => ReadPerson(p) \/ ReadBug(p)

LEMMA GoesFacts ==
  ASSUME CInv, NEW p \in Proc, Busy(p), NEW s, proc' = [proc EXCEPT ![p] = s], runs' = runs,
         s.at # "idle", s.run = proc[p].run,
         \A b \in BugId : s.seen[b] = proc[p].seen[b] \/ s.seen[b] = Count(b)
  PROVE  Goes(p)
<1>1. proc'[p] = s
  BY DEF CInv
<1>2. QED
  BY <1>1 DEF Goes

(* What a step writes of its process.                                      *)
Writing(p, at, seen) ==
  /\ proc'[p].at = at /\ proc'[p].run = proc[p].run /\ proc'[p].seen = seen
  /\ runs' = runs

LEMMA WritingFacts ==
  ASSUME NEW p, Busy(p), NEW at, at # "idle", Writing(p, at, proc[p].seen)
  PROVE  Goes(p)
BY DEF Writing, Goes

LEMMA EndedFacts ==
  ASSUME CInv, NEW p \in Proc, Busy(p), bugs' = bugs, NEW result \in Results \ {"running"},
         Ended(p, result), result = "ok" => Cmd(p).act \notin Writes,
         result = "conflict" => Refused(p, proc[p].target),
         result = "not loaded" => ReadPerson(p) \/ ReadBug(p)
  PROVE  \E c : Quiet(p, result, c)
<1>1. proc'[p] = Idle /\ Answer(p, result, proc[p].target)
  BY DEF Ended, CInv
<1>2. proc[p].target \in BugId \union {NoBug}
  BY RunFacts DEF ProcRecord
<1>3. QED
  BY <1>1, <1>2 DEF Quiet, Stops

LEMMA LoadKinds ==
  ASSUME CInv, NEW p \in Proc, Load(p) \/ Kill(p)
  PROVE  Goes(p) \/ \E result, c : Quiet(p, result, c)
<1>1. /\ Busy(p) /\ bugs' = bugs /\ proc[p] \in ProcRecord /\ proc \in [Proc -> ProcRecord]
  BY RunFacts DEF Load, ListPeople, ReadPerson, ListBugs, ReadBug, Kill, At, Busy, refs, CInv
<1>2. CASE Kill(p)
  BY <1>1, <1>2, ResultFacts, EndedFacts DEF Kill
<1>3. CASE ListPeople(p) \/ ListBugs(p)
  <2>1. Writing(p, "read people", proc[p].seen) \/ Writing(p, "read bugs", proc[p].seen)
    <3>1. CASE ListPeople(p)
      BY <1>1, <3>1 DEF ListPeople, Writing, ProcRecord
    <3>2. CASE ListBugs(p)
      BY <1>1, <3>2 DEF ListBugs, Writing, ProcRecord
    <3>3. QED
      BY <1>3, <3>1, <3>2
  <2>2. Goes(p)
    BY <1>1, <2>1, WritingFacts
  <2>3. QED
    BY <2>2
<1>4. CASE ReadPerson(p)
  <2>1. CASE NotLoaded(p)
    BY <1>1, <1>4, <2>1, ResultFacts, EndedFacts DEF NotLoaded
  <2>2. CASE ~ NotLoaded(p)
    <3>1. Writing(p, "read people", proc[p].seen)
      <4>1. PICK i : /\ proc' = [proc EXCEPT ![p].todo = @ \ {i}, ![p].known = @ \union {i}]
                     /\ UNCHANGED runs
        BY <1>4, <2>2 DEF ReadPerson
      <4>2. QED
        BY <1>1, <1>4, <4>1 DEF ReadPerson, At, Writing, ProcRecord
    <3>2. Goes(p)
      BY <1>1, <3>1, WritingFacts
    <3>3. QED
      BY <3>2
  <2>3. QED
    BY <2>1, <2>2
<1>5. CASE ReadBug(p)
  <2>1. CASE NotLoaded(p)
    BY <1>1, <1>5, <2>1, ResultFacts, EndedFacts DEF NotLoaded
  <2>2. CASE ~ NotLoaded(p)
    <3>1. PICK r, b, seen, s :
            /\ b \in proc[p].todo /\ r = proc[p] /\ seen = [r.seen EXCEPT ![b] = Count(b)]
            /\ s = [r EXCEPT !.todo = @ \ {b}, !.seen = seen]
            /\ proc' = [proc EXCEPT ![p].todo = @ \ {b}, ![p].seen[b] = Count(b)] /\ runs' = runs
      BY <1>5, <2>2 DEF ReadBug
    <3>2. proc' = [proc EXCEPT ![p] = s] /\ r.at = "read bugs" /\ r \in ProcRecord
      BY <1>1, <1>5, <3>1 DEF ReadBug, At
    <3>3. s.at # "idle" /\ s.run = r.run /\ s.seen = seen
      BY <3>1, <3>2 DEF ProcRecord
    <3>4. \A d \in BugId : seen[d] = r.seen[d] \/ seen[d] = Count(d)
      BY <3>1, <3>2 DEF ProcRecord
    <3>5. Goes(p)
      <4>1. \A d \in BugId : s.seen[d] = proc[p].seen[d] \/ s.seen[d] = Count(d)
        BY <3>1, <3>3, <3>4
      <4>2. s.run = proc[p].run /\ runs' = runs
        BY <3>1, <3>3
      <4>3. QED
        BY <1>1, <3>2, <3>3, <4>1, <4>2, GoesFacts
    <3>6. QED
      BY <3>5
  <2>3. QED
    BY <2>1, <2>2
<1>6. QED
  BY <1>2, <1>3, <1>4, <1>5 DEF Load

LEMMA ActorKinds ==
  ASSUME CInv, NEW p \in Proc, Actor(p)
  PROVE  Goes(p) \/ \E result, c : Quiet(p, result, c)
<1>1. /\ Busy(p) /\ bugs' = bugs /\ proc[p] \in ProcRecord /\ proc \in [Proc -> ProcRecord]
  BY RunFacts DEF Actor, ActorOverride, ActorDefault, ActorNone, Runs, Loaded, At, Busy, refs, CInv
<1>2. CASE Ended(p, "failed")
  BY <1>1, <1>2, ResultFacts, EndedFacts
<1>3. CASE ~ Ended(p, "failed")
  <2>1. runs' = runs /\ \E cmd, i : Acts(p, cmd, i) \/ ActsAs(p, cmd, i)
    BY <1>3 DEF Actor, ActorOverride, ActorDefault, ActorNone
  <2>2. Writing(p, "resolve", proc[p].seen)
    <3>1. PICK cmd, i : Acts(p, cmd, i) \/ ActsAs(p, cmd, i)
      BY <2>1
    <3>2. CASE ActsAs(p, cmd, i)
      BY <1>1, <2>1, <3>2 DEF ActsAs, Writing, ProcRecord
    <3>3. CASE Acts(p, cmd, i)
      BY <1>1, <2>1, <3>3 DEF Acts, Writing, ProcRecord
    <3>4. QED
      BY <3>1, <3>2, <3>3
  <2>3. Goes(p)
    BY <1>1, <2>2, WritingFacts
  <2>4. QED
    BY <2>3
<1>4. QED
  BY <1>2, <1>3

LEMMA ResolveKinds ==
  ASSUME CInv, NEW p \in Proc, Resolve(p)
  PROVE  Goes(p) \/ \E result, c : Quiet(p, result, c)
<1>1. /\ Busy(p) /\ bugs' = bugs /\ proc[p] \in ProcRecord /\ proc \in [Proc -> ProcRecord]
      /\ Input(p) # "idle"
  BY RunFacts, InputFacts DEF Resolve, ResolveNothing, ResolvePrefix, ResolveComment,
       ResolveMissing, ReadSelection, Unselect, At, Busy, refs, CInv
<1>2. CASE Ended(p, "failed")
  BY <1>1, <1>2, ResultFacts, EndedFacts
<1>3. CASE Unselect(p)
  <2>1. proc'[p] = Idle /\ Answer(p, "failed", proc[p].target)
    BY <1>3 DEF Unselect, Unlinked
  <2>2. proc[p].target \in BugId \union {NoBug}
    BY <1>1 DEF ProcRecord
  <2>3. Quiet(p, "failed", proc[p].target)
    BY <1>1, <2>1, <2>2, ResultFacts DEF Quiet, Stops
  <2>4. QED
    BY <2>3
<1>4. CASE Resolve(p) /\ ~ Ended(p, "failed") /\ ~ Unselect(p) /\ ~ ReadSelection(p)
  <2>1. PICK where : where = Input(p)
    OBVIOUS
  <2>2. where # "idle"
    BY <1>1, <2>1
  <2>3. Writing(p, where, proc[p].seen) \/ Writing(p, "selection", proc[p].seen)
    <3>1. CASE ResolveNothing(p)
      BY <1>1, <2>1, <3>1 DEF ResolveNothing, Go, Writing, ProcRecord
    <3>2. CASE ResolvePrefix(p)
      BY <1>1, <2>1, <3>2 DEF ResolvePrefix, Writing, ProcRecord
    <3>3. CASE ResolveComment(p)
      <4>1. PICK b : /\ proc' = [proc EXCEPT ![p].at = Input(p), ![p].target = b, ![p].named = b]
                     /\ UNCHANGED runs
        BY <1>4, <3>3 DEF ResolveComment
      <4>2. QED
        BY <1>1, <2>1, <4>1 DEF Writing, ProcRecord
    <3>4. CASE ResolveMissing(p)
      BY <1>1, <1>4, <3>4 DEF ResolveMissing, Go, Writing, ProcRecord
    <3>5. QED
      BY <1>4, <3>1, <3>2, <3>3, <3>4 DEF Resolve
  <2>4. Goes(p)
    BY <1>1, <2>2, <2>3, WritingFacts
  <2>5. QED
    BY <2>4
<1>5. CASE ReadSelection(p) /\ ~ Ended(p, "failed")
  <2>1. NoFile \notin BugId \union {NoBug} /\ NoBug \notin BugId
    BY IdAssumption, EmptyAssumption DEF NoFile
  <2>2. \/ Go(p, "unselect") /\ UNCHANGED runs
        \/ Found(p, selection) /\ UNCHANGED runs
        \/ /\ selection \in BugId
           /\ proc' = [proc EXCEPT ![p].at = Input(p), ![p].target = selection,
                                    ![p].seen[selection] = Count(selection)]
           /\ UNCHANGED runs
    BY <1>5, <2>1 DEF ReadSelection, Known
  <2>3. CASE (Go(p, "unselect") \/ Found(p, selection)) /\ UNCHANGED runs
    <3>1. PICK where : where = Input(p)
      OBVIOUS
    <3>2. Writing(p, "unselect", proc[p].seen) \/ Writing(p, where, proc[p].seen)
      BY <1>1, <2>3, <3>1 DEF Go, Found, Writing, ProcRecord
    <3>3. Goes(p)
      BY <1>1, <3>1, <3>2, WritingFacts
    <3>4. QED
      BY <3>3
  <2>4. CASE /\ selection \in BugId
             /\ proc' = [proc EXCEPT ![p].at = Input(p), ![p].target = selection,
                                      ![p].seen[selection] = Count(selection)]
             /\ UNCHANGED runs
    <3>1. PICK r, b, w, seen, s :
            /\ b = selection /\ r = proc[p] /\ seen = [r.seen EXCEPT ![b] = Count(b)]
            /\ w = Input(p) /\ s = [r EXCEPT !.at = w, !.target = b, !.seen = seen]
      OBVIOUS
    <3>2. proc' = [proc EXCEPT ![p] = s]
      BY <1>1, <2>4, <3>1
    <3>3. s.at # "idle" /\ s.run = r.run /\ s.seen = seen
      BY <1>1, <3>1 DEF ProcRecord
    <3>4. \A d \in BugId : seen[d] = r.seen[d] \/ seen[d] = Count(d)
      BY <1>1, <3>1 DEF ProcRecord
    <3>5. Goes(p)
      <4>1. \A d \in BugId : s.seen[d] = proc[p].seen[d] \/ s.seen[d] = Count(d)
        BY <3>1, <3>3, <3>4
      <4>2. s.run = proc[p].run /\ runs' = runs
        BY <2>4, <3>1, <3>3
      <4>3. QED
        BY <1>1, <3>2, <3>3, <4>1, <4>2, GoesFacts
    <3>6. QED
      BY <3>5
  <2>5. QED
    BY <2>2, <2>3, <2>4
<1>6. QED
  BY <1>2, <1>3, <1>4, <1>5

LEMMA AskTextKinds ==
  ASSUME CInv, NEW p \in Proc, AskText(p)
  PROVE  Goes(p) \/ \E result, c : Quiet(p, result, c)
<1>1. /\ Busy(p) /\ bugs' = bugs /\ proc[p] \in ProcRecord /\ proc \in [Proc -> ProcRecord]
  BY RunFacts DEF AskText, Flag, Template, Type, ReadDraft, At, Busy, refs, CInv
<1>2. CASE Ended(p, "failed")
  BY <1>1, <1>2, ResultFacts, EndedFacts
<1>3. CASE ~ Ended(p, "failed")
  <2>1. \/ Writing(p, "act", proc[p].seen) \/ Writing(p, "edit", proc[p].seen)
        \/ Writing(p, "edited", proc[p].seen)
    <3>1. CASE Flag(p)
      BY <1>1, <3>1 DEF Flag, Writing, ProcRecord
    <3>2. CASE Template(p)
      BY <1>1, <3>2 DEF Template, Go, Writing, ProcRecord
    <3>3. CASE Type(p)
      BY <1>1, <3>3 DEF Type, Go, Writing, ProcRecord
    <3>4. CASE ReadDraft(p)
      BY <1>1, <1>3, <3>4 DEF ReadDraft, Writing, ProcRecord
    <3>5. QED
      BY <3>1, <3>2, <3>3, <3>4 DEF AskText
  <2>2. Goes(p)
    BY <1>1, <2>1, WritingFacts
  <2>3. QED
    BY <2>2
<1>4. QED
  BY <1>2, <1>3

LEMMA ToldEndKinds ==
  ASSUME CInv, NEW p \in Proc, SelectWrite(p) \/ Deselect(p) \/ SetUserIdentity(p) \/ WipeStorage(p)
  PROVE  \E result, c : Quiet(p, result, c)
<1>1. Busy(p) /\ bugs' = bugs /\ proc[p] \in ProcRecord /\ Sound(p, proc[p])
  BY RunFacts DEF SelectWrite, Deselect, SetUserIdentity, WipeStorage, Does, At, Busy, refs
<1>2. proc'[p] = Idle
  BY DEF SelectWrite, Deselect, SetUserIdentity, WipeStorage, Told, Unlinked
<1>3. PICK result \in {"ok", "failed"} : Answer(p, result, NoBug)
  BY DEF SelectWrite, Deselect, SetUserIdentity, WipeStorage
<1>4. Cmd(p).act \notin Writes
  BY <1>1 DEF SelectWrite, Deselect, SetUserIdentity, WipeStorage, Does, At, Sound, Control,
              Doing, Cmd, Writes
<1>5. Quiet(p, result, NoBug)
  BY <1>1, <1>2, <1>3, <1>4, ResultFacts DEF Quiet, Stops
<1>6. QED
  BY <1>5

LEMMA DoKinds ==
  ASSUME CInv, NEW p \in Proc, Act(p)
  PROVE  \/ Goes(p) \/ \E result, c : Quiet(p, result, c)
         \/ AppendOperation(p) \/ Create(p) \/ RemoveIfMatches(p)
<1>1. CASE Read(p) \/ Refuse(p) \/ AppendConflict(p)
  <2>1. Busy(p) /\ bugs' = bugs
    BY <1>1 DEF Read, Refuse, AppendConflict, Does, At, Busy, refs
  <2>2. CASE Ended(p, "failed")
    BY <2>1, <2>2, ResultFacts, EndedFacts
  <2>3. CASE Read(p)
    <3>1. Cmd(p).act \notin Writes
      BY <2>3 DEF Read, Does, Writes
    <3>2. QED
      BY <2>1, <2>3, <3>1, ResultFacts, EndedFacts DEF Read
  <2>4. CASE AppendConflict(p)
    <3>1. Refused(p, proc[p].target)
      BY <2>4 DEF AppendConflict, Refused
    <3>2. QED
      BY <2>1, <2>4, <3>1, ResultFacts, EndedFacts DEF AppendConflict
  <2>5. QED
    BY <1>1, <2>2, <2>3, <2>4 DEF Refuse
<1>2. CASE RemoveResolve(p) \/ SelectOpen(p) \/ UserStore(p) \/ UserIsSet(p) \/ UserAdoptee(p)
  <2>1. /\ Busy(p) /\ bugs' = bugs /\ proc[p] \in ProcRecord /\ proc \in [Proc -> ProcRecord]
        /\ Sound(p, proc[p])
    BY <1>2, RunFacts DEF RemoveResolve, SelectOpen, UserStore, UserIsSet, UserAdoptee, Does, At,
                          Busy, refs, CInv
  <2>2. CASE Ended(p, "failed")
    BY <2>1, <2>2, ResultFacts, EndedFacts
  <2>3. CASE Ended(p, "ok")
    <3>1. Cmd(p).act \notin Writes
      <4>1. CASE RemoveResolve(p) \/ SelectOpen(p) \/ UserStore(p) \/ UserAdoptee(p)
        BY <4>1 DEF RemoveResolve, SelectOpen, UserStore, UserAdoptee, Does, Writes
      <4>2. CASE UserIsSet(p)
        BY <2>1, <4>2 DEF UserIsSet, At, Sound, Control, Doing, Cmd, Writes
      <4>3. QED
        BY <1>2, <4>1, <4>2
    <3>2. QED
      BY <2>1, <2>3, <3>1, ResultFacts, EndedFacts
  <2>4. CASE RemoveResolve(p) /\ ~ Ended(p, "ok")
    <3>1. PICK r, b, seen, s :
            /\ b = proc[p].target /\ r = proc[p] /\ seen = [r.seen EXCEPT ![b] = Count(b)]
            /\ s = [r EXCEPT !.at = "remove", !.seen = seen]
            /\ proc' = [proc EXCEPT ![p].at = "remove", ![p].seen[b] = Count(b)] /\ runs' = runs
      BY <2>4 DEF RemoveResolve
    <3>2. proc' = [proc EXCEPT ![p] = s]
      BY <2>1, <3>1
    <3>3. s.at # "idle" /\ s.run = r.run /\ s.seen = seen
      BY <2>1, <3>1 DEF ProcRecord
    <3>4. \A d \in BugId : s.seen[d] = proc[p].seen[d] \/ s.seen[d] = Count(d)
      BY <2>1, <3>1, <3>3 DEF ProcRecord
    <3>5. s.run = proc[p].run /\ runs' = runs
      BY <3>1, <3>3
    <3>6. Goes(p)
      BY <2>1, <3>2, <3>3, <3>4, <3>5, GoesFacts
    <3>7. QED
      BY <3>6
  <2>5. CASE /\ SelectOpen(p) \/ UserStore(p) \/ UserIsSet(p) \/ UserAdoptee(p)
             /\ ~ Ended(p, "ok") /\ ~ Ended(p, "failed")
    <3>1. \/ Writing(p, "select", proc[p].seen) \/ Writing(p, "user stored", proc[p].seen)
          \/ Writing(p, "set user", proc[p].seen)
      <4>1. CASE SelectOpen(p)
        BY <2>1, <4>1 DEF SelectOpen, Writing, ProcRecord
      <4>2. CASE UserStore(p)
        <5>1. PICK i : proc' = [proc EXCEPT ![p].at = "user stored", ![p].actor = i]
          BY <4>2 DEF UserStore
        <5>2. QED
          BY <2>1, <4>2, <5>1 DEF UserStore, Writing, ProcRecord
      <4>3. CASE UserIsSet(p)
        BY <2>1, <2>5, <4>3 DEF UserIsSet, Go, Writing, ProcRecord
      <4>4. CASE UserAdoptee(p)
        <5>1. PICK i : proc' = [proc EXCEPT ![p].at = "set user", ![p].actor = i] /\ UNCHANGED runs
          BY <2>5, <4>4 DEF UserAdoptee
        <5>2. QED
          BY <2>1, <5>1 DEF Writing, ProcRecord
      <4>5. QED
        BY <2>5, <4>1, <4>2, <4>3, <4>4
    <3>2. Goes(p)
      BY <2>1, <3>1, WritingFacts
    <3>3. QED
      BY <3>2
  <2>6. QED
    BY <1>2, <2>2, <2>3, <2>4, <2>5
<1>3. CASE SelectWrite(p) \/ Deselect(p) \/ SetUserIdentity(p)
  BY <1>3, ToldEndKinds
<1>4. QED
  BY <1>1, <1>2, <1>3 DEF Act

LEMMA WipeKinds ==
  ASSUME CInv, NEW p \in Proc, WipeAll(p)
  PROVE  Goes(p) \/ \E result, c : Quiet(p, result, c)
<1>1. CASE WipeFailed(p)
  <2>1. bugs' = bugs /\ Busy(p)
    BY <1>1 DEF WipeFailed, At, Busy, refs
  <2>2. QED
    BY <1>1, <2>1, ResultFacts, EndedFacts DEF WipeFailed
<1>2. CASE WipeStorage(p)
  BY <1>2, ToldEndKinds
<1>3. CASE ~ WipeFailed(p) /\ ~ WipeStorage(p)
  <2>1. At(p, "wipe") \/ Does(p, "wipe")
    BY <1>3 DEF WipeAll, WipeBegin, WipeList, WipeResolve, WipeBug, WipePerson, WipeConfig
  <2>2. /\ Busy(p) /\ proc[p] \in ProcRecord /\ proc \in [Proc -> ProcRecord]
    BY <2>1, WipeFacts DEF CInv
  <2>3. CASE WipeResolve(p)
    <3>1. PICK b \in proc[p].todo \intersect BugId :
            proc' = IF Exists(b) THEN [proc EXCEPT ![p].target = b, ![p].seen[b] = Count(b)]
                                 ELSE [proc EXCEPT ![p].todo = @ \ {b}]
      BY <2>3 DEF WipeResolve
    <3>2. proc[p].at = "wipe" /\ runs' = runs
      BY <2>3 DEF WipeResolve, At
    <3>3. CASE Exists(b)
      <4>1. PICK r, seen, s :
              /\ r = proc[p] /\ seen = [r.seen EXCEPT ![b] = Count(b)]
              /\ s = [r EXCEPT !.target = b, !.seen = seen]
        OBVIOUS
      <4>2. proc' = [proc EXCEPT ![p] = s]
        BY <2>2, <3>1, <3>3, <4>1
      <4>3. s.at # "idle" /\ s.run = proc[p].run /\ s.seen = seen
        BY <2>2, <3>2, <4>1 DEF ProcRecord
      <4>4. \A d \in BugId : s.seen[d] = proc[p].seen[d] \/ s.seen[d] = Count(d)
        BY <2>2, <4>1, <4>3 DEF ProcRecord
      <4>5. Goes(p)
        BY <2>2, <3>2, <4>2, <4>3, <4>4, GoesFacts
      <4>6. QED
        BY <4>5
    <3>4. CASE ~ Exists(b)
      <4>1. Writing(p, "wipe", proc[p].seen)
        BY <2>2, <3>1, <3>2, <3>4 DEF Writing, ProcRecord
      <4>2. Goes(p)
        BY <2>2, <4>1, WritingFacts
      <4>3. QED
        BY <4>2
    <3>5. QED
      BY <3>3, <3>4
  <2>4. CASE WipeBegin(p) \/ WipeList(p) \/ WipeBug(p) \/ WipePerson(p)
    <3>1. Writing(p, "wipe", proc[p].seen)
      <4>1. CASE WipeBegin(p)
        BY <2>2, <4>1 DEF WipeBegin, Writing, ProcRecord
      <4>2. CASE WipeList(p)
        <5>1. PICK kind : proc' = [proc EXCEPT ![p].todo = (@ \ {kind}) \union ListRefs(kind)]
          BY <4>2 DEF WipeList
        <5>2. QED
          BY <2>2, <4>2, <5>1 DEF WipeList, At, Writing, ProcRecord
      <4>3. CASE WipeBug(p)
        <5>1. PICK b : b = proc[p].target
          OBVIOUS
        <5>2. \/ proc' = [proc EXCEPT ![p].target = NoBug, ![p].todo = @ \ {b}]
              \/ proc' = [proc EXCEPT ![p].target = NoBug, ![p].todo = @ \ BugId, ![p].failed = TRUE]
          BY <4>3, <5>1 DEF WipeBug
        <5>3. QED
          BY <2>2, <4>3, <5>2 DEF WipeBug, At, Writing, ProcRecord
      <4>4. CASE WipePerson(p)
        <5>1. PICK i : \/ proc' = [proc EXCEPT ![p].todo = @ \ {i}]
                       \/ proc' = [proc EXCEPT ![p].todo = @ \ Person, ![p].failed = TRUE]
          BY <4>4 DEF WipePerson
        <5>2. QED
          BY <2>2, <4>4, <5>1 DEF WipePerson, At, Writing, ProcRecord
      <4>5. QED
        BY <2>4, <4>1, <4>2, <4>3, <4>4
    <3>2. Goes(p)
      BY <2>2, <3>1, WritingFacts
    <3>3. QED
      BY <3>2
  <2>5. CASE WipeConfig(p)
    <3>1. proc'[p] = [Noted(p, proc[p], config', selection) EXCEPT !.at = "wipe files"] /\ runs' = runs
      BY <2>2, <2>5 DEF WipeConfig, Told
    <3>2. Writing(p, "wipe files", proc[p].seen)
      BY <2>2, <3>1 DEF Noted, Writing, ProcRecord
    <3>3. Goes(p)
      BY <2>2, <3>2, WritingFacts
    <3>4. QED
      BY <3>3
  <2>6. QED
    BY <1>3, <2>3, <2>4, <2>5 DEF WipeAll
<1>4. QED
  BY <1>1, <1>2, <1>3

LEMMA StepKinds ==
  ASSUME CInv, NEW p \in Proc, Step(p)
  PROVE  \/ Start(p) \/ Goes(p) \/ \E result, c : Quiet(p, result, c)
         \/ AppendOperation(p) \/ Create(p) \/ RemoveIfMatches(p)
BY LoadKinds, ActorKinds, ResolveKinds, AskTextKinds, DoKinds, WipeKinds DEF Step

LEMMA UnlinkedAlike ==
  ASSUME CInv, NEW q \in Proc
  PROVE  Alike(proc[q], Unlinked(proc)[q])
<1>1. PICK r, t : r = proc[q] /\ t = Unlinked(proc)[q]
  OBVIOUS
<1>2. r \in ProcRecord /\ t = IF r.fd = "open" THEN [r EXCEPT !.fd = "unlinked"] ELSE r
  BY <1>1 DEF CInv, Unlinked
<1>3. r = Idle => t = Idle
  BY <1>2 DEF Idle
<1>4. QED
  BY <1>1, <1>2, <1>3 DEF Alike, ProcRecord

LEMMA ToldAlike ==
  ASSUME CInv, NEW q \in Proc, NEW c, NEW s
  PROVE  Alike(proc[q], Told(c, s)[q])
<1>1. PICK r, t, new :
        /\ r = proc[q] /\ t = Told(c, s)[q]
        /\ new = IF q \in Terminal /\ s \in BugId THEN {s} ELSE {}
  OBVIOUS
<1>2. r \in ProcRecord
  BY <1>1 DEF CInv
<1>3. CASE r.at # "idle"
  <2>1. t = [r EXCEPT !.configs = @ \union {c}, !.selected = @ \union new]
    BY <1>1, <1>3 DEF Told, Busy, Noted
  <2>2. r # Idle
    BY <1>3, IdleFacts
  <2>3. QED
    BY <1>1, <1>2, <2>1, <2>2 DEF Alike, ProcRecord
<1>4. CASE r.at = "idle"
  BY <1>1, <1>4 DEF Told, Busy, Alike
<1>5. QED
  BY <1>3, <1>4

LEMMA OthersAlike ==
  ASSUME CInv, NEW p \in Proc, Step(p), NEW q \in Proc, q # p
  PROVE  Alike(proc[q], proc'[q])
<1>1. CASE proc'[q] = proc[q]
  BY <1>1 DEF Alike
<1>2. CASE Unselect(p) \/ Deselect(p) \/ WipeStorage(p)
  <2>1. proc'[q] = Unlinked(proc)[q]
    BY <1>2 DEF Unselect, Deselect, WipeStorage, Unlinked
  <2>2. QED
    BY <2>1, UnlinkedAlike
<1>3. CASE SelectWrite(p) \/ SetUserIdentity(p) \/ WipeConfig(p)
  <2>1. \/ proc'[q] = Told(config, selection')[q] \/ proc'[q] = Told(config', selection)[q]
    BY <1>3 DEF SelectWrite, SetUserIdentity, WipeConfig, Told
  <2>2. QED
    BY <2>1, ToldAlike
<1>4. proc \in [Proc -> ProcRecord]
  BY DEF CInv
<1>5. CASE Start(p) \/ Kill(p) \/ Load(p)
  BY <1>1, <1>4, <1>5 DEF Start, Kill, Load, ListPeople, ReadPerson, ListBugs, ReadBug, NotLoaded,
                          Ended
<1>6. CASE Actor(p)
  BY <1>1, <1>4, <1>6 DEF Actor, ActorOverride, ActorDefault, ActorNone, Acts, ActsAs, Ended
<1>7. CASE Resolve(p)
  <2>1. CASE ReadSelection(p)
    <3>1. NoFile \notin BugId \union {NoBug} /\ NoBug \notin BugId
      BY IdAssumption, EmptyAssumption DEF NoFile
    <3>2. \/ Go(p, "unselect") \/ Found(p, selection) \/ Ended(p, "failed")
          \/ proc' = [proc EXCEPT ![p].at = Input(p), ![p].target = selection,
                                  ![p].seen[selection] = Count(selection)]
      BY <2>1, <3>1 DEF ReadSelection, Known
    <3>3. QED
      BY <1>1, <1>4, <3>2 DEF Go, Found, Ended
  <2>2. CASE ~ ReadSelection(p)
    BY <1>1, <1>2, <1>4, <1>7, <2>2 DEF Resolve, ResolveNothing, ResolvePrefix, ResolveComment,
                                        ResolveMissing, Go, Ended
  <2>3. QED
    BY <2>1, <2>2
<1>8. CASE AskText(p)
  BY <1>1, <1>4, <1>8 DEF AskText, Flag, Template, Type, ReadDraft, Go, Ended
<1>9. CASE Act(p)
  <2>1. CASE Read(p) \/ Refuse(p) \/ AppendOperation(p) \/ AppendConflict(p) \/ Create(p)
    BY <1>1, <1>4, <2>1 DEF Read, Refuse, AppendOperation, AppendConflict, Create, Ended
  <2>2. CASE RemoveResolve(p) \/ RemoveIfMatches(p) \/ SelectOpen(p) \/ UserStore(p)
    BY <1>1, <1>4, <2>2 DEF RemoveResolve, RemoveIfMatches, SelectOpen, UserStore, Ended
  <2>3. CASE UserIsSet(p) \/ UserAdoptee(p)
    BY <1>1, <1>4, <2>3 DEF UserIsSet, UserAdoptee, Go, Ended
  <2>4. QED
    BY <1>2, <1>3, <1>9, <2>1, <2>2, <2>3 DEF Act
<1>10. CASE WipeAll(p)
  <2>1. CASE WipeBegin(p) \/ WipeList(p) \/ WipeResolve(p) \/ WipeFailed(p)
    BY <1>1, <1>4, <2>1 DEF WipeBegin, WipeList, WipeResolve, WipeFailed, Ended
  <2>2. CASE WipeBug(p) \/ WipePerson(p)
    BY <1>1, <1>4, <2>2 DEF WipeBug, WipePerson
  <2>3. QED
    BY <1>2, <1>3, <1>10, <2>1, <2>2 DEF WipeAll
<1>11. QED
  BY <1>5, <1>6, <1>7, <1>8, <1>9, <1>10 DEF Step
------------------------------------------------------------------------------
(* Answers and operations: a run that is under way has no operation yet.   *)

LEMMA RunsStay ==
  ASSUME CInv, NEW p \in Proc, Step(p)
  PROVE  /\ DOMAIN runs \subseteq DOMAIN runs' /\ used \subseteq used'
         /\ \A s \in DOMAIN runs : runs[s].beside \subseteq runs'[s].beside
         /\ \A s \in DOMAIN runs : runs[s].result # "running" =>
              /\ runs'[s].result = runs[s].result /\ runs'[s].act = runs[s].act
              /\ runs'[s].text = runs[s].text /\ runs'[s].target = runs[s].target
              /\ runs'[s].base = runs[s].base
         /\ \A s \in DOMAIN runs' \ DOMAIN runs : runs'[s].result = "running"
<1>1. used \subseteq used'
  <2>1. CASE Start(p) \/ Kill(p) \/ Load(p) \/ Actor(p)
    BY <2>1 DEF Start, Kill, Load, ListPeople, ReadPerson, ListBugs, ReadBug, Actor,
                ActorOverride, ActorDefault, ActorNone, refs
  <2>2. CASE Resolve(p) \/ AskText(p)
    BY <2>2 DEF Resolve, ResolveNothing, ResolvePrefix, ResolveComment, ResolveMissing,
                ReadSelection, Unselect, AskText, Flag, Template, Type, ReadDraft, refs
  <2>3. CASE Act(p)
    BY <2>3 DEF Act, Read, Refuse, AppendOperation, AppendConflict, Create, RemoveResolve,
                RemoveIfMatches, SelectOpen, SelectWrite, Deselect, UserStore, UserIsSet,
                UserAdoptee, SetUserIdentity, refs
  <2>4. CASE WipeAll(p)
    BY <2>4 DEF WipeAll, WipeBegin, WipeList, WipeResolve, WipeBug, WipePerson, WipeFailed,
                WipeConfig, WipeStorage, refs
  <2>5. QED
    BY <2>1, <2>2, <2>3, <2>4 DEF Step
<1>2. CASE Start(p)
  <2>1. PICK n : n = Len(runs) + 1
    OBVIOUS
  <2>2. /\ DOMAIN runs' = DOMAIN runs \union {n} /\ runs'[n].result = "running"
        /\ \A s \in DOMAIN runs : \/ runs'[s] = runs[s]
                                  \/ runs'[s] = [runs[s] EXCEPT !.beside = @ \union {n}]
    <3>1. DOMAIN runs' = DOMAIN runs \union {n} /\ runs'[n].result = "running"
      BY <1>2, <2>1, StartFacts
    <3>2. \A s \in DOMAIN runs : \/ runs'[s] = runs[s]
                                 \/ runs'[s] = [runs[s] EXCEPT !.beside = @ \union {n}]
      BY <1>2, <2>1, StartFacts
    <3>3. QED
      BY <3>1, <3>2
  <2>3. \A s \in DOMAIN runs : runs[s] \in RunRecord
    BY DEF CInv, RunTypes
  <2>4. \A s \in DOMAIN runs :
          /\ runs'[s].result = runs[s].result /\ runs'[s].act = runs[s].act
          /\ runs'[s].text = runs[s].text /\ runs'[s].target = runs[s].target
          /\ runs'[s].base = runs[s].base /\ runs[s].beside \subseteq runs'[s].beside
    BY <2>2, <2>3 DEF RunRecord
  <2>5. QED
    BY <1>1, <2>2, <2>4
<1>3. CASE runs' = runs
  BY <1>1, <1>3
<1>4. ASSUME Busy(p), NEW result \in Results, NEW c \in BugId \union {NoBug}, Answer(p, result, c)
      PROVE  /\ DOMAIN runs \subseteq DOMAIN runs'
             /\ \A s \in DOMAIN runs : runs[s].beside \subseteq runs'[s].beside
             /\ \A s \in DOMAIN runs : runs[s].result # "running" => runs'[s] = runs[s]
             /\ DOMAIN runs' = DOMAIN runs
  BY <1>4, AnswerFacts, RunFacts
<1>5. CASE \E result, c : Stops(p, result, c)
  BY <1>1, <1>4, <1>5 DEF Stops
<1>6. CASE AppendOperation(p) \/ Create(p) \/ RemoveIfMatches(p)
  <2>1. Busy(p)
    BY <1>6 DEF AppendOperation, Create, RemoveIfMatches, Does, At, Busy
  <2>2. proc[p].target \in BugId \union {NoBug}
    BY <2>1, RunFacts DEF ProcRecord
  <2>3. \E result \in Results, c \in BugId \union {NoBug} : Answer(p, result, c)
    BY <1>6, <2>2, ResultFacts DEF AppendOperation, Create, RemoveIfMatches, Ended
  <2>4. QED
    BY <1>1, <1>4, <2>1, <2>3
<1>7. QED
  BY <1>2, <1>3, <1>5, <1>6, StepKinds DEF Goes, Quiet

(* Nothing is added: no run becomes a change that was done.                *)
LEMMA OpsShrink ==
  ASSUME CInv, OpsSound, NEW p \in Proc, Step(p), bugs' \in [BugId -> Seq(OperationRecord)],
         \A b \in BugId : bugs'[b] = bugs[b] \/ bugs'[b] = <<>>,
         \A s \in DOMAIN runs' : runs'[s].result = "ok" /\ runs'[s].act \in Writes =>
           s \in DOMAIN runs /\ runs[s].result # "running"
  PROVE  OpsSound'
<1>1. /\ DOMAIN runs \subseteq DOMAIN runs' /\ used \subseteq used'
      /\ \A s \in DOMAIN runs : runs[s].result # "running" =>
           /\ runs'[s].result = runs[s].result /\ runs'[s].act = runs[s].act
           /\ runs'[s].target = runs[s].target
  BY RunsStay
<1>2. ASSUME NEW b \in BugId, NEW n \in DOMAIN bugs'[b]
      PROVE  bugs'[b] = bugs[b] /\ n \in DOMAIN bugs[b]
  BY <1>2
<1>3. ASSUME NEW b \in BugId, NEW n \in DOMAIN bugs'[b], NEW r, r = bugs'[b][n].run, r # 0
      PROVE  /\ r \in DOMAIN runs' /\ runs'[r].result = "ok" /\ runs'[r].act \in Writes
             /\ runs'[r].target = b
  <2>1. r = bugs[b][n].run /\ n \in DOMAIN bugs[b]
    BY <1>2, <1>3
  <2>2. r \in DOMAIN runs /\ runs[r].result = "ok" /\ runs[r].act \in Writes /\ runs[r].target = b
    BY <1>3, <2>1 DEF OpsSound
  <2>3. QED
    BY <1>1, <2>2
<1>4. \A b \in BugId : \A m, n \in DOMAIN bugs'[b] : bugs'[b][m].run = bugs'[b][n].run => m = n
  BY <1>2 DEF OpsSound
<1>5. ASSUME NEW r \in DOMAIN runs', runs'[r].result = "ok", runs'[r].act \in Writes
      PROVE  /\ runs'[r].target \in BugId /\ runs'[r].target \in used'
             /\ bugs'[runs'[r].target] # <<>> =>
                  \E n \in DOMAIN bugs'[runs'[r].target] : bugs'[runs'[r].target][n].run = r
  <2>1. PICK b : b = runs'[r].target
    OBVIOUS
  <2>2. /\ r \in DOMAIN runs /\ runs[r].result = "ok" /\ runs[r].act \in Writes
        /\ runs[r].target = b
    BY <1>1, <1>5, <2>1
  <2>3. /\ b \in BugId /\ b \in used
        /\ bugs[b] # <<>> => \E n \in DOMAIN bugs[b] : bugs[b][n].run = r
    BY <2>2 DEF OpsSound, Exists
  <2>4. QED
    BY <1>1, <2>1, <2>3
<1>6. QED
  BY <1>3, <1>4, <1>5 DEF OpsSound, Exists

(* The change of a run is added as it is reported as done.                 *)
LEMMA OpsAppend ==
  ASSUME CInv, OpsSound, NEW p \in Proc, Step(p), Busy(p), NEW b \in BugId, b \in used',
         Exists(b) \/ b \notin used, Op(p) \in OperationRecord, Op(p).run = proc[p].run,
         bugs' = [bugs EXCEPT ![b] = Append(@, Op(p))], Answer(p, "ok", b), Cmd(p).act \in Writes
  PROVE  OpsSound'
<1>1. /\ DOMAIN runs \subseteq DOMAIN runs' /\ used \subseteq used'
      /\ \A s \in DOMAIN runs : runs[s].result # "running" =>
           /\ runs'[s].result = runs[s].result /\ runs'[s].act = runs[s].act
           /\ runs'[s].target = runs[s].target
  BY RunsStay
<1>2. PICK k, ops, new : k = proc[p].run /\ ops = bugs[b] /\ new = Append(ops, Op(p))
  OBVIOUS
<1>3. /\ k \in DOMAIN runs /\ runs[k].result = "running" /\ k # 0
      /\ runs'[k].result = "ok" /\ runs'[k].act \in Writes /\ runs'[k].target = b
      /\ \A s \in DOMAIN runs : s # k => runs'[s] = runs[s]
      /\ DOMAIN runs' = DOMAIN runs
  <2>1. k \in DOMAIN runs /\ runs[k].result = "running" /\ k # 0
    BY <1>2, RunFacts
  <2>2. /\ runs'[k].result = "ok" /\ runs'[k].act = Cmd(p).act /\ runs'[k].target = b
        /\ DOMAIN runs' = DOMAIN runs /\ \A s \in DOMAIN runs : s # k => runs'[s] = runs[s]
    <3>1. "ok" \in Results /\ b \in BugId \union {NoBug}
      BY ResultFacts
    <3>2. /\ runs'[proc[p].run].result = "ok" /\ runs'[proc[p].run].act = Cmd(p).act
          /\ runs'[proc[p].run].target = b /\ DOMAIN runs' = DOMAIN runs
      BY <3>1, AnswerFacts
    <3>3. \A s \in DOMAIN runs : s # proc[p].run => runs'[s] = runs[s]
      BY <3>1, AnswerFacts
    <3>4. QED
      BY <1>2, <3>2, <3>3
  <2>3. QED
    BY <2>1, <2>2
<1>4. bugs \in [BugId -> Seq(OperationRecord)] /\ ops \in Seq(OperationRecord)
  BY <1>2 DEF CInv, Shared
<1>5. /\ bugs'[b] = new /\ \A d \in BugId : d # b => bugs'[d] = bugs[d]
      /\ DOMAIN new = DOMAIN ops \union {Len(ops) + 1} /\ new[Len(ops) + 1].run = k
      /\ Len(ops) + 1 \notin DOMAIN ops /\ \A n \in DOMAIN ops : new[n] = ops[n]
  BY <1>2, <1>4
<1>6. \A d \in BugId : \A n \in DOMAIN bugs[d] : bugs[d][n].run # k
  BY <1>3 DEF OpsSound
<1>7. ASSUME NEW d \in BugId, NEW n \in DOMAIN bugs'[d], NEW r, r = bugs'[d][n].run, r # 0
      PROVE  /\ r \in DOMAIN runs' /\ runs'[r].result = "ok" /\ runs'[r].act \in Writes
             /\ runs'[r].target = d
  <2>1. CASE d = b /\ n = Len(ops) + 1
    BY <1>3, <1>5, <1>7, <2>1
  <2>2. CASE d # b \/ n # Len(ops) + 1
    <3>1. n \in DOMAIN bugs[d] /\ r = bugs[d][n].run
      BY <1>2, <1>5, <1>7, <2>2
    <3>2. /\ r \in DOMAIN runs /\ runs[r].result = "ok" /\ runs[r].act \in Writes
          /\ runs[r].target = d
      BY <1>7, <3>1 DEF OpsSound
    <3>3. QED
      BY <1>3, <3>2
  <2>3. QED
    BY <2>1, <2>2
<1>8. ASSUME NEW d \in BugId, NEW m \in DOMAIN bugs'[d], NEW n \in DOMAIN bugs'[d],
             bugs'[d][m].run = bugs'[d][n].run
      PROVE  m = n
  <2>1. CASE d # b
    BY <1>5, <1>8, <2>1 DEF OpsSound
  <2>2. CASE d = b
    <3>1. \A i, j \in DOMAIN ops : ops[i].run = ops[j].run => i = j
      BY <1>2 DEF OpsSound
    <3>2. \A i \in DOMAIN ops : new[i].run # k
      BY <1>2, <1>5, <1>6
    <3>3. QED
      BY <1>5, <1>8, <2>2, <3>1, <3>2
  <2>3. QED
    BY <2>1, <2>2
<1>9. ASSUME NEW r \in DOMAIN runs', runs'[r].result = "ok", runs'[r].act \in Writes, NEW d,
             d = runs'[r].target
      PROVE  /\ d \in BugId /\ d \in used'
             /\ bugs'[d] # <<>> => \E n \in DOMAIN bugs'[d] : bugs'[d][n].run = r
  <2>1. CASE r = k
    BY <1>3, <1>5, <1>9, <2>1
  <2>2. CASE r # k
    <3>1. /\ r \in DOMAIN runs /\ runs[r].result = "ok" /\ runs[r].act \in Writes
          /\ runs[r].target = d
      BY <1>3, <1>9, <2>2
    <3>2. /\ d \in BugId /\ d \in used
          /\ bugs[d] # <<>> => \E n \in DOMAIN bugs[d] : bugs[d][n].run = r
      BY <3>1 DEF OpsSound, Exists
    <3>3. CASE d # b
      BY <1>1, <1>5, <3>2, <3>3
    <3>4. CASE d = b
      <4>1. PICK n \in DOMAIN ops : ops[n].run = r
        BY <1>2, <3>2, <3>4 DEF Exists
      <4>2. n \in DOMAIN bugs'[d] /\ bugs'[d][n].run = r
        BY <1>5, <3>4, <4>1
      <4>3. QED
        BY <1>1, <3>2, <4>2
    <3>5. QED
      BY <3>3, <3>4
  <2>3. QED
    BY <2>1, <2>2
<1>10. QED
  BY <1>7, <1>8, <1>9 DEF OpsSound, Exists

LEMMA OpsStep ==
  ASSUME CInv, OpsSound, CInv', NEW p \in Proc, Step(p)
  PROVE  OpsSound'
<1>1. bugs \in [BugId -> Seq(OperationRecord)] /\ bugs' \in [BugId -> Seq(OperationRecord)]
  BY DEF CInv, Shared
<1>2. CASE AppendOperation(p)
  <2>1. PICK b : b = proc[p].target
    OBVIOUS
  <2>2. /\ Does(p, "append") /\ bugs' = [bugs EXCEPT ![b] = Append(@, Op(p))] /\ used' = used
        /\ Answer(p, "ok", b) /\ Count(b) = proc[p].seen[b]
    BY <1>2, <2>1 DEF AppendOperation, Ended
  <2>3. Busy(p) /\ b \in BugId /\ b \in used /\ Count(b) # 0
    BY <2>1, <2>2, TargetFacts
  <2>4. Exists(b)
    BY <1>1, <2>3 DEF Exists, Count
  <2>5. Op(p) \in OperationRecord /\ Op(p).run = proc[p].run /\ Cmd(p).act \in Writes
    BY <2>2, OpFacts DEF Does, Writes
  <2>6. QED
    BY <2>2, <2>3, <2>4, <2>5, OpsAppend
<1>3. CASE Create(p)
  <2>1. PICK b \in BugId \ used : /\ bugs' = [bugs EXCEPT ![b] = <<Op(p)>>]
                                  /\ used' = used \union {b} /\ Answer(p, "ok", b)
    BY <1>3 DEF Create
  <2>2. bugs[b] = <<>>
    BY DEF CInv, Shared, Exists
  <2>3. /\ Op(p) \in OperationRecord /\ Op(p).run = proc[p].run /\ Cmd(p).act \in Writes /\ Busy(p)
    BY <1>3, OpFacts DEF Create, Does, Writes
  <2>4. Append(bugs[b], Op(p)) = <<Op(p)>>
    BY <2>2, <2>3
  <2>5. bugs' = [bugs EXCEPT ![b] = Append(@, Op(p))]
    BY <2>1, <2>4
  <2>6. QED
    BY <2>1, <2>3, <2>5, OpsAppend
<1>4. CASE ~ AppendOperation(p) /\ ~ Create(p)
  <2>1. \A b \in BugId : bugs'[b] = bugs[b] \/ bugs'[b] = <<>>
    <3>1. CASE bugs' = bugs
      BY <3>1
    <3>2. CASE RemoveIfMatches(p)
      BY <1>1, <3>2 DEF RemoveIfMatches
    <3>3. CASE WipeBug(p)
      BY <1>1, <3>3 DEF WipeBug
    <3>4. QED
      BY <1>4, <3>1, <3>2, <3>3, WhoChangesBugs
  <2>2. ASSUME Busy(p), NEW result \in Results \ {"running"}, NEW c \in BugId \union {NoBug},
               Answer(p, result, c), result = "ok" => Cmd(p).act \notin Writes,
               NEW s \in DOMAIN runs', runs'[s].result = "ok", runs'[s].act \in Writes
        PROVE  s \in DOMAIN runs /\ runs[s].result # "running"
    <3>1. PICK k : k = proc[p].run
      OBVIOUS
    <3>2. /\ runs'[k].result = result /\ runs'[k].act = Cmd(p).act
          /\ DOMAIN runs' = DOMAIN runs /\ \A t \in DOMAIN runs : t # k => runs'[t] = runs[t]
      BY <2>2, <3>1, AnswerFacts
    <3>3. s # k
      BY <2>2, <3>2
    <3>4. QED
      BY <2>2, <3>2, <3>3
  <2>3. \A s \in DOMAIN runs' : runs'[s].result = "ok" /\ runs'[s].act \in Writes =>
          s \in DOMAIN runs /\ runs[s].result # "running"
    <3>1. CASE Start(p)
      <4>1. PICK n : n = Len(runs) + 1
        OBVIOUS
      <4>2. DOMAIN runs' = DOMAIN runs \union {n} /\ runs'[n].result = "running"
        <5>1. DOMAIN runs' = DOMAIN runs \union {n}
          BY <3>1, <4>1, StartFacts
        <5>2. runs'[n].result = "running"
          BY <3>1, <4>1, StartFacts
        <5>3. QED
          BY <5>1, <5>2
      <4>3. \A s \in DOMAIN runs : runs'[s].result = runs[s].result
        <5>1. \A s \in DOMAIN runs : runs[s] \in RunRecord
          BY DEF CInv, RunTypes
        <5>2. \A s \in DOMAIN runs : \/ runs'[s] = runs[s]
                                     \/ runs'[s] = [runs[s] EXCEPT !.beside = @ \union {n}]
          BY <3>1, <4>1, StartFacts
        <5>3. QED
          BY <5>1, <5>2 DEF RunRecord
      <4>4. QED
        BY <4>2, <4>3
    <3>2. CASE Goes(p)
      BY <3>2 DEF Goes
    <3>3. CASE \E result, c : Quiet(p, result, c)
      BY <2>2, <3>3 DEF Quiet, Stops
    <3>4. CASE RemoveIfMatches(p)
      <4>1. Busy(p) /\ proc[p].target \in BugId
        BY <3>4, TargetFacts DEF RemoveIfMatches
      <4>2. Cmd(p).act \notin Writes
        <5>1. Sound(p, proc[p])
          BY <4>1, RunFacts
        <5>2. QED
          BY <3>4, <5>1 DEF RemoveIfMatches, At, Sound, Control, Doing, Cmd, Writes
      <4>3. \E result \in {"ok", "failed"} : Answer(p, result, proc[p].target)
        BY <3>4 DEF RemoveIfMatches, Ended
      <4>4. QED
        BY <2>2, <4>1, <4>2, <4>3, ResultFacts
    <3>5. QED
      BY <1>4, <3>1, <3>2, <3>3, <3>4, StepKinds
  <2>4. QED
    BY <1>1, <2>1, <2>3, OpsShrink
<1>5. QED
  BY <1>2, <1>3, <1>4

LEMMA OpsInit == ASSUME Init PROVE OpsSound
<1>1. /\ \A b \in BugId : \A n \in DOMAIN bugs[b] : n = 1 /\ bugs[b][n].run = 0
  BY DEF Init
<1>2. DOMAIN runs = {}
  BY DEF Init
<1>3. QED
  BY <1>1, <1>2 DEF OpsSound

(* A change that was reported as done is there once and in its bug, or the *)
(* bug is gone; one that was refused, failed or was killed left nothing.   *)
THEOREM AnswersAreKept == Spec => []AnswersAreTrue
<1>1. Init => CInv /\ OpsSound
  BY CInit, OpsInit
<1>2. CInv /\ OpsSound /\ [Next]_vars => (CInv /\ OpsSound)'
  <2>1. ASSUME CInv, OpsSound, UNCHANGED vars PROVE OpsSound'
    BY <2>1 DEF vars, OpsSound, Exists
  <2>2. QED
    BY <2>1, CNext, OpsStep DEF Next, Step
<1>3. CInv /\ OpsSound => AnswersAreTrue
  <2>1. ASSUME CInv, OpsSound, NEW r \in DOMAIN runs
        PROVE  /\ runs[r].result = "ok" /\ runs[r].act \in Writes =>
                    LET b == runs[r].target
                    IN IF Exists(b) THEN \E n \in DOMAIN bugs[b] : OpsOf(r) = {<<b, n>>}
                                    ELSE OpsOf(r) = {}
               /\ runs[r].result # "ok" => OpsOf(r) = {}
    <3>1. r # 0
      BY <2>1 DEF CInv, RunTypes
    <3>2. \A b \in BugId : \A n \in DOMAIN bugs[b] :
            bugs[b][n].run = r => runs[r].result = "ok" /\ runs[r].target = b
      BY <2>1, <3>1 DEF OpsSound
    <3>3. \A x : x \in OpsOf(r) <=>
            \E b \in BugId : \E n \in DOMAIN bugs[b] : bugs[b][n].run = r /\ x = <<b, n>>
      BY DEF OpsOf
    <3>4. CASE runs[r].result # "ok"
      BY <3>2, <3>3, <3>4
    <3>5. CASE runs[r].result = "ok" /\ runs[r].act \in Writes
      <4>1. PICK b : b = runs[r].target
        OBVIOUS
      <4>2. b \in BugId /\ (Exists(b) => \E n \in DOMAIN bugs[b] : bugs[b][n].run = r)
        BY <2>1, <3>5, <4>1 DEF OpsSound
      <4>3. CASE ~ Exists(b)
        <5>1. \A n \in DOMAIN bugs[b] : FALSE
          BY <4>3 DEF Exists
        <5>2. OpsOf(r) = {}
          BY <3>2, <3>3, <4>1, <5>1
        <5>3. QED
          BY <3>5, <4>1, <4>3, <5>2
      <4>4. CASE Exists(b)
        <5>1. PICK n \in DOMAIN bugs[b] : bugs[b][n].run = r
          BY <4>2, <4>4
        <5>2. \A m \in DOMAIN bugs[b] : bugs[b][m].run = r => m = n
          BY <2>1, <4>2, <5>1 DEF OpsSound
        <5>3. OpsOf(r) = {<<b, n>>}
          <6>1. <<b, n>> \in OpsOf(r)
            BY <3>3, <4>2, <5>1
          <6>2. ASSUME NEW x \in OpsOf(r)
                PROVE  x = <<b, n>>
            BY <3>2, <3>3, <4>1, <5>2, <6>2
          <6>3. QED
            BY <6>1, <6>2
        <5>4. QED
          BY <3>5, <4>1, <4>4, <5>1, <5>3
      <4>5. QED
        BY <4>3, <4>4
    <3>6. QED
      BY <3>4, <3>5
  <2>2. QED
    BY <2>1 DEF AnswersAreTrue, Writes
<1>4. QED
  BY <1>1, <1>2, <1>3, PTL DEF Spec
------------------------------------------------------------------------------
(* Commits that are refused.                                               *)

(* A run has an answer because it had one, or gets it in this step.        *)
LEMMA WhoAnswers ==
  ASSUME CInv, NEW p \in Proc, Step(p), NEW s \in DOMAIN runs', runs'[s].result # "running"
  PROVE  \/ s \in DOMAIN runs /\ runs[s].result = runs'[s].result
         \/ /\ s = proc[p].run /\ Busy(p) /\ s \in DOMAIN runs /\ DOMAIN runs' = DOMAIN runs
            /\ runs'[s].beside = runs[s].beside /\ runs'[s].act = Cmd(p).act
            /\ runs'[s].text = Cmd(p).text
            /\ \E c \in BugId \union {NoBug} :
                 /\ runs'[s].target = c /\ (c \in BugId => runs'[s].base = proc[p].seen[c])
                 /\ \/ Quiet(p, runs'[s].result, c)
                    \/ runs'[s].result = "ok" /\ (AppendOperation(p) \/ Create(p))
                    \/ runs'[s].result \in {"ok", "failed"} /\ RemoveIfMatches(p)
<1>1. ASSUME Busy(p), NEW result \in Results, NEW c \in BugId \union {NoBug},
             Answer(p, result, c)
      PROVE  \/ s \in DOMAIN runs /\ runs'[s] = runs[s]
             \/ /\ s = proc[p].run /\ s \in DOMAIN runs /\ DOMAIN runs' = DOMAIN runs
                /\ runs'[s].beside = runs[s].beside /\ runs'[s].act = Cmd(p).act
                /\ runs'[s].text = Cmd(p).text /\ runs'[s].result = result
                /\ runs'[s].target = c /\ (c \in BugId => runs'[s].base = proc[p].seen[c])
  <2>1. DOMAIN runs' = DOMAIN runs /\ \A t \in DOMAIN runs : t # proc[p].run => runs'[t] = runs[t]
    BY <1>1, AnswerFacts
  <2>2. CASE s # proc[p].run
    BY <2>1, <2>2
  <2>3. CASE s = proc[p].run
    <3>1. /\ runs'[proc[p].run].result = result /\ runs'[proc[p].run].target = c
          /\ runs'[proc[p].run].act = Cmd(p).act /\ runs'[proc[p].run].text = Cmd(p).text
      BY <1>1, AnswerFacts
    <3>2. c \in BugId => runs'[proc[p].run].base = proc[p].seen[c]
      BY <1>1, AnswerFacts
    <3>3. runs'[proc[p].run].beside = runs[proc[p].run].beside
      BY <1>1, <2>1, <2>3, AnswerFacts
    <3>4. QED
      BY <2>1, <2>3, <3>1, <3>2, <3>3
  <2>4. QED
    BY <2>2, <2>3
<1>2. CASE Start(p)
  <2>1. PICK n : n = Len(runs) + 1
    OBVIOUS
  <2>2. DOMAIN runs' = DOMAIN runs \union {n}
    BY <1>2, <2>1, StartFacts
  <2>3. runs'[n].result = "running"
    BY <1>2, <2>1, StartFacts
  <2>4. s \in DOMAIN runs /\ runs[s] \in RunRecord
    BY <2>2, <2>3 DEF CInv, RunTypes
  <2>5. runs'[s] = runs[s] \/ runs'[s] = [runs[s] EXCEPT !.beside = @ \union {n}]
    BY <1>2, <2>1, <2>4, StartFacts
  <2>6. QED
    BY <2>4, <2>5 DEF RunRecord
<1>3. CASE Goes(p)
  BY <1>3 DEF Goes
<1>4. CASE \E result, c : Quiet(p, result, c)
  <2>1. PICK result, c : Quiet(p, result, c)
    BY <1>4
  <2>2. /\ Busy(p) /\ result \in Results /\ c \in BugId \union {NoBug} /\ Answer(p, result, c)
    BY <2>1 DEF Quiet, Stops
  <2>3. QED
    BY <1>1, <2>1, <2>2
<1>5. CASE AppendOperation(p) \/ Create(p)
  <2>1. Busy(p)
    BY <1>5 DEF AppendOperation, Create, Does, At, Busy
  <2>2. \E c \in BugId \union {NoBug} : Answer(p, "ok", c)
    <3>1. proc[p].target \in BugId \union {NoBug}
      BY <2>1, RunFacts DEF ProcRecord
    <3>2. QED
      BY <1>5, <3>1 DEF AppendOperation, Create, Ended
  <2>3. QED
    BY <1>1, <1>5, <2>1, <2>2, ResultFacts
<1>6. CASE RemoveIfMatches(p)
  <2>1. Busy(p) /\ proc[p].target \in BugId
    BY <1>6, TargetFacts DEF RemoveIfMatches
  <2>2. \E result \in {"ok", "failed"} : Answer(p, result, proc[p].target)
    BY <1>6 DEF RemoveIfMatches, Ended
  <2>3. QED
    BY <1>1, <1>6, <2>1, <2>2, ResultFacts
<1>7. QED
  BY <1>2, <1>3, <1>4, <1>5, <1>6, StepKinds

(* What becomes of one bug.                                                *)
LEMMA BugSteps ==
  ASSUME CInv, NEW p \in Proc, Step(p), NEW b \in BugId
  PROVE  \/ bugs'[b] = bugs[b] \/ bugs'[b] = <<>>
         \/ Create(p) /\ b \notin used
         \/ /\ AppendOperation(p) /\ Exists(b) /\ bugs'[b] = Append(bugs[b], Op(p))
            /\ Op(p) \in OperationRecord /\ Op(p).run = proc[p].run
<1>1. bugs \in [BugId -> Seq(OperationRecord)]
  BY DEF CInv, Shared
<1>2. CASE AppendOperation(p)
  <2>1. PICK c : c = proc[p].target
    OBVIOUS
  <2>2. /\ bugs' = [bugs EXCEPT ![c] = Append(@, Op(p))] /\ Count(c) = proc[p].seen[c]
        /\ Does(p, "append")
    BY <1>2, <2>1 DEF AppendOperation
  <2>3. c \in BugId /\ Count(c) # 0
    BY <2>1, <2>2, TargetFacts
  <2>4. Exists(c)
    BY <1>1, <2>3 DEF Exists, Count
  <2>5. QED
    BY <1>1, <1>2, <2>2, <2>4, OpFacts
<1>3. CASE Create(p)
  <2>1. PICK c \in BugId \ used : bugs' = [bugs EXCEPT ![c] = <<Op(p)>>]
    BY <1>3 DEF Create
  <2>2. QED
    BY <1>1, <1>3, <2>1
<1>4. CASE bugs' = bugs
  BY <1>4
<1>5. CASE RemoveIfMatches(p)
  BY <1>1, <1>5 DEF RemoveIfMatches
<1>6. CASE WipeBug(p)
  BY <1>1, <1>6 DEF WipeBug
<1>7. QED
  BY <1>2, <1>3, <1>4, <1>5, <1>6, WhoChangesBugs

(* What was read stays the beginning of what is there, and what comes next *)
(* comes from a run beside, unless the bug is removed.                     *)
LEMMA FollowsStays ==
  ASSUME CInv, NEW p \in Proc, Step(p), NEW b \in BugId, b \in used, NEW seen \in Nat,
         NEW beside, NEW now, beside \subseteq now, Follows(b, seen, beside),
         (Exists(b) => seen < Count(b)) \/ ~ AppendOperation(p) \/ proc[p].run \in now
  PROVE  /\ Follows(b, seen, now)'
         /\ (Exists(b) => seen < Count(b)) => (Exists(b)' => seen < Count(b)')
<1>1. PICK ops, new : ops = bugs[b] /\ new = bugs'[b]
  OBVIOUS
<1>2. ops \in Seq(OperationRecord)
  BY <1>1 DEF CInv, Shared
<1>3. ops # <<>> => seen <= Len(ops) /\ (seen < Len(ops) => ops[seen + 1].run \in beside)
  BY <1>1 DEF Follows, Exists, Count
<1>4. /\ new # <<>> => seen <= Len(new) /\ (seen < Len(new) => new[seen + 1].run \in now)
      /\ (ops # <<>> => seen < Len(ops)) => (new # <<>> => seen < Len(new))
  <2>1. CASE new = ops \/ new = <<>>
    BY <1>3, <2>1
  <2>2. CASE Create(p) /\ b \notin used
    BY <2>2
  <2>3. CASE /\ AppendOperation(p) /\ Exists(b) /\ bugs'[b] = Append(bugs[b], Op(p))
             /\ Op(p) \in OperationRecord /\ Op(p).run = proc[p].run
    <3>1. ops # <<>> /\ (seen < Len(ops) \/ proc[p].run \in now)
      BY <1>1, <2>3 DEF Exists, Count
    <3>2. /\ Len(new) = Len(ops) + 1 /\ Len(ops) \in Nat /\ new[Len(ops) + 1].run = proc[p].run
          /\ \A n \in 1 .. Len(ops) : new[n] = ops[n]
      BY <1>1, <1>2, <2>3
    <3>3. CASE seen < Len(ops)
      <4>1. seen + 1 \in 1 .. Len(ops)
        BY <3>2, <3>3
      <4>2. new[seen + 1].run \in beside
        BY <1>3, <3>1, <3>2, <3>3, <4>1
      <4>3. QED
        BY <3>2, <3>3, <4>2
    <3>4. CASE seen = Len(ops)
      BY <3>1, <3>2, <3>4
    <3>5. QED
      BY <1>3, <3>1, <3>2, <3>3, <3>4
  <2>4. QED
    BY <1>1, <2>1, <2>2, <2>3, BugSteps
<1>5. QED
  BY <1>1, <1>4 DEF Follows, Exists, Count

(* The others know what they knew, of runs that are as they were.          *)
LEMMA SeenByOthers ==
  ASSUME CInv, SeenSound, NEW p \in Proc, Step(p), NEW q \in Proc, q # p, NEW b \in BugId,
         Busy(q)', (proc[q].seen[b] # 0)'
  PROVE  Follows(b, proc[q].seen[b], runs[proc[q].run].beside)'
<1>1. Alike(proc[q], proc'[q])
  BY OthersAlike
<1>2. PICK seen, s, beside, now : /\ seen = proc[q].seen[b] /\ s = proc[q].run
                                  /\ beside = runs[s].beside /\ now = runs'[s].beside
  OBVIOUS
<1>3. Busy(q) /\ seen # 0 /\ proc'[q].seen[b] = seen /\ proc'[q].run = s
  BY <1>1, <1>2 DEF Alike, Busy
<1>4. s \in DOMAIN runs
  BY <1>2, <1>3 DEF CInv, Running
<1>5. beside \subseteq now
  BY <1>2, <1>4, RunsStay
<1>6. seen \in Nat /\ b \in used
  BY <1>2, <1>3, RunFacts DEF ProcRecord, Sound, Knowledge
<1>7. ~ AppendOperation(p) \/ proc[p].run \in now
  <2>1. ASSUME Busy(p) PROVE proc[p].run \in beside
    BY <1>2, <1>3, <2>1 DEF CInv, Running
  <2>2. QED
    BY <1>5, <2>1 DEF AppendOperation, Does, At, Busy
<1>8. Follows(b, seen, beside)
  BY <1>2, <1>3 DEF SeenSound
<1>9. Follows(b, seen, now)'
  BY <1>5, <1>6, <1>7, <1>8, FollowsStays
<1>10. QED
  BY <1>2, <1>3, <1>9

LEMMA SeenByItself ==
  ASSUME CInv, SeenSound, NEW p \in Proc, Step(p), NEW b \in BugId,
         Busy(p)', (proc[p].seen[b] # 0)'
  PROVE  Follows(b, proc[p].seen[b], runs[proc[p].run].beside)'
<1>1. Start(p) \/ Goes(p)
  <2>1. proc \in [Proc -> ProcRecord]
    BY DEF CInv
  <2>2. CASE \E result, c : Quiet(p, result, c)
    BY <2>2, IdleFacts DEF Quiet, Stops, Busy
  <2>3. CASE AppendOperation(p) \/ Create(p) \/ RemoveIfMatches(p)
    <3>1. proc'[p] = Idle
      BY <2>1, <2>3 DEF AppendOperation, Create, RemoveIfMatches, Ended
    <3>2. QED
      BY <3>1, IdleFacts DEF Busy
  <2>4. QED
    BY <2>2, <2>3, StepKinds
<1>2. CASE Start(p)
  <2>1. PICK s, n : /\ s = Noted(p, [Idle EXCEPT !.at = "people", !.run = n], config, selection)
                    /\ n = Len(runs) + 1
    OBVIOUS
  <2>2. proc'[p] = s
    BY <1>2, <2>1 DEF Start, CInv
  <2>3. s.seen = Idle.seen
    BY <2>1, IdleFacts DEF Noted, ProcRecord
  <2>4. QED
    BY <2>2, <2>3, IdleFacts
<1>3. CASE Goes(p)
  <2>1. PICK seen, new, s, beside : /\ seen = proc[p].seen[b] /\ new = proc'[p].seen[b]
                                    /\ s = proc[p].run /\ beside = runs[s].beside
    OBVIOUS
  <2>2. /\ Busy(p) /\ runs' = runs /\ proc'[p].run = s /\ (new = seen \/ new = Count(b))
        /\ proc'[p].at # "idle"
    BY <1>3, <2>1 DEF Goes
  <2>3. proc \in [Proc -> ProcRecord] /\ bugs \in [BugId -> Seq(OperationRecord)]
    BY DEF CInv, Shared
  <2>4. ~ AppendOperation(p) /\ ~ Create(p)
    BY <2>2, <2>3, IdleFacts DEF AppendOperation, Create, Ended
  <2>5. CASE new = seen
    <3>1. seen # 0 /\ seen \in Nat /\ b \in used
      <4>1. seen # 0
        BY <2>1, <2>5
      <4>2. proc[p] \in ProcRecord /\ Sound(p, proc[p])
        BY <2>2, RunFacts
      <4>3. QED
        BY <2>1, <4>1, <4>2 DEF ProcRecord, Sound, Knowledge
    <3>2. Follows(b, seen, beside)
      BY <2>1, <2>2, <3>1 DEF SeenSound
    <3>3. beside \subseteq beside
      OBVIOUS
    <3>4. Follows(b, seen, beside)'
      BY <2>4, <3>1, <3>2, FollowsStays
    <3>5. QED
      BY <2>1, <2>2, <2>5, <3>4
  <2>6. CASE new = Count(b)
    <3>1. bugs'[b] = bugs[b] \/ bugs'[b] = <<>>
      BY <2>4, BugSteps
    <3>2. Exists(b)' => new = Len(bugs'[b]) /\ new \in Nat
      BY <2>3, <2>6, <3>1 DEF Exists, Count
    <3>3. Follows(b, new, beside)'
      BY <3>2 DEF Follows, Count
    <3>4. QED
      BY <2>1, <2>2, <3>3
  <2>7. QED
    BY <2>2, <2>5, <2>6
<1>4. QED
  BY <1>1, <1>2, <1>3

LEMMA RefusedFollows ==
  ASSUME CInv, SeenSound, NEW p \in Proc, Step(p), NEW r \in DOMAIN runs',
         runs'[r].result = "conflict", NEW b, b = runs'[r].target
  PROVE  /\ b \in BugId /\ b \in used'
         /\ Follows(b, runs[r].base, runs[r].beside)'
         /\ Exists(b)' => runs'[r].base < Count(b)'
<1>1. CASE r \in DOMAIN runs /\ runs[r].result = "conflict"
  <2>1. PICK base, beside, now : /\ base = runs[r].base /\ beside = runs[r].beside
                                 /\ now = runs'[r].beside
    OBVIOUS
  <2>2. /\ runs'[r].target = runs[r].target /\ runs'[r].base = base /\ beside \subseteq now
        /\ used \subseteq used'
    BY <1>1, <2>1, RunsStay
  <2>3. /\ b \in BugId /\ b \in used /\ Follows(b, base, beside)
        /\ Exists(b) => base < Count(b)
    BY <1>1, <2>1, <2>2 DEF SeenSound
  <2>4. base \in Nat
    <3>1. runs[r] \in RunRecord
      BY <1>1 DEF CInv, RunTypes
    <3>2. QED
      BY <2>1, <3>1 DEF RunRecord
  <2>5. Follows(b, base, now)' /\ (Exists(b)' => base < Count(b)')
    BY <2>2, <2>3, <2>4, FollowsStays
  <2>6. QED
    BY <2>1, <2>2, <2>3, <2>5
<1>2. CASE ~ (r \in DOMAIN runs /\ runs[r].result = "conflict")
  <2>1. /\ r = proc[p].run /\ Busy(p) /\ runs'[r].beside = runs[r].beside
        /\ b \in BugId => runs'[r].base = proc[p].seen[b]
        /\ Quiet(p, "conflict", b)
    <3>1. runs'[r].result # "running"
      OBVIOUS
    <3>2. r = proc[p].run /\ Busy(p) /\ runs'[r].beside = runs[r].beside
      BY <1>2, <3>1, WhoAnswers
    <3>3. \E c \in BugId \union {NoBug} :
            /\ runs'[r].target = c /\ (c \in BugId => runs'[r].base = proc[p].seen[c])
            /\ \/ Quiet(p, runs'[r].result, c)
               \/ runs'[r].result = "ok" /\ (AppendOperation(p) \/ Create(p))
               \/ runs'[r].result \in {"ok", "failed"} /\ RemoveIfMatches(p)
      BY <1>2, <3>1, WhoAnswers
    <3>4. QED
      BY <3>2, <3>3
  <2>2. /\ Does(p, "append") /\ b = proc[p].target /\ Count(b) # proc[p].seen[b] /\ bugs' = bugs
    BY <2>1 DEF Quiet, Refused
  <2>3. b \in BugId /\ proc[p].seen[b] # 0 /\ b \in used
    BY <2>2, TargetFacts
  <2>4. PICK seen, beside : seen = proc[p].seen[b] /\ beside = runs[r].beside
    OBVIOUS
  <2>5. Follows(b, seen, beside) /\ seen \in Nat
    BY <2>1, <2>3, <2>4, RunFacts DEF SeenSound, ProcRecord
  <2>6. Exists(b) => seen < Count(b)
    <3>1. Count(b) \in Nat
      BY <2>3 DEF CInv, Shared, Count
    <3>2. QED
      BY <2>2, <2>4, <2>5, <3>1 DEF Follows
  <2>7. Follows(b, seen, beside)' /\ (Exists(b)' => seen < Count(b)')
    BY <2>2, <2>5, <2>6 DEF Follows, Exists, Count
  <2>8. QED
    BY <2>1, <2>3, <2>4, <2>7, RunsStay
<1>3. QED
  BY <1>1, <1>2

LEMMA SeenStep ==
  ASSUME CInv, SeenSound, NEW p \in Proc, Step(p)
  PROVE  SeenSound'
<1>1. \A q \in Proc, b \in BugId : Busy(q)' /\ (proc[q].seen[b] # 0)' =>
        Follows(b, proc[q].seen[b], runs[proc[q].run].beside)'
  BY SeenByOthers, SeenByItself
<1>2. \A r \in DOMAIN runs' : runs'[r].result = "conflict" =>
        /\ runs'[r].target \in BugId /\ runs'[r].target \in used'
        /\ Follows(runs[r].target, runs[r].base, runs[r].beside)'
        /\ Exists(runs[r].target)' => runs'[r].base < Count(runs[r].target)'
  BY RefusedFollows
<1>3. QED
  BY <1>1, <1>2 DEF SeenSound

(* A commit is refused only because a run at the same time changed the bug *)
(* or removed it: of two that compete, one got through.                    *)
THEOREM ConflictsMeanProgress == Spec => []ConflictMeansProgress
<1>1. Init => CInv /\ SeenSound
  <2>1. Init => SeenSound
    BY IdleFacts DEF Init, SeenSound, Busy
  <2>2. QED
    BY <2>1, CInit
<1>2. CInv /\ SeenSound /\ [Next]_vars => (CInv /\ SeenSound)'
  <2>1. ASSUME SeenSound, UNCHANGED vars PROVE SeenSound'
    BY <2>1 DEF vars, SeenSound, Follows, Busy, Exists, Count
  <2>2. QED
    BY <2>1, CNext, SeenStep DEF Next, Step
<1>3. SeenSound => ConflictMeansProgress
  BY DEF SeenSound, ConflictMeansProgress, Follows
<1>4. QED
  BY <1>1, <1>2, <1>3, PTL DEF Spec
------------------------------------------------------------------------------
(* What cannot be loaded.                                                  *)

(* A step that goes on leaves a process with the command, the identities   *)
(* and the actor it has, but for those that load the cache or choose.      *)
Held(p) ==
  /\ proc'[p].cmd = proc[p].cmd /\ proc'[p].known = proc[p].known
  /\ proc'[p].actor = proc[p].actor /\ proc'[p].at \notin Loading

Passes(p) == Held(p) /\ proc'[p].at \notin {"wipe", "wipe files"}

LEMMA HeldOnResolve ==
  ASSUME CInv, NEW p \in Proc, Busy(p)', Resolve(p) \/ AskText(p)
  PROVE  Passes(p)
<1>1. /\ proc[p] \in ProcRecord /\ proc \in [Proc -> ProcRecord] /\ proc'[p] # Idle
      /\ Input(p) \in {"act", "input"}
  BY IdleFacts DEF CInv, Busy, Input
<1>2. ~ Ended(p, "failed")
  BY <1>1 DEF Ended
<1>3. ASSUME NEW at \in {"act", "input", "selection", "unselect", "edit", "edited"}, Go(p, at)
      PROVE  Passes(p)
  BY <1>1, <1>3 DEF Go, Passes, Held, ProcRecord, Loading
<1>4. ASSUME NEW b, Found(p, b) PROVE Passes(p)
  BY <1>1, <1>4 DEF Found, Passes, Held, ProcRecord, Loading
<1>5. CASE ResolveNothing(p)
  BY <1>1, <1>3, <1>5 DEF ResolveNothing
<1>6. CASE ResolvePrefix(p) \/ ResolveComment(p)
  <2>1. PICK b : proc' = [proc EXCEPT ![p].at = Input(p), ![p].target = b, ![p].named = b]
    BY <1>2, <1>6 DEF ResolvePrefix, ResolveComment
  <2>2. QED
    BY <1>1, <2>1 DEF Passes, Held, ProcRecord, Loading
<1>7. CASE ResolveMissing(p)
  BY <1>2, <1>3, <1>7 DEF ResolveMissing
<1>8. CASE ReadSelection(p)
  <2>1. NoFile \notin BugId \union {NoBug} /\ NoBug \notin BugId
    BY IdAssumption, EmptyAssumption DEF NoFile
  <2>2. \/ Go(p, "unselect") \/ Found(p, selection)
        \/ proc' = [proc EXCEPT ![p].at = Input(p), ![p].target = selection,
                                ![p].seen[selection] = Count(selection)]
    BY <1>2, <1>8, <2>1 DEF ReadSelection, Known
  <2>3. CASE proc' = [proc EXCEPT ![p].at = Input(p), ![p].target = selection,
                                  ![p].seen[selection] = Count(selection)]
    BY <1>1, <2>3 DEF Passes, Held, ProcRecord, Loading
  <2>4. QED
    BY <1>3, <1>4, <2>2, <2>3
<1>9. CASE Unselect(p)
  BY <1>1, <1>9 DEF Unselect, Unlinked
<1>10. CASE Flag(p)
  BY <1>1, <1>10 DEF Flag, Passes, Held, ProcRecord, Loading
<1>11. CASE Template(p) \/ Type(p)
  BY <1>3, <1>11 DEF Template, Type
<1>12. CASE ReadDraft(p)
  <2>1. proc' = [proc EXCEPT ![p].at = "act", ![p].text = draft]
    BY <1>2, <1>12 DEF ReadDraft
  <2>2. QED
    BY <1>1, <2>1 DEF Passes, Held, ProcRecord, Loading
<1>13. QED
  BY <1>5, <1>6, <1>7, <1>8, <1>9, <1>10, <1>11, <1>12 DEF Resolve, AskText

LEMMA HeldOnAct ==
  ASSUME CInv, NEW p \in Proc, Busy(p)', Act(p)
  PROVE  \/ Passes(p) /\ proc'[p].at \in {"remove", "select", "set user"}
         \/ UserStore(p) \/ UserAdoptee(p)
<1>1. proc[p] \in ProcRecord /\ proc \in [Proc -> ProcRecord] /\ proc'[p] # Idle
  BY IdleFacts DEF CInv, Busy
<1>2. \A result : ~ Ended(p, result)
  BY <1>1 DEF Ended
<1>3. CASE RemoveResolve(p)
  <2>1. PICK b : proc' = [proc EXCEPT ![p].at = "remove", ![p].seen[b] = Count(b)]
    BY <1>2, <1>3 DEF RemoveResolve
  <2>2. QED
    BY <1>1, <2>1 DEF Passes, Held, ProcRecord, Loading
<1>4. CASE SelectOpen(p)
  BY <1>1, <1>4 DEF SelectOpen, Passes, Held, ProcRecord, Loading
<1>5. CASE UserIsSet(p)
  <2>1. Go(p, "set user")
    BY <1>2, <1>5 DEF UserIsSet
  <2>2. QED
    BY <1>1, <2>1 DEF Go, Passes, Held, ProcRecord, Loading
<1>6. CASE Read(p) \/ Refuse(p) \/ AppendOperation(p) \/ AppendConflict(p) \/ RemoveIfMatches(p)
  <2>1. \E result : Ended(p, result)
    BY <1>6 DEF Read, Refuse, AppendOperation, AppendConflict, RemoveIfMatches
  <2>2. QED
    BY <1>2, <2>1
<1>7. CASE Create(p) \/ SelectWrite(p) \/ Deselect(p) \/ SetUserIdentity(p)
  <2>1. proc'[p] = Idle
    <3>1. CASE Create(p)
      BY <1>1, <3>1 DEF Create
    <3>2. CASE SelectWrite(p)
      BY <3>2 DEF SelectWrite, Told
    <3>3. CASE Deselect(p)
      BY <3>3 DEF Deselect, Unlinked
    <3>4. CASE SetUserIdentity(p)
      BY <3>4 DEF SetUserIdentity, Told
    <3>5. QED
      BY <1>7, <3>1, <3>2, <3>3, <3>4
  <2>2. QED
    BY <1>1, <2>1
<1>8. QED
  BY <1>3, <1>4, <1>5, <1>6, <1>7 DEF Act

LEMMA HeldOnWipe ==
  ASSUME CInv, NEW p \in Proc, Busy(p)', WipeAll(p)
  PROVE  /\ Held(p) /\ proc'[p].at \in {"wipe", "wipe files"} /\ ~ WipeFailed(p) /\ ~ WipeStorage(p)
<1>1. proc[p] \in ProcRecord /\ proc \in [Proc -> ProcRecord] /\ proc'[p] # Idle
  BY IdleFacts DEF CInv, Busy
<1>2. ~ WipeFailed(p) /\ ~ WipeStorage(p)
  BY <1>1 DEF WipeFailed, WipeStorage, Ended, Unlinked
<1>3. CASE WipeBegin(p)
  <2>1. Held(p) /\ proc'[p].at \in {"wipe", "wipe files"}
    BY <1>1, <1>3 DEF WipeBegin, ProcRecord, Held, Loading
  <2>2. QED
    BY <1>2, <2>1
<1>4. CASE WipeList(p)
  <2>1. PICK kind : proc' = [proc EXCEPT ![p].todo = (@ \ {kind}) \union ListRefs(kind)]
    BY <1>4 DEF WipeList
  <2>2. Held(p) /\ proc'[p].at \in {"wipe", "wipe files"}
    BY <1>1, <1>4, <2>1 DEF WipeList, At, ProcRecord, Held, Loading
  <2>3. QED
    BY <1>2, <2>2
<1>5. CASE WipeResolve(p)
  <2>1. PICK b : \/ proc' = [proc EXCEPT ![p].target = b, ![p].seen[b] = Count(b)]
                 \/ proc' = [proc EXCEPT ![p].todo = @ \ {b}]
    BY <1>5 DEF WipeResolve
  <2>2. proc[p].at = "wipe"
    BY <1>5 DEF WipeResolve, At
  <2>3. CASE proc' = [proc EXCEPT ![p].target = b, ![p].seen[b] = Count(b)]
    BY <1>1, <1>2, <2>2, <2>3 DEF ProcRecord, Held, Loading
  <2>4. CASE proc' = [proc EXCEPT ![p].todo = @ \ {b}]
    BY <1>1, <1>2, <2>2, <2>4 DEF ProcRecord, Held, Loading
  <2>5. QED
    BY <2>1, <2>3, <2>4
<1>6. CASE WipeBug(p)
  <2>1. PICK b : b = proc[p].target
    OBVIOUS
  <2>2. \/ proc' = [proc EXCEPT ![p].target = NoBug, ![p].todo = @ \ {b}]
        \/ proc' = [proc EXCEPT ![p].target = NoBug, ![p].todo = @ \ BugId, ![p].failed = TRUE]
    BY <1>6, <2>1 DEF WipeBug
  <2>3. proc[p].at = "wipe"
    BY <1>6 DEF WipeBug, At
  <2>4. CASE proc' = [proc EXCEPT ![p].target = NoBug, ![p].todo = @ \ {b}]
    BY <1>1, <1>2, <2>3, <2>4 DEF ProcRecord, Held, Loading
  <2>5. CASE proc' = [proc EXCEPT ![p].target = NoBug, ![p].todo = @ \ BugId,
                                  ![p].failed = TRUE]
    BY <1>1, <1>2, <2>3, <2>5 DEF ProcRecord, Held, Loading
  <2>6. QED
    BY <2>2, <2>4, <2>5
<1>7. CASE WipePerson(p)
  <2>1. PICK i : \/ proc' = [proc EXCEPT ![p].todo = @ \ {i}]
                 \/ proc' = [proc EXCEPT ![p].todo = @ \ Person, ![p].failed = TRUE]
    BY <1>7 DEF WipePerson
  <2>2. proc[p].at = "wipe"
    BY <1>7 DEF WipePerson, At
  <2>3. CASE proc' = [proc EXCEPT ![p].todo = @ \ {i}]
    BY <1>1, <1>2, <2>2, <2>3 DEF ProcRecord, Held, Loading
  <2>4. CASE proc' = [proc EXCEPT ![p].todo = @ \ Person, ![p].failed = TRUE]
    BY <1>1, <1>2, <2>2, <2>4 DEF ProcRecord, Held, Loading
  <2>5. QED
    BY <2>1, <2>3, <2>4
<1>8. CASE WipeConfig(p)
  <2>1. proc'[p] = [Noted(p, proc[p], config', selection) EXCEPT !.at = "wipe files"]
    BY <1>1, <1>8 DEF WipeConfig, Told, At, Busy
  <2>2. Held(p) /\ proc'[p].at \in {"wipe", "wipe files"}
    BY <1>1, <2>1 DEF Noted, ProcRecord, Held, Loading
  <2>3. QED
    BY <1>2, <2>2
<1>9. QED
  BY <1>2, <1>3, <1>4, <1>5, <1>6, <1>7, <1>8 DEF WipeAll

LEMMA HeldStep ==
  ASSUME CInv, NEW p \in Proc, Step(p), Busy(p), Busy(p)'
  PROVE  \/ Passes(p) \/ Load(p) \/ Actor(p) \/ UserStore(p) \/ UserAdoptee(p)
         \/ WipeAll(p) /\ Held(p) /\ ~ WipeFailed(p) /\ ~ WipeStorage(p)
<1>1. ~ Kill(p) /\ ~ Start(p)
  BY IdleFacts DEF Kill, Ended, Start, At, Busy, CInv
<1>2. QED
  BY <1>1, HeldOnResolve, HeldOnAct, HeldOnWipe DEF Step

(* Loading: what is read is there.                                         *)
LEMMA LoadLearns ==
  ASSUME CInv, NEW p \in Proc, Load(p), Busy(p)'
  PROVE  /\ Busy(p) /\ Cmd(p) = NoCommand /\ people' = people /\ bugs' = bugs
         /\ proc'[p].at \in {"read people", "read bugs"}
         /\ proc'[p].known \subseteq proc[p].known \union people /\ proc'[p].actor = proc[p].actor
         /\ proc'[p].at = "read people" =>
              proc'[p].todo = people \/ (At(p, "read people") /\ proc'[p].todo \subseteq proc[p].todo)
         /\ proc'[p].at = "read bugs" =>
              \/ \A b \in proc'[p].todo : Exists(b)
              \/ At(p, "read bugs") /\ proc'[p].todo \subseteq proc[p].todo
<1>1. /\ proc \in [Proc -> ProcRecord] /\ proc[p] \in ProcRecord /\ proc'[p] # Idle
      /\ Busy(p) /\ proc[p].at \in Loading
  BY IdleFacts DEF CInv, Busy, Load, ListPeople, ReadPerson, ListBugs, ReadBug, At, Loading
<1>2. Cmd(p) = NoCommand /\ people' = people /\ bugs' = bugs
  <2>1. Sound(p, proc[p])
    BY <1>1, RunFacts
  <2>2. QED
    BY <1>1, <2>1 DEF Sound, Control, Begun, Fresh, Cmd, Load, ListPeople, ReadPerson, ListBugs,
                      ReadBug, refs
<1>3. ~ NotLoaded(p)
  BY <1>1 DEF NotLoaded, Ended
<1>4. CASE ListPeople(p)
  <2>1. proc' = [proc EXCEPT ![p].at = "read people", ![p].todo = people]
    BY <1>4 DEF ListPeople, ListRefs
  <2>2. QED
    BY <1>1, <1>2, <2>1 DEF ProcRecord
<1>5. CASE ReadPerson(p)
  <2>1. PICK i \in people : proc' = [proc EXCEPT ![p].todo = @ \ {i}, ![p].known = @ \union {i}]
    BY <1>3, <1>5 DEF ReadPerson
  <2>2. QED
    BY <1>1, <1>2, <1>5, <2>1 DEF ProcRecord, ReadPerson, At
<1>6. CASE ListBugs(p)
  <2>1. PICK listed : /\ listed = {b \in BugId : Exists(b)}
                      /\ proc' = [proc EXCEPT ![p].at = "read bugs", ![p].todo = listed]
    BY <1>6 DEF ListBugs, ListRefs
  <2>2. /\ proc'[p].at = "read bugs" /\ proc'[p].todo = listed
        /\ proc'[p].known = proc[p].known /\ proc'[p].actor = proc[p].actor
    BY <1>1, <2>1 DEF ProcRecord
  <2>3. QED
    BY <1>1, <1>2, <2>1, <2>2
<1>7. CASE ReadBug(p)
  <2>1. PICK b : proc' = [proc EXCEPT ![p].todo = @ \ {b}, ![p].seen[b] = Count(b)]
    BY <1>3, <1>7 DEF ReadBug
  <2>2. QED
    BY <1>1, <1>2, <1>7, <2>1 DEF ProcRecord, ReadBug, At
<1>8. QED
  BY <1>4, <1>5, <1>6, <1>7 DEF Load

LEMMA ActorLearns ==
  ASSUME CInv, NEW p \in Proc, Actor(p), Busy(p)'
  PROVE  /\ Busy(p) /\ Cmd(p) = NoCommand /\ people' = people /\ bugs' = bugs
         /\ proc'[p].at = "resolve" /\ proc'[p].known = proc[p].known
         /\ proc'[p].actor \in proc[p].known \union people \union {NoOne}
<1>1. /\ proc \in [Proc -> ProcRecord] /\ proc[p] \in ProcRecord /\ proc'[p] # Idle
      /\ Busy(p) /\ proc[p].at = "read bugs"
  BY IdleFacts DEF CInv, Busy, Actor, ActorOverride, ActorDefault, ActorNone, Runs, Loaded, At
<1>2. Cmd(p) = NoCommand /\ people' = people /\ bugs' = bugs
  <2>1. Sound(p, proc[p])
    BY <1>1, RunFacts
  <2>2. QED
    BY <1>1, <2>1 DEF Sound, Control, Begun, Fresh, Cmd, Loading, Actor, ActorOverride,
                      ActorDefault, ActorNone, refs
<1>3. ~ Ended(p, "failed")
  BY <1>1 DEF Ended
<1>4. \E cmd : \E i \in proc[p].known \union people \union {NoOne} :
        Acts(p, cmd, i) \/ ActsAs(p, cmd, i)
  <2>1. CASE ActorOverride(p)
    BY <1>3, <2>1 DEF ActorOverride
  <2>2. CASE ActorDefault(p)
    BY <1>3, <2>2 DEF ActorDefault, HasUserIdentity
  <2>3. CASE ActorNone(p)
    BY <2>3 DEF ActorNone
  <2>4. QED
    BY <2>1, <2>2, <2>3 DEF Actor
<1>5. PICK cmd : \E i \in proc[p].known \union people \union {NoOne} :
        Acts(p, cmd, i) \/ ActsAs(p, cmd, i)
  BY <1>4
<1>6. PICK i \in proc[p].known \union people \union {NoOne} : Acts(p, cmd, i) \/ ActsAs(p, cmd, i)
  BY <1>5
<1>7. CASE Acts(p, cmd, i)
  <2>1. proc'[p].at = "resolve" /\ proc'[p].known = proc[p].known /\ proc'[p].actor = i
    BY <1>1, <1>7 DEF Acts, ProcRecord
  <2>2. QED
    BY <1>1, <1>2, <2>1
<1>8. CASE ActsAs(p, cmd, i)
  <2>1. proc'[p].at = "resolve" /\ proc'[p].known = proc[p].known /\ proc'[p].actor = i
    BY <1>1, <1>8 DEF ActsAs, ProcRecord
  <2>2. QED
    BY <1>1, <1>2, <2>1
<1>9. QED
  BY <1>6, <1>7, <1>8

LEMMA UserLearns ==
  ASSUME CInv, NEW p \in Proc, UserStore(p) \/ UserAdoptee(p), Busy(p)'
  PROVE  /\ proc'[p].at \in {"user stored", "set user"} /\ proc'[p].known = proc[p].known
         /\ proc'[p].actor \in proc[p].known \union people' /\ proc'[p].cmd = proc[p].cmd
         /\ people \subseteq people' /\ bugs' = bugs
<1>1. proc \in [Proc -> ProcRecord] /\ proc[p] \in ProcRecord /\ proc'[p] # Idle
  BY IdleFacts DEF CInv, Busy
<1>2. CASE UserStore(p)
  <2>1. PICK i \in people' : /\ proc' = [proc EXCEPT ![p].at = "user stored", ![p].actor = i]
                             /\ people \subseteq people'
    BY <1>2 DEF UserStore
  <2>2. QED
    BY <1>1, <1>2, <2>1 DEF ProcRecord, UserStore
<1>3. CASE UserAdoptee(p)
  <2>1. PICK i \in proc[p].known : proc' = [proc EXCEPT ![p].at = "set user", ![p].actor = i]
    BY <1>1, <1>3 DEF UserAdoptee, Ended
  <2>2. QED
    BY <1>1, <1>3, <2>1 DEF ProcRecord, UserAdoptee, refs
<1>4. QED
  BY <1>2, <1>3

(* A process keeps its command once it has one, and knows what was there.  *)
LEMMA Learned ==
  ASSUME CInv, NEW p \in Proc, Step(p), Busy(p), Busy(p)'
  PROVE  /\ Cmd(p) # NoCommand => proc'[p].cmd = proc[p].cmd
         /\ proc'[p].known \subseteq proc[p].known \union people
         /\ proc'[p].actor \in {NoOne, proc[p].actor} \union proc[p].known \union people \union people'
<1>1. CASE Held(p)
  BY <1>1 DEF Held
<1>2. CASE Load(p)
  BY <1>2, LoadLearns
<1>3. CASE Actor(p)
  BY <1>3, ActorLearns
<1>4. CASE UserStore(p) \/ UserAdoptee(p)
  BY <1>4, UserLearns
<1>5. QED
  BY <1>1, <1>2, <1>3, <1>4, HeldStep DEF Passes

(* Only a wipe removes identities; bugs go with a wipe or a `bug rm`.      *)
LEMMA PeopleStay ==
  ASSUME CInv, NEW p \in Proc, Step(p)
  PROVE  people \subseteq people' \/ (At(p, "wipe") /\ Busy(p) /\ Cmd(p).act = "wipe")
<1>1. CASE WipePerson(p)
  BY <1>1, WipeFacts DEF WipePerson
<1>2. CASE UserStore(p)
  BY <1>2 DEF UserStore
<1>3. CASE people' = people
  BY <1>3
<1>4. CASE Start(p) \/ Kill(p) \/ Load(p) \/ Actor(p)
  BY <1>4 DEF Start, Kill, Load, ListPeople, ReadPerson, ListBugs, ReadBug, Actor, ActorOverride,
              ActorDefault, ActorNone, refs
<1>5. CASE Resolve(p) \/ AskText(p)
  BY <1>5 DEF Resolve, ResolveNothing, ResolvePrefix, ResolveComment, ResolveMissing,
              ReadSelection, Unselect, AskText, Flag, Template, Type, ReadDraft, refs
<1>6. CASE Act(p)
  BY <1>2, <1>3, <1>6 DEF Act, Read, Refuse, AppendOperation, AppendConflict, Create,
              RemoveResolve, RemoveIfMatches, SelectOpen, SelectWrite, Deselect, UserIsSet,
              UserAdoptee, SetUserIdentity, refs
<1>7. CASE WipeAll(p)
  BY <1>1, <1>3, <1>7 DEF WipeAll, WipeBegin, WipeList, WipeResolve, WipeBug, WipeFailed,
              WipeConfig, WipeStorage, refs
<1>8. QED
  BY <1>4, <1>5, <1>6, <1>7 DEF Step

LEMMA BugsStay ==
  ASSUME CInv, NEW p \in Proc, Step(p), NEW b \in BugId, Exists(b)
  PROVE  Exists(b)' \/ (Busy(p) /\ Cmd(p).act \in {"remove", "wipe"})
<1>1. bugs[b] \in Seq(OperationRecord) /\ bugs[b] # <<>>
  BY DEF CInv, Shared, Exists
<1>2. CASE bugs' = bugs
  BY <1>2 DEF Exists
<1>3. CASE WipeBug(p)
  BY <1>3, WipeFacts DEF WipeBug
<1>4. CASE RemoveIfMatches(p)
  <2>1. At(p, "remove") /\ Busy(p)
    BY <1>4, TargetFacts DEF RemoveIfMatches
  <2>2. QED
    BY <2>1, RunFacts DEF Sound, Control, Doing, At, Cmd
<1>5. CASE AppendOperation(p) \/ Create(p)
  <2>1. Op(p) \in OperationRecord /\ bugs \in [BugId -> Seq(OperationRecord)]
    BY <1>5, OpFacts DEF AppendOperation, Create, CInv, Shared
  <2>2. PICK ops, new : ops = bugs[b] /\ new = bugs'[b]
    OBVIOUS
  <2>3. new = ops \/ new = Append(ops, Op(p)) \/ new = <<Op(p)>>
    <3>1. CASE AppendOperation(p)
      BY <2>1, <2>2, <3>1 DEF AppendOperation
    <3>2. CASE Create(p)
      BY <2>1, <2>2, <3>2 DEF Create
    <3>3. QED
      BY <1>5, <3>1, <3>2
  <2>4. new # <<>>
    <3>1. Len(ops) \in Nat /\ Len(Append(ops, Op(p))) = Len(ops) + 1
      BY <1>1, <2>1, <2>2
    <3>2. Append(ops, Op(p)) # <<>> /\ <<Op(p)>> # <<>>
      BY <3>1
    <3>3. QED
      BY <1>1, <2>2, <2>3, <3>2
  <2>5. QED
    BY <2>2, <2>4 DEF Exists
<1>6. QED
  BY <1>2, <1>3, <1>4, <1>5, WhoChangesBugs

(* A wipe that says it is done has removed the files last.                 *)
LEMMA WipeEnds ==
  ASSUME CInv, NEW p \in Proc, Step(p), Busy(p), Cmd(p).act = "wipe",
         runs'[proc[p].run].result = "ok"
  PROVE  At(p, "wipe files")
<1>1. proc[p] \in ProcRecord /\ Sound(p, proc[p]) /\ runs[proc[p].run].result = "running"
  BY RunFacts
<1>2. runs' # runs
  BY <1>1
<1>3. \A c \in BugId \union {NoBug} : ~ Answer(p, "failed", c)
  BY AnswerFacts, ResultFacts
<1>4. proc[p].target \in BugId \union {NoBug}
  BY <1>1 DEF ProcRecord
<1>5. ~ Ended(p, "failed")
  BY <1>3, <1>4 DEF Ended
<1>6. ~ Kill(p) /\ ~ Start(p) /\ ~ Load(p) /\ ~ Actor(p)
  <2>1. proc[p].at # "idle" /\ proc[p].at \notin Loading
    BY <1>1, NoCommandFacts DEF Busy, Cmd, Sound, Control, Begun, Fresh
  <2>2. QED
    BY <1>5, <2>1 DEF Kill, Start, Load, ListPeople, ReadPerson, ListBugs, ReadBug, Actor,
                      ActorOverride, ActorDefault, ActorNone, Runs, Loaded, At, Loading
<1>7. ~ Resolve(p)
  <2>1. ~ ReadSelection(p)
    <3>1. NoFile \notin BugId \union {NoBug} /\ NoBug \notin BugId
      BY IdAssumption, EmptyAssumption DEF NoFile
    <3>2. QED
      BY <1>2, <1>5, <3>1 DEF ReadSelection, Known
  <2>2. ~ Unselect(p)
    BY <1>3, <1>4 DEF Unselect
  <2>3. QED
    BY <1>2, <1>5, <2>1, <2>2 DEF Resolve, ResolveNothing, ResolvePrefix, ResolveComment,
                                  ResolveMissing
<1>8. ~ AskText(p)
  BY <1>2, <1>5 DEF AskText, Flag, Template, Type, ReadDraft
<1>9. ~ Act(p)
  <2>1. ~ SelectWrite(p) /\ ~ UserIsSet(p) /\ ~ SetUserIdentity(p) /\ ~ RemoveIfMatches(p)
    BY <1>1 DEF Sound, Control, Doing, SelectWrite, UserIsSet, SetUserIdentity,
                RemoveIfMatches, At, Cmd
  <2>2. QED
    BY <2>1 DEF Act, Read, Refuse, AppendOperation, AppendConflict, Create, RemoveResolve,
                SelectOpen, Deselect, UserStore, UserAdoptee, Does
<1>10. CASE WipeAll(p)
  BY <1>2, <1>5, <1>10 DEF WipeAll, WipeBegin, WipeList, WipeResolve, WipeBug, WipePerson,
                           WipeFailed, WipeConfig, WipeStorage
<1>11. QED
  BY <1>6, <1>7, <1>8, <1>9, <1>10 DEF Step

(* What a run does is known for good once its command line has been read.  *)
LEMMA DoesStays ==
  ASSUME CInv, CInv', NEW p \in Proc, Step(p), NEW s \in DOMAIN runs,
         NEW act \in {"wipe", "remove"}, DoesNow(s, act)
  PROVE  DoesNow(s, act)'
<1>1. s \in DOMAIN runs'
  BY RunsStay
<1>2. CASE runs[s].result # "running"
  BY <1>2, RunsStay DEF DoesNow
<1>3. CASE runs[s].result = "running"
  <2>1. PICK q \in Proc : Busy(q) /\ proc[q].run = s /\ Cmd(q).act = act
    BY <1>3 DEF DoesNow
  <2>2. Cmd(q) # NoCommand
    BY <2>1, NoCommandFacts
  <2>3. CASE runs'[s].result = "running"
    <3>1. CASE q # p
      <4>1. Alike(proc[q], proc'[q])
        BY <3>1, OthersAlike
      <4>2. Busy(q)' /\ proc'[q].run = s /\ Cmd(q)'.act = act
        BY <2>1, <4>1 DEF Alike, Busy, Cmd
      <4>3. QED
        BY <2>3, <4>2 DEF DoesNow
    <3>2. CASE q = p
      <4>1. PICK t \in Proc : Busy(t)' /\ proc'[t].run = s
        BY <1>1, <2>3 DEF CInv, Running
      <4>2. t = p
        <5>1. ASSUME t # p PROVE FALSE
          <6>1. Alike(proc[t], proc'[t])
            BY <5>1, OthersAlike
          <6>2. Busy(t) /\ proc[t].run = s
            BY <4>1, <6>1 DEF Alike, Busy
          <6>3. QED
            BY <2>1, <3>2, <5>1, <6>2 DEF CInv, Running
        <5>2. QED
          BY <5>1
      <4>3. proc'[p].cmd = proc[p].cmd
        BY <2>1, <2>2, <3>2, <4>1, <4>2, Learned
      <4>4. QED
        BY <2>1, <2>3, <3>2, <4>1, <4>2, <4>3 DEF DoesNow, Cmd
    <3>3. QED
      BY <3>1, <3>2
  <2>4. CASE runs'[s].result # "running"
    <3>1. s = proc[p].run /\ Busy(p) /\ runs'[s].act = Cmd(p).act
      BY <1>1, <1>3, <2>4, WhoAnswers
    <3>2. q = p
      BY <2>1, <3>1 DEF CInv, Running
    <3>3. QED
      BY <2>1, <2>4, <3>1, <3>2 DEF DoesNow
  <2>5. QED
    BY <2>3, <2>4
<1>4. QED
  BY <1>2, <1>3

LEMMA MeanwhileStays ==
  ASSUME CInv, CInv', NEW p \in Proc, Step(p), NEW q \in Proc, Busy(q),
         proc'[q].run = proc[q].run, NEW act \in {"wipe", "remove"}, Meanwhile(q, act)
  PROVE  Meanwhile(q, act)'
<1>1. PICK s \in runs[proc[q].run].beside : DoesNow(s, act)
  BY DEF Meanwhile
<1>2. proc[q].run \in DOMAIN runs
  BY RunFacts
<1>3. s \in DOMAIN runs
  BY <1>1, <1>2 DEF CInv, Running
<1>4. s \in runs'[proc'[q].run].beside
  BY <1>1, <1>2, RunsStay
<1>5. DoesNow(s, act)'
  BY <1>1, <1>3, DoesStays
<1>6. QED
  BY <1>4, <1>5 DEF Meanwhile

LEMMA WhoIsBeside ==
  ASSUME CInv, NEW p \in Proc, NEW q \in Proc, p # q, Busy(p), Busy(q), NEW act,
         Cmd(q).act = act
  PROVE  Meanwhile(p, act)
<1>1. proc[q].run \in runs[proc[p].run].beside /\ runs[proc[q].run].result = "running"
  BY DEF CInv, Running
<1>2. DoesNow(proc[q].run, act)
  BY <1>1 DEF DoesNow
<1>3. QED
  BY <1>1, <1>2 DEF Meanwhile

(* A process that begins knows nobody yet.                                 *)
LEMMA Begins ==
  ASSUME CInv, NEW p \in Proc, Step(p), ~ Busy(p)
  PROVE  /\ proc'[p].at = "people" /\ proc'[p].known = {} /\ proc'[p].actor = NoOne
         /\ proc'[p].cmd = NoCommand /\ people' = people /\ bugs' = bugs /\ Start(p)
<1>1. ~ Goes(p) /\ ~ \E result, c : Quiet(p, result, c)
  BY DEF Goes, Quiet, Stops
<1>2. ~ AppendOperation(p) /\ ~ Create(p) /\ ~ RemoveIfMatches(p)
  BY DEF AppendOperation, Create, RemoveIfMatches, Does, At, Busy
<1>3. Start(p)
  BY <1>1, <1>2, StepKinds
<1>4. PICK n, r, more :
        /\ n = Len(runs) + 1 /\ r = [Idle EXCEPT !.at = "people", !.run = n]
        /\ more = IF p \in Terminal /\ selection \in BugId THEN {selection} ELSE {}
  OBVIOUS
<1>5. proc'[p] = [r EXCEPT !.configs = @ \union {config}, !.selected = @ \union more]
  BY <1>3, <1>4 DEF Start, Noted, CInv
<1>6. n \in 1 .. MaxRuns
  BY <1>3, <1>4, StartFacts
<1>7. /\ r \in ProcRecord
      /\ r.at = "people" /\ r.known = {} /\ r.actor = NoOne /\ r.cmd = NoCommand
  <2>1. PICK idle : idle = Idle
    OBVIOUS
  <2>2. idle \in ProcRecord /\ idle.known = {} /\ idle.actor = NoOne /\ idle.cmd = NoCommand
    BY <2>1, IdleFacts
  <2>3. r = [idle EXCEPT !.at = "people", !.run = n] /\ "people" \in Places /\ n \in 0 .. MaxRuns
    BY <1>4, <1>6, <2>1, BoundAssumption DEF Places, Loading
  <2>4. QED
    BY <2>2, <2>3 DEF ProcRecord
<1>8. /\ proc'[p].at = r.at /\ proc'[p].known = r.known /\ proc'[p].actor = r.actor
      /\ proc'[p].cmd = r.cmd
  BY <1>5, <1>7 DEF ProcRecord
<1>9. people' = people /\ bugs' = bugs
  BY <1>3 DEF Start, refs
<1>10. QED
  BY <1>3, <1>7, <1>8, <1>9

LEMMA WipePlaces ==
  ASSUME CInv, NEW p \in Proc, Step(p), proc'[p].at \in {"wipe", "wipe files"}
  PROVE  /\ Busy(p) /\ WipeAll(p) /\ ~ WipeFailed(p) /\ ~ WipeStorage(p)
<1>1. Busy(p)'
  BY DEF Busy
<1>2. Busy(p)
  BY Begins
<1>3. ~ Passes(p) /\ ~ Load(p) /\ ~ Actor(p) /\ ~ UserStore(p) /\ ~ UserAdoptee(p)
  BY <1>1, LoadLearns, ActorLearns, UserLearns DEF Passes
<1>4. QED
  BY <1>1, <1>2, <1>3, HeldStep

LEMMA RunIsKept ==
  ASSUME CInv, NEW p \in Proc, Step(p), Busy(p), Busy(p)'
  PROVE  proc'[p].run = proc[p].run /\ runs' = runs
<1>1. ~ Start(p)
  BY DEF Start, At, Busy
<1>2. proc'[p] # Idle /\ proc \in [Proc -> ProcRecord]
  BY IdleFacts DEF Busy, CInv
<1>3. ~ \E result, c : Quiet(p, result, c)
  BY <1>2 DEF Quiet, Stops
<1>4. ~ AppendOperation(p) /\ ~ Create(p) /\ ~ RemoveIfMatches(p)
  BY <1>2 DEF AppendOperation, Create, RemoveIfMatches, Ended
<1>5. QED
  BY <1>1, <1>3, <1>4, StepKinds DEF Goes

(* A run that is under way while another step is taken is not alone.       *)
LEMMA NotAlone ==
  ASSUME CInv, NEW p \in Proc, Step(p), NEW q \in Proc, q # p, Busy(q)
  PROVE  runs'[proc[q].run].beside # {}
<1>1. proc[q].run \in DOMAIN runs
  BY RunFacts
<1>2. CASE Busy(p)
  <2>1. proc[p].run \in runs[proc[q].run].beside
    BY <1>2 DEF CInv, Running
  <2>2. QED
    BY <1>1, <2>1, RunsStay
<1>3. CASE ~ Busy(p)
  <2>1. PICK n, s : n = Len(runs) + 1 /\ s = proc[q].run
    OBVIOUS
  <2>2. Start(p)
    BY <1>3, Begins
  <2>3. s \in Others
    BY <2>1 DEF Others
  <2>4. runs'[s] = [runs[s] EXCEPT !.beside = @ \union {n}]
    BY <1>1, <2>1, <2>2, <2>3, StartFacts
  <2>5. runs[s] \in RunRecord
    BY <1>1, <2>1 DEF CInv, RunTypes
  <2>6. n \in runs'[s].beside
    BY <2>4, <2>5 DEF RunRecord
  <2>7. QED
    BY <2>1, <2>6
<1>4. QED
  BY <1>2, <1>3

LEMMA PersonStays ==
  ASSUME CInv, CInv', NEW p \in Proc, Step(p), NEW q \in Proc, Busy(q),
         proc'[q].run = proc[q].run, q # p \/ Cmd(p).act # "wipe", NEW i,
         i \in people \/ Meanwhile(q, "wipe")
  PROVE  i \in people' \/ Meanwhile(q, "wipe")'
<1>1. Meanwhile(q, "wipe") => Meanwhile(q, "wipe")'
  BY MeanwhileStays
<1>2. i \in people => i \in people' \/ Meanwhile(q, "wipe")
  BY PeopleStay, WhoIsBeside
<1>3. QED
  BY <1>1, <1>2

LEMMA BugStays ==
  ASSUME CInv, CInv', NEW p \in Proc, Step(p), NEW q \in Proc, Busy(q),
         proc'[q].run = proc[q].run, q # p \/ Cmd(p).act \notin {"remove", "wipe"}, NEW b \in BugId,
         Exists(b) \/ Meanwhile(q, "remove") \/ Meanwhile(q, "wipe")
  PROVE  Exists(b)' \/ Meanwhile(q, "remove")' \/ Meanwhile(q, "wipe")'
<1>1. Meanwhile(q, "wipe") => Meanwhile(q, "wipe")'
  BY MeanwhileStays
<1>2. Meanwhile(q, "remove") => Meanwhile(q, "remove")'
  BY MeanwhileStays
<1>3. Exists(b) => Exists(b)' \/ Meanwhile(q, "remove") \/ Meanwhile(q, "wipe")
  BY BugsStay, WhoIsBeside
<1>4. QED
  BY <1>1, <1>2, <1>3

LEMMA ActorsReadStep ==
  ASSUME CInv, CInv', ActorsRead, NEW p \in Proc, Step(p)
  PROVE  ActorsRead'
<1>1. ASSUME NEW q \in Proc, Busy(q)', Cmd(q)'.act # "wipe"
      PROVE  /\ \A i \in proc'[q].known : i \in people' \/ Meanwhile(q, "wipe")'
             /\ proc'[q].actor # NoOne => proc'[q].actor \in people' \/ Meanwhile(q, "wipe")'
  <2>1. CASE q # p
    <3>1. Alike(proc[q], proc'[q])
      BY <2>1, OthersAlike
    <3>2. /\ Busy(q) /\ proc'[q].run = proc[q].run /\ Cmd(q).act # "wipe"
          /\ proc'[q].known = proc[q].known /\ proc'[q].actor = proc[q].actor
      BY <1>1, <3>1 DEF Alike, Busy, Cmd
    <3>3. /\ \A i \in proc[q].known : i \in people \/ Meanwhile(q, "wipe")
          /\ proc[q].actor # NoOne => proc[q].actor \in people \/ Meanwhile(q, "wipe")
      BY <3>2 DEF ActorsRead
    <3>4. QED
      BY <2>1, <3>2, <3>3, PersonStays
  <2>2. CASE q = p /\ Busy(p)
    <3>1. Cmd(p).act # "wipe"
      BY <1>1, <2>2, NoCommandFacts, Learned DEF Cmd
    <3>2. proc'[p].run = proc[p].run
      BY <1>1, <2>2, RunIsKept
    <3>3. people \subseteq people'
      BY <3>1, PeopleStay
    <3>4. \A i \in proc[p].known : i \in people' \/ Meanwhile(p, "wipe")'
      BY <2>2, <3>1, <3>2, PersonStays DEF ActorsRead
    <3>5. proc[p].actor # NoOne => proc[p].actor \in people' \/ Meanwhile(p, "wipe")'
      BY <2>2, <3>1, <3>2, PersonStays DEF ActorsRead
    <3>6. /\ proc'[p].known \subseteq proc[p].known \union people
          /\ proc'[p].actor \in
               {NoOne, proc[p].actor} \union proc[p].known \union people \union people'
      BY <1>1, <2>2, Learned
    <3>7. QED
      BY <2>2, <3>3, <3>4, <3>5, <3>6
  <2>3. CASE q = p /\ ~ Busy(p)
    BY <2>3, Begins
  <2>4. QED
    BY <2>1, <2>2, <2>3
<1>2. QED
  BY <1>1 DEF ActorsRead

LEMMA ListsReadStep ==
  ASSUME CInv, CInv', ListsRead, NEW p \in Proc, Step(p)
  PROVE  ListsRead'
<1>1. ASSUME NEW q \in Proc, proc'[q].at \in {"read people", "read bugs"}
      PROVE  /\ proc'[q].at = "read people" =>
                  \A i \in proc'[q].todo : i \in people' \/ Meanwhile(q, "wipe")'
             /\ proc'[q].at = "read bugs" =>
                  \A b \in proc'[q].todo :
                    Exists(b)' \/ Meanwhile(q, "remove")' \/ Meanwhile(q, "wipe")'
  <2>1. proc'[q].at = "read bugs" => proc'[q].todo \subseteq BugId
    BY DEF CInv, Sound, Control, Begun
  <2>2. CASE q # p
    <3>1. Alike(proc[q], proc'[q])
      BY <2>2, OthersAlike
    <3>2. /\ Busy(q) /\ proc'[q].run = proc[q].run /\ proc'[q].at = proc[q].at
          /\ proc'[q].todo = proc[q].todo
      BY <1>1, <3>1 DEF Alike, Busy
    <3>3. proc'[q].at = "read people" =>
            \A i \in proc[q].todo : i \in people \/ Meanwhile(q, "wipe")
      BY <3>2 DEF ListsRead, At
    <3>4. proc'[q].at = "read bugs" =>
            \A b \in proc[q].todo : Exists(b) \/ Meanwhile(q, "remove") \/ Meanwhile(q, "wipe")
      BY <3>2 DEF ListsRead, At
    <3>5. QED
      BY <2>1, <2>2, <3>2, <3>3, <3>4, PersonStays, BugStays
  <2>3. CASE q = p
    <3>1. Busy(p)' /\ Busy(p)
      BY <1>1, <2>3, Begins DEF Busy
    <3>2. Load(p)
      <4>1. ~ Passes(p) /\ ~ Actor(p) /\ ~ UserStore(p) /\ ~ UserAdoptee(p) /\ ~ Held(p)
        BY <1>1, <2>3, <3>1, ActorLearns, UserLearns DEF Passes, Held, Loading
      <4>2. QED
        BY <3>1, <4>1, HeldStep
    <3>3. Cmd(p).act = "none" /\ people' = people /\ bugs' = bugs /\ proc'[p].run = proc[p].run
      BY <3>1, <3>2, LoadLearns, NoCommandFacts, RunIsKept
    <3>4. CASE proc'[p].at = "read people"
      <4>1. \/ proc'[p].todo = people
            \/ At(p, "read people") /\ proc'[p].todo \subseteq proc[p].todo
        BY <3>1, <3>2, <3>4, LoadLearns
      <4>2. At(p, "read people") => \A i \in proc[p].todo : i \in people \/ Meanwhile(p, "wipe")
        BY DEF ListsRead
      <4>3. QED
        BY <2>3, <3>1, <3>3, <3>4, <4>1, <4>2, PersonStays
    <3>5. CASE proc'[p].at = "read bugs"
      <4>1. \/ \A b \in proc'[p].todo : Exists(b)
            \/ At(p, "read bugs") /\ proc'[p].todo \subseteq proc[p].todo
        BY <3>1, <3>2, <3>5, LoadLearns
      <4>2. At(p, "read bugs") =>
              \A b \in proc[p].todo : Exists(b) \/ Meanwhile(p, "remove") \/ Meanwhile(p, "wipe")
        BY DEF ListsRead
      <4>3. \A b \in proc'[p].todo : Exists(b) \/ Meanwhile(p, "remove") \/ Meanwhile(p, "wipe")
        BY <4>1, <4>2
      <4>4. QED
        BY <2>1, <2>3, <3>1, <3>3, <3>5, <4>3, BugStays
    <3>6. QED
      BY <1>1, <2>3, <3>4, <3>5
  <2>4. QED
    BY <2>2, <2>3
<1>2. QED
  BY <1>1 DEF ListsRead, At

LEMMA WipesAllStep ==
  ASSUME CInv, CInv', WipesAll, NEW p \in Proc, Step(p)
  PROVE  WipesAll'
<1>1. ASSUME NEW q \in Proc, proc'[q].at \in {"wipe", "wipe files"}, Alone(q)'
      PROVE  /\ q = p /\ Busy(p) /\ proc[p].at \in {"act", "wipe"} /\ WipeAll(p)
             /\ ~ WipeFailed(p) /\ ~ WipeStorage(p)
             /\ At(p, "wipe") /\ ~ proc[p].failed =>
                  \A b \in BugId : Exists(b) => b \in proc[p].todo \/ "bugs" \in proc[p].todo
  <2>1. q = p
    <3>1. ASSUME q # p PROVE FALSE
      <4>1. Alike(proc[q], proc'[q])
        BY <3>1, OthersAlike
      <4>2. Busy(q) /\ proc'[q].run = proc[q].run
        BY <1>1, <4>1 DEF Alike, Busy
      <4>3. QED
        BY <1>1, <3>1, <4>2, NotAlone DEF Alone
    <3>2. QED
      BY <3>1
  <2>2. Busy(p) /\ WipeAll(p) /\ ~ WipeFailed(p) /\ ~ WipeStorage(p)
    BY <1>1, <2>1, WipePlaces
  <2>3. proc[p].at \in {"act", "wipe"}
    BY <2>2 DEF WipeAll, WipeBegin, WipeList, WipeResolve, WipeBug, WipePerson, WipeConfig, Does, At
  <2>4. Alone(p)
    <3>1. Busy(p)'
      BY <1>1, <2>1 DEF Busy
    <3>2. proc'[p].run = proc[p].run /\ runs' = runs
      BY <2>2, <3>1, RunIsKept
    <3>3. QED
      BY <1>1, <2>1, <3>2 DEF Alone
  <2>5. QED
    BY <2>1, <2>2, <2>3, <2>4 DEF WipesAll
<1>2. /\ proc \in [Proc -> ProcRecord] /\ bugs \in [BugId -> Seq(OperationRecord)]
      /\ "bugs" \notin BugId /\ "bugs" \notin Person /\ "people" \notin BugId
      /\ Person \intersect BugId = {}
  BY IdAssumption DEF CInv, Shared
<1>3. ASSUME At(p, "wipe")', ~ proc'[p].failed, Alone(p)', NEW b \in BugId, Exists(b)'
      PROVE  b \in proc'[p].todo \/ "bugs" \in proc'[p].todo
  <2>1. proc'[p].at = "wipe"
    BY <1>3 DEF At
  <2>2. CASE WipeBegin(p)
    BY <1>2, <2>2 DEF WipeBegin, ProcRecord
  <2>3. ASSUME At(p, "wipe"), proc'[p].failed = proc[p].failed, Exists(b)
        PROVE  b \in proc[p].todo \/ "bugs" \in proc[p].todo
    <3>1. /\ At(p, "wipe") /\ ~ proc[p].failed =>
               \A c \in BugId : Exists(c) => c \in proc[p].todo \/ "bugs" \in proc[p].todo
      BY <1>1, <1>3, <2>1
    <3>2. QED
      BY <1>3, <2>3, <3>1
  <2>4. CASE WipeList(p)
    <3>1. PICK kind \in {"bugs", "people"} :
            proc' = [proc EXCEPT ![p].todo = (@ \ {kind}) \union ListRefs(kind)]
      BY <2>4 DEF WipeList
    <3>2. /\ proc'[p].todo = (proc[p].todo \ {kind}) \union ListRefs(kind)
          /\ proc'[p].failed = proc[p].failed
      BY <1>2, <3>1 DEF ProcRecord
    <3>3. Exists(b) /\ At(p, "wipe")
      BY <1>3, <2>4 DEF WipeList, refs, Exists
    <3>4. b \in proc[p].todo \/ "bugs" \in proc[p].todo
      BY <2>3, <3>2, <3>3
    <3>5. CASE kind = "bugs"
      BY <3>2, <3>3, <3>5 DEF ListRefs
    <3>6. CASE kind = "people"
      BY <1>2, <3>2, <3>4, <3>6
    <3>7. QED
      BY <3>1, <3>5, <3>6
  <2>5. CASE WipeResolve(p)
    <3>1. PICK c \in BugId :
            proc' = IF Exists(c) THEN [proc EXCEPT ![p].target = c, ![p].seen[c] = Count(c)]
                                 ELSE [proc EXCEPT ![p].todo = @ \ {c}]
      BY <2>5 DEF WipeResolve
    <3>2. Exists(b) /\ At(p, "wipe")
      BY <1>3, <2>5 DEF WipeResolve, refs, Exists
    <3>3. CASE Exists(c)
      <4>1. proc'[p].todo = proc[p].todo /\ proc'[p].failed = proc[p].failed
        BY <1>2, <3>1, <3>3 DEF ProcRecord
      <4>2. QED
        BY <2>3, <3>2, <4>1
    <3>4. CASE ~ Exists(c)
      <4>1. proc'[p].todo = proc[p].todo \ {c} /\ proc'[p].failed = proc[p].failed
        BY <1>2, <3>1, <3>4 DEF ProcRecord
      <4>2. b # c
        BY <3>2, <3>4
      <4>3. QED
        BY <1>2, <2>3, <3>1, <3>2, <4>1, <4>2
    <3>5. QED
      BY <3>3, <3>4
  <2>6. CASE WipeBug(p)
    <3>1. PICK c : c = proc[p].target
      OBVIOUS
    <3>2. At(p, "wipe") /\ c \in BugId
      BY <2>6, <3>1, WipeFacts DEF WipeBug
    <3>3. CASE proc' = [proc EXCEPT ![p].target = NoBug, ![p].todo = @ \ BugId,
                                    ![p].failed = TRUE]
      BY <1>2, <1>3, <3>3 DEF ProcRecord
    <3>4. CASE /\ bugs' = [bugs EXCEPT ![c] = <<>>]
               /\ proc' = [proc EXCEPT ![p].target = NoBug, ![p].todo = @ \ {c}]
      <4>1. proc'[p].todo = proc[p].todo \ {c} /\ proc'[p].failed = proc[p].failed
        BY <1>2, <3>4 DEF ProcRecord
      <4>2. b # c /\ Exists(b)
        BY <1>2, <1>3, <3>2, <3>4 DEF Exists
      <4>3. QED
        BY <1>2, <2>3, <3>2, <4>1, <4>2
    <3>5. QED
      BY <2>6, <3>1, <3>3, <3>4 DEF WipeBug
  <2>7. CASE WipePerson(p)
    <3>1. PICK i \in Person :
            \/ proc' = [proc EXCEPT ![p].todo = @ \ {i}]
            \/ proc' = [proc EXCEPT ![p].todo = @ \ Person, ![p].failed = TRUE]
      BY <2>7 DEF WipePerson
    <3>2. Exists(b) /\ At(p, "wipe")
      BY <1>3, <2>7 DEF WipePerson, Exists
    <3>3. CASE proc' = [proc EXCEPT ![p].todo = @ \ Person, ![p].failed = TRUE]
      BY <1>2, <1>3, <3>3 DEF ProcRecord
    <3>4. CASE proc' = [proc EXCEPT ![p].todo = @ \ {i}]
      <4>1. proc'[p].todo = proc[p].todo \ {i} /\ proc'[p].failed = proc[p].failed
        BY <1>2, <3>4 DEF ProcRecord
      <4>2. QED
        BY <1>2, <2>3, <3>1, <3>2, <4>1
    <3>5. QED
      BY <3>1, <3>3, <3>4
  <2>8. ~ WipeConfig(p)
    <3>1. WipeConfig(p) => proc'[p].at = "wipe files"
      <4>1. ASSUME WipeConfig(p)
            PROVE  proc'[p].at = "wipe files"
        <5>1. proc'[p] = [Noted(p, proc[p], config', selection) EXCEPT !.at = "wipe files"]
          BY <1>2, <4>1 DEF WipeConfig, Told, At, Busy
        <5>2. QED
          BY <1>2, <5>1 DEF Noted, ProcRecord
      <4>2. QED
        BY <4>1
    <3>2. QED
      BY <2>1, <3>1
  <2>9. WipeAll(p) /\ ~ WipeFailed(p) /\ ~ WipeStorage(p)
    BY <1>1, <1>3, <2>1
  <2>10. QED
    BY <2>2, <2>4, <2>5, <2>6, <2>7, <2>8, <2>9 DEF WipeAll
<1>4. ASSUME At(p, "wipe files")', Alone(p)', NEW b \in BugId
      PROVE  ~ Exists(b)'
  <2>1. proc'[p].at = "wipe files"
    BY <1>4 DEF At
  <2>2. /\ proc[p].at \in {"act", "wipe"} /\ WipeAll(p) /\ ~ WipeFailed(p) /\ ~ WipeStorage(p)
        /\ At(p, "wipe") /\ ~ proc[p].failed =>
             \A c \in BugId : Exists(c) => c \in proc[p].todo \/ "bugs" \in proc[p].todo
    BY <1>1, <1>4, <2>1
  <2>3. WipeConfig(p)
    <3>1. CASE WipeBegin(p)
      BY <1>2, <2>1, <3>1 DEF WipeBegin, ProcRecord
    <3>2. proc'[p].at = "wipe files" /\ proc[p].at # "wipe files"
      BY <2>1, <2>2
    <3>3. CASE WipeList(p)
      <4>1. PICK kind : proc' = [proc EXCEPT ![p].todo = (@ \ {kind}) \union ListRefs(kind)]
        BY <3>3 DEF WipeList
      <4>2. QED
        BY <1>2, <3>2, <4>1 DEF ProcRecord
    <3>4. CASE WipeResolve(p)
      <4>1. PICK c : \/ proc' = [proc EXCEPT ![p].target = c, ![p].seen[c] = Count(c)]
                     \/ proc' = [proc EXCEPT ![p].todo = @ \ {c}]
        BY <3>4 DEF WipeResolve
      <4>2. CASE proc' = [proc EXCEPT ![p].target = c, ![p].seen[c] = Count(c)]
        <5>1. proc'[p].at = proc[p].at
          BY <1>2, <4>2 DEF ProcRecord
        <5>2. QED
          BY <3>2, <5>1
      <4>3. CASE proc' = [proc EXCEPT ![p].todo = @ \ {c}]
        <5>1. proc'[p].at = proc[p].at
          BY <1>2, <4>3 DEF ProcRecord
        <5>2. QED
          BY <3>2, <5>1
      <4>4. QED
        BY <4>1, <4>2, <4>3
    <3>5. CASE WipeBug(p)
      <4>1. PICK c : \/ proc' = [proc EXCEPT ![p].target = NoBug, ![p].todo = @ \ {c}]
                     \/ proc' = [proc EXCEPT ![p].target = NoBug, ![p].todo = @ \ BugId,
                                             ![p].failed = TRUE]
        BY <3>5 DEF WipeBug
      <4>2. CASE proc' = [proc EXCEPT ![p].target = NoBug, ![p].todo = @ \ {c}]
        <5>1. proc'[p].at = proc[p].at
          BY <1>2, <4>2 DEF ProcRecord
        <5>2. QED
          BY <3>2, <5>1
      <4>3. CASE proc' = [proc EXCEPT ![p].target = NoBug, ![p].todo = @ \ BugId,
                                      ![p].failed = TRUE]
        <5>1. proc'[p].at = proc[p].at
          BY <1>2, <4>3 DEF ProcRecord
        <5>2. QED
          BY <3>2, <5>1
      <4>4. QED
        BY <4>1, <4>2, <4>3
    <3>6. CASE WipePerson(p)
      <4>1. PICK i : \/ proc' = [proc EXCEPT ![p].todo = @ \ {i}]
                     \/ proc' = [proc EXCEPT ![p].todo = @ \ Person, ![p].failed = TRUE]
        BY <3>6 DEF WipePerson
      <4>2. CASE proc' = [proc EXCEPT ![p].todo = @ \ {i}]
        <5>1. proc'[p].at = proc[p].at
          BY <1>2, <4>2 DEF ProcRecord
        <5>2. QED
          BY <3>2, <5>1
      <4>3. CASE proc' = [proc EXCEPT ![p].todo = @ \ Person, ![p].failed = TRUE]
        <5>1. proc'[p].at = proc[p].at
          BY <1>2, <4>3 DEF ProcRecord
        <5>2. QED
          BY <3>2, <5>1
      <4>4. QED
        BY <4>1, <4>2, <4>3
    <3>7. QED
      BY <2>2, <3>1, <3>3, <3>4, <3>5, <3>6 DEF WipeAll
  <2>4. At(p, "wipe") /\ ~ proc[p].failed /\ proc[p].todo = {} /\ bugs' = bugs
    BY <2>3 DEF WipeConfig, refs
  <2>5. QED
    BY <2>2, <2>4 DEF Exists
<1>5. QED
  <2>1. ASSUME NEW q \in Proc, At(q, "wipe")', ~ proc'[q].failed, Alone(q)'
        PROVE  \A b \in BugId : Exists(b)' => b \in proc'[q].todo \/ "bugs" \in proc'[q].todo
    <3>1. q = p
      BY <1>1, <2>1 DEF At
    <3>2. QED
      BY <1>3, <2>1, <3>1
  <2>2. ASSUME NEW q \in Proc, At(q, "wipe files")', Alone(q)'
        PROVE  \A b \in BugId : ~ Exists(b)'
    <3>1. q = p
      BY <1>1, <2>2 DEF At
    <3>2. QED
      BY <1>4, <2>2, <3>1
  <2>3. QED
    BY <2>1, <2>2 DEF WipesAll

(* An unfinished wipe stays one, unless it ends now and was alone.         *)
LEMMA InterruptedStays ==
  ASSUME CInv, CInv', NEW p \in Proc, Step(p), NEW s \in DOMAIN runs, Interrupted(s),
         ~ (At(p, "wipe files") /\ Alone(p))
  PROVE  Interrupted(s)' /\ s \in DOMAIN runs'
<1>1. s \in DOMAIN runs' /\ runs[s].beside \subseteq runs'[s].beside
  BY RunsStay
<1>2. DoesNow(s, "wipe")'
  BY DoesStays DEF Interrupted
<1>3. ASSUME runs'[s].result = "ok", runs'[s].beside = {}
      PROVE  FALSE
  <2>1. runs[s].beside = {} /\ runs[s].result # "ok"
    BY <1>1, <1>3 DEF Interrupted
  <2>2. s = proc[p].run /\ Busy(p) /\ runs'[s].act = Cmd(p).act
    <3>1. runs'[s].result # "running" /\ runs[s].result # runs'[s].result
      BY <1>3, <2>1
    <3>2. QED
      BY <1>1, <3>1, WhoAnswers
  <2>3. Cmd(p).act = "wipe"
    BY <1>2, <1>3, <2>2 DEF DoesNow
  <2>4. At(p, "wipe files")
    BY <1>3, <2>2, <2>3, WipeEnds
  <2>5. QED
    BY <2>1, <2>2, <2>4 DEF Alone
<1>4. QED
  BY <1>1, <1>2, <1>3 DEF Interrupted

(* A run that was removing something beside this one has disturbed it.     *)
LEMMA MeanwhileMeans ==
  ASSUME CInv, NEW p \in Proc, Busy(p), NEW act, Meanwhile(p, act)
  PROVE  \E s \in DOMAIN runs : /\ s \in runs[proc[p].run].beside /\ DoesNow(s, act)
                                /\ act = "wipe" => Interrupted(s) /\ Disturbed(s)
<1>1. PICK s \in runs[proc[p].run].beside : DoesNow(s, act)
  BY DEF Meanwhile
<1>2. proc[p].run \in DOMAIN runs
  BY RunFacts
<1>3. s \in DOMAIN runs /\ proc[p].run \in runs[s].beside
  BY <1>1, <1>2 DEF CInv, Running
<1>4. runs[s].beside # {}
  BY <1>3
<1>5. QED
  BY <1>1, <1>3, <1>4 DEF Interrupted, Disturbed

LEMMA NewAuthors ==
  ASSUME CInv, NEW p \in Proc, Step(p), NEW b \in BugId, NEW i \in Authors(b)'
  PROVE  \/ i \in Authors(b)
         \/ i = proc[p].actor /\ (AppendOperation(p) \/ Create(p))
<1>1. PICK ops, new : ops = bugs[b] /\ new = bugs'[b]
  OBVIOUS
<1>2. /\ ops \in Seq(OperationRecord) /\ Authors(b) = {op.by : op \in ToSet(ops)}
      /\ Authors(b)' = {op.by : op \in ToSet(new)}
  BY <1>1 DEF CInv, Shared, Authors
<1>3. PICK n \in DOMAIN new : i = new[n].by
  BY <1>2 DEF ToSet
<1>4. ASSUME n \in DOMAIN ops, new[n] = ops[n]
      PROVE  i \in Authors(b)
  BY <1>2, <1>3, <1>4 DEF ToSet
<1>5. CASE new = ops
  BY <1>3, <1>4, <1>5
<1>6. CASE new = <<>>
  BY <1>3, <1>6
<1>7. CASE Create(p) /\ new # ops
  <2>1. PICK c \in BugId : bugs' = [bugs EXCEPT ![c] = <<Op(p)>>]
    BY <1>7 DEF Create
  <2>2. new = <<Op(p)>>
    BY <1>1, <1>7, <2>1 DEF CInv, Shared
  <2>3. i = Op(p).by
    BY <1>3, <2>2
  <2>4. QED
    BY <1>7, <2>3 DEF Op
<1>8. CASE AppendOperation(p) /\ new = Append(ops, Op(p)) /\ Op(p) \in OperationRecord
  <2>1. CASE n \in DOMAIN ops
    BY <1>2, <1>4, <1>8, <2>1
  <2>2. CASE n \notin DOMAIN ops
    <3>1. new[n] = Op(p)
      BY <1>2, <1>3, <1>8, <2>2
    <3>2. QED
      BY <1>3, <1>8, <3>1 DEF Op
  <2>3. QED
    BY <2>1, <2>2
<1>9. QED
  BY <1>1, <1>5, <1>6, <1>7, <1>8, BugSteps

LEMMA AuthorsReadStep ==
  ASSUME CInv, CInv', AuthorsRead, ActorsRead, WipesAll, NEW p \in Proc, Step(p)
  PROVE  AuthorsRead'
<1>1. ASSUME At(p, "wipe files"), Alone(p), NEW b \in BugId
      PROVE  Authors(b)' = {}
  <2>1. bugs[b] = <<>>
    BY <1>1 DEF WipesAll, Exists
  <2>2. ~ Create(p)
    BY <1>1 DEF Create, Does, At
  <2>3. bugs'[b] = <<>>
    BY <2>1, <2>2, BugSteps DEF Exists
  <2>4. QED
    BY <2>3 DEF Authors, ToSet
<1>2. ASSUME NEW b \in BugId, NEW i \in Authors(b)',
             ~ (At(p, "wipe files") /\ Alone(p))
      PROVE  i \in people' \/ \E s \in DOMAIN runs' : Interrupted(s)'
  <2>1. i \in people \/ \E s \in DOMAIN runs : Interrupted(s)
    <3>1. CASE i \in Authors(b)
      BY <3>1 DEF AuthorsRead
    <3>2. CASE i = proc[p].actor /\ (AppendOperation(p) \/ Create(p))
      <4>1. /\ Busy(p) /\ Cmd(p).act # "wipe" /\ i # NoOne
        <5>1. Op(p).by = i /\ Op(p) \in OperationRecord /\ Busy(p)
          BY <3>2, OpFacts DEF AppendOperation, Create, Op
        <5>2. i # NoOne
          BY <5>1, EmptyAssumption DEF OperationRecord
        <5>3. QED
          BY <3>2, <5>1, <5>2 DEF AppendOperation, Create, Does
      <4>2. i \in people \/ Meanwhile(p, "wipe")
        BY <3>2, <4>1 DEF ActorsRead
      <4>3. QED
        BY <4>1, <4>2, MeanwhileMeans
    <3>3. QED
      BY <3>1, <3>2, NewAuthors
  <2>2. CASE \E s \in DOMAIN runs : Interrupted(s)
    BY <1>2, <2>2, InterruptedStays
  <2>3. CASE i \in people /\ i \notin people'
    <3>1. Busy(p) /\ Cmd(p).act = "wipe"
      BY <2>3, PeopleStay
    <3>2. PICK s : s = proc[p].run
      OBVIOUS
    <3>3. s \in DOMAIN runs /\ runs[s].result = "running"
      BY <3>1, <3>2, RunFacts
    <3>4. Interrupted(s)
      BY <3>1, <3>2, <3>3 DEF Interrupted, DoesNow
    <3>5. QED
      BY <1>2, <3>3, <3>4, InterruptedStays
  <2>4. QED
    BY <2>1, <2>2, <2>3
<1>3. QED
  <2>1. ASSUME NEW b \in BugId, NEW i \in Authors(b)'
        PROVE  i \in people' \/ \E s \in DOMAIN runs' : Interrupted(s)'
    BY <1>1, <1>2, <2>1
  <2>2. QED
    BY <2>1 DEF AuthorsRead

(* What excuses a load that failed is true for good.                       *)
LEMMA ExcuseStays ==
  ASSUME CInv, CInv', NEW p \in Proc, Step(p), NEW r \in DOMAIN runs, Excused(r)
  PROVE  Excused(r)'
<1>1. PICK s \in DOMAIN runs : Disturbed(s) \/ (s \in runs[r].beside /\ DoesNow(s, "remove"))
  BY DEF Excused
<1>2. s \in DOMAIN runs' /\ runs[s].beside \subseteq runs'[s].beside
  BY RunsStay
<1>3. CASE Disturbed(s)
  <2>1. DoesNow(s, "wipe")'
    BY <1>3, DoesStays DEF Disturbed
  <2>2. runs'[s].result \notin {"running", "ok"} \/ runs'[s].beside # {}
    BY <1>2, <1>3, RunsStay DEF Disturbed
  <2>3. QED
    BY <1>2, <2>1, <2>2 DEF Excused, Disturbed
<1>4. CASE s \in runs[r].beside /\ DoesNow(s, "remove")
  <2>1. s \in runs'[r].beside
    BY <1>4, RunsStay
  <2>2. DoesNow(s, "remove")'
    BY <1>4, DoesStays
  <2>3. QED
    BY <1>2, <2>1, <2>2 DEF Excused
<1>5. QED
  BY <1>1, <1>3, <1>4

(* A load fails over something that went away since it was listed, or over *)
(* an author that an unfinished wipe has taken.                            *)
LEMMA LoadExcused ==
  ASSUME CInv, AuthorsRead, ListsRead, NEW p \in Proc, Busy(p), ReadPerson(p) \/ ReadBug(p),
         runs' # runs
  PROVE  Excused(proc[p].run)
<1>1. \A act : Meanwhile(p, act) /\ act \in {"wipe", "remove"} => Excused(proc[p].run)
  BY MeanwhileMeans DEF Excused
<1>2. CASE ReadPerson(p)
  <2>1. PICK i \in proc[p].todo : i \notin people
    BY <1>2 DEF ReadPerson
  <2>2. Meanwhile(p, "wipe")
    BY <1>2, <2>1 DEF ListsRead, ReadPerson
  <2>3. QED
    BY <1>1, <2>2
<1>3. CASE ReadBug(p)
  <2>1. PICK b \in proc[p].todo : ~ Readable(p, b)
    BY <1>3 DEF ReadBug
  <2>2. b \in BugId /\ proc[p].at = "read bugs" /\ Cmd(p) = NoCommand
    <3>1. Sound(p, proc[p]) /\ proc[p].at = "read bugs"
      BY <1>3, RunFacts DEF ReadBug, At
    <3>2. QED
      BY <2>1, <3>1 DEF Sound, Control, Begun, Fresh, Loading, Cmd
  <2>3. CASE ~ Exists(b)
    <3>1. Meanwhile(p, "remove") \/ Meanwhile(p, "wipe")
      BY <2>1, <2>2, <2>3 DEF ListsRead, At
    <3>2. QED
      BY <1>1, <3>1
  <2>4. CASE Exists(b)
    <3>1. PICK i \in Authors(b) : i \notin people
      BY <2>1, <2>4 DEF Readable
    <3>2. PICK s \in DOMAIN runs : Interrupted(s)
      BY <2>2, <3>1 DEF AuthorsRead
    <3>3. Disturbed(s)
      <4>1. CASE runs[s].result # "running"
        BY <3>2, <4>1 DEF Interrupted, Disturbed
      <4>2. CASE runs[s].result = "running"
        <5>1. PICK q \in Proc : Busy(q) /\ proc[q].run = s /\ Cmd(q).act = "wipe"
          BY <3>2, <4>2 DEF Interrupted, DoesNow
        <5>2. q # p
          BY <2>2, <5>1, NoCommandFacts
        <5>3. proc[p].run \in runs[s].beside
          BY <5>1, <5>2 DEF CInv, Running
        <5>4. QED
          BY <3>2, <5>3 DEF Interrupted, Disturbed
      <4>3. QED
        BY <4>1, <4>2
    <3>4. QED
      BY <3>3 DEF Excused
  <2>5. QED
    BY <2>3, <2>4
<1>4. QED
  BY <1>2, <1>3

LEMMA RemovalsStep ==
  ASSUME CInv, CInv', Removals, NEW p \in Proc, Step(p)
  PROVE  Removals'
<1>1. AuthorsRead' /\ ActorsRead' /\ ListsRead' /\ WipesAll'
  BY AuthorsReadStep, ActorsReadStep, ListsReadStep, WipesAllStep DEF Removals
<1>2. ASSUME NEW r \in DOMAIN runs', runs'[r].result = "not loaded"
      PROVE  Excused(r)'
  <2>1. CASE r \in DOMAIN runs /\ runs[r].result = "not loaded"
    BY <2>1, ExcuseStays DEF Removals
  <2>2. CASE ~ (r \in DOMAIN runs /\ runs[r].result = "not loaded")
    <3>1. runs'[r].result # "running"
      BY <1>2
    <3>2. r = proc[p].run /\ Busy(p) /\ r \in DOMAIN runs
      BY <1>2, <2>2, <3>1, WhoAnswers
    <3>3. \E c \in BugId \union {NoBug} : Quiet(p, "not loaded", c)
      <4>1. \E c \in BugId \union {NoBug} :
              \/ Quiet(p, runs'[r].result, c)
              \/ runs'[r].result = "ok" /\ (AppendOperation(p) \/ Create(p))
              \/ runs'[r].result \in {"ok", "failed"} /\ RemoveIfMatches(p)
        BY <1>2, <2>2, <3>1, WhoAnswers
      <4>2. QED
        BY <1>2, <4>1
    <3>4. ReadPerson(p) \/ ReadBug(p)
      BY <3>3 DEF Quiet
    <3>5. runs' # runs
      BY <1>2, <2>2, <3>2
    <3>6. Excused(r)
      BY <3>2, <3>4, <3>5, LoadExcused DEF Removals
    <3>7. QED
      BY <3>2, <3>6, ExcuseStays
  <2>3. QED
    BY <2>1, <2>2
<1>3. QED
  BY <1>1, <1>2 DEF Removals

LEMMA RemovalsInit == ASSUME Init PROVE Removals
<1>1. /\ \A p \in Proc : ~ Busy(p) /\ \A at : At(p, at) => at = "idle"
      /\ DOMAIN runs = {}
  BY IdleFacts DEF Init, Busy, At
<1>2. ASSUME NEW b \in BugId, NEW i \in Authors(b)
      PROVE  i \in people
  <2>1. bugs[b] = <<>> \/ bugs[b] = <<[by |-> Founder, run |-> 0, text |-> 0]>>
    BY DEF Init
  <2>2. PICK n \in DOMAIN bugs[b] : i = bugs[b][n].by
    BY DEF Authors, ToSet
  <2>3. i = Founder
    BY <2>1, <2>2
  <2>4. QED
    BY <2>3 DEF Init
<1>3. QED
  BY <1>1, <1>2 DEF Removals, AuthorsRead, ActorsRead, ListsRead, WipesAll

(* Unless something is being removed meanwhile, or a wipe left it half     *)
(* removed, everything stored can be loaded, whatever was killed before.   *)
THEOREM LoadsFailOnlyOverRemoval == Spec => []LoadFailsOnlyOverRemoval
<1>1. Init => CInv /\ Removals
  BY CInit, RemovalsInit
<1>2. CInv /\ Removals /\ [Next]_vars => (CInv /\ Removals)'
  <2>1. ASSUME Removals, UNCHANGED vars PROVE Removals'
    <3>1. /\ people' = people /\ bugs' = bugs /\ proc' = proc /\ runs' = runs
      BY <2>1 DEF vars
    <3>2. /\ \A p, act : Meanwhile(p, act)' <=> Meanwhile(p, act)
          /\ \A s : (Interrupted(s)' <=> Interrupted(s)) /\ (Excused(s)' <=> Excused(s))
      BY <3>1 DEF Meanwhile, Interrupted, Excused, Disturbed, DoesNow, Busy, Cmd
    <3>3. \A b : Authors(b)' = Authors(b) /\ (Exists(b)' <=> Exists(b))
      BY <3>1 DEF Authors, Exists
    <3>4. AuthorsRead' /\ ActorsRead' /\ ListsRead'
      BY <2>1, <3>1, <3>2, <3>3 DEF Removals, AuthorsRead, ActorsRead, ListsRead, Busy, Cmd, At
    <3>5. WipesAll' /\ \A r \in DOMAIN runs' : runs'[r].result = "not loaded" => Excused(r)'
      BY <2>1, <3>1, <3>2, <3>3 DEF Removals, WipesAll, Alone, At
    <3>6. QED
      BY <3>4, <3>5 DEF Removals
  <2>2. QED
    BY <2>1, CNext, RemovalsStep DEF Next, Step
<1>3. CInv /\ Removals => LoadFailsOnlyOverRemoval
  <2>1. ASSUME CInv, Removals, NEW r \in DOMAIN runs, runs[r].result = "not loaded"
        PROVE  \E s \in DOMAIN runs : Broken(s) \/ (s \in runs[r].beside /\ Carries(s, "remove"))
    <3>1. ASSUME NEW s \in DOMAIN runs, NEW act, DoesNow(s, act)
          PROVE  Carries(s, act)
      <4>1. CASE runs[s].result # "running"
        BY <3>1, <4>1 DEF DoesNow, Carries
      <4>2. CASE runs[s].result = "running"
        <5>1. PICK q \in Proc : Busy(q) /\ proc[q].run = s /\ Cmd(q).act = act
          BY <3>1, <4>2 DEF DoesNow
        <5>2. Runner(s) = q
          BY <2>1, <5>1, RunnerFacts
        <5>3. QED
          BY <4>2, <5>1, <5>2 DEF Carries
      <4>3. QED
        BY <4>1, <4>2
    <3>2. PICK s \in DOMAIN runs : Disturbed(s) \/ (s \in runs[r].beside /\ DoesNow(s, "remove"))
      BY <2>1 DEF Removals, Excused
    <3>3. CASE Disturbed(s)
      <4>1. Carries(s, "wipe") /\ (runs[s].result # "ok" \/ runs[s].beside # {})
        BY <3>1, <3>3 DEF Disturbed
      <4>2. QED
        BY <4>1 DEF Broken
    <3>4. QED
      BY <3>1, <3>2, <3>3
  <2>2. QED
    BY <2>1 DEF LoadFailsOnlyOverRemoval
<1>4. QED
  BY <1>1, <1>2, <1>3, PTL DEF Spec
------------------------------------------------------------------------------
(* The text of an operation.                                               *)

LEMMA DraftChanges ==
  ASSUME NEW p, Step(p)
  PROVE  draft' = draft \/ draft' \in {Blank, NoDraft} \/ Type(p)
<1>1. CASE Start(p) \/ Kill(p) \/ Load(p) \/ Actor(p)
  BY <1>1 DEF Start, Kill, Load, ListPeople, ReadPerson, ListBugs, ReadBug, Actor, ActorOverride,
              ActorDefault, ActorNone, files
<1>2. CASE Resolve(p) \/ AskText(p)
  BY <1>2 DEF Resolve, ResolveNothing, ResolvePrefix, ResolveComment, ResolveMissing,
              ReadSelection, Unselect, AskText, Flag, Template, ReadDraft, files
<1>3. CASE Act(p)
  BY <1>3 DEF Act, Read, Refuse, AppendOperation, AppendConflict, Create, RemoveResolve,
              RemoveIfMatches, SelectOpen, SelectWrite, Deselect, UserStore, UserIsSet,
              UserAdoptee, SetUserIdentity, files
<1>4. CASE WipeAll(p)
  BY <1>4 DEF WipeAll, WipeBegin, WipeList, WipeResolve, WipeBug, WipePerson, WipeFailed,
              WipeConfig, WipeStorage, files
<1>5. QED
  BY <1>1, <1>2, <1>3, <1>4 DEF Step

LEMMA TextPlaces ==
  ASSUME CInv, NEW p \in Proc, Step(p), proc'[p].at \in Asking \union Ready
  PROVE  Actor(p) \/ Resolve(p) \/ AskText(p)
<1>1. Busy(p)'
  BY DEF Busy, Asking, Ready, Typing
<1>2. ~ Start(p) /\ ~ Kill(p)
  <2>1. ~ Start(p)
    BY Begins DEF Start, At, Busy, Asking, Ready, Typing
  <2>2. ~ Kill(p)
    BY <1>1, IdleFacts DEF Kill, Ended, Busy, CInv
  <2>3. QED
    BY <2>1, <2>2
<1>3. ~ Load(p)
  BY <1>1, LoadLearns DEF Asking, Ready, Typing
<1>4. ~ Act(p)
  BY <1>1, HeldOnAct, UserLearns DEF Asking, Ready, Typing
<1>5. ~ WipeAll(p)
  BY <1>1, HeldOnWipe DEF Asking, Ready, Typing
<1>6. QED
  BY <1>2, <1>3, <1>4, <1>5 DEF Step

(* What the process that takes the step has in its hands.                  *)
LEMMA TextOfActor ==
  ASSUME CInv, NEW p \in Proc, Actor(p), Busy(p)'
  PROVE  proc'[p].at = "resolve" /\ proc'[p].text = Blank
<1>1. /\ proc \in [Proc -> ProcRecord] /\ proc[p] \in ProcRecord /\ proc'[p] # Idle
      /\ Busy(p) /\ proc[p].at = "read bugs"
  BY IdleFacts DEF CInv, Busy, Actor, ActorOverride, ActorDefault, ActorNone, Runs, Loaded, At
<1>2. proc[p].text = Blank
  BY <1>1, RunFacts DEF Sound, Control, Begun, Fresh, Loading
<1>3. \E cmd, i : Acts(p, cmd, i) \/ ActsAs(p, cmd, i)
  BY <1>1 DEF Actor, ActorOverride, ActorDefault, ActorNone, Ended
<1>4. PICK cmd, i : Acts(p, cmd, i) \/ ActsAs(p, cmd, i)
  BY <1>3
<1>5. CASE Acts(p, cmd, i)
  BY <1>1, <1>2, <1>5 DEF Acts, ProcRecord
<1>6. CASE ActsAs(p, cmd, i)
  BY <1>1, <1>2, <1>6 DEF ActsAs, ProcRecord
<1>7. QED
  BY <1>4, <1>5, <1>6

LEMMA TextOfResolve ==
  ASSUME CInv, NEW p \in Proc, Resolve(p), Busy(p)'
  PROVE  /\ proc[p].at \in Asking /\ proc'[p].text = proc[p].text
         /\ proc'[p].at \in {"selection", "unselect", Input(p)}
<1>1. proc[p] \in ProcRecord /\ proc \in [Proc -> ProcRecord] /\ proc'[p] # Idle
  BY IdleFacts DEF CInv, Busy
<1>2. ~ Ended(p, "failed") /\ ~ Unselect(p)
  BY <1>1 DEF Ended, Unselect, Unlinked
<1>3. proc[p].at \in Asking
  BY <1>2 DEF Resolve, ResolveNothing, ResolvePrefix, ResolveComment, ResolveMissing,
              ReadSelection, At, Asking
<1>4. ASSUME NEW at \in {"selection", "unselect", Input(p)}, Go(p, at)
      PROVE  proc'[p].text = proc[p].text /\ proc'[p].at = at
  BY <1>1, <1>4 DEF Go, ProcRecord
<1>5. CASE ResolveNothing(p) \/ ResolveMissing(p)
  BY <1>2, <1>3, <1>4, <1>5 DEF ResolveNothing, ResolveMissing
<1>6. CASE ResolvePrefix(p) \/ ResolveComment(p)
  <2>1. PICK b : proc' = [proc EXCEPT ![p].at = Input(p), ![p].target = b, ![p].named = b]
    BY <1>2, <1>6 DEF ResolvePrefix, ResolveComment
  <2>2. QED
    BY <1>1, <1>3, <2>1 DEF ProcRecord
<1>7. CASE ReadSelection(p)
  <2>1. NoFile \notin BugId \union {NoBug} /\ NoBug \notin BugId
    BY IdAssumption, EmptyAssumption DEF NoFile
  <2>2. \/ Go(p, "unselect") \/ Found(p, selection)
        \/ proc' = [proc EXCEPT ![p].at = Input(p), ![p].target = selection,
                                ![p].seen[selection] = Count(selection)]
    BY <1>2, <1>7, <2>1 DEF ReadSelection, Known
  <2>3. CASE proc' = [proc EXCEPT ![p].at = Input(p), ![p].target = selection,
                                  ![p].seen[selection] = Count(selection)]
    BY <1>1, <1>3, <2>3 DEF ProcRecord
  <2>4. CASE Found(p, selection)
    BY <1>1, <1>3, <2>4 DEF Found, ProcRecord
  <2>5. QED
    BY <1>3, <1>4, <2>2, <2>3, <2>4
<1>8. QED
  BY <1>2, <1>5, <1>6, <1>7 DEF Resolve

LEMMA TextOfEditor ==
  ASSUME CInv, TextShape, NEW p \in Proc, AskText(p), Busy(p)'
  PROVE  \/ /\ proc'[p].at = "act"
            /\ \/ proc'[p].text = proc[p].run
               \/ proc'[p].text = Blank /\ Cmd(p).text # "required"
         \/ /\ proc'[p].at \in {"edit", "edited"} /\ p \in Terminal
            /\ draft' \in {Blank, proc[p].run, NoDraft}
<1>1. proc[p] \in ProcRecord /\ proc \in [Proc -> ProcRecord] /\ proc'[p] # Idle
  BY IdleFacts DEF CInv, Busy
<1>2. CASE Flag(p)
  BY <1>1, <1>2 DEF Flag, ProcRecord
<1>3. CASE Template(p)
  BY <1>1, <1>3 DEF Template, Go, ProcRecord
<1>4. CASE Type(p)
  <2>1. proc[p].at = "edit"
    BY <1>4 DEF Type, At
  <2>2. p \in Terminal /\ draft \in {Blank, proc[p].run, NoDraft}
    BY <2>1 DEF TextShape
  <2>3. proc'[p].at = "edited" /\ draft' \in {draft, proc[p].run}
    BY <1>1, <1>4 DEF Type, Go, ProcRecord
  <2>4. QED
    BY <2>2, <2>3
<1>5. CASE ReadDraft(p)
  <2>1. draft # NoDraft /\ ~ Empty(p) /\ proc' = [proc EXCEPT ![p].at = "act", ![p].text = draft]
    BY <1>1, <1>5 DEF ReadDraft, Ended
  <2>2. proc[p].at = "edited"
    BY <1>5 DEF ReadDraft, At
  <2>3. draft \in {Blank, proc[p].run}
    BY <2>1, <2>2 DEF TextShape
  <2>4. draft = Blank => Cmd(p).text # "required"
    BY <2>1 DEF Empty, Prefilled
  <2>5. proc'[p].at = "act" /\ proc'[p].text = draft
    BY <1>1, <2>1 DEF ProcRecord
  <2>6. QED
    BY <2>3, <2>4, <2>5
<1>6. QED
  BY <1>2, <1>3, <1>4, <1>5 DEF AskText

LEMMA TextShapeStep ==
  ASSUME CInv, OneTerminal, TextShape, NEW p \in Proc, Step(p)
  PROVE  TextShape'
<1>1. ASSUME NEW q \in Proc, proc'[q].at \in Asking \union Ready
      PROVE  /\ proc'[q].at = "act" => \/ proc'[q].text = proc'[q].run
                                       \/ proc'[q].text = Blank /\ proc'[q].cmd.text # "required"
             /\ proc'[q].at \in {"edit", "edited"} =>
                  q \in Terminal /\ draft' \in {Blank, proc'[q].run, NoDraft}
             /\ proc'[q].at \in Asking \union {"input"} => proc'[q].text = Blank
  <2>1. CASE q # p
    <3>1. Alike(proc[q], proc'[q])
      BY <2>1, OthersAlike
    <3>2. /\ proc'[q].run = proc[q].run /\ proc'[q].at = proc[q].at
          /\ proc'[q].text = proc[q].text /\ proc'[q].cmd = proc[q].cmd
      BY <3>1 DEF Alike
    <3>3. /\ proc[q].at = "act" => \/ proc[q].text = proc[q].run
                                   \/ proc[q].text = Blank /\ proc[q].cmd.text # "required"
          /\ proc[q].at \in {"edit", "edited"} =>
               q \in Terminal /\ draft \in {Blank, proc[q].run, NoDraft}
          /\ proc[q].at \in Asking \union {"input"} => proc[q].text = Blank
      BY DEF TextShape, At, Cmd
    <3>4. q \in Terminal => ~ Type(p)
      BY <2>1 DEF Type, At, TextShape, OneTerminal
    <3>5. q \in Terminal => draft' = draft \/ draft' \in {Blank, NoDraft}
      BY <3>4, DraftChanges
    <3>6. QED
      BY <3>2, <3>3, <3>5
  <2>2. CASE q = p
    <3>1. Busy(p)' /\ Busy(p)
      BY <1>1, <2>2, Begins DEF Busy, Asking, Ready, Typing
    <3>2. proc'[p].run = proc[p].run
      BY <3>1, RunIsKept
    <3>3. CASE Actor(p)
      BY <2>2, <3>1, <3>3, TextOfActor
    <3>4. CASE Resolve(p)
      <4>1. /\ proc[p].at \in Asking /\ proc'[p].text = proc[p].text
            /\ proc'[p].at \in {"selection", "unselect", Input(p)}
        BY <3>1, <3>4, TextOfResolve
      <4>2. proc'[p].text = Blank
        BY <4>1 DEF TextShape
      <4>3. proc'[p].cmd = proc[p].cmd
        BY <3>1, <3>4, HeldOnResolve DEF Passes, Held
      <4>4. proc'[p].at = "act" => proc'[p].cmd.text # "required"
        BY <4>1, <4>3 DEF Input, Cmd
      <4>5. proc'[p].at \notin {"edit", "edited"}
        BY <4>1 DEF Input
      <4>6. QED
        BY <2>2, <4>2, <4>4, <4>5
    <3>5. CASE AskText(p)
      <4>1. proc'[p].cmd = proc[p].cmd
        BY <3>1, <3>5, HeldOnResolve DEF Passes, Held
      <4>2. \/ /\ proc'[p].at = "act"
               /\ \/ proc'[p].text = proc[p].run
                  \/ proc'[p].text = Blank /\ Cmd(p).text # "required"
            \/ /\ proc'[p].at \in {"edit", "edited"} /\ p \in Terminal
               /\ draft' \in {Blank, proc[p].run, NoDraft}
        BY <3>1, <3>5, TextOfEditor
      <4>3. QED
        BY <2>2, <3>2, <4>1, <4>2 DEF Cmd, Asking
    <3>6. QED
      BY <1>1, <2>2, <3>3, <3>4, <3>5, TextPlaces
  <2>3. QED
    BY <2>1, <2>2
<1>2. QED
  BY <1>1 DEF TextShape, At, Cmd, Ready, Typing

LEMMA TextInit == ASSUME Init PROVE TextShape /\ TextIsTyped
<1>1. \A p \in Proc : proc[p].at = "idle"
  BY IdleFacts DEF Init
<1>2. \A b \in BugId : \A n \in DOMAIN bugs[b] : bugs[b][n].run = 0
  BY DEF Init
<1>3. QED
  BY <1>1, <1>2 DEF TextShape, TextIsTyped, At, Asking

LEMMA TextStays ==
  ASSUME CInv, OpsSound, TextShape, TextIsTyped, CInv', NEW p \in Proc, Step(p)
  PROVE  TextIsTyped'
<1>1. ASSUME NEW b \in BugId, NEW n \in DOMAIN bugs'[b], NEW op, op = bugs'[b][n], op.run # 0
      PROVE  op.text = op.run \/ (op.text = Blank /\ runs'[op.run].text # "required")
  <2>1. CASE n \in DOMAIN bugs[b] /\ bugs[b][n] = op
    <3>1. op.run \in DOMAIN runs /\ runs[op.run].result = "ok"
      BY <1>1, <2>1 DEF OpsSound
    <3>2. runs'[op.run].text = runs[op.run].text
      BY <3>1, RunsStay
    <3>3. op.text = op.run \/ (op.text = Blank /\ runs[op.run].text # "required")
      BY <1>1, <2>1 DEF TextIsTyped
    <3>4. QED
      BY <3>2, <3>3
  <2>2. CASE op = Op(p) /\ (AppendOperation(p) \/ Create(p))
    <3>1. Busy(p) /\ op.run = proc[p].run /\ op.text = proc[p].text /\ At(p, "act")
      BY <2>2, OpFacts DEF AppendOperation, Create, Does
    <3>2. runs'[proc[p].run].text = Cmd(p).text
      <4>1. proc[p].target \in BugId \union {NoBug}
        BY <3>1, RunFacts DEF ProcRecord
      <4>2. \E c \in BugId \union {NoBug} : Answer(p, "ok", c)
        BY <2>2, <4>1 DEF AppendOperation, Create, Ended
      <4>3. QED
        BY <3>1, <4>2, AnswerFacts, ResultFacts
    <3>3. \/ proc[p].text = proc[p].run
          \/ proc[p].text = Blank /\ Cmd(p).text # "required"
      BY <3>1 DEF TextShape
    <3>4. QED
      BY <3>1, <3>2, <3>3
  <2>3. QED
    <3>1. PICK ops, new : ops = bugs[b] /\ new = bugs'[b]
      OBVIOUS
    <3>2. ops \in Seq(OperationRecord)
      BY <3>1 DEF CInv, Shared
    <3>3. CASE new = ops \/ new = <<>>
      BY <1>1, <2>1, <3>1, <3>3
    <3>4. CASE Create(p) /\ new # ops
      <4>1. PICK c \in BugId : bugs' = [bugs EXCEPT ![c] = <<Op(p)>>]
        BY <3>4 DEF Create
      <4>2. new = <<Op(p)>>
        BY <3>1, <3>4, <4>1 DEF CInv, Shared
      <4>3. op = Op(p)
        BY <1>1, <3>1, <4>2
      <4>4. QED
        BY <2>2, <3>4, <4>3
    <3>5. CASE AppendOperation(p) /\ new = Append(ops, Op(p)) /\ Op(p) \in OperationRecord
      <4>1. n \in DOMAIN ops => new[n] = ops[n]
        BY <3>2, <3>5
      <4>2. n \notin DOMAIN ops => new[n] = Op(p)
        BY <1>1, <3>1, <3>2, <3>5
      <4>3. QED
        BY <1>1, <2>1, <2>2, <3>1, <3>5, <4>1, <4>2
    <3>6. QED
      BY <3>1, <3>3, <3>4, <3>5, BugSteps
<1>2. QED
  BY <1>1 DEF TextIsTyped

(* As long as one terminal at most is at work on the draft, an operation   *)
(* has the text that was typed in its own session, or the title as it was. *)
THEOREM TextsAreTyped ==
  ASSUME OneTerminal
  PROVE  Spec => []TextIsTyped
<1>1. Init => CInv /\ OpsSound /\ TextShape /\ TextIsTyped
  BY CInit, OpsInit, TextInit
<1>2. CInv /\ OpsSound /\ TextShape /\ TextIsTyped /\ [Next]_vars =>
        (CInv /\ OpsSound /\ TextShape /\ TextIsTyped)'
  <2>1. ASSUME OpsSound, TextShape, TextIsTyped, UNCHANGED vars
        PROVE  (OpsSound /\ TextShape /\ TextIsTyped)'
    BY <2>1 DEF vars, OpsSound, TextShape, TextIsTyped, Exists, At, Cmd
  <2>2. QED
    BY <2>1, CNext, OpsStep, TextShapeStep, TextStays DEF Next, Step
<1>3. QED
  BY <1>1, <1>2, PTL DEF Spec
==============================================================================
