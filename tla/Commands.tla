------------------------------- MODULE Commands -------------------------------
(***************************************************************************)
(* Git-bug commands run by several processes in one repository: people at  *)
(* terminals and scripts. A run loads the backend (every identity, then    *)
(* every bug), finds out who acts, resolves its target, asks for a text in *)
(* the editor, and acts on the references. Processes share the references, *)
(* .git/config and the files of .git/git-bug, and nothing locks them.      *)
(*                                                                         *)
(* A commit and a merge are one step here; EntityStore takes them apart.   *)
(***************************************************************************)
EXTENDS Naturals, Sequences, FiniteSets, SequencesExt

CONSTANTS
  Proc,
  Terminal,          \* processes whose standard input is a terminal
  Person, BugId,     \* ids are hashes: an id that was used never comes back
  Founder,           \* the identity the repository starts with
  FirstBug,          \* the bug it starts with, which is selected
  Offered,           \* the commands each process runs
  NoOne, NoBug,      \* the empty string in place of an id
  MaxRuns            \* bound: runs of commands in all

ASSUME StartAssumption == Founder \in Person /\ FirstBug \in BugId /\ Terminal \subseteq Proc
ASSUME EmptyAssumption == NoOne \notin Person /\ NoBug \notin BugId
ASSUME BoundAssumption == MaxRuns \in Nat
(* A hash is the id of one thing only, and is no word of this module.      *)
ASSUME IdAssumption ==
  /\ Person \intersect BugId = {}
  /\ {"bugs", "people", "no file"} \intersect (Person \union BugId \union {NoBug}) = {}

VARIABLES
  people,            \* refs/identities/*
  config,            \* git-bug.identity of .git/config
  bugs,              \* the operations of each bug, <<>> when it has no reference
  selection,         \* .git/git-bug/select/bugs
  draft,             \* .git/git-bug/BUG_MESSAGE_EDITMSG: the run that wrote it
  used,              \* ids that have been given to an identity or a bug
  proc,              \* where each process is and what it has read
  runs               \* what was asked of each run, and what it answered

vars == <<people, config, bugs, selection, draft, used, proc, runs>>
files == <<config, selection, draft>>
refs == <<people, bugs, used>>

NoFile == "no file"
Blank == 0           \* the draft as the template has it
NoDraft == MaxRuns + 1
------------------------------------------------------------------------------
(* The commands: whether one needs to know who acts, what it does with its *)
(* argument, whether it asks for a text, and what it does in the end.      *)

Command(user, target, text, act) ==
  [user |-> user, target |-> target, text |-> text, act |-> act]

NoCommand == Command("any", "none", "none", "none")

(* Arguments of a command that changes a bug: ResolveMutationTarget.       *)
Change(text) == Command("acting", "mutation", text, "append")
Show(target) == Command("any", target, "none", "read")

BugNew == Command("acting", "none", "required", "create")
BugCommentNew == Change("required")
BugCommentEdit == Command("acting", "comment", "required", "append")
BugLabelNew == Change("none")
BugLabelRm == Change("none")
BugStatusOpen == Change("none")
BugStatusClose == Change("none")
BugTitleEdit == Change("prefilled")
BugRm == Command("any", "named", "none", "remove")
BugSelect == Command("any", "named", "none", "select")
BugDeselect == Command("any", "none", "none", "deselect")
BugList == Show("none")
BugShow == Show("selected")
BugComment == Show("selected")
BugLabel == Show("selected")
BugStatus == Show("selected")
BugTitle == Show("selected")
Label == Show("none")
UserList == Show("none")
UserShow == Command("default", "none", "none", "read")
UserNew == Command("any", "none", "none", "user new")
UserAdopt == Command("any", "person", "none", "user adopt")
Wipe == Command("any", "none", "none", "wipe")

Repertoire ==
  {BugNew, BugCommentNew, BugCommentEdit, BugLabelNew, BugLabelRm, BugStatusOpen, BugStatusClose,
   BugTitleEdit, BugRm, BugSelect, BugDeselect, BugList, BugShow, BugComment, BugLabel, BugStatus,
   BugTitle, Label, UserList, UserShow, UserNew, UserAdopt, Wipe}
ASSUME OfferedAssumption == Offered \in [Proc -> SUBSET Repertoire]
------------------------------------------------------------------------------
(* Processes and runs.                                                     *)

(* Between two commands: nothing is loaded.                                *)
Idle ==
  [at |-> "idle", run |-> 0, todo |-> {}, known |-> {}, seen |-> [b \in BugId |-> 0],
   cmd |-> NoCommand, over |-> NoOne, named |-> NoBug,
   actor |-> NoOne, target |-> NoBug, text |-> Blank, fd |-> "none", failed |-> FALSE,
   configs |-> {}, selected |-> {}]

At(p, where) == proc[p].at = where
Cmd(p) == proc[p].cmd
Go(p, where) == proc' = [proc EXCEPT ![p].at = where]
Busy(q) == proc[q].at # "idle"

(* CloseBackend: the run ends; the cache it loaded goes with it. A run that *)
(* is killed or aborts counts as failed.                                   *)
Answer(p, result, b) ==
  runs' = [runs EXCEPT ![proc[p].run] =
             [@ EXCEPT !.act = Cmd(p).act, !.text = Cmd(p).text, !.result = result, !.target = b,
                       !.base = IF b = NoBug THEN 0 ELSE proc[p].seen[b]]]
Ended(p, result) ==
  /\ proc' = [proc EXCEPT ![p] = Idle]
  /\ Answer(p, result, proc[p].target)

(* What a run could have read of the shared files is kept, to compare its  *)
(* operation with.                                                         *)
Noted(p, q, c, s) ==
  [q EXCEPT !.configs = @ \union {c},
            !.selected = @ \union (IF p \in Terminal /\ s \in BugId THEN {s} ELSE {})]
Told(c, s) == [q \in Proc |-> IF Busy(q) THEN Noted(q, proc[q], c, s) ELSE proc[q]]

Count(b) == Len(bugs[b])
Exists(b) == bugs[b] # <<>>
ListRefs(kind) == IF kind = "people" THEN people ELSE {b \in BugId : Exists(b)}
Authors(b) == {op.by : op \in ToSet(bugs[b])}
Op(p) == [by |-> proc[p].actor, run |-> proc[p].run, text |-> proc[p].text]

Init ==
  /\ people = {Founder}
  /\ config \in {Founder, NoOne}
  /\ bugs = [b \in BugId |->
               IF b = FirstBug THEN <<[by |-> Founder, run |-> 0, text |-> 0]>> ELSE <<>>]
  /\ selection = FirstBug
  /\ draft = NoDraft
  /\ used = {Founder, FirstBug}
  /\ proc = [p \in Proc |-> Idle]
  /\ runs = <<>>

(* The command line is chosen where it is first looked at: loading the     *)
(* backend does not depend on it.                                          *)
Start(p) ==
  /\ At(p, "idle") /\ Len(runs) < MaxRuns
  /\ LET r == Len(runs) + 1
         others == {proc[q].run : q \in {q \in Proc : Busy(q)}}
         met == [s \in DOMAIN runs |->
                   IF s \in others THEN [runs[s] EXCEPT !.beside = @ \union {r}] ELSE runs[s]]
     IN /\ runs' = Append(met,
                          [act |-> "none", text |-> "none", result |-> "running",
                           beside |-> others, target |-> NoBug, base |-> 0])
        /\ proc' = [proc EXCEPT
             ![p] = Noted(p, [Idle EXCEPT !.at = "people", !.run = r], config, selection)]
  /\ UNCHANGED <<refs, files>>

(* The process is killed, or the user interrupts it.                       *)
Kill(p) ==
  /\ Busy(p)
  /\ Ended(p, "failed")
  /\ UNCHANGED <<refs, files>>
------------------------------------------------------------------------------
(* LoadBackend: Build lists the references of a kind and reads each of     *)
(* them; one that went away in between ends the command, at the first      *)
(* event with an error.                                                    *)
NotLoaded(p) == Ended(p, "not loaded")

ListPeople(p) ==
  /\ At(p, "people")
  /\ proc' = [proc EXCEPT ![p].at = "read people", ![p].todo = ListRefs("people")]
  /\ UNCHANGED <<refs, files, runs>>

ReadPerson(p) ==
  /\ At(p, "read people")
  /\ \E i \in proc[p].todo :
       IF i \in people
         THEN /\ proc' = [proc EXCEPT ![p].todo = @ \ {i}, ![p].known = @ \union {i}]
              /\ UNCHANGED runs
         ELSE NotLoaded(p)
  /\ UNCHANGED <<refs, files>>

ListBugs(p) ==
  /\ At(p, "read people") /\ proc[p].todo = {}
  /\ proc' = [proc EXCEPT ![p].at = "read bugs", ![p].todo = ListRefs("bugs")]
  /\ UNCHANGED <<refs, files, runs>>

(* The authors of the operations are looked up in the cache of identities, *)
(* and in the repository if they are not there.                            *)
Readable(p, b) == Exists(b) /\ Authors(b) \subseteq people \union proc[p].known

ReadBug(p) ==
  /\ At(p, "read bugs")
  /\ \E b \in proc[p].todo :
       IF Readable(p, b)
         THEN /\ proc' = [proc EXCEPT ![p].todo = @ \ {b}, ![p].seen[b] = Count(b)]
              /\ UNCHANGED runs
         ELSE NotLoaded(p)
  /\ UNCHANGED <<refs, files>>
------------------------------------------------------------------------------
(* Who acts: --identity, or else GIT_BUG_IDENTITY, or else the default.     *)

Loaded(p) == At(p, "read bugs") /\ proc[p].todo = {}
Runs(p, cmd) == Loaded(p) /\ cmd \in Offered[p]
Acts(p, cmd, i) ==
  proc' = [proc EXCEPT ![p].at = "resolve", ![p].cmd = cmd, ![p].actor = i]
ActsAs(p, cmd, i) ==
  proc' = [proc EXCEPT ![p].at = "resolve", ![p].cmd = cmd, ![p].actor = i, ![p].over = i]

(* Mutant: the identity is taken as it was typed.                          *)
ActorUnchecked(p) ==
  /\ \E cmd \in Offered[p], over \in Person :
       /\ Runs(p, cmd) /\ cmd.user = "acting"
       /\ ActsAs(p, cmd, over)
  /\ UNCHANGED <<refs, files, runs>>
(* Mutant: the identity becomes the default of the repository.             *)
ActorAdopted(p) ==
  /\ \E cmd \in Offered[p], over \in Person :
       /\ Runs(p, cmd) /\ cmd.user = "acting" /\ over \in proc[p].known
       /\ ActsAs(p, cmd, over) /\ config' = over
  /\ UNCHANGED <<refs, selection, draft, runs>>

(* Somebody else for this run: only an identity that the cache knows.      *)
ActorOverride(p) ==
  /\ \E cmd \in Offered[p], over \in Person :
       /\ Runs(p, cmd) /\ cmd.user = "acting"
       /\ IF over \in proc[p].known
            THEN ActsAs(p, cmd, over) /\ UNCHANGED runs
            ELSE Ended(p, "failed")
  /\ UNCHANGED <<refs, files>>

(* Mutant: whoever the cache knows.                                        *)
ActorAnybody(p) ==
  /\ \E cmd \in Offered[p], i \in proc[p].known :
       /\ Runs(p, cmd) /\ cmd.user \in {"acting", "default"}
       /\ Acts(p, cmd, i)
  /\ UNCHANGED <<refs, files, runs>>

(* The default of the repository, which may be none, or have been removed. *)
HasUserIdentity(p) == config # NoOne /\ config \in proc[p].known \union people

ActorDefault(p) ==
  /\ \E cmd \in Offered[p] :
       /\ Runs(p, cmd) /\ cmd.user \in {"acting", "default"}
       /\ IF HasUserIdentity(p)
            THEN Acts(p, cmd, config) /\ UNCHANGED runs
            ELSE Ended(p, "failed")
  /\ UNCHANGED <<refs, files>>

ActorNone(p) ==
  /\ \E cmd \in Offered[p] : Runs(p, cmd) /\ cmd.user = "any" /\ Acts(p, cmd, NoOne)
  /\ UNCHANGED <<refs, files, runs>>
------------------------------------------------------------------------------
(* What the command is about.                                              *)

Input(p) == IF Cmd(p).text = "none" THEN "act" ELSE "input"
Found(p, b) == proc' = [proc EXCEPT ![p].at = Input(p), ![p].target = b]

(* Mutant: scripts use the selection as well.                              *)
SelectionForAll(p) == Cmd(p).target \in {"selected", "mutation"}
(* ResolveMutationTarget and ResolveSelected.                              *)
AllowSelection(p) ==
  \/ Cmd(p).target = "selected"
  \/ Cmd(p).target = "mutation" /\ p \in Terminal

Known(p) == {b \in BugId : proc[p].seen[b] # 0}

ResolveNothing(p) ==
  /\ At(p, "resolve") /\ Cmd(p).target \in {"none", "person"}
  /\ Go(p, Input(p))
  /\ UNCHANGED <<refs, files, runs>>

(* The argument is looked up among the bugs that were loaded.              *)
ResolvePrefix(p) ==
  /\ At(p, "resolve") /\ Cmd(p).target \in {"named", "selected", "mutation"}
  /\ \E b \in Known(p) :
       proc' = [proc EXCEPT ![p].at = Input(p), ![p].target = b, ![p].named = b]
  /\ UNCHANGED <<refs, files, runs>>

(* A comment is looked up among those of the bugs that were loaded; there  *)
(* is no selection of comments.                                            *)
ResolveComment(p) ==
  /\ At(p, "resolve") /\ Cmd(p).target = "comment"
  /\ \/ \E b \in Known(p) :
          /\ proc' = [proc EXCEPT ![p].at = Input(p), ![p].target = b, ![p].named = b]
          /\ UNCHANGED runs
     \/ Ended(p, "failed")
  /\ UNCHANGED <<refs, files>>

(* No argument, or no such bug: the selection is tried if it is allowed.   *)
ResolveMissing(p) ==
  /\ At(p, "resolve") /\ Cmd(p).target \in {"named", "selected", "mutation"}
  /\ IF AllowSelection(p) THEN Go(p, "selection") /\ UNCHANGED runs ELSE Ended(p, "failed")
  /\ UNCHANGED <<refs, files>>

(* The select file is read; what it names is looked up in the cache, then  *)
(* in the repository. A bug that does not exist is unselected.             *)
ReadSelection(p) ==
  /\ At(p, "selection")
  /\ CASE selection = NoFile -> Ended(p, "failed")
       [] selection = NoBug -> Go(p, "unselect") /\ UNCHANGED runs
       [] selection \in Known(p) -> Found(p, selection) /\ UNCHANGED runs
       [] selection \in BugId \ Known(p) /\ Readable(p, selection) ->
            /\ proc' = [proc EXCEPT ![p].at = Input(p), ![p].target = selection,
                                    ![p].seen[selection] = Count(selection)]
            /\ UNCHANGED runs
       [] selection \in BugId \ Known(p) /\ ~ Exists(selection) ->
            Go(p, "unselect") /\ UNCHANGED runs
       [] OTHER -> Ended(p, "failed")
  /\ UNCHANGED <<refs, files>>

(* Whoever has the file open writes to a file without a name from now on.  *)
Unlinked(ps) ==
  [q \in Proc |-> IF ps[q].fd = "open" THEN [ps[q] EXCEPT !.fd = "unlinked"] ELSE ps[q]]

(* Clear, or the removal of an invalid file: the command fails either way. *)
Unselect(p) ==
  /\ At(p, "unselect")
  /\ selection' = NoFile
  /\ proc' = [Unlinked(proc) EXCEPT ![p] = Idle]
  /\ Answer(p, "failed", proc[p].target)
  /\ UNCHANGED <<refs, config, draft>>
------------------------------------------------------------------------------
(* The text: scripts have it on the command line, people type it in an     *)
(* editor, which opens a file of .git/git-bug.                             *)

(* Mutant: a draft that is there already is kept.                          *)
TemplateKeepsDraft(p) ==
  /\ At(p, "input") /\ p \in Terminal
  /\ draft' = IF draft = NoDraft THEN Blank ELSE draft
  /\ Go(p, "edit")
  /\ UNCHANGED <<refs, config, selection, runs>>

Flag(p) ==
  /\ At(p, "input") /\ p \notin Terminal
  /\ proc' = [proc EXCEPT ![p].at = "act", ![p].text = proc[p].run]
  /\ UNCHANGED <<refs, files, runs>>

Template(p) ==
  /\ At(p, "input") /\ p \in Terminal
  /\ draft' = Blank
  /\ Go(p, "edit")
  /\ UNCHANGED <<refs, config, selection, runs>>

(* The user saves what he typed, or leaves the file alone.                 *)
Type(p) ==
  /\ At(p, "edit")
  /\ draft' \in {draft, proc[p].run}
  /\ Go(p, "edited")
  /\ UNCHANGED <<refs, config, selection, runs>>

(* The template of `title edit` has the old title.                         *)
Prefilled(p) == Cmd(p).text = "prefilled"
(* Nothing but the comments of the template and blanks.                    *)
Empty(p) == draft = Blank /\ ~ Prefilled(p)

(* The file is read and removed. An empty text aborts without an error;    *)
(* the "No change, aborting." of `title edit` does not return.             *)
ReadDraft(p) ==
  /\ At(p, "edited")
  /\ draft' = NoDraft
  /\ CASE draft = NoDraft -> Ended(p, "failed")
       [] Empty(p) -> Ended(p, "failed")
       [] OTHER -> /\ proc' = [proc EXCEPT ![p].at = "act", ![p].text = draft]
                   /\ UNCHANGED runs
  /\ UNCHANGED <<refs, config, selection>>
------------------------------------------------------------------------------
(* What the command does.                                                  *)

Does(p, act) == At(p, "act") /\ Cmd(p).act = act

Read(p) ==
  /\ Does(p, "read")
  /\ Ended(p, "ok")
  /\ UNCHANGED <<refs, files>>

(* The operation is not valid, or there is no label to change.             *)
Refuse(p) ==
  /\ Does(p, "append") \/ Does(p, "create")
  /\ Ended(p, "failed")
  /\ UNCHANGED <<refs, files>>

(* Mutant: the operations read are written back whatever is there now.     *)
AppendUnconditional(p) ==
  /\ Does(p, "append")
  /\ LET b == proc[p].target
     IN bugs' = [bugs EXCEPT ![b] = Append(SubSeq(@, 1, proc[p].seen[b]), Op(p))]
  /\ Ended(p, "ok")
  /\ UNCHANGED <<files, people, used>>

(* The reference still is what it was when the bug was read.               *)
AppendOperation(p) ==
  /\ Does(p, "append")
  /\ LET b == proc[p].target
     IN /\ Count(b) = proc[p].seen[b]
        /\ bugs' = [bugs EXCEPT ![b] = Append(@, Op(p))]
  /\ Ended(p, "ok")
  /\ UNCHANGED <<files, people, used>>

(* Mutant: one more look at the reference, after it has been moved.        *)
AppendLateConflict(p) ==
  /\ Does(p, "append")
  /\ Ended(p, "conflict")
  /\ UNCHANGED <<files, refs>>

AppendConflict(p) ==
  /\ Does(p, "append") /\ Count(proc[p].target) # proc[p].seen[proc[p].target]
  /\ Ended(p, "conflict")
  /\ UNCHANGED <<files, refs>>

Create(p) ==
  /\ Does(p, "create")
  /\ \E b \in BugId \ used :
       /\ bugs' = [bugs EXCEPT ![b] = <<Op(p)>>]
       /\ used' = used \union {b}
       /\ Answer(p, "ok", b)
  /\ proc' = [proc EXCEPT ![p] = Idle]
  /\ UNCHANGED <<files, people>>

(* Remove resolves the reference, then deletes it if it has not moved; a   *)
(* bug that is gone already is no error.                                   *)
RemoveResolve(p) ==
  /\ Does(p, "remove")
  /\ LET b == proc[p].target
     IN IF Exists(b)
          THEN /\ proc' = [proc EXCEPT ![p].at = "remove", ![p].seen[b] = Count(b)]
               /\ UNCHANGED runs
          ELSE Ended(p, "ok")
  /\ UNCHANGED <<refs, files>>

RemoveIfMatches(p) ==
  /\ At(p, "remove")
  /\ LET b == proc[p].target
     IN IF Count(b) \in {0, proc[p].seen[b]}
          THEN bugs' = [bugs EXCEPT ![b] = <<>>] /\ Ended(p, "ok")
          ELSE UNCHANGED bugs /\ Ended(p, "failed")
  /\ UNCHANGED <<files, people, used>>

(* The select file is truncated when it is opened, and then written.       *)
SelectOpen(p) ==
  /\ Does(p, "select")
  /\ selection' = NoBug
  /\ proc' = [proc EXCEPT ![p].at = "select", ![p].fd = "open"]
  /\ UNCHANGED <<refs, config, draft, runs>>

SelectWrite(p) ==
  /\ At(p, "select")
  /\ selection' = IF proc[p].fd = "open" THEN proc[p].target ELSE selection
  /\ proc' = [Told(config, selection') EXCEPT ![p] = Idle]
  /\ Answer(p, "ok", NoBug)
  /\ UNCHANGED <<refs, config, draft>>

Deselect(p) ==
  /\ Does(p, "deselect")
  /\ selection' = NoFile
  /\ proc' = [Unlinked(proc) EXCEPT ![p] = Idle]
  /\ Answer(p, IF selection = NoFile THEN "failed" ELSE "ok", NoBug)
  /\ UNCHANGED <<refs, config, draft>>

(* user new: the identity is stored; it becomes the default if there is no *)
(* other one.                                                              *)
UserStore(p) ==
  /\ Does(p, "user new")
  /\ \E i \in Person \ used :
       /\ people' = people \union {i}
       /\ used' = used \union {i}
       /\ proc' = [proc EXCEPT ![p].at = "user stored", ![p].actor = i]
  /\ UNCHANGED <<files, bugs, runs>>

UserIsSet(p) ==
  /\ At(p, "user stored")
  /\ IF config = NoOne THEN Go(p, "set user") /\ UNCHANGED runs ELSE Ended(p, "ok")
  /\ UNCHANGED <<refs, files>>

(* user adopt: an identity that the cache knows.                           *)
UserAdoptee(p) ==
  /\ Does(p, "user adopt")
  /\ \/ \E i \in proc[p].known :
          proc' = [proc EXCEPT ![p].at = "set user", ![p].actor = i] /\ UNCHANGED runs
     \/ Ended(p, "failed")
  /\ UNCHANGED <<refs, files>>

SetUserIdentity(p) ==
  /\ At(p, "set user")
  /\ config' = proc[p].actor
  /\ proc' = [Told(config', selection) EXCEPT ![p] = Idle]
  /\ Answer(p, "ok", NoBug)
  /\ UNCHANGED <<refs, selection, draft>>
------------------------------------------------------------------------------
(* wipe: the bugs and the identities are removed by two goroutines, then   *)
(* the configuration, then the files. An error ends the goroutine it       *)
(* happens in, and keeps the configuration and the files.                  *)

WipeBegin(p) ==
  /\ Does(p, "wipe")
  /\ proc' = [proc EXCEPT ![p].at = "wipe", ![p].todo = {"bugs", "people"}]
  /\ UNCHANGED <<refs, files, runs>>

WipeList(p) ==
  /\ At(p, "wipe")
  /\ \E kind \in proc[p].todo \intersect {"bugs", "people"} :
       proc' = [proc EXCEPT ![p].todo = (@ \ {kind}) \union ListRefs(kind)]
  /\ UNCHANGED <<refs, files, runs>>

WipeResolve(p) ==
  /\ At(p, "wipe") /\ proc[p].target = NoBug
  /\ \E b \in proc[p].todo \intersect BugId :
       proc' = IF Exists(b) THEN [proc EXCEPT ![p].target = b, ![p].seen[b] = Count(b)]
                            ELSE [proc EXCEPT ![p].todo = @ \ {b}]
  /\ UNCHANGED <<refs, files, runs>>

WipeBug(p) ==
  /\ At(p, "wipe") /\ proc[p].target # NoBug
  /\ LET b == proc[p].target
     IN IF Count(b) \in {0, proc[p].seen[b]}
          THEN /\ bugs' = [bugs EXCEPT ![b] = <<>>]
               /\ proc' = [proc EXCEPT ![p].target = NoBug, ![p].todo = @ \ {b}]
          ELSE /\ UNCHANGED bugs
               /\ proc' = [proc EXCEPT ![p].target = NoBug, ![p].todo = @ \ BugId,
                                       ![p].failed = TRUE]
  /\ UNCHANGED <<files, people, used, runs>>

WipePerson(p) ==
  /\ At(p, "wipe")
  /\ \E i \in proc[p].todo \intersect Person :
       IF i \in people
         THEN /\ people' = people \ {i}
              /\ proc' = [proc EXCEPT ![p].todo = @ \ {i}]
         ELSE /\ UNCHANGED people
              /\ proc' = [proc EXCEPT ![p].todo = @ \ Person, ![p].failed = TRUE]
  /\ UNCHANGED <<files, bugs, used, runs>>

WipeFailed(p) ==
  /\ At(p, "wipe") /\ proc[p].todo = {} /\ proc[p].failed
  /\ Ended(p, "failed")
  /\ UNCHANGED <<refs, files>>

WipeConfig(p) ==
  /\ At(p, "wipe") /\ proc[p].todo = {} /\ ~ proc[p].failed
  /\ config' = NoOne
  /\ proc' = [Told(config', selection) EXCEPT ![p].at = "wipe files"]
  /\ UNCHANGED <<refs, selection, draft, runs>>

WipeStorage(p) ==
  /\ At(p, "wipe files")
  /\ selection' = NoFile /\ draft' = NoDraft
  /\ proc' = [Unlinked(proc) EXCEPT ![p] = Idle]
  /\ Answer(p, "ok", NoBug)
  /\ UNCHANGED <<refs, config>>
------------------------------------------------------------------------------
Load(p) == ListPeople(p) \/ ReadPerson(p) \/ ListBugs(p) \/ ReadBug(p)
Actor(p) == ActorOverride(p) \/ ActorDefault(p) \/ ActorNone(p)
Resolve(p) ==
  \/ ResolveNothing(p) \/ ResolvePrefix(p) \/ ResolveComment(p) \/ ResolveMissing(p)
  \/ ReadSelection(p) \/ Unselect(p)
AskText(p) == Flag(p) \/ Template(p) \/ Type(p) \/ ReadDraft(p)
Act(p) ==
  \/ Read(p) \/ Refuse(p) \/ AppendOperation(p) \/ AppendConflict(p) \/ Create(p)
  \/ RemoveResolve(p) \/ RemoveIfMatches(p)
  \/ SelectOpen(p) \/ SelectWrite(p) \/ Deselect(p)
  \/ UserStore(p) \/ UserIsSet(p) \/ UserAdoptee(p) \/ SetUserIdentity(p)
WipeAll(p) ==
  \/ WipeBegin(p) \/ WipeList(p) \/ WipeResolve(p) \/ WipeBug(p) \/ WipePerson(p)
  \/ WipeFailed(p) \/ WipeConfig(p) \/ WipeStorage(p)

Next == \E p \in Proc :
  Start(p) \/ Kill(p) \/ Load(p) \/ Actor(p) \/ Resolve(p) \/ AskText(p) \/ Act(p) \/ WipeAll(p)

Spec == Init /\ [][Next]_vars
------------------------------------------------------------------------------
OperationRecord == [by : Person, run : 0 .. MaxRuns, text : 0 .. MaxRuns]

(* Ids that are in use have been handed out, and the identities and bugs   *)
(* that a process knows have existed.                                      *)
TypeOK ==
  /\ people \subseteq Person /\ config \in Person \union {NoOne}
  /\ \A b \in BugId : bugs[b] \in Seq(OperationRecord)
  /\ selection \in BugId \union {NoBug, NoFile} /\ draft \in 0 .. NoDraft
  /\ used \subseteq Person \union BugId
  /\ people \subseteq used /\ {b \in BugId : Exists(b)} \subseteq used
  /\ \A p \in Proc : /\ proc[p].run \in 0 .. Len(runs)
                     /\ proc[p].known \union Known(p) \subseteq used
                     /\ proc[p].actor \in used \union {NoOne}
  /\ Len(runs) <= MaxRuns

Adds(b) == Len(bugs'[b]) > Len(bugs[b])
Runner(r) == CHOOSE p \in Proc : proc[p].run = r

(* Whoever else runs commands, an operation is by the identity of          *)
(* --identity or GIT_BUG_IDENTITY, or else by one that was the default of  *)
(* the repository during the run (root.go:24).                             *)
ActorsAsAsked ==
  [][\A b \in BugId : Adds(b) =>
       LET op == Last(bugs'[b])
           p == Runner(op.run)
       IN IF proc[p].over # NoOne THEN op.by = proc[p].over ELSE op.by \in proc[p].configs]_vars

(* An operation lands on the bug that was named, and, at a terminal only,  *)
(* if no bug was, on one that was selected during the run (select.go:89).  *)
TargetsAsAsked ==
  [][\A b \in BugId : Adds(b) =>
       LET p == Runner(Last(bugs'[b]).run)
       IN \/ Cmd(p).act = "create"
          \/ proc[p].named = b
          \/ p \in Terminal /\ proc[p].named = NoBug /\ b \in proc[p].selected]_vars

OpsOf(r) == UNION {{<<b, n>> : n \in {m \in DOMAIN bugs[b] : bugs[b][m].run = r}} : b \in BugId}

(* A change that was reported as done is there once, in its bug, unless    *)
(* the bug was removed; one that was reported as failed left no operation, *)
(* whatever was in its way.                                                *)
AnswersAreTrue ==
  \A r \in DOMAIN runs :
    /\ runs[r].result = "ok" /\ runs[r].act \in {"append", "create"} =>
         LET b == runs[r].target
         IN IF Exists(b) THEN \E n \in DOMAIN bugs[b] : OpsOf(r) = {<<b, n>>} ELSE OpsOf(r) = {}
    /\ runs[r].result # "ok" => OpsOf(r) = {}

(* A commit is refused only because another command, run at the same time, *)
(* changed the bug or removed it: of two that compete one gets through     *)
(* (concurrency_integration_test.go:88).                                   *)
ConflictMeansProgress ==
  \A r \in DOMAIN runs : runs[r].result = "conflict" =>
    LET b == runs[r].target
    IN Exists(b) => Count(b) > runs[r].base /\ bugs[b][runs[r].base + 1].run \in runs[r].beside

(* Only `user adopt` replaces the default identity at will; `user new`     *)
(* sets one only if there was none at some moment of its run (two of them  *)
(* at once may both find none, user_new.go:80), and only `wipe` clears it: *)
(* acting as somebody else for one command does not                        *)
(* (repo_cache_common.go:202).                                             *)
ConfigIsChosen ==
  [][config' # config =>
       \E p \in Proc :
         \/ At(p, "set user") /\ Cmd(p).act = "user adopt"
         \/ At(p, "set user") /\ Cmd(p).act = "user new" /\ NoOne \in proc[p].configs
         \/ At(p, "wipe") /\ config' = NoOne]_vars

Carries(r, act) == act = IF runs[r].result = "running" THEN Cmd(Runner(r)).act ELSE runs[r].act
(* A wipe that left something behind: interrupted, or not alone.           *)
Broken(r) == Carries(r, "wipe") /\ (runs[r].result # "ok" \/ runs[r].beside # {})

(* Unless something is being removed meanwhile, or was left half removed   *)
(* by a wipe, everything stored can be loaded, whatever was killed or      *)
(* refused before, and whoever is configured.                              *)
LoadFailsOnlyOverRemoval ==
  \A r \in DOMAIN runs : runs[r].result = "not loaded" =>
    \E s \in DOMAIN runs : Broken(s) \/ (s \in runs[r].beside /\ Carries(s, "remove"))

(* What an editor session adds is what was typed in this session, or the   *)
(* title as it was: never what was left by one that was killed.            *)
TextIsTyped ==
  \A b \in BugId : \A n \in DOMAIN bugs[b] :
    LET op == bugs[b][n]
    IN op.run # 0 => \/ op.text = op.run
                     \/ op.text = Blank /\ runs[op.run].text # "required"
==============================================================================
