------------------------------- MODULE TermUi -------------------------------
(***************************************************************************)
(* The terminal interface over the cache: the table of bugs with its pages *)
(* and its cursor, the bug that is shown, the selection of its labels, and *)
(* the editor that takes the place of the interface. One thread of         *)
(* SubCache handles the keys; while a call of the cache is under way the   *)
(* next key waits. A pull started by a key goes on in the background,      *)
(* whatever is shown meanwhile.                                            *)
(*                                                                         *)
(* The process may end at any time, and is started again. gocui draws      *)
(* after every key. Left out: the pop-ups, which take the keys until they *)
(* are closed, and the scrolling: any part of a bug may be the selected    *)
(* one. Bounds: the terminal has at least the four lines a table needs,    *)
(* and a pull is not started while another is under way.                   *)
(***************************************************************************)
EXTENDS SubCache

CONSTANTS
  Main,                 \* the goroutine of gocui's main loop
  Closing, Opening,     \* the operations that close a bug, and that open it again
  Joint,                \* the commits that join two branches: no operation
  Created,              \* creation times, in which the table is sorted
  Height                \* how many bugs the terminal has room for, from time to time

ASSUME MainAssumption == Thread = {Main} /\ Main \notin Remover
ASSUME StatusAssumption ==
  Closing \union Opening \union Joint \subseteq Op /\ Closing \intersect Opening = {}
ASSUME TableAssumption ==
  Created \in [Entity -> Nat] /\ Height \subseteq Nat \ {0} /\ Height # {}
(* Ids are hashes of one size, and a full cache is within the bound.        *)
ASSUME RestartAssumption == IsFiniteSet(Entity) /\ MaxLoaded <= MaxInstances

VARIABLES
  window,               \* termUI.activeWindow
  table,                \* bugTable
  labels                \* labelSelect

screen == <<window, table, labels>>
uiVars == <<vars, screen>>

Smaller(m, n) == IF m < n THEN m ELSE n
Larger(m, n) == IF m < n THEN n ELSE m

Windows == {"table", "show", "labels", "failed"}
Undrawn == [ids |-> <<>>, rows |-> <<>>, height |-> 0]

(* page and select are pageCursor and selectCursor; drawn is what the last *)
(* draw left: allIds, excerpts and the height of the view. next: the       *)
(* window after the call that is under way. changed: what would be saved   *)
(* is not what the bug has; adding: a goroutine waits for a label's name.  *)
NewWindow == [now |-> "table", next |-> "table"]
NewTable == [query |-> "open", page |-> 0, select |-> 0, drawn |-> Undrawn]
NewLabels == [changed |-> FALSE, adding |-> FALSE]

UiInit == Init /\ window = NewWindow /\ table = NewTable /\ labels = NewLabels

(* The process ends, of itself or not, and the next one builds its cache.  *)
Restart ==
  LET there == {e \in Entity : stored[e] # {}} IN
  /\ lru' \in Newests(there)
  /\ cached' = Built(lru')
  /\ inst' = BuiltHeap(lru', stored)
  /\ excerpts' = stored
  /\ index' = there
  /\ mu' = "free"
  /\ held' = [t \in Thread |-> 0]
  /\ call' = [t \in Thread |-> NoCall]
  /\ todo' = {} /\ merged' = <<>>
  /\ window' = NewWindow /\ table' = NewTable /\ labels' = NewLabels
  /\ UNCHANGED <<git, acked>>

Ready(w) == Idle(Main) /\ window.now = w
Activate(w) == window' = [now |-> w, next |-> w]

(* The window changes once the call of the cache has returned.             *)
Then(w) == IF call'[Main].at = "idle" THEN Activate(w) ELSE window' = [window EXCEPT !.next = w]
------------------------------------------------------------------------------
(* The table.                                                              *)

IsOpen(version) == version \intersect Closing = {} \/ version \intersect Opening # {}
Matches(e) == excerpts[e] # {} /\ (table.query = "open" => IsOpen(excerpts[e]))

(* RepoCacheBug.Query: what matches, the newest first. The excerpts come   *)
(* out of a map, and sort.Sort keeps no order of those of the same time.   *)
Orders ==
  LET matching == {e \in Entity : Matches(e)} IN
  {ids \in [1 .. Cardinality(matching) -> matching] :
     /\ IsInjective(ids)
     /\ \A m, n \in DOMAIN ids : m < n => Created[ids[m]] >= Created[ids[n]]}

Page(ids) == Smaller(table.page, Len(ids))
DoPaginate(ids, max) == SubSeq(ids, Page(ids) + 1, Smaller(Page(ids) + max, Len(ids)))
CursorClamp(rows) == Larger(Smaller(table.select, Len(rows) - 1), 0)

Draw ==
  /\ Ready("table") /\ table.drawn = Undrawn /\ mu = "free"
  /\ \E h \in Height, ids \in Orders :
       table' = [table EXCEPT !.page = Page(ids), !.select = CursorClamp(DoPaginate(ids, h)),
                              !.drawn = [ids |-> ids, rows |-> DoPaginate(ids, h), height |-> h]]
  /\ UNCHANGED <<vars, window, labels>>

(* A key that finds the table drawn; it is drawn again afterwards.         *)
Drawn == Ready("table") /\ table.drawn # Undrawn
Moves(page, select) ==
  /\ table' = [table EXCEPT !.page = page, !.select = select, !.drawn = Undrawn]
  /\ UNCHANGED <<vars, window, labels>>

Rows == table.drawn.rows
HasNext == table.page + table.drawn.height < Len(table.drawn.ids)
FirstOfNext == table.page + table.drawn.height
FirstOfPrevious == Larger(0, table.page - table.drawn.height)

CursorDown ==
  /\ Drawn
  /\ IF table.select + 1 > Len(Rows) - 1
       THEN HasNext /\ Moves(FirstOfNext, 0)
       ELSE Moves(table.page, table.select + 1)

CursorUp ==
  /\ Drawn
  /\ IF table.select = 0
       THEN table.page # 0 /\ Moves(FirstOfPrevious, table.drawn.height - 1)
       ELSE Moves(table.page, table.select - 1)

NextPage == Drawn /\ HasNext /\ Moves(FirstOfNext, table.select)
PreviousPage == Drawn /\ table.page # 0 /\ Moves(FirstOfPrevious, table.select)

Leaves == table' = [table EXCEPT !.drawn = Undrawn]

OpenBug ==
  /\ Drawn /\ Rows # <<>>
  /\ Resolve(Main, Rows[table.select + 1])
  /\ Then("show") /\ Leaves /\ UNCHANGED labels

NewBug ==
  /\ Drawn
  /\ \E e \in Entity : New(Main, e)
  /\ Then("show") /\ Leaves /\ UNCHANGED labels

ChangeQuery ==
  /\ Drawn
  /\ \E q \in {"open", "all"} : table' = [table EXCEPT !.query = q, !.drawn = Undrawn]
  /\ UNCHANGED <<vars, window, labels>>

(* The model fetches with the key: what others push later belongs to the   *)
(* next pull.                                                              *)
PullKey ==
  /\ Drawn
  /\ \E e \in Entity, c \in Commit \ Joint : Fetch(e, c)
  /\ Leaves /\ UNCHANGED <<window, labels>>
------------------------------------------------------------------------------
(* The bug that is shown.                                                  *)
Text == Op \ (Closing \union Opening \union Joint)

(* A comment, the text of one, or the title.                               *)
EditText ==
  /\ Ready("show")
  /\ \E o \in Text : Edit(Main, o)
  /\ Then("show") /\ UNCHANGED <<table, labels>>

ToggleOpenClose ==
  /\ Ready("show")
  /\ \E o \in IF IsOpen(Content(held[Main])) THEN Closing ELSE Opening : Edit(Main, o)
  /\ Then("show") /\ UNCHANGED <<table, labels>>

SaveAndBack ==
  /\ Ready("show")
  /\ CommitNotNeeded(Main) \/ CommitLock(Main)
  /\ Then("table") /\ UNCHANGED <<table, labels>>
------------------------------------------------------------------------------
(* The labels: those of all excerpts, with those of the bug marked. A      *)
(* label of the bug that no excerpt has is not in the list, and counts as  *)
(* unmarked when the list is saved.                                        *)
Unlisted == ~ (Content(held[Main]) \subseteq UNION Range(excerpts))

EditLabels ==
  /\ Ready("show")
  /\ \E changed \in {FALSE, Unlisted} : labels' = [labels EXCEPT !.changed = changed]
  /\ Activate("labels") /\ UNCHANGED <<vars, table>>

SelectItem ==
  /\ Ready("labels")
  /\ \E changed \in BOOLEAN : labels' = [labels EXCEPT !.changed = changed]
  /\ UNCHANGED <<vars, window, table>>

(* A name is asked for, and another goroutine takes it: it marks the label *)
(* of that name, or appends to the names and then to the marks, while the  *)
(* main loop goes on.                                                      *)
AddItem ==
  /\ Ready("labels") /\ ~ labels.adding
  /\ labels' = [labels EXCEPT !.adding = TRUE]
  /\ UNCHANGED <<vars, window, table>>
Added ==
  /\ labels.adding
  /\ labels' = [changed |-> window.now = "labels", adding |-> FALSE]
  /\ UNCHANGED <<vars, window, table>>
(* A draw after the name and before the mark looks for a mark that is not  *)
(* there.                                                                  *)
DrawUnmarked == Ready("labels") /\ labels.adding /\ Restart

(* What was marked is forgotten.                                           *)
Forgotten == labels' = [labels EXCEPT !.changed = FALSE]
Abort == Ready("labels") /\ Activate("show") /\ Forgotten /\ UNCHANGED <<vars, table>>

SaveAndReturn ==
  /\ Ready("labels")
  /\ \/ labels.changed /\ (\E o \in Text : Edit(Main, o)) /\ Then("show")
     \/ ~ labels.changed /\ Activate("show") /\ UNCHANGED vars
  /\ Forgotten /\ UNCHANGED table
------------------------------------------------------------------------------
Key ==
  \/ CursorDown \/ CursorUp \/ NextPage \/ PreviousPage
  \/ OpenBug \/ NewBug \/ ChangeQuery \/ PullKey
  \/ EditText \/ ToggleOpenClose \/ SaveAndBack \/ EditLabels
  \/ SelectItem \/ AddItem \/ Abort \/ SaveAndReturn

(* The call of a key goes on.                                              *)
Goes ==
  /\ \/ Read(Main) \/ Insert(Main)
     \/ EvictNothing(Main) \/ EvictBegin(Main) \/ EvictScan(Main)
     \/ EvictEnd(Main) \/ EvictLock(Main)
     \/ CommitDone(Main) \/ ExcerptLock(Main) \/ ExcerptWrite(Main) \/ IndexOne(Main)
  /\ Then(window.next)
  /\ UNCHANGED <<table, labels>>

Error == ReadNotFound(Main) \/ CommitConflict(Main) \/ ExcerptMissing(Main)

(* Mutant: the error is not looked at.                                     *)
FailsUnseen ==
  /\ Error
  /\ Activate(window.next)
  /\ UNCHANGED <<table, labels>>

(* An error of the cache ends the main loop and the interface with it; that *)
(* of ChangeLabels is shown.                                               *)
Fails ==
  /\ Error
  /\ Activate(IF window.now = "labels" THEN "show" ELSE "failed")
  /\ UNCHANGED <<table, labels>>

Background ==
  /\ \/ \E e \in Entity : MergeNothing(e) \/ MergeTakeRemote(e)
     \/ \E e \in Entity, c \in Joint : MergeJoin(e, c)
     \/ Install
  /\ UNCHANGED screen

UiNext == Key \/ Draw \/ DrawUnmarked \/ Goes \/ Fails \/ Restart \/ Background \/ Added

UiSpec == UiInit /\ [][UiNext]_uiVars

(* A call that was begun goes on. Strong fairness, because a mutex is handed *)
(* to a waiter sooner or later however often others take it meanwhile.      *)
UiFairness == SF_uiVars(Goes \/ Fails)
FairUiSpec == UiSpec /\ UiFairness
------------------------------------------------------------------------------
(* Every variable of the cache and of the interface has its type, and the  *)
(* cursor of a table that is drawn is on a row, if there is one, whatever   *)
(* a pull, a query or a smaller terminal made of the rows: `enter` indexes  *)
(* the excerpts of the page with it.                                       *)
UiTypeOK ==
  /\ TypeOK
  /\ window.now \in Windows /\ window.next \in Windows
  /\ table.page \in Nat /\ table.select \in Nat /\ Rows \in Seq(Entity)
  /\ table.drawn # Undrawn /\ Rows # <<>> => table.select < Len(Rows)

(* Back at the table everything is saved: no instance holds an operation   *)
(* that is not committed, so that `q` loses nothing, a bug may be evicted, *)
(* and an instance that a pull replaces may go.                            *)
TableMeansSaved ==
  Ready("table") => \A i \in Instance : inst[i].staging = {}
=============================================================================
