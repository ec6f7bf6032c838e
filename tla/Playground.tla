------------------------------ MODULE Playground ------------------------------
(***************************************************************************)
(* The Playground (site/src): one page, one DuckDB connection, the         *)
(* datasets a reader opens and the queries they run there.  openDataset    *)
(* and execute (main.ts) are async functions of one JavaScript thread: a   *)
(* step here is what runs between two awaits, and the reader's clicks and  *)
(* keys come between steps.  The loader (loader.ts) takes its turns on the *)
(* connection one at a time.                                               *)
(*                                                                         *)
(* Of the SQL only this is modelled: whether a text creates a table the    *)
(* dataset's map draws, which createdNames then finds (presets.ts).  A     *)
(* text has no USE and drops no table, and the three queries of a network  *)
(* are one step.  made counts how often a dataset's tables were            *)
(* created, and a network is the count it was read at; 0 is empty.         *)
(***************************************************************************)
EXTENDS Naturals, Sequences, FiniteSets

CONSTANTS
  Datasets,       \* dataset ids
  Default,        \* index.default
  Dynamic,        \* datasets with a dependsOn: their maps draw created tables
  Edges,          \* edge ids a reader can pick
  Tasks,          \* async calls that may be under way at once
  MaxMade,        \* bound: times a dataset's tables are created
  Readers         \* the readers considered; each behaviour has one of them

None == "none"

ASSUME PlaygroundAssumption ==
  /\ Default \in Datasets
  /\ Dynamic \subseteq Datasets
  /\ None \notin Datasets \cup Edges
  /\ MaxMade \in Nat
  /\ Readers \subseteq [edits : BOOLEAN, picks : BOOLEAN, partial : BOOLEAN]

VARIABLES
  reader,        \* whether the reader edits the SQL, or picks an edge, while the
                 \* page is busy, and whether their queries may fail half done
  current,       \* the open dataset
  select,        \* datasetSelect.value; None when it is blank
  busy,          \* datasetSelect.disabled, preset.disabled
  run_disabled,  \* run.disabled
  editor,        \* the SQL: "creates" or "plain"
  network_empty, \* networkEmpty
  selected,      \* the page's selected edge
  grid,          \* the result grid: whether it has rows, and its selected edge
  map,           \* the map: whether there is one, the network drawn, its selected edge
  redraw_failed, \* history: the map shown could not be redrawn, as a banner said
  task,          \* the async calls under way
  queue,         \* the loader's queue: tasks, the first one's turn is running
  turn,          \* what that turn does next
  built,         \* the loader's memo of builds, per dataset
  networks,      \* the loader's networks
  catalog,       \* the catalog selected on the connection
  made           \* times each dataset's tables were created

page   == <<reader, current, select, busy, run_disabled, editor, network_empty, redraw_failed>>
edges  == <<selected, grid, map>>
loader == <<queue, turn, built, networks>>
db     == <<catalog, made>>
vars   == <<page, edges, task, loader, db>>

NoTask    == [op |-> "none", id |-> None, previous |-> None, ran |-> "plain",
              awaits |-> "none", settled |-> "pending"]
NoMap     == [present |-> FALSE, drawn |-> 0, selected |-> None]
NoNetwork == MaxMade + 1

OpenTask(id, previous) == [op |-> "open", id |-> id, previous |-> previous, ran |-> "plain",
                           awaits |-> "open", settled |-> "pending"]
QueryTask(text) == [op |-> "execute", id |-> None, previous |-> None, ran |-> text,
                    awaits |-> "query", settled |-> "pending"]

Awaiting(t, what, settled) == [task EXCEPT ![t].awaits = what, ![t].settled = settled]
Resolved(t, what) == task[t].awaits = what /\ task[t].settled = "resolved"
Rejected(t, what) == task[t].awaits = what /\ task[t].settled = "rejected"
Ended(t) == [task EXCEPT ![t] = NoTask]

\* main: the dataset of the share link, if it names a known one, or the default.
Init ==
  /\ reader \in Readers
  /\ current = None
  /\ select = Default
  /\ busy = TRUE
  /\ run_disabled = TRUE
  /\ editor = "plain"
  /\ network_empty = FALSE
  /\ selected = None
  /\ grid = [rows |-> FALSE, selected |-> None]
  /\ map = NoMap
  /\ redraw_failed = FALSE
  /\ \E first \in Tasks, id \in Datasets :
       /\ task = [t \in Tasks |-> IF t = first THEN OpenTask(id, None) ELSE NoTask]
       /\ queue = <<first>>
  /\ turn = "build"
  /\ built = [d \in Datasets |-> "none"]
  /\ networks = [d \in Datasets |-> NoNetwork]
  /\ catalog = None
  /\ made = [d \in Datasets |-> 0]

-----------------------------------------------------------------------------
(* The loader. *)

\* The dataset of the turn that is running.
TurnId(t) ==
  IF task[t].awaits = "reopen" THEN task[t].previous
  ELSE IF task[t].awaits = "refresh" THEN current ELSE task[t].id

Enqueued(t) == Append(queue, t)
FirstTurn   == IF queue = <<>> THEN "build" ELSE turn

\* The queue goes on when its first turn settles, whichever way.
Settle(how) ==
  /\ queue' = Tail(queue)
  /\ turn' = "build"
  /\ task' = [task EXCEPT ![Head(queue)].settled = how]

\* Mutant of MemoAfterFailure: a rejected build stays in the memo.
KeepRejected == "rejected"

\* pending.catch: a build that failed is forgotten, before its turn ends.
MemoAfterFailure == "none"

CanBuild(id) == built[id] # "rejected"

\* openNow: a dataset already built is only selected.
Build ==
  /\ queue # <<>>
  /\ turn = "build"
  /\ CanBuild(TurnId(Head(queue)))
  /\ built' = [built EXCEPT ![TurnId(Head(queue))] = "done"]
  /\ catalog' = IF built[TurnId(Head(queue))] = "done" THEN catalog ELSE TurnId(Head(queue))
  /\ turn' = "use"
  /\ UNCHANGED <<page, edges, task, queue, networks, made>>

\* The build fails, before or after it selected its own catalog; one that failed
\* and is still memoized runs nothing.
BuildFails ==
  /\ queue # <<>>
  /\ turn = "build"
  /\ built[TurnId(Head(queue))] # "done"
  /\ catalog' \in {catalog} \cup {id \in {TurnId(Head(queue))} : CanBuild(id)}
  /\ built' = [built EXCEPT ![TurnId(Head(queue))] = MemoAfterFailure]
  /\ Settle("rejected")
  /\ UNCHANGED <<page, edges, networks, made>>

\* The USE statement; then an open is done.
Use ==
  /\ queue # <<>>
  /\ turn = "use"
  /\ catalog' = TurnId(Head(queue))
  /\ IF task[Head(queue)].awaits \in {"open", "reopen"}
       THEN Settle("resolved")
       ELSE turn' = "network" /\ UNCHANGED <<task, queue>>
  /\ UNCHANGED <<page, edges, built, networks, made>>

UseFails ==
  /\ queue # <<>>
  /\ turn = "use"
  /\ Settle("rejected")
  /\ UNCHANGED <<page, edges, built, networks, db>>

\* networkOf: its queries are unqualified, so they read the selected catalog.
NetworkOf ==
  /\ queue # <<>>
  /\ turn = "network"
  /\ networks' = [networks EXCEPT ![TurnId(Head(queue))] = made[catalog]]
  /\ Settle("resolved")
  /\ UNCHANGED <<page, edges, built, db>>

NetworkOfFails ==
  /\ queue # <<>>
  /\ turn = "network"
  /\ Settle("rejected")
  /\ UNCHANGED <<page, edges, built, networks, db>>

-----------------------------------------------------------------------------
(* openDataset. *)

\* The reader chooses another dataset than the select shows; a disabled select
\* fires no change.
OpenDataset(t) ==
  /\ task[t] = NoTask
  /\ ~busy
  /\ \E id \in Datasets \ {select} :
       /\ select' = id
       /\ task' = [task EXCEPT ![t] = OpenTask(id, current)]
  /\ busy' = TRUE
  /\ run_disabled' = TRUE
  /\ queue' = Enqueued(t)
  /\ turn' = FirstTurn
  /\ UNCHANGED <<reader, current, editor, network_empty, redraw_failed, edges, built, networks, db>>

\* Mutant of HasNetwork: a dataset that was built has its network.
HasBuild(id) == built[id] = "done"

\* networks.get: a network built, or being built, is not built again.
HasNetwork(id) == networks[id] # NoNetwork

\* The dataset is open: its first preset, an empty grid, and rebuildMap up to its
\* await of the network, which the loader may have from an earlier open.
Opened(t) ==
  /\ Resolved(t, "open")
  /\ current' = task[t].id
  /\ select' = task[t].id
  /\ editor' \in {"plain", "creates"}
  /\ selected' = None
  /\ grid' = [rows |-> FALSE, selected |-> None]
  /\ map' = NoMap
  /\ network_empty' = FALSE
  /\ IF HasNetwork(task[t].id)
       THEN task' = Awaiting(t, "network", "resolved") /\ UNCHANGED <<queue, turn>>
       ELSE task' = Awaiting(t, "network", "pending") /\ queue' = Enqueued(t) /\ turn' = FirstTurn
  /\ redraw_failed' = FALSE
  /\ UNCHANGED <<reader, busy, run_disabled, built, networks, db>>

\* createRouteMap is done, and openDataset with it.
MapCreated(t) ==
  /\ Resolved(t, "network")
  /\ map' = [present |-> TRUE, drawn |-> networks[task[t].id], selected |-> None]
  /\ network_empty' = (task[t].id \in Dynamic /\ networks[task[t].id] = 0)
  /\ busy' = FALSE
  /\ run_disabled' = FALSE
  /\ task' = Ended(t)
  /\ UNCHANGED <<reader, current, select, editor, redraw_failed, selected, grid, loader, db>>

\* Without its network or its basemap the page goes on without a map.
MapFails(t) ==
  /\ task[t].awaits = "network" /\ task[t].settled # "pending"
  /\ busy' = FALSE
  /\ run_disabled' = FALSE
  /\ task' = Ended(t)
  /\ UNCHANGED <<reader, current, select, editor, network_empty, redraw_failed, edges, loader, db>>

\* Mutant of FallsBack: the default dataset is tried again after it failed.
FallsBackAlways(t) == task[t].previous = None

\* Only a failed first open falls back to the default dataset, once.
FallsBack(t) == task[t].previous = None /\ task[t].id # Default

\* Mutant of AfterFailedOpen: the previous dataset is kept without selecting its
\* catalog again.
KeepPrevious(t) == Awaiting(t, "reopen", "resolved")

\* What is awaited after a failed open: the previous dataset again, or else the
\* default one.
AfterFailedOpen(t) ==
  IF task[t].previous # None THEN Awaiting(t, "reopen", "pending")
                             ELSE [task EXCEPT ![t] = OpenTask(Default, None)]

OpenFailed(t) ==
  /\ Rejected(t, "open")
  /\ task[t].previous # None \/ FallsBack(t)
  /\ task' = AfterFailedOpen(t)
  /\ IF task'[t].settled = "pending"
       THEN queue' = Enqueued(t) /\ turn' = FirstTurn
       ELSE UNCHANGED <<queue, turn>>
  /\ UNCHANGED <<page, edges, built, networks, db>>

Reopened(t) ==
  /\ Resolved(t, "reopen")
  /\ current' = task[t].previous
  /\ select' = task[t].previous
  /\ busy' = FALSE
  /\ run_disabled' = FALSE
  /\ task' = Ended(t)
  /\ UNCHANGED <<reader, editor, network_empty, redraw_failed, edges, loader, db>>

\* Mutant of RunDisabledWhenOpen: setAllBusy(false) and no more.
RunAlwaysEnabled(dataset) == FALSE

\* finally: Run stays disabled when nothing is open.
RunDisabledWhenOpen(dataset) == dataset = None

\* nothingOpen.
NothingOpen(t) ==
  /\ \/ Rejected(t, "reopen")
     \/ Rejected(t, "open") /\ task[t].previous = None /\ ~FallsBack(t)
  /\ current' = None
  /\ select' = None
  /\ busy' = FALSE
  /\ run_disabled' = RunDisabledWhenOpen(None)
  /\ task' = Ended(t)
  /\ UNCHANGED <<reader, editor, network_empty, redraw_failed, edges, loader, db>>

-----------------------------------------------------------------------------
(* execute. *)

\* Mutant of MayExecute: the shortcut does not look at the button.
ShortcutAlways == current # None

\* The button is not clickable when disabled; Ctrl+Enter comes at any time.
MayExecute == ~run_disabled /\ current # None

Execute(t) ==
  /\ task[t] = NoTask
  /\ MayExecute
  /\ task' = [task EXCEPT ![t] = QueryTask(editor)]
  /\ busy' = TRUE
  /\ run_disabled' = TRUE
  /\ UNCHANGED <<reader, current, select, editor, network_empty, redraw_failed, edges, loader, db>>

\* The tables the text that ran created, in the selected catalog.
Creates(text) ==
  made' = IF text = "creates" /\ catalog \in Dynamic
            THEN [made EXCEPT ![catalog] = @ + 1] ELSE made

MayRun(text) == text = "creates" => made[catalog] < MaxMade

\* The last lines of execute: the selection is cleared, and the page is not busy.
Finish(t, to) ==
  /\ selected' = None
  /\ map' = [to EXCEPT !.selected = None]
  /\ busy' = FALSE
  /\ run_disabled' = FALSE
  /\ task' = Ended(t)

\* Mutant of Redraws: the map is never drawn again.
NeverRedraws(text) == FALSE

\* Whether createdNames finds a table of the map in the text.
Redraws(text) == current \in Dynamic /\ text = "creates"

\* The result is shown; the text looked at is the editor's, as it is now.
QueryDone(t) ==
  /\ task[t].awaits = "query"
  /\ MayRun(task[t].ran)
  /\ Creates(task[t].ran)
  /\ grid' = [rows |-> TRUE, selected |-> None]
  /\ IF Redraws(editor)
       THEN /\ networks' = [networks EXCEPT ![current] = NoNetwork]
            /\ task' = Awaiting(t, "refresh", "pending")
            /\ queue' = Enqueued(t)
            /\ turn' = FirstTurn
            /\ UNCHANGED <<selected, map, busy, run_disabled>>
       ELSE Finish(t, map) /\ UNCHANGED <<queue, turn, networks>>
  /\ UNCHANGED <<reader, current, select, editor, network_empty, redraw_failed, built, catalog>>

\* The statements before the one that failed keep their effect.
QueryFails(t) ==
  /\ task[t].awaits = "query"
  /\ \/ UNCHANGED made
     \/ reader.partial /\ MayRun(task[t].ran) /\ Creates(task[t].ran)
  /\ busy' = FALSE
  /\ run_disabled' = FALSE
  /\ task' = Ended(t)
  /\ UNCHANGED <<reader, current, select, editor, network_empty, redraw_failed, edges, loader, catalog>>

Refreshed(t) ==
  /\ Resolved(t, "refresh")
  /\ network_empty' = (networks[current] = 0)
  /\ Finish(t, IF map.present THEN [map EXCEPT !.drawn = networks[current]] ELSE map)
  /\ UNCHANGED <<reader, current, select, editor, redraw_failed, grid, loader, db>>

RefreshFailed(t) ==
  /\ Rejected(t, "refresh")
  /\ redraw_failed' = TRUE
  /\ Finish(t, map)
  /\ UNCHANGED <<reader, current, select, editor, network_empty, grid, loader, db>>

\* setNetwork throws in a map that is there, before or after it drew the network.
SetNetworkFails(t) ==
  /\ Resolved(t, "refresh")
  /\ map.present
  /\ network_empty' = (networks[current] = 0)
  /\ redraw_failed' = TRUE
  /\ \E drawn \in {map.drawn, networks[current]} : Finish(t, [map EXCEPT !.drawn = drawn])
  /\ UNCHANGED <<reader, current, select, editor, grid, loader, db>>

-----------------------------------------------------------------------------
(* The reader. *)

\* Typing, or choosing a preset, which a busy page does not allow.
Edit ==
  /\ reader.edits \/ ~busy
  /\ editor' \in {"plain", "creates"}
  /\ UNCHANGED <<reader, current, select, busy, run_disabled, network_empty, redraw_failed, edges,
                 task, loader, db>>

NextSelection(now, picked, source) ==
  IF source = "map" /\ picked # None /\ picked = now THEN None ELSE picked

\* Mutant of GridShows: only a pick on the map reaches the grid.
GridShowsMapPicks(next, source) == IF source = "map" THEN next ELSE grid.selected

\* grid.select.
GridShows(next, source) == next

Pick(source) ==
  /\ reader.picks \/ ~busy
  /\ IF source = "map" THEN map.present ELSE grid.rows
  /\ \E edge \in Edges \cup {None} :
       LET next == NextSelection(selected, edge, source) IN
       /\ selected' = next
       /\ grid' = [grid EXCEPT !.selected = GridShows(next, source)]
       /\ map' = IF map.present THEN [map EXCEPT !.selected = next] ELSE map
  /\ UNCHANGED <<page, task, loader, db>>

\* The steps that come when what they await settles.
Settled ==
  \/ Build \/ BuildFails \/ Use \/ UseFails \/ NetworkOf \/ NetworkOfFails
  \/ \E t \in Tasks :
       \/ Opened(t) \/ MapCreated(t) \/ MapFails(t)
       \/ OpenFailed(t) \/ Reopened(t) \/ NothingOpen(t)
       \/ QueryDone(t) \/ QueryFails(t) \/ Refreshed(t) \/ RefreshFailed(t) \/ SetNetworkFails(t)

Reader ==
  \/ \E t \in Tasks : OpenDataset(t) \/ Execute(t)
  \/ Edit
  \/ \E source \in {"grid", "map"} : Pick(source)

Next == Settled \/ Reader

Spec == Init /\ [][Next]_vars

\* Every promise the page awaits settles: the worker answers every query, and
\* createRouteMap ends.  For a geographic map it races the basemap's load against the
\* first error (map.ts), so there it ends whenever the basemap loads or fails; an
\* abstract map, whose style is inline, awaits its load alone, and that this comes is
\* an assumption.
FairSpec == Spec /\ WF_vars(Settled)

-----------------------------------------------------------------------------
(* Properties. *)

Edge == Edges \cup {None}

\* The types of the page's variables.
TypeOK ==
  /\ reader \in Readers
  /\ current \in Datasets \cup {None}
  /\ select \in Datasets \cup {None}
  /\ {busy, run_disabled, network_empty, redraw_failed} \subseteq BOOLEAN
  /\ editor \in {"plain", "creates"}
  /\ selected \in Edge
  /\ grid \in [rows : BOOLEAN, selected : Edge]
  /\ map \in [present : BOOLEAN, drawn : 0 .. MaxMade, selected : Edge]
  /\ \A t \in Tasks : task[t].op \in {"none", "open", "execute"}
  /\ queue \in Seq(Tasks)
  /\ turn \in {"build", "use", "network"}
  /\ built \in [Datasets -> {"none", "done", "rejected"}]
  /\ networks \in [Datasets -> 0 .. NoNetwork]
  /\ catalog \in Datasets \cup {None}
  /\ made \in [Datasets -> 0 .. MaxMade]

\* A load and a query never overlap on the one connection, nor two loads, nor two
\* queries, though Ctrl+Enter comes at any time (execute).
NeverOverlaps == Cardinality({t \in Tasks : task[t] # NoTask}) <= 1

\* A reader's query runs in the catalog of the dataset the page shows, and so do
\* the queries of its network, whatever opens failed before (loader.ts: "its
\* unqualified queries never run against a catalog a later queued open has since
\* selected").
QueriesRunOnCurrent ==
  /\ \A t \in Tasks : task[t].awaits = "query" => catalog = current
  /\ turn = "network" => catalog = TurnId(Head(queue)) /\ catalog = current

\* When the page is not busy it can be used: the select shows the open dataset,
\* whose catalog is selected, and Run is enabled; or else nothing is open, Run is
\* disabled and the blank select lets any dataset be chosen (nothingOpen).
IdleIsUsable ==
  ~busy => IF current = None THEN run_disabled /\ select = None
                             ELSE ~run_disabled /\ select = current /\ catalog = current

\* The edge selected in the page is the one selected in the grid and on the map,
\* where these are there (main.ts: "The one edge selected in both the grid and the
\* map").
OneSelection ==
  ~busy => /\ grid.rows => grid.selected = selected
           /\ map.present => map.selected = selected

\* The map shows the tables as they are since a Run created them, or says that it
\* could not (loader.ts: "after a Run creates one, refreshNetwork() builds it
\* again").
MapIsFresh ==
  ~busy /\ map.present /\ current # None => map.drawn = made[current] \/ redraw_failed

\* So it is when the reader picks nothing while the page is busy.
OneSelectionWhenCalm == ~reader.picks => OneSelection

\* So it does when the reader leaves the text alone while it runs, and it runs
\* wholly or not at all.
MapIsFreshWhenCalm == ~reader.edits /\ ~reader.partial => MapIsFresh

\* The page does not stay busy, whatever fails.
BusyEnds == busy ~> ~busy

\* A failed download, statement or query, where one could have gone well.
Fault ==
  \/ BuildFails /\ CanBuild(TurnId(Head(queue)))
  \/ UseFails
  \/ NetworkOfFails

Chooses(id) == \E t \in Tasks : OpenDataset(t) /\ task'[t].id = id

\* However often its build failed before, a dataset that is chosen again and again
\* is opened once the faults end (openNow forgets a rejected build; datasets.ts:
\* "They can run again after a failure part-way").
OpensAgain ==
  \A id \in Datasets :
    (<>[][~Fault]_vars /\ []<><<Chooses(id)>>_vars) => []<>(current = id)

=============================================================================
