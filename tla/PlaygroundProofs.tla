--------------------------- MODULE PlaygroundProofs ---------------------------
(***************************************************************************)
(* Proofs about the Playground, for any datasets, any number of calls the  *)
(* reader could start, and every reader.                                   *)
(*                                                                         *)
(* The invariant follows the one call that can be under way from await to  *)
(* await: what that is decides whether the loader's queue holds it, which  *)
(* dataset it is about, which catalog is selected, and whether the grid    *)
(* and the map may lag behind the page.                                    *)
(***************************************************************************)
EXTENDS Playground, FiniteSetTheorems, TLAPS

\* A call as the page keeps it.
TaskRec ==
  [op       : {"none", "open", "execute"},
   id       : Datasets \cup {None},
   previous : Datasets \cup {None},
   ran      : {"plain", "creates"},
   awaits   : {"none", "open", "reopen", "network", "query", "refresh"},
   settled  : {"pending", "resolved", "rejected"}]

\* The types of the variables, and of the calls.
Types == TypeOK /\ task \in [Tasks -> TaskRec]

\* A call is under way.
Working(t) == task[t].awaits # "none"

\* It awaits the loader.
Loading(t) == task[t].awaits \in {"open", "reopen", "network", "refresh"}

\* At most one call is under way, and the page is busy while it is.
OneAtATime ==
  /\ \A t \in Tasks : Working(t) <=> task[t] # NoTask
  /\ \A t, u \in Tasks : Working(t) /\ Working(u) => t = u
  /\ busy <=> \E t \in Tasks : Working(t)
  /\ busy => run_disabled
  /\ ~busy => (run_disabled <=> current = None)

\* The queue holds what is loaded, and nothing else.
Turns ==
  /\ queue = <<>> => turn = "build"
  /\ queue # <<>> => \E t \in Tasks :
                       /\ queue = <<t>>
                       /\ Loading(t)
                       /\ task[t].settled = "pending"
                       /\ turn = "network" => task[t].awaits \in {"network", "refresh"}
  /\ \A t \in Tasks : Loading(t) /\ task[t].settled = "pending" => queue = <<t>>

\* The dataset and the catalog a call is about, at each of its awaits.
Placed(t) ==
  /\ task[t].awaits = "open" => /\ task[t].id \in Datasets
                                /\ task[t].previous = current
                                /\ task[t].settled = "resolved" => catalog = task[t].id
  /\ task[t].awaits = "reopen" => /\ current # None
                                  /\ task[t].previous = current
                                  /\ task[t].settled = "resolved" => catalog = current
  /\ task[t].awaits = "network" => task[t].id = current
  /\ task[t].awaits \in {"network", "query", "refresh"} => /\ current # None
                                                           /\ catalog = current
                                                           /\ select = current
  /\ task[t].awaits \in {"network", "refresh"} /\ task[t].settled = "resolved"
       => HasNetwork(current)

\* Every call is about the dataset shown, or the one it opens, and so is an idle page.
Places ==
  /\ \A t \in Tasks : Placed(t)
  /\ ~busy => /\ select = current
              /\ current # None => catalog = current

\* One edge is selected everywhere, but while a refresh is awaited.
Selections ==
  ~reader.picks =>
    /\ (\A t \in Tasks : task[t].awaits # "refresh") => /\ grid.rows => grid.selected = selected
                                                        /\ map.present => map.selected = selected
    /\ \A t \in Tasks : /\ task[t].awaits = "refresh" => grid.selected = None
                        /\ task[t].awaits = "network" => selected = None

\* The loader's networks are of the tables as they are, and so is the map, but
\* while a refresh is awaited.
Fresh ==
  ~reader.edits /\ ~reader.partial =>
    /\ \A d \in Datasets : networks[d] \in {NoNetwork, made[d]}
    /\ \A t \in Tasks : task[t].awaits = "query" => task[t].ran = editor
    /\ (\A t \in Tasks : task[t].awaits # "refresh") /\ map.present /\ current # None
         => map.drawn = made[current] \/ redraw_failed

\* The inductive invariant.
PInv == Types /\ OneAtATime /\ Turns /\ Places /\ Selections /\ Fresh
-----------------------------------------------------------------------------
\* The call whose turn it is.
HasTurn(t) ==
  /\ queue = <<t>>
  /\ Head(queue) = t
  /\ Working(t)
  /\ Loading(t)
  /\ task[t].settled = "pending"
  /\ TurnId(t) \in Datasets
  /\ task[t].awaits # "open" => TurnId(t) = current /\ current # None
  /\ turn = "network" => task[t].awaits \in {"network", "refresh"}

\* What is left of a turn that settled.
TurnSettled(t, how) ==
  /\ queue' \in Seq(Tasks)
  /\ turn' = "build"
  /\ task' \in [Tasks -> TaskRec]
  /\ task'[t].awaits = task[t].awaits
  /\ task'[t].settled = how
  /\ task'[t].id = task[t].id
  /\ task'[t].previous = task[t].previous
  /\ \A u \in Tasks \ {t} : task'[u] = task[u] /\ task'[u].awaits = "none"
  /\ busy'

\* The record of no call is of the type of a call.
LEMMA NoTaskTyped == NoTask \in TaskRec
BY DEF NoTask, TaskRec

\* So is that of an open.
LEMMA OpenTaskTyped ==
  ASSUME NEW id \in Datasets, NEW previous \in Datasets \cup {None}
  PROVE  OpenTask(id, previous) \in TaskRec
BY DEF OpenTask, TaskRec

\* What changes when a call goes on to another await.
LEMMA Moves ==
  ASSUME task \in [Tasks -> TaskRec], NEW t \in Tasks,
         NEW what \in {"open", "reopen", "network", "query", "refresh"},
         NEW settled \in {"pending", "resolved", "rejected"},
         task' = Awaiting(t, what, settled)
  PROVE  /\ task' \in [Tasks -> TaskRec]
         /\ task'[t].awaits = what
         /\ task'[t].settled = settled
         /\ task'[t].id = task[t].id
         /\ task'[t].previous = task[t].previous
         /\ \A u \in Tasks \ {t} : task'[u] = task[u]
<1>1. /\ task'[t].awaits = what
      /\ task'[t].settled = settled
      /\ task'[t].id = task[t].id
      /\ task'[t].previous = task[t].previous
      /\ \A u \in Tasks \ {t} : task'[u] = task[u]
  BY DEF Awaiting, TaskRec
<1>2. [task[t] EXCEPT !.awaits = what, !.settled = settled] \in TaskRec
  BY DEF TaskRec
<1>3. task' = [task EXCEPT ![t] = [task[t] EXCEPT !.awaits = what, !.settled = settled]]
  BY DEF Awaiting
<1> QED BY <1>1, <1>2, <1>3

\* What changes when a turn settles.
LEMMA Settles ==
  ASSUME task \in [Tasks -> TaskRec], NEW t \in Tasks,
         NEW how \in {"resolved", "rejected"}, queue = <<t>>, Settle(how)
  PROVE  /\ queue' = <<>>
         /\ turn' = "build"
         /\ task' \in [Tasks -> TaskRec]
         /\ task'[t].awaits = task[t].awaits
         /\ task'[t].settled = how
         /\ task'[t].id = task[t].id
         /\ task'[t].previous = task[t].previous
         /\ \A u \in Tasks \ {t} : task'[u] = task[u]
<1>1. Head(queue) = t /\ Tail(queue) = <<>>
  OBVIOUS
<1>2. task' = [task EXCEPT ![t].settled = how] /\ queue' = <<>> /\ turn' = "build"
  BY <1>1 DEF Settle
<1> QED BY <1>2 DEF TaskRec

\* What changes when a call starts.
LEMMA Starts ==
  ASSUME task \in [Tasks -> TaskRec], NEW t \in Tasks, NEW new \in TaskRec,
         task' = [task EXCEPT ![t] = new]
  PROVE  /\ task' \in [Tasks -> TaskRec]
         /\ task'[t] = new
         /\ \A u \in Tasks \ {t} : task'[u] = task[u]
OBVIOUS

\* An empty queue takes a turn.
LEMMA Queues ==
  ASSUME NEW t \in Tasks, queue = <<>>
  PROVE  Enqueued(t) = <<t>> /\ <<t>> # <<>> /\ Enqueued(t) \in Seq(Tasks)
BY DEF Enqueued

\* The call under way is the only one.
LEMMA Alone ==
  ASSUME OneAtATime, NEW t \in Tasks, Working(t)
  PROVE  /\ busy
         /\ run_disabled
         /\ \A u \in Tasks \ {t} : task[u] = NoTask /\ ~Working(u)
BY DEF OneAtATime

\* A page that is not busy has no call under way, and nothing is loaded.
LEMMA NoneWorks ==
  ASSUME OneAtATime, Turns, ~busy
  PROVE  /\ \A t \in Tasks : task[t] = NoTask /\ ~Working(t) /\ task[t].awaits = "none"
         /\ queue = <<>>
         /\ turn = "build"
BY DEF OneAtATime, Turns, Working, Loading

\* A queue that is not empty holds the one call under way.
LEMMA TurnExists ==
  ASSUME PInv, queue # <<>>
  PROVE  \E t \in Tasks : HasTurn(t)
<1>1. PICK t \in Tasks : /\ queue = <<t>>
                         /\ Loading(t)
                         /\ task[t].settled = "pending"
                         /\ turn = "network" => task[t].awaits \in {"network", "refresh"}
  BY DEF PInv, Turns
<1>2. Head(queue) = t
  BY <1>1
<1>3. Working(t)
  BY <1>1 DEF Loading, Working
<1>4. current \in Datasets \cup {None}
  BY DEF PInv, Types, TypeOK
<1>5. TurnId(t) \in Datasets /\ (task[t].awaits # "open" => TurnId(t) = current /\ current # None)
  BY <1>1, <1>4 DEF PInv, Places, Placed, Loading, TurnId
<1> QED BY <1>1, <1>2, <1>3, <1>5 DEF HasTurn

\* A page that is busy has only its one call to be about the right dataset.
LEMMA PlacesOne ==
  ASSUME NEW t \in Tasks, \A u \in Tasks \ {t} : task'[u].awaits = "none", busy', Placed(t)'
  PROVE  Places'
BY DEF Places, Placed

\* The call under way goes on.
LEMMA GoesOn ==
  ASSUME OneAtATime, NEW t \in Tasks, Working(t), task'[t].awaits # "none",
         \A u \in Tasks \ {t} : task'[u] = task[u],
         UNCHANGED <<busy, run_disabled>>
  PROVE  OneAtATime'
<1>1. task'[t] # NoTask
  BY DEF NoTask
<1>2. /\ busy
      /\ run_disabled
      /\ \A u \in Tasks \ {t} : task[u] = NoTask /\ ~Working(u)
  BY Alone
<1>3. \A u \in Tasks : (Working(u)' <=> u = t) /\ (task'[u] # NoTask <=> u = t)
  BY <1>1, <1>2 DEF Working
<1> QED BY <1>2, <1>3 DEF OneAtATime

\* The call under way ends.
LEMMA Ends ==
  ASSUME OneAtATime, NEW t \in Tasks, Working(t), task \in [Tasks -> TaskRec], task' = Ended(t),
         busy' = FALSE, run_disabled' <=> current' = None
  PROVE  /\ OneAtATime'
         /\ task' \in [Tasks -> TaskRec]
         /\ \A u \in Tasks : task'[u] = NoTask /\ task'[u].awaits = "none" /\ ~Loading(u)'
<1>1. NoTask.awaits = "none" /\ NoTask \in TaskRec
  BY NoTaskTyped DEF NoTask
<1>2. \A u \in Tasks \ {t} : task[u] = NoTask /\ ~Working(u)
  BY Alone
<1>3. task' \in [Tasks -> TaskRec] /\ \A u \in Tasks : task'[u] = NoTask
  BY <1>1, <1>2 DEF Ended
<1>4. \A u \in Tasks : ~Working(u)' /\ ~Loading(u)'
  BY <1>1, <1>3 DEF Working, Loading
<1>5. OneAtATime'
  BY <1>3, <1>4 DEF OneAtATime
<1> QED BY <1>1, <1>3, <1>4, <1>5

\* A call starts.
LEMMA Begins ==
  ASSUME OneAtATime, ~busy, NEW t \in Tasks, task'[t].awaits # "none",
         \A u \in Tasks \ {t} : task'[u] = task[u],
         busy' = TRUE, run_disabled' = TRUE
  PROVE  OneAtATime'
<1>1. task'[t] # NoTask
  BY DEF NoTask
<1>2. \A u \in Tasks : task[u] = NoTask /\ ~Working(u)
  BY DEF OneAtATime
<1>3. \A u \in Tasks : (Working(u)' <=> u = t) /\ (task'[u] # NoTask <=> u = t)
  BY <1>1, <1>2 DEF Working
<1> QED BY <1>3 DEF OneAtATime

\* What the call under way awaits now has a turn of its own.
LEMMA TakesTurn ==
  ASSUME queue = <<>>, turn = "build", NEW t \in Tasks,
         \A u \in Tasks \ {t} : ~Loading(u)', Loading(t)', task'[t].settled = "pending",
         queue' = Enqueued(t), turn' = FirstTurn
  PROVE  Turns' /\ queue' = <<t>> /\ turn' = "build" /\ queue' \in Seq(Tasks)
<1>1. queue' = <<t>> /\ turn' = "build" /\ queue' \in Seq(Tasks) /\ queue' # <<>>
  BY Queues DEF FirstTurn
<1> QED BY <1>1 DEF Turns

\* A queue that is empty when nothing is loaded.
LEMMA NoTurn ==
  ASSUME queue' = <<>>, turn' = "build",
         \A u \in Tasks : Loading(u)' => task'[u].settled # "pending"
  PROVE  Turns' /\ queue' \in Seq(Tasks)
BY DEF Turns

\* The queue is empty when what a call awaits is not to be settled by it.
LEMMA NotQueued ==
  ASSUME PInv, NEW t \in Tasks, Working(t), ~Loading(t) \/ task[t].settled # "pending"
  PROVE  queue = <<>> /\ turn = "build" /\ \A u \in Tasks \ {t} : ~Loading(u)
<1>1. \A u \in Tasks : Loading(u) => u = t
  BY DEF PInv, OneAtATime, Working, Loading
<1>2. queue = <<>>
  BY <1>1 DEF PInv, Turns
<1> QED BY <1>1, <1>2 DEF PInv, Turns
-----------------------------------------------------------------------------
\* Build keeps the invariant: it selects the catalog of its own dataset.
LEMMA BuildKeeps ==
  ASSUME PInv, Build
  PROVE  PInv'
<1> USE DEF HasTurn, TurnSettled
<1>1. PICK t \in Tasks : HasTurn(t)
  BY TurnExists DEF Build
<1> DEFINE id == TurnId(t)
<1>2. /\ built' = [built EXCEPT ![id] = "done"]
      /\ catalog' \in {catalog, id}
      /\ turn' = "use"
      /\ UNCHANGED <<page, edges, task, queue, networks, made>>
  BY <1>1 DEF Build
<1>3. Types'
  BY <1>1, <1>2 DEF PInv, Types, TypeOK, page, edges
<1>4. OneAtATime'
  BY <1>2 DEF PInv, OneAtATime, Working, page
<1>5. Turns'
  BY <1>1, <1>2 DEF PInv, Turns, Loading
<1>6. Places'
  <2>1. busy /\ \A u \in Tasks \ {t} : task[u].awaits = "none"
    BY <1>1, Alone DEF PInv, Working
  <2>2. Placed(t)'
    BY <1>1, <1>2 DEF PInv, Places, Placed, page
  <2> QED BY <1>2, <2>1, <2>2, PlacesOne DEF page
<1>7. Selections' /\ Fresh'
  BY <1>2 DEF PInv, Selections, Fresh, page, edges
<1> QED BY <1>3, <1>4, <1>5, <1>6, <1>7 DEF PInv

\* A turn that settles leaves the page as it is.
LEMMA SettleKeeps ==
  ASSUME PInv, NEW t \in Tasks, queue = <<t>>, Loading(t), NEW how \in {"resolved", "rejected"},
         Settle(how), UNCHANGED <<page, edges>>
  PROVE  OneAtATime' /\ Turns' /\ Selections' /\ TurnSettled(t, how)
<1>1. Working(t) /\ task[t].awaits # "none"
  BY DEF Loading, Working
<1>2. /\ busy
      /\ \A u \in Tasks \ {t} : task[u].awaits = "none"
  BY <1>1, Alone DEF PInv, Working
<1>3. /\ queue' = <<>>
      /\ turn' = "build"
      /\ task' \in [Tasks -> TaskRec]
      /\ task'[t].awaits = task[t].awaits
      /\ task'[t].settled = how
      /\ task'[t].id = task[t].id
      /\ task'[t].previous = task[t].previous
      /\ \A u \in Tasks \ {t} : task'[u] = task[u]
  BY Settles DEF PInv, Types
<1>4. OneAtATime'
  BY <1>1, <1>3, GoesOn DEF PInv, page
<1>5. Turns' /\ queue' \in Seq(Tasks)
  BY <1>2, <1>3, NoTurn DEF Loading
<1>6. Selections'
  BY <1>3 DEF PInv, Selections, page, edges
<1> QED BY <1>2, <1>3, <1>4, <1>5, <1>6 DEF TurnSettled, page

\* BuildFails keeps it.
LEMMA BuildFailsKeeps ==
  ASSUME PInv, BuildFails
  PROVE  PInv'
<1> USE DEF HasTurn, TurnSettled
<1>1. PICK t \in Tasks : HasTurn(t)
  BY TurnExists DEF BuildFails
<1> DEFINE id == TurnId(t)
<1>2. /\ built' = [built EXCEPT ![id] = "none"]
      /\ catalog' \in {catalog, id}
      /\ Settle("rejected")
      /\ UNCHANGED <<page, edges, networks, made>>
  BY <1>1 DEF BuildFails, MemoAfterFailure
<1>3. OneAtATime' /\ Turns' /\ Selections' /\ TurnSettled(t, "rejected")
  BY <1>1, <1>2, SettleKeeps
<1>4. Types'
  BY <1>1, <1>2, <1>3 DEF PInv, Types, TypeOK, TaskRec, page, edges
<1>5. Places'
  <2>1. Placed(t)'
    BY <1>1, <1>2, <1>3 DEF PInv, Places, Placed, page
  <2> QED BY <1>3, <2>1, PlacesOne
<1>6. Fresh'
  BY <1>1, <1>2, <1>3 DEF PInv, Fresh, Loading, page, edges
<1> QED BY <1>3, <1>4, <1>5, <1>6 DEF PInv

\* Use keeps it: what it resolves has its catalog selected.
LEMMA UseKeeps ==
  ASSUME PInv, Use
  PROVE  PInv'
<1> USE DEF HasTurn, TurnSettled
<1>1. PICK t \in Tasks : HasTurn(t)
  BY TurnExists DEF Use
<1>2. catalog' = TurnId(t) /\ UNCHANGED <<page, edges, built, networks, made>>
  BY <1>1 DEF Use
<1>3. CASE task[t].awaits \in {"open", "reopen"}
  <2>1. Settle("resolved")
    BY <1>1, <1>3 DEF Use
  <2>2. OneAtATime' /\ Turns' /\ Selections' /\ TurnSettled(t, "resolved")
    BY <1>1, <1>2, <2>1, SettleKeeps
  <2>3. Types'
    BY <1>1, <1>2, <2>2 DEF PInv, Types, TypeOK, TaskRec, page, edges
  <2>4. Places'
    <3>1. Placed(t)'
      BY <1>1, <1>2, <1>3, <2>2 DEF PInv, Places, Placed, TurnId, page
    <3> QED BY <2>2, <3>1, PlacesOne
  <2>5. Fresh'
    BY <1>2, <1>3, <2>2 DEF PInv, Fresh, page, edges
  <2> QED BY <2>2, <2>3, <2>4, <2>5 DEF PInv
<1>4. CASE task[t].awaits \notin {"open", "reopen"}
  <2>1. turn' = "network" /\ UNCHANGED <<task, queue>>
    BY <1>1, <1>4 DEF Use
  <2>2. task[t].awaits \in {"network", "refresh"}
    BY <1>1, <1>4 DEF Loading
  <2>3. Types'
    BY <1>1, <1>2, <2>1 DEF PInv, Types, TypeOK, page, edges
  <2>4. OneAtATime'
    BY <1>2, <2>1 DEF PInv, OneAtATime, Working, page
  <2>5. Turns'
    BY <1>1, <2>1, <2>2 DEF PInv, Turns, Loading
  <2>6. Places'
    <3>1. busy /\ \A u \in Tasks \ {t} : task[u].awaits = "none"
      BY <1>1, Alone DEF PInv, Working
    <3>2. Placed(t)'
      BY <1>1, <1>2, <2>1, <2>2 DEF PInv, Places, Placed, page
    <3> QED BY <1>2, <2>1, <3>1, <3>2, PlacesOne DEF page
  <2>7. Selections' /\ Fresh'
    BY <1>2, <2>1 DEF PInv, Selections, Fresh, page, edges
  <2> QED BY <2>3, <2>4, <2>5, <2>6, <2>7 DEF PInv
<1> QED BY <1>3, <1>4

\* A turn that fails and changes nothing else.
LEMMA TurnFailsKeeps ==
  ASSUME PInv, queue # <<>>, Settle("rejected"), UNCHANGED <<page, edges, built, networks, db>>
  PROVE  PInv'
<1> USE DEF HasTurn, TurnSettled
<1>1. PICK t \in Tasks : HasTurn(t)
  BY TurnExists
<1>2. OneAtATime' /\ Turns' /\ Selections' /\ TurnSettled(t, "rejected")
  BY <1>1, SettleKeeps
<1>3. Types'
  BY <1>2 DEF PInv, Types, TypeOK, TaskRec, page, edges, db
<1>4. Places'
  <2>1. Placed(t)'
    BY <1>1, <1>2 DEF PInv, Places, Placed, page, db
  <2> QED BY <1>2, <2>1, PlacesOne
<1>5. Fresh'
  BY <1>1, <1>2 DEF PInv, Fresh, Loading, page, edges, db
<1> QED BY <1>2, <1>3, <1>4, <1>5 DEF PInv

\* NetworkOf keeps it: the tables it reads are those of the dataset shown.
LEMMA NetworkOfKeeps ==
  ASSUME PInv, NetworkOf
  PROVE  PInv'
<1> USE DEF HasTurn, TurnSettled
<1>1. PICK t \in Tasks : HasTurn(t)
  BY TurnExists DEF NetworkOf
<1>2. /\ task[t].awaits \in {"network", "refresh"}
      /\ TurnId(t) = current
      /\ current \in Datasets
      /\ catalog = current
  BY <1>1 DEF NetworkOf, PInv, Places, Placed
<1>3. /\ networks' = [networks EXCEPT ![current] = made[current]]
      /\ Settle("resolved")
      /\ UNCHANGED <<page, edges, built, db>>
  BY <1>1, <1>2 DEF NetworkOf
<1>4. OneAtATime' /\ Turns' /\ Selections' /\ TurnSettled(t, "resolved")
  BY <1>1, <1>3, SettleKeeps
<1>5. made[current] \in 0 .. MaxMade /\ made[current] # NoNetwork /\ made[current] \in 0 .. NoNetwork
  BY <1>2, PlaygroundAssumption DEF PInv, Types, TypeOK, NoNetwork
<1>6. Types'
  BY <1>2, <1>3, <1>4, <1>5 DEF PInv, Types, TypeOK, TaskRec, page, edges, db
<1>7. Places'
  <2>1. networks'[current] = made[current]
    BY <1>2, <1>3 DEF PInv, Types, TypeOK
  <2>2. Placed(t)'
    BY <1>1, <1>2, <1>3, <1>4, <1>5, <2>1 DEF PInv, Places, Placed, HasNetwork, page, db
  <2> QED BY <1>4, <2>2, PlacesOne
<1>8. Fresh'
  <2>1. /\ UNCHANGED <<reader, current, editor, redraw_failed, map, made>>
        /\ networks \in [Datasets -> 0 .. NoNetwork]
    BY <1>3 DEF PInv, Types, TypeOK, page, edges, db
  <2>2. \A d \in Datasets : networks'[d] \in {networks[d], made[d]}
    BY <1>2, <1>3, <2>1
  <2>3. \A u \in Tasks : task'[u].awaits = task[u].awaits /\ task'[u].ran = task[u].ran
    BY <1>1, <1>3 DEF PInv, Types, TypeOK, Settle, TaskRec
  <2>4. Fresh
    BY DEF PInv
  <2> QED BY <2>1, <2>2, <2>3, <2>4 DEF Fresh
<1> QED BY <1>4, <1>6, <1>7, <1>8 DEF PInv

\* UseFails keeps it.
LEMMA UseFailsKeeps ==
  ASSUME PInv, UseFails
  PROVE  PInv'
BY TurnFailsKeeps DEF UseFails

\* NetworkOfFails keeps it.
LEMMA NetworkOfFailsKeeps ==
  ASSUME PInv, NetworkOfFails
  PROVE  PInv'
BY TurnFailsKeeps DEF NetworkOfFails
-----------------------------------------------------------------------------
\* The only call under way, which the loader is not to settle.
Resumes(t) ==
  /\ busy
  /\ run_disabled
  /\ queue = <<>>
  /\ turn = "build"
  /\ \A u \in Tasks \ {t} : task[u] = NoTask /\ task[u].awaits = "none" /\ ~Loading(u)

\* A call that awaits nothing of the loader is alone, and so is one that was settled.
LEMMA ResumesWhenSettled ==
  ASSUME PInv, NEW t \in Tasks, Working(t), ~Loading(t) \/ task[t].settled # "pending"
  PROVE  Resumes(t)
<1>1. queue = <<>> /\ turn = "build" /\ \A u \in Tasks \ {t} : ~Loading(u)
  BY NotQueued
<1>2. busy /\ run_disabled /\ \A u \in Tasks \ {t} : task[u] = NoTask
  BY Alone DEF PInv
<1>3. NoTask.awaits = "none"
  BY DEF NoTask
<1> QED BY <1>1, <1>2, <1>3 DEF Resumes

\* No call is under way any more.
NoCallLeft ==
  /\ task' \in [Tasks -> TaskRec]
  /\ \A u \in Tasks : task'[u] = NoTask /\ task'[u].awaits = "none" /\ Placed(u)'

\* The call under way ends, and leaves the loader alone.
LEMMA EndKeeps ==
  ASSUME PInv, NEW t \in Tasks, Working(t), Resumes(t), task' = Ended(t), busy' = FALSE,
         run_disabled' <=> current' = None, UNCHANGED <<queue, turn>>
  PROVE  OneAtATime' /\ Turns' /\ NoCallLeft
<1> USE DEF Resumes, NoCallLeft
<1>1. /\ OneAtATime'
      /\ task' \in [Tasks -> TaskRec]
      /\ \A u \in Tasks : task'[u] = NoTask /\ task'[u].awaits = "none" /\ ~Loading(u)'
  BY Ends DEF PInv, Types
<1>2. Turns'
  BY <1>1, NoTurn DEF Resumes
<1>3. \A u \in Tasks : Placed(u)'
  BY <1>1 DEF Placed
<1> QED BY <1>1, <1>2, <1>3

\* MapFails keeps the invariant.
LEMMA MapFailsKeeps ==
  ASSUME PInv, NEW t \in Tasks, MapFails(t)
  PROVE  PInv'
<1> USE DEF Resumes, NoCallLeft
<1>1. Working(t) /\ Resumes(t)
  BY ResumesWhenSettled DEF MapFails, Working
<1>2. task[t].awaits = "network" /\ current # None /\ catalog = current /\ select = current
  BY DEF MapFails, PInv, Places, Placed
<1>3. /\ task' = Ended(t)
      /\ busy' = FALSE
      /\ run_disabled' = FALSE
      /\ UNCHANGED <<reader, current, select, editor, network_empty, redraw_failed, edges, loader, db>>
  BY DEF MapFails
<1>4. OneAtATime' /\ Turns' /\ NoCallLeft
  BY <1>1, <1>2, <1>3, EndKeeps DEF loader
<1>5. Types'
  BY <1>3, <1>4 DEF PInv, Types, TypeOK, TaskRec, edges, loader, db
<1>6. Places'
  BY <1>2, <1>3, <1>4 DEF Places, db
<1>7. Selections'
  BY <1>1, <1>2, <1>3, <1>4 DEF PInv, Selections, edges
<1>8. Fresh'
  BY <1>1, <1>2, <1>3, <1>4 DEF PInv, Fresh, edges, loader, db
<1> QED BY <1>4, <1>5, <1>6, <1>7, <1>8 DEF PInv

\* MapCreated keeps it: the network drawn is there, and of the dataset shown.
LEMMA MapCreatedKeeps ==
  ASSUME PInv, NEW t \in Tasks, MapCreated(t)
  PROVE  PInv'
<1> USE DEF Resumes, NoCallLeft
<1>1. Working(t) /\ Resumes(t)
  BY ResumesWhenSettled DEF MapCreated, Resolved, Working
<1>2. /\ task[t].awaits = "network"
      /\ task[t].id = current
      /\ current \in Datasets
      /\ catalog = current
      /\ select = current
      /\ networks[current] # NoNetwork
  BY DEF MapCreated, Resolved, PInv, Types, TypeOK, Places, Placed, HasNetwork
<1>3. /\ task' = Ended(t)
      /\ busy' = FALSE
      /\ run_disabled' = FALSE
      /\ map' = [present |-> TRUE, drawn |-> networks[current], selected |-> None]
      /\ network_empty' \in BOOLEAN
      /\ UNCHANGED <<reader, current, select, editor, redraw_failed, selected, grid, loader, db>>
  BY <1>2 DEF MapCreated
<1>4. OneAtATime' /\ Turns' /\ NoCallLeft
  <2>1. current' # None
    BY <1>2, <1>3, PlaygroundAssumption
  <2> QED BY <1>1, <1>2, <1>3, <2>1, EndKeeps DEF loader
<1>5. Types'
  <2>1. networks[current] \in 0 .. MaxMade
    BY <1>2, PlaygroundAssumption DEF PInv, Types, TypeOK, NoNetwork
  <2>2. map' \in [present : BOOLEAN, drawn : 0 .. MaxMade, selected : Edge]
    BY <1>3, <2>1 DEF Edge
  <2> QED BY <1>3, <1>4, <2>2 DEF PInv, Types, TypeOK, TaskRec, loader, db
<1>6. Places'
  BY <1>2, <1>3, <1>4 DEF Places, db
<1>7. Selections'
  BY <1>1, <1>2, <1>3, <1>4 DEF PInv, Selections
<1>8. Fresh'
  BY <1>1, <1>2, <1>3, <1>4 DEF PInv, Fresh, loader, db
<1> QED BY <1>4, <1>5, <1>6, <1>7, <1>8 DEF PInv

\* Reopened keeps it.
LEMMA ReopenedKeeps ==
  ASSUME PInv, NEW t \in Tasks, Reopened(t)
  PROVE  PInv'
<1> USE DEF Resumes, NoCallLeft
<1>1. Working(t) /\ Resumes(t)
  BY ResumesWhenSettled DEF Reopened, Resolved, Working
<1>2. task[t].awaits = "reopen" /\ task[t].previous = current /\ current # None /\ catalog = current
  BY DEF Reopened, Resolved, PInv, Places, Placed
<1>3. /\ task' = Ended(t)
      /\ busy' = FALSE
      /\ run_disabled' = FALSE
      /\ current' = current
      /\ select' = current
      /\ UNCHANGED <<reader, editor, network_empty, redraw_failed, edges, loader, db>>
  BY <1>2 DEF Reopened
<1>4. OneAtATime' /\ Turns' /\ NoCallLeft
  BY <1>1, <1>2, <1>3, EndKeeps DEF loader
<1>5. Types'
  BY <1>3, <1>4 DEF PInv, Types, TypeOK, TaskRec, edges, loader, db
<1>6. Places'
  BY <1>2, <1>3, <1>4 DEF Places, db
<1>7. Selections'
  BY <1>1, <1>2, <1>3, <1>4 DEF PInv, Selections, edges
<1>8. Fresh'
  BY <1>1, <1>2, <1>3, <1>4 DEF PInv, Fresh, edges, loader, db
<1> QED BY <1>4, <1>5, <1>6, <1>7, <1>8 DEF PInv

\* NothingOpen keeps it.
LEMMA NothingOpenKeeps ==
  ASSUME PInv, NEW t \in Tasks, NothingOpen(t)
  PROVE  PInv'
<1> USE DEF Resumes, NoCallLeft
<1>1. task[t].awaits \in {"open", "reopen"} /\ Working(t) /\ Resumes(t)
  BY ResumesWhenSettled DEF NothingOpen, Rejected, Working
<1>2. /\ task' = Ended(t)
      /\ busy' = FALSE
      /\ run_disabled' = TRUE
      /\ current' = None
      /\ select' = None
      /\ UNCHANGED <<reader, editor, network_empty, redraw_failed, edges, loader, db>>
  BY DEF NothingOpen, RunDisabledWhenOpen
<1>3. OneAtATime' /\ Turns' /\ NoCallLeft
  BY <1>1, <1>2, EndKeeps DEF loader
<1>4. Types'
  BY <1>2, <1>3 DEF PInv, Types, TypeOK, TaskRec, edges, loader, db
<1>5. Places'
  BY <1>2, <1>3 DEF Places
<1>6. Selections'
  BY <1>1, <1>2, <1>3 DEF PInv, Selections, edges
<1>7. Fresh'
  BY <1>2, <1>3 DEF PInv, Fresh, edges, loader, db
<1> QED BY <1>3, <1>4, <1>5, <1>6, <1>7 DEF PInv

\* OpenFailed keeps it: the previous dataset is the one still shown.
LEMMA OpenFailedKeeps ==
  ASSUME PInv, NEW t \in Tasks, OpenFailed(t)
  PROVE  PInv'
<1> USE DEF Resumes, NoCallLeft
<1>1. task[t].awaits = "open" /\ Working(t) /\ Resumes(t)
  BY ResumesWhenSettled DEF OpenFailed, Rejected, Working
<1>2. task[t].previous = current
  BY <1>1 DEF PInv, Places, Placed
<1>3. UNCHANGED <<page, edges, built, networks, db>>
  BY DEF OpenFailed
<1>4. /\ task' \in [Tasks -> TaskRec]
      /\ task'[t].awaits \in {"open", "reopen"}
      /\ task'[t].settled = "pending"
      /\ task'[t].previous = current
      /\ task'[t].awaits = "open" => task'[t].id \in Datasets
      /\ task'[t].awaits = "reopen" => current # None
      /\ \A u \in Tasks \ {t} : task'[u] = task[u]
  <2>1. CASE task[t].previous # None
    <3>1. task' = Awaiting(t, "reopen", "pending")
      BY <2>1 DEF OpenFailed, AfterFailedOpen
    <3> QED BY <1>2, <2>1, <3>1, Moves DEF PInv, Types
  <2>2. CASE task[t].previous = None
    <3>1. task' = [task EXCEPT ![t] = OpenTask(Default, None)]
      BY <2>2 DEF OpenFailed, AfterFailedOpen
    <3>2. OpenTask(Default, None) \in TaskRec
      BY OpenTaskTyped, PlaygroundAssumption
    <3>3. /\ task' \in [Tasks -> TaskRec]
          /\ task'[t] = OpenTask(Default, None)
          /\ \A u \in Tasks \ {t} : task'[u] = task[u]
      BY <3>1, <3>2, Starts DEF PInv, Types
    <3> QED BY <1>2, <2>2, <3>3, PlaygroundAssumption DEF OpenTask
  <2> QED BY <2>1, <2>2
<1>5. queue' = Enqueued(t) /\ turn' = FirstTurn
  BY <1>4 DEF OpenFailed
<1>6. OneAtATime'
  BY <1>1, <1>3, <1>4, GoesOn DEF PInv, page
<1>7. Turns' /\ queue' \in Seq(Tasks) /\ turn' = "build"
  <2>1. Loading(t)' /\ \A u \in Tasks \ {t} : ~Loading(u)'
    BY <1>1, <1>4 DEF Loading
  <2> QED BY <1>1, <1>4, <1>5, <2>1, TakesTurn
<1>8. Types'
  BY <1>3, <1>4, <1>7 DEF PInv, Types, TypeOK, TaskRec, page, edges, db
<1>9. Places'
  <2>1. Placed(t)'
    BY <1>3, <1>4 DEF Placed, page
  <2> QED BY <1>1, <1>3, <1>4, <2>1, PlacesOne DEF page
<1>10. Selections'
  BY <1>1, <1>3, <1>4 DEF PInv, Selections, page, edges
<1>11. Fresh'
  BY <1>1, <1>3, <1>4 DEF PInv, Fresh, page, edges, db
<1> QED BY <1>6, <1>7, <1>8, <1>9, <1>10, <1>11 DEF PInv

\* Opened keeps it, whether the loader has the network or not.
LEMMA OpenedKeeps ==
  ASSUME PInv, NEW t \in Tasks, Opened(t)
  PROVE  PInv'
<1> USE DEF Resumes, NoCallLeft
<1>1. task[t].awaits = "open" /\ Working(t) /\ Resumes(t)
  BY ResumesWhenSettled DEF Opened, Resolved, Working
<1>2. task[t].id \in Datasets /\ catalog = task[t].id /\ task[t].id # None
  BY PlaygroundAssumption DEF Opened, Resolved, PInv, Places, Placed
<1>3. /\ current' = task[t].id
      /\ select' = task[t].id
      /\ editor' \in {"plain", "creates"}
      /\ selected' = None
      /\ grid' = [rows |-> FALSE, selected |-> None]
      /\ map' = NoMap
      /\ network_empty' = FALSE
      /\ redraw_failed' = FALSE
      /\ UNCHANGED <<reader, busy, run_disabled, built, networks, db>>
  BY DEF Opened
<1>4. PICK settled \in {"pending", "resolved"} :
        /\ task' = Awaiting(t, "network", settled)
        /\ settled = "resolved" => HasNetwork(task[t].id) /\ UNCHANGED <<queue, turn>>
        /\ settled = "pending" => queue' = Enqueued(t) /\ turn' = FirstTurn
  BY DEF Opened
<1>5. /\ task' \in [Tasks -> TaskRec]
      /\ task'[t].awaits = "network"
      /\ task'[t].settled = settled
      /\ task'[t].id = task[t].id
      /\ \A u \in Tasks \ {t} : task'[u] = task[u]
  BY <1>4, Moves DEF PInv, Types
<1>6. OneAtATime'
  BY <1>1, <1>3, <1>5, GoesOn DEF PInv
<1>7. Turns' /\ queue' \in Seq(Tasks) /\ turn' = "build"
  <2>1. Loading(t)' /\ \A u \in Tasks \ {t} : ~Loading(u)'
    BY <1>1, <1>5 DEF Loading
  <2>2. CASE settled = "pending"
    BY <1>1, <1>4, <1>5, <2>1, <2>2, TakesTurn
  <2>3. CASE settled = "resolved"
    BY <1>1, <1>4, <1>5, <2>1, <2>3, NoTurn
  <2> QED BY <2>2, <2>3
<1>8. Types'
  <2>1. /\ map' \in [present : BOOLEAN, drawn : 0 .. MaxMade, selected : Edge]
        /\ grid' \in [rows : BOOLEAN, selected : Edge]
        /\ selected' \in Edge
    BY <1>3, PlaygroundAssumption DEF NoMap, Edge
  <2> QED BY <1>2, <1>3, <1>5, <1>7, <2>1 DEF PInv, Types, TypeOK, TaskRec, db
<1>9. Places'
  <2>1. Placed(t)'
    BY <1>2, <1>3, <1>4, <1>5 DEF Placed, HasNetwork, db
  <2> QED BY <1>1, <1>3, <1>5, <2>1, PlacesOne
<1>10. Selections'
  BY <1>1, <1>3, <1>5 DEF Selections, NoMap
<1>11. Fresh'
  BY <1>1, <1>3, <1>5 DEF PInv, Fresh, NoMap, db
<1> QED BY <1>6, <1>7, <1>8, <1>9, <1>10, <1>11 DEF PInv

\* OpenDataset keeps it.
LEMMA OpenDatasetKeeps ==
  ASSUME PInv, NEW t \in Tasks, OpenDataset(t)
  PROVE  PInv'
<1>1. /\ ~busy
      /\ \A u \in Tasks : task[u] = NoTask /\ ~Working(u) /\ task[u].awaits = "none"
      /\ queue = <<>>
      /\ turn = "build"
  BY NoneWorks DEF PInv, OpenDataset
<1>2. PICK id \in Datasets : select' = id /\ task' = [task EXCEPT ![t] = OpenTask(id, current)]
  BY DEF OpenDataset
<1>3. /\ busy' = TRUE
      /\ run_disabled' = TRUE
      /\ queue' = Enqueued(t)
      /\ turn' = FirstTurn
      /\ UNCHANGED <<reader, current, editor, network_empty, redraw_failed, edges, built, networks, db>>
  BY DEF OpenDataset
<1>4. /\ task' \in [Tasks -> TaskRec]
      /\ task'[t] = OpenTask(id, current)
      /\ \A u \in Tasks \ {t} : task'[u] = task[u] /\ task'[u].awaits = "none"
  <2>1. OpenTask(id, current) \in TaskRec
    BY OpenTaskTyped DEF PInv, Types, TypeOK
  <2> QED BY <1>1, <1>2, <2>1, Starts DEF PInv, Types
<1>5. /\ task'[t].awaits = "open"
      /\ task'[t].settled = "pending"
      /\ task'[t].id = id
      /\ task'[t].previous = current
  BY <1>4 DEF OpenTask
<1>6. OneAtATime'
  BY <1>1, <1>3, <1>4, <1>5, Begins DEF PInv
<1>7. Turns' /\ queue' \in Seq(Tasks) /\ turn' = "build"
  <2>1. Loading(t)' /\ \A u \in Tasks \ {t} : ~Loading(u)'
    BY <1>4, <1>5 DEF Loading
  <2> QED BY <1>1, <1>3, <1>5, <2>1, TakesTurn
<1>8. Types'
  BY <1>2, <1>3, <1>4, <1>7 DEF PInv, Types, TypeOK, TaskRec, edges, db
<1>9. Places'
  <2>1. Placed(t)'
    BY <1>3, <1>5 DEF Placed
  <2> QED BY <1>3, <1>4, <2>1, PlacesOne
<1>10. Selections'
  BY <1>1, <1>3, <1>4, <1>5 DEF PInv, Selections, edges
<1>11. Fresh'
  BY <1>1, <1>3, <1>4, <1>5 DEF PInv, Fresh, edges, db
<1> QED BY <1>6, <1>7, <1>8, <1>9, <1>10, <1>11 DEF PInv
-----------------------------------------------------------------------------
\* Execute keeps it.
LEMMA ExecuteKeeps ==
  ASSUME PInv, NEW t \in Tasks, Execute(t)
  PROVE  PInv'
<1>1. ~busy /\ current # None
  BY DEF PInv, OneAtATime, Execute, MayExecute
<1>2. /\ \A u \in Tasks : task[u] = NoTask /\ ~Working(u) /\ task[u].awaits = "none"
      /\ queue = <<>>
      /\ turn = "build"
  BY <1>1, NoneWorks DEF PInv
<1>3. QueryTask(editor) \in TaskRec
  BY DEF PInv, Types, TypeOK, QueryTask, TaskRec
<1>4. /\ task' \in [Tasks -> TaskRec]
      /\ task'[t] = QueryTask(editor)
      /\ \A u \in Tasks \ {t} : task'[u] = NoTask
  BY <1>2, <1>3 DEF PInv, Types, Execute
<1>5. task'[t].awaits = "query" /\ task'[t].ran = editor /\ ~Loading(t)'
  BY <1>4 DEF QueryTask, Loading
<1>6. \A u \in Tasks \ {t} : task'[u].awaits = "none" /\ ~Loading(u)'
  BY <1>4 DEF NoTask, Loading
<1>7. /\ busy' = TRUE
      /\ run_disabled' = TRUE
      /\ UNCHANGED <<reader, current, select, editor, network_empty, redraw_failed, edges, loader, db>>
  BY DEF Execute
<1>8. Types'
  BY <1>4, <1>7 DEF PInv, Types, TypeOK, edges, loader, db, NoTask, QueryTask
<1>9. OneAtATime'
  BY <1>1, <1>2, <1>4, <1>5, <1>7, Begins DEF PInv
<1>10. Turns'
  BY <1>2, <1>5, <1>6, <1>7 DEF Turns, loader
<1>11. Places'
  <2>1. catalog' = catalog /\ current' = current /\ select' = select
    BY <1>7 DEF db
  <2>2. catalog = current /\ select = current
    BY <1>1 DEF PInv, Places
  <2>3. Placed(t)'
    BY <1>1, <1>5, <2>1, <2>2 DEF Placed
  <2> QED BY <1>6, <1>7, <2>3, PlacesOne
<1>12. Selections'
  BY <1>2, <1>5, <1>6, <1>7 DEF PInv, Selections, edges
<1>13. Fresh'
  BY <1>2, <1>5, <1>6, <1>7 DEF PInv, Fresh, edges, loader, db
<1> QED BY <1>8, <1>9, <1>10, <1>11, <1>12, <1>13 DEF PInv

\* What a text creates, it creates in the catalog selected, within the bound.
LEMMA CreatesHere ==
  ASSUME made \in [Datasets -> 0 .. MaxMade], catalog \in Datasets, NEW text,
         MayRun(text), Creates(text)
  PROVE  /\ made' \in [Datasets -> 0 .. MaxMade]
         /\ \A d \in Datasets \ {catalog} : made'[d] = made[d]
         /\ text # "creates" \/ catalog \notin Dynamic => made' = made
<1>1. CASE text = "creates" /\ catalog \in Dynamic
  <2>1. made[catalog] + 1 \in 0 .. MaxMade
    BY <1>1, PlaygroundAssumption DEF MayRun
  <2>2. made' = [made EXCEPT ![catalog] = made[catalog] + 1]
    BY <1>1 DEF Creates
  <2> QED BY <1>1, <2>1, <2>2
<1>2. CASE ~(text = "creates" /\ catalog \in Dynamic)
  BY <1>2 DEF Creates
<1> QED BY <1>1, <1>2

\* A query is under way, on the dataset shown.
LEMMA QueryRuns ==
  ASSUME PInv, NEW t \in Tasks, task[t].awaits = "query"
  PROVE  /\ Working(t)
         /\ Resumes(t)
         /\ current \in Datasets
         /\ current # None
         /\ catalog = current
         /\ select = current
         /\ task[t].ran \in {"plain", "creates"}
         /\ made \in [Datasets -> 0 .. MaxMade]
         /\ networks \in [Datasets -> 0 .. NoNetwork]
<1>1. Working(t) /\ ~Loading(t)
  BY DEF Working, Loading
<1>2. Resumes(t)
  BY <1>1, ResumesWhenSettled
<1>3. current # None /\ catalog = current /\ select = current
  BY DEF PInv, Places, Placed
<1>4. current \in Datasets
  BY <1>3 DEF PInv, Types, TypeOK
<1> QED BY <1>1, <1>2, <1>3, <1>4 DEF PInv, Types, TypeOK, TaskRec

\* QueryFails keeps the invariant.
LEMMA QueryFailsKeeps ==
  ASSUME PInv, NEW t \in Tasks, QueryFails(t)
  PROVE  PInv'
<1> USE DEF Resumes, NoCallLeft
<1>1. /\ task[t].awaits = "query"
      /\ Working(t)
      /\ Resumes(t)
      /\ current \in Datasets
      /\ current # None
      /\ catalog = current
      /\ select = current
      /\ made \in [Datasets -> 0 .. MaxMade]
  BY QueryRuns DEF QueryFails
<1>2. /\ task' = Ended(t)
      /\ busy' = FALSE
      /\ run_disabled' = FALSE
      /\ UNCHANGED <<reader, current, select, editor, network_empty, redraw_failed, edges, loader, catalog>>
  BY DEF QueryFails
<1>3. /\ made' \in [Datasets -> 0 .. MaxMade]
      /\ ~reader.partial => made' = made
  BY <1>1, CreatesHere DEF QueryFails
<1>4. OneAtATime' /\ Turns' /\ NoCallLeft
  BY <1>1, <1>2, EndKeeps DEF loader
<1>5. Types'
  BY <1>2, <1>3, <1>4 DEF PInv, Types, TypeOK, TaskRec, edges, loader
<1>6. Places'
  BY <1>1, <1>2, <1>4 DEF Places
<1>7. Selections'
  BY <1>1, <1>2, <1>4 DEF PInv, Selections, edges
<1>8. Fresh'
  BY <1>1, <1>2, <1>3, <1>4 DEF PInv, Fresh, edges, loader
<1> QED BY <1>4, <1>5, <1>6, <1>7, <1>8 DEF PInv

\* QueryDone keeps it: a text left alone and without the map's tables changed none of them.
LEMMA QueryDoneKeeps ==
  ASSUME PInv, NEW t \in Tasks, QueryDone(t)
  PROVE  PInv'
<1> USE DEF Resumes, NoCallLeft
<1>1. /\ task[t].awaits = "query"
      /\ Working(t)
      /\ Resumes(t)
      /\ current \in Datasets
      /\ current # None
      /\ catalog = current
      /\ select = current
      /\ made \in [Datasets -> 0 .. MaxMade]
      /\ networks \in [Datasets -> 0 .. NoNetwork]
  BY QueryRuns DEF QueryDone
<1>2. /\ made' \in [Datasets -> 0 .. MaxMade]
      /\ \A d \in Datasets \ {current} : made'[d] = made[d]
      /\ task[t].ran # "creates" \/ current \notin Dynamic => made' = made
  BY <1>1, CreatesHere DEF QueryDone
<1>3. /\ grid' = [rows |-> TRUE, selected |-> None]
      /\ UNCHANGED <<reader, current, select, editor, network_empty, redraw_failed, built, catalog>>
  BY DEF QueryDone
<1>4. grid' \in [rows : BOOLEAN, selected : Edge]
  BY <1>3 DEF Edge
<1>5. CASE Redraws(editor)
  <2>1. /\ networks' = [networks EXCEPT ![current] = NoNetwork]
        /\ task' = Awaiting(t, "refresh", "pending")
        /\ queue' = Enqueued(t)
        /\ turn' = FirstTurn
        /\ UNCHANGED <<selected, map, busy, run_disabled>>
    BY <1>5 DEF QueryDone
  <2>2. /\ task' \in [Tasks -> TaskRec]
        /\ task'[t].awaits = "refresh"
        /\ task'[t].settled = "pending"
        /\ \A u \in Tasks \ {t} : task'[u] = task[u]
    BY <2>1, Moves DEF PInv, Types
  <2>3. OneAtATime'
    BY <1>1, <2>1, <2>2, GoesOn DEF PInv
  <2>4. Turns' /\ queue' \in Seq(Tasks) /\ turn' = "build"
    <3>1. Loading(t)' /\ \A u \in Tasks \ {t} : ~Loading(u)'
      BY <1>1, <2>2 DEF Loading
    <3> QED BY <1>1, <2>1, <2>2, <3>1, TakesTurn
  <2>5. Types'
    <3>1. NoNetwork \in 0 .. NoNetwork
      BY PlaygroundAssumption DEF NoNetwork
    <3>2. networks' \in [Datasets -> 0 .. NoNetwork]
      BY <1>1, <2>1, <3>1
    <3> QED BY <1>2, <1>3, <1>4, <2>1, <2>2, <2>4, <3>2 DEF PInv, Types, TypeOK, TaskRec
  <2>6. Places'
    <3>1. Placed(t)'
      BY <1>1, <1>3, <2>2 DEF Placed
    <3> QED BY <1>1, <2>1, <2>2, <3>1, PlacesOne
  <2>7. Selections'
    BY <1>1, <1>3, <2>1, <2>2 DEF PInv, Selections
  <2>8. Fresh'
    BY <1>1, <1>2, <1>3, <2>1, <2>2 DEF PInv, Fresh
  <2> QED BY <2>3, <2>4, <2>5, <2>6, <2>7, <2>8 DEF PInv
<1>6. CASE ~Redraws(editor)
  <2>1. /\ selected' = None
        /\ map' = [map EXCEPT !.selected = None]
        /\ busy' = FALSE
        /\ run_disabled' = FALSE
        /\ task' = Ended(t)
        /\ UNCHANGED <<queue, turn, networks>>
    BY <1>6 DEF QueryDone, Finish
  <2>2. OneAtATime' /\ Turns' /\ NoCallLeft
    BY <1>1, <1>3, <2>1, EndKeeps
  <2>3. map \in [present : BOOLEAN, drawn : 0 .. MaxMade, selected : Edge]
    BY DEF PInv, Types, TypeOK
  <2>4. /\ map'.present = map.present
        /\ map'.drawn = map.drawn
        /\ map'.selected = None
        /\ map' \in [present : BOOLEAN, drawn : 0 .. MaxMade, selected : Edge]
    BY <2>1, <2>3 DEF Edge
  <2>5. Types'
    BY <1>2, <1>3, <1>4, <2>1, <2>2, <2>4 DEF PInv, Types, TypeOK, TaskRec, Edge
  <2>6. Places'
    BY <1>1, <1>3, <2>1, <2>2 DEF Places
  <2>7. Selections'
    BY <1>3, <2>1, <2>4 DEF PInv, Selections
  <2>8. Fresh'
    <3>1. ~reader.edits /\ ~reader.partial => task[t].ran = editor
      BY <1>1 DEF PInv, Fresh
    <3>2. ~reader.edits /\ ~reader.partial => made' = made
      BY <1>2, <1>6, <3>1 DEF Redraws
    <3> QED BY <1>1, <1>3, <2>1, <2>2, <2>4, <3>2 DEF PInv, Fresh
  <2> QED BY <2>2, <2>5, <2>6, <2>7, <2>8 DEF PInv
<1> QED BY <1>5, <1>6

\* The refresh of a network is over, whichever way.
LEMMA RefreshOver ==
  ASSUME PInv, NEW t \in Tasks, task[t].awaits = "refresh", task[t].settled # "pending"
  PROVE  /\ Working(t)
         /\ Resumes(t)
         /\ current \in Datasets
         /\ current # None
         /\ catalog = current
         /\ select = current
         /\ task[t].settled = "resolved" => networks[current] \in 0 .. MaxMade
         /\ map \in [present : BOOLEAN, drawn : 0 .. MaxMade, selected : Edge]
<1>1. Working(t)
  BY DEF Working
<1>2. Resumes(t)
  BY <1>1, ResumesWhenSettled
<1>3. /\ current # None
      /\ catalog = current
      /\ select = current
      /\ task[t].settled = "resolved" => networks[current] # NoNetwork
  BY DEF PInv, Places, Placed, HasNetwork
<1>4. current \in Datasets
  BY <1>3 DEF PInv, Types, TypeOK
<1>5. networks[current] \in 0 .. NoNetwork
  BY <1>4 DEF PInv, Types, TypeOK
<1>6. task[t].settled = "resolved" => networks[current] \in 0 .. MaxMade
  BY <1>3, <1>5, PlaygroundAssumption DEF NoNetwork
<1> QED BY <1>1, <1>2, <1>3, <1>4, <1>6 DEF PInv, Types, TypeOK

\* Refreshed keeps it.
LEMMA RefreshedKeeps ==
  ASSUME PInv, NEW t \in Tasks, Refreshed(t)
  PROVE  PInv'
<1> USE DEF Resumes, NoCallLeft
<1>1. /\ task[t].awaits = "refresh"
      /\ Working(t)
      /\ Resumes(t)
      /\ current \in Datasets
      /\ current # None
      /\ catalog = current
      /\ select = current
      /\ networks[current] \in 0 .. MaxMade
      /\ map \in [present : BOOLEAN, drawn : 0 .. MaxMade, selected : Edge]
  BY RefreshOver DEF Refreshed, Resolved
<1>2. /\ network_empty' \in BOOLEAN
      /\ selected' = None
      /\ busy' = FALSE
      /\ run_disabled' = FALSE
      /\ task' = Ended(t)
      /\ UNCHANGED <<reader, current, select, editor, redraw_failed, grid, loader, db>>
  BY DEF Refreshed, Finish
<1>3. /\ map'.present = map.present
      /\ map.present => map'.drawn = networks[current]
      /\ map'.selected = None
      /\ map' \in [present : BOOLEAN, drawn : 0 .. MaxMade, selected : Edge]
  BY <1>1 DEF Refreshed, Finish, Edge
<1>4. OneAtATime' /\ Turns' /\ NoCallLeft
  BY <1>1, <1>2, EndKeeps DEF loader
<1>5. Types'
  <2>1. task' \in [Tasks -> TaskRec] /\ \A u \in Tasks : task'[u].op \in {"none", "open", "execute"}
    BY <1>2, <1>4 DEF PInv, Types, TypeOK, TaskRec
  <2>2. selected' \in Edge /\ redraw_failed' \in BOOLEAN
    BY <1>2 DEF PInv, Types, TypeOK, Edge
  <2> QED BY <1>2, <1>3, <2>1, <2>2 DEF PInv, Types, TypeOK, loader, db
<1>6. Places'
  BY <1>1, <1>2, <1>4 DEF Places, db
<1>7. Selections'
  BY <1>1, <1>2, <1>3, <1>4 DEF PInv, Selections
<1>8. Fresh'
  <2>1. networks[current] # NoNetwork
    BY <1>1, PlaygroundAssumption DEF NoNetwork
  <2> QED BY <1>1, <1>2, <1>3, <1>4, <2>1 DEF PInv, Fresh, loader, db
<1> QED BY <1>4, <1>5, <1>6, <1>7, <1>8 DEF PInv

\* RefreshFailed keeps it.
LEMMA RefreshFailedKeeps ==
  ASSUME PInv, NEW t \in Tasks, RefreshFailed(t)
  PROVE  PInv'
<1> USE DEF Resumes, NoCallLeft
<1>1. /\ task[t].awaits = "refresh"
      /\ Working(t)
      /\ Resumes(t)
      /\ current \in Datasets
      /\ current # None
      /\ catalog = current
      /\ select = current
      /\ map \in [present : BOOLEAN, drawn : 0 .. MaxMade, selected : Edge]
  BY RefreshOver DEF RefreshFailed, Rejected
<1>2. /\ redraw_failed' = TRUE
      /\ selected' = None
      /\ busy' = FALSE
      /\ run_disabled' = FALSE
      /\ task' = Ended(t)
      /\ UNCHANGED <<reader, current, select, editor, network_empty, grid, loader, db>>
  BY DEF RefreshFailed, Finish
<1>3. /\ map'.present = map.present
      /\ map'.selected = None
      /\ map' \in [present : BOOLEAN, drawn : 0 .. MaxMade, selected : Edge]
  BY <1>1 DEF RefreshFailed, Finish, Edge
<1>4. OneAtATime' /\ Turns' /\ NoCallLeft
  BY <1>1, <1>2, EndKeeps DEF loader
<1>5. Types'
  BY <1>2, <1>3, <1>4 DEF PInv, Types, TypeOK, TaskRec, Edge, loader, db
<1>6. Places'
  BY <1>1, <1>2, <1>4 DEF Places, db
<1>7. Selections'
  BY <1>1, <1>2, <1>3, <1>4 DEF PInv, Selections
<1>8. Fresh'
  BY <1>1, <1>2, <1>3, <1>4 DEF PInv, Fresh, loader, db
<1> QED BY <1>4, <1>5, <1>6, <1>7, <1>8 DEF PInv

\* SetNetworkFails keeps it.
LEMMA SetNetworkFailsKeeps ==
  ASSUME PInv, NEW t \in Tasks, SetNetworkFails(t)
  PROVE  PInv'
<1> USE DEF Resumes, NoCallLeft
<1>1. /\ task[t].awaits = "refresh"
      /\ Working(t)
      /\ Resumes(t)
      /\ current \in Datasets
      /\ current # None
      /\ catalog = current
      /\ select = current
      /\ networks[current] \in 0 .. MaxMade
      /\ map \in [present : BOOLEAN, drawn : 0 .. MaxMade, selected : Edge]
  BY RefreshOver DEF SetNetworkFails, Resolved
<1>2. /\ redraw_failed' = TRUE
      /\ network_empty' \in BOOLEAN
      /\ selected' = None
      /\ busy' = FALSE
      /\ run_disabled' = FALSE
      /\ task' = Ended(t)
      /\ UNCHANGED <<reader, current, select, editor, grid, loader, db>>
  BY DEF SetNetworkFails, Finish
<1>3. /\ map'.present = map.present
      /\ map'.selected = None
      /\ map' \in [present : BOOLEAN, drawn : 0 .. MaxMade, selected : Edge]
  <2>1. PICK drawn \in {map.drawn, networks[current]} :
          map' = [[map EXCEPT !.drawn = drawn] EXCEPT !.selected = None]
    BY DEF SetNetworkFails, Finish
  <2> QED BY <1>1, <2>1 DEF Edge
<1>4. OneAtATime' /\ Turns' /\ NoCallLeft
  BY <1>1, <1>2, EndKeeps DEF loader
<1>5. Types'
  <2>1. task' \in [Tasks -> TaskRec] /\ \A u \in Tasks : task'[u].op \in {"none", "open", "execute"}
    BY <1>2, <1>4 DEF PInv, Types, TypeOK, TaskRec
  <2>2. selected' \in Edge /\ redraw_failed' \in BOOLEAN
    BY <1>2 DEF PInv, Types, TypeOK, Edge
  <2> QED BY <1>2, <1>3, <2>1, <2>2 DEF PInv, Types, TypeOK, loader, db
<1>6. Places'
  BY <1>1, <1>2, <1>4 DEF Places, db
<1>7. Selections'
  BY <1>1, <1>2, <1>3, <1>4 DEF PInv, Selections
<1>8. Fresh'
  BY <1>1, <1>2, <1>3, <1>4 DEF PInv, Fresh, loader, db
<1> QED BY <1>4, <1>5, <1>6, <1>7, <1>8 DEF PInv
-----------------------------------------------------------------------------
\* Edit keeps the invariant: a calm reader leaves a running text alone.
LEMMA EditKeeps ==
  ASSUME PInv, Edit
  PROVE  PInv'
<1>1. /\ editor' \in {"plain", "creates"}
      /\ reader.edits \/ ~busy
      /\ UNCHANGED <<reader, current, select, busy, run_disabled, network_empty, redraw_failed, edges,
                     task, loader, db>>
  BY DEF Edit
<1>2. Types'
  BY <1>1 DEF PInv, Types, TypeOK, edges, loader, db
<1>3. OneAtATime' /\ Turns'
  BY <1>1 DEF PInv, OneAtATime, Turns, Working, Loading, loader
<1>4. Places'
  BY <1>1 DEF PInv, Places, Placed, HasNetwork, loader, db
<1>5. Selections'
  BY <1>1 DEF PInv, Selections, edges
<1>6. Fresh'
  <2>1. ~busy => \A t \in Tasks : task[t].awaits = "none"
    BY NoneWorks DEF PInv
  <2> QED BY <1>1, <2>1 DEF PInv, Fresh, edges, loader, db
<1> QED BY <1>2, <1>3, <1>4, <1>5, <1>6 DEF PInv

\* Pick keeps it: what is picked is shown in the grid and on the map alike.
LEMMA PickKeeps ==
  ASSUME PInv, NEW source \in {"grid", "map"}, Pick(source)
  PROVE  PInv'
<1>1. /\ reader.picks \/ ~busy
      /\ UNCHANGED <<page, task, loader, db>>
  BY DEF Pick
<1>2. PICK edge \in Edges \cup {None} :
        LET next == NextSelection(selected, edge, source)
        IN  /\ selected' = next
            /\ grid' = [grid EXCEPT !.selected = next]
            /\ map' = IF map.present THEN [map EXCEPT !.selected = next] ELSE map
  BY DEF Pick, GridShows
<1>3. selected' \in Edge
  BY <1>2 DEF NextSelection, Edge
<1>4. /\ grid \in [rows : BOOLEAN, selected : Edge]
      /\ map \in [present : BOOLEAN, drawn : 0 .. MaxMade, selected : Edge]
  BY DEF PInv, Types, TypeOK
<1>5. /\ grid' \in [rows : BOOLEAN, selected : Edge]
      /\ grid'.selected = selected'
      /\ map' \in [present : BOOLEAN, drawn : 0 .. MaxMade, selected : Edge]
      /\ map'.present = map.present
      /\ map'.drawn = map.drawn
      /\ map.present => map'.selected = selected'
  BY <1>2, <1>3, <1>4
<1>6. Types'
  BY <1>1, <1>3, <1>5 DEF PInv, Types, TypeOK, Edge, page, loader, db
<1>7. OneAtATime' /\ Turns'
  BY <1>1 DEF PInv, OneAtATime, Turns, Working, Loading, page, loader
<1>8. Places'
  BY <1>1 DEF PInv, Places, Placed, HasNetwork, page, loader, db
<1>9. Selections'
  <2>1. ~busy => \A t \in Tasks : task[t].awaits = "none"
    BY NoneWorks DEF PInv
  <2> QED BY <1>1, <1>5, <2>1 DEF Selections, page
<1>10. Fresh'
  BY <1>1, <1>5 DEF PInv, Fresh, page, loader, db
<1> QED BY <1>6, <1>7, <1>8, <1>9, <1>10 DEF PInv
-----------------------------------------------------------------------------
\* The first page meets the invariant.
LEMMA InitHolds == Init => PInv
<1> SUFFICES ASSUME Init PROVE PInv
  OBVIOUS
<1>1. PICK first \in Tasks, id \in Datasets :
        /\ task = [t \in Tasks |-> IF t = first THEN OpenTask(id, None) ELSE NoTask]
        /\ queue = <<first>>
  BY DEF Init
<1>2. /\ task \in [Tasks -> TaskRec]
      /\ task[first] = OpenTask(id, None)
      /\ \A u \in Tasks \ {first} : task[u] = NoTask
  BY <1>1, OpenTaskTyped, NoTaskTyped
<1>3. /\ task[first].awaits = "open"
      /\ task[first].settled = "pending"
      /\ task[first].id = id
      /\ task[first].previous = None
      /\ task[first] # NoTask
      /\ \A u \in Tasks \ {first} : task[u].awaits = "none"
  BY <1>2 DEF OpenTask, NoTask
<1>4. Types
  <2>1. NoNetwork \in 0 .. NoNetwork /\ 0 \in 0 .. MaxMade
    BY PlaygroundAssumption DEF NoNetwork
  <2>2. /\ networks \in [Datasets -> 0 .. NoNetwork]
        /\ made \in [Datasets -> 0 .. MaxMade]
        /\ map \in [present : BOOLEAN, drawn : 0 .. MaxMade, selected : Edge]
        /\ grid \in [rows : BOOLEAN, selected : Edge]
        /\ built \in [Datasets -> {"none", "done", "rejected"}]
    BY <2>1 DEF Init, NoMap, Edge
  <2>3. queue \in Seq(Tasks)
    BY <1>1
  <2> QED BY <1>2, <2>2, <2>3, PlaygroundAssumption DEF Init, Types, TypeOK, TaskRec, Edge
<1>5. OneAtATime
  <2>1. \A u \in Tasks : (Working(u) <=> u = first) /\ (task[u] # NoTask <=> u = first)
    BY <1>2, <1>3 DEF Working
  <2> QED BY <2>1 DEF Init, OneAtATime
<1>6. Turns
  <2>1. queue # <<>> /\ Loading(first) /\ \A u \in Tasks \ {first} : ~Loading(u)
    BY <1>1, <1>3 DEF Loading
  <2> QED BY <1>1, <1>3, <2>1 DEF Init, Turns
<1>7. Places
  BY <1>3 DEF Init, Places, Placed
<1>8. Selections
  BY <1>3 DEF Init, Selections, NoMap
<1>9. Fresh
  BY <1>3 DEF Init, Fresh, NoMap
<1> QED BY <1>4, <1>5, <1>6, <1>7, <1>8, <1>9 DEF PInv

\* Every step keeps it.
LEMMA StepKeeps == PInv /\ [Next]_vars => PInv'
<1> SUFFICES ASSUME PInv, [Next]_vars PROVE PInv'
  OBVIOUS
<1>1. CASE Build
  BY <1>1, BuildKeeps
<1>2. CASE BuildFails
  BY <1>2, BuildFailsKeeps
<1>3. CASE Use
  BY <1>3, UseKeeps
<1>4. CASE UseFails
  BY <1>4, UseFailsKeeps
<1>5. CASE NetworkOf
  BY <1>5, NetworkOfKeeps
<1>6. CASE NetworkOfFails
  BY <1>6, NetworkOfFailsKeeps
<1>7. ASSUME NEW t \in Tasks, Opened(t) \/ MapCreated(t) \/ MapFails(t)
      PROVE  PInv'
  BY <1>7, OpenedKeeps, MapCreatedKeeps, MapFailsKeeps
<1>8. ASSUME NEW t \in Tasks, OpenFailed(t) \/ Reopened(t) \/ NothingOpen(t)
      PROVE  PInv'
  BY <1>8, OpenFailedKeeps, ReopenedKeeps, NothingOpenKeeps
<1>9. ASSUME NEW t \in Tasks,
             \/ QueryDone(t) \/ QueryFails(t)
             \/ Refreshed(t) \/ RefreshFailed(t) \/ SetNetworkFails(t)
      PROVE  PInv'
  BY <1>9, QueryDoneKeeps, QueryFailsKeeps, RefreshedKeeps, RefreshFailedKeeps, SetNetworkFailsKeeps
<1>10. ASSUME NEW t \in Tasks, OpenDataset(t) \/ Execute(t)
       PROVE  PInv'
  BY <1>10, OpenDatasetKeeps, ExecuteKeeps
<1>11. CASE Edit
  BY <1>11, EditKeeps
<1>12. ASSUME NEW source \in {"grid", "map"}, Pick(source)
       PROVE  PInv'
  BY <1>12, PickKeeps
<1>13. CASE UNCHANGED vars
  <2>1. UNCHANGED <<page, edges, task, loader, db>>
    BY <1>13 DEF vars
  <2>2. Types'
    BY <2>1 DEF PInv, Types, TypeOK, page, edges, loader, db
  <2>3. OneAtATime' /\ Turns'
    BY <2>1 DEF PInv, OneAtATime, Turns, Working, Loading, page, loader
  <2>4. Places'
    BY <2>1 DEF PInv, Places, Placed, HasNetwork, page, loader, db
  <2>5. Selections' /\ Fresh'
    BY <2>1 DEF PInv, Selections, Fresh, page, edges, loader, db
  <2> QED BY <2>2, <2>3, <2>4, <2>5 DEF PInv
<1> QED BY <1>1, <1>2, <1>3, <1>4, <1>5, <1>6, <1>7, <1>8, <1>9, <1>10, <1>11, <1>12, <1>13
        DEF Next, Settled, Reader

\* The inductive invariant: every reachable state of the page meets it, whatever is
\* clicked and whatever fails.
THEOREM PageInvariance == Spec => []PInv
<1>1. Init => PInv
  BY InitHolds
<1>2. PInv /\ [Next]_vars => PInv'
  BY StepKeeps
<1> QED BY <1>1, <1>2, PTL DEF Spec

\* Every variable keeps its type, the network drawn included, which the map only
\* gets once the loader has it (rebuildMap, refreshMap).
THEOREM PageTypes == Spec => []TypeOK
<1>1. PInv => TypeOK
  BY DEF PInv, Types
<1> QED BY <1>1, PageInvariance, PTL

\* No two of openDataset and execute are under way at once, for any number of
\* clicks and key presses: busy closes the select and Run before the first await.
THEOREM CallsNeverOverlap == Spec => []NeverOverlaps
<1>1. PInv => NeverOverlaps
  <2> SUFFICES ASSUME PInv PROVE NeverOverlaps
    OBVIOUS
  <2> DEFINE Under == {t \in Tasks : task[t] # NoTask}
  <2>1. CASE Under = {}
    BY <2>1, FS_EmptySet DEF NeverOverlaps
  <2>2. CASE Under # {}
    <3>1. PICK t \in Under : TRUE
      BY <2>2
    <3>2. Under = {t}
      BY <3>1 DEF PInv, OneAtATime
    <3>3. Cardinality(Under) = 1
      BY <3>2, FS_Singleton
    <3> QED BY <3>3 DEF NeverOverlaps
  <2> QED BY <2>1, <2>2
<1> QED BY <1>1, PageInvariance, PTL

\* A query, and the queries of a network, run in the catalog of the dataset the page
\* shows, however many opens failed before (openDataset opens the previous one again).
THEOREM QueriesRunWhereShown == Spec => []QueriesRunOnCurrent
<1>1. PInv => QueriesRunOnCurrent
  <2> SUFFICES ASSUME PInv PROVE QueriesRunOnCurrent
    OBVIOUS
  <2>1. \A t \in Tasks : task[t].awaits = "query" => catalog = current
    BY DEF PInv, Places, Placed
  <2>2. ASSUME turn = "network"
        PROVE  catalog = TurnId(Head(queue)) /\ catalog = current
    <3>1. queue # <<>>
      BY <2>2 DEF PInv, Turns
    <3>2. PICK t \in Tasks : HasTurn(t)
      BY <3>1, TurnExists
    <3> QED BY <2>2, <3>2 DEF HasTurn, PInv, Places, Placed
  <2> QED BY <2>1, <2>2 DEF QueriesRunOnCurrent
<1> QED BY <1>1, PageInvariance, PTL

\* A page that is not busy has Run enabled on the dataset it shows, or nothing open
\* and the blank select (finally of openDataset, nothingOpen).
THEOREM IdlePageIsUsable == Spec => []IdleIsUsable
<1>1. PInv => IdleIsUsable
  BY DEF PInv, OneAtATime, Places, IdleIsUsable
<1> QED BY <1>1, PageInvariance, PTL

\* For a reader who picks nothing while the page is busy, the page, the grid and the
\* map have the same edge selected (pick, the last lines of execute).
THEOREM CalmReaderSelectsOnce == Spec => []OneSelectionWhenCalm
<1>1. PInv => OneSelectionWhenCalm
  BY NoneWorks DEF PInv, Selections, OneSelectionWhenCalm, OneSelection
<1> QED BY <1>1, PageInvariance, PTL

\* For a reader who leaves a running text alone, and whose texts run wholly or not at
\* all, the map is of the tables as they are, or was said not to be redrawn (execute).
THEOREM CalmReaderSeesFreshMap == Spec => []MapIsFreshWhenCalm
<1>1. PInv => MapIsFreshWhenCalm
  BY NoneWorks DEF PInv, Fresh, MapIsFreshWhenCalm, MapIsFresh
<1> QED BY <1>1, PageInvariance, PTL
=============================================================================
