----------------------------- MODULE CrashGuards -----------------------------
(***************************************************************************)
(* The checks three adapters make before they call a driver that would end *)
(* the process on a degenerate graph: pgr_chinesePostman                   *)
(* (drivers_flow.cpp), pgr_biconnectedComponents (drivers_graph.cpp) and   *)
(* pgr_sloanOrdering (drivers_unified.cpp).  Such an input is answered     *)
(* with no rows and the driver is not called; any other is the driver's.   *)
(*                                                                         *)
(* Of a row's costs only the larger counts, or its cost where there is no  *)
(* reverse_cost column.  How the columns are read, by the checks and the   *)
(* driver, is in Fetch.                                                    *)
(***************************************************************************)
EXTENDS Fetch

CONSTANTS
  Vertices, \* vertex ids
  None,     \* no vertex
  Guarded,  \* the guarded drivers of this instance
  Queries   \* bound: the edge queries, with their rows in order

Drivers == {"CHINESE_POSTMAN", "BICONNECTED_COMPONENTS", "SLOAN_ORDERING"}

\* A row by its larger cost; rows that are not negative enter the drivers' graphs.
Row == [source : Vertices, target : Vertices, cost : {"negative", "zero", "positive"}]

ASSUME GuardAssumption ==
  /\ None \notin Vertices
  /\ Guarded \subseteq Drivers
  /\ Queries \subseteq [rows : Seq(Row), columns : [EdgeColumns -> Types],
                         null : {<<>>} \cup (Nat \X EdgeColumns)]

VARIABLES
  driver,     \* request.driver
  columns,    \* the materialized edge query: its columns' types,
  null,       \* its NULL cell, if there is one,
  rows,       \* and its rows
  i,          \* the row at hand
  parent,     \* the union-find forest over the vertices met so far
  at,         \* where find() is
  to_root,    \* find(to)
  pending,    \* vertices whose root is not gathered yet
  roots,      \* the roots gathered
  inserted,   \* EdgeCensus.inserted
  self_loops, \* EdgeCensus.self_loops
  pc,
  outcome     \* "no_rows", or "driver" when the driver is called

input == <<driver, columns, null, rows>>
vars  == <<input, i, parent, at, to_root, pending, roots, inserted,
           self_loops, pc, outcome>>

EmptyMap == [v \in {} |-> v]

Init ==
  /\ driver \in Guarded
  /\ \E query \in Queries :
       /\ columns = query.columns
       /\ null = query.null
       /\ rows = query.rows
  /\ i = 1
  /\ parent = EmptyMap
  /\ at = None
  /\ to_root = None
  /\ pending = {}
  /\ roots = {}
  /\ inserted = 0
  /\ self_loops = 0
  /\ pc = "start"
  /\ outcome = "undecided"

Answer(what) ==
  /\ outcome' = what
  /\ pc' = "done"

-----------------------------------------------------------------------------
(* PostmanStartsOffTheGraph. *)

Start    == rows[1].source
Postman  == driver = "CHINESE_POSTMAN"
Positive == rows[i].cost = "positive"

\* Input that is not readable, and an empty query, are left to the driver.
LeftToDriver ==
  /\ pc = "start"
  /\ Readable(columns, null) => Postman /\ rows = <<>>
  /\ Answer("driver")
  /\ UNCHANGED <<input, i, parent, at, to_root, pending, roots, inserted,
                 self_loops>>

PostmanBegins ==
  /\ pc = "start"
  /\ Readable(columns, null)
  /\ Postman
  /\ rows # <<>>
  /\ pc' = "row"
  /\ UNCHANGED <<input, i, parent, at, to_root, pending, roots, inserted,
                 self_loops, outcome>>

SkipRow ==
  /\ pc = "row"
  /\ i <= Len(rows)
  /\ ~Positive
  /\ i' = i + 1
  /\ UNCHANGED <<input, parent, at, to_root, pending, roots, inserted,
                 self_loops, pc, outcome>>

TouchesStart(row) == row.source = Start \/ row.target = Start

StartOnGraph ==
  /\ pc = "row"
  /\ i <= Len(rows)
  /\ Positive
  /\ TouchesStart(rows[i])
  /\ Answer("driver")
  /\ UNCHANGED <<input, i, parent, at, to_root, pending, roots, inserted,
                 self_loops>>

\* Mutant of Emplaced: only the source is put in.
EmplacedSource(from, to) ==
  [v \in DOMAIN parent \cup {from} |-> IF v \in DOMAIN parent THEN parent[v] ELSE v]

\* parent.emplace: a vertex that is not there yet is its own root.
Emplaced(from, to) ==
  [v \in DOMAIN parent \cup {from, to} |-> IF v \in DOMAIN parent THEN parent[v] ELSE v]

\* The right side of the assignment, find(to), is evaluated first.
Emplace ==
  /\ pc = "row"
  /\ i <= Len(rows)
  /\ Positive
  /\ ~TouchesStart(rows[i])
  /\ parent' = Emplaced(rows[i].source, rows[i].target)
  /\ at' = rows[i].target
  /\ pc' = "find_to"
  /\ UNCHANGED <<input, i, to_root, pending, roots, inserted, self_loops,
                 outcome>>

Finding == pc \in {"find_to", "find_from", "find_entry"}

\* Mutant of NextAt: v is not moved on.
StaysAt(v) == v

NextAt(v) == parent[parent[v]]

\* One round of find's loop, with path halving.
Halve ==
  /\ Finding
  /\ parent[at] # at
  /\ parent' = [parent EXCEPT ![at] = parent[parent[at]]]
  /\ at' = NextAt(at)
  /\ UNCHANGED <<input, i, to_root, pending, roots, inserted, self_loops, pc,
                 outcome>>

FoundTo ==
  /\ pc = "find_to"
  /\ parent[at] = at
  /\ to_root' = at
  /\ at' = rows[i].source
  /\ pc' = "find_from"
  /\ UNCHANGED <<input, i, parent, pending, roots, inserted, self_loops,
                 outcome>>

\* Mutant of Linked: the row's own vertex is linked, not its root.
LinkedVertex(root) == [parent EXCEPT ![rows[i].source] = to_root]

\* parent[find(from)] = find(to).
Linked(root) == [parent EXCEPT ![root] = to_root]

Link ==
  /\ pc = "find_from"
  /\ parent[at] = at
  /\ parent' = Linked(at)
  /\ i' = i + 1
  /\ pc' = "row"
  /\ UNCHANGED <<input, at, to_root, pending, roots, inserted, self_loops,
                 outcome>>

\* parent.empty(): nothing has a positive direction.
NothingPositive ==
  /\ pc = "row"
  /\ i > Len(rows)
  /\ DOMAIN parent = {}
  /\ Answer("no_rows")
  /\ UNCHANGED <<input, i, parent, at, to_root, pending, roots, inserted,
                 self_loops>>

GatherRoots ==
  /\ pc = "row"
  /\ i > Len(rows)
  /\ DOMAIN parent # {}
  /\ pending' = DOMAIN parent
  /\ pc' = "entry"
  /\ UNCHANGED <<input, i, parent, at, to_root, roots, inserted, self_loops,
                 outcome>>

\* The map is not ordered.
NextEntry ==
  /\ pc = "entry"
  /\ \E v \in pending : at' = v /\ pending' = pending \ {v}
  /\ pc' = "find_entry"
  /\ UNCHANGED <<input, i, parent, to_root, roots, inserted, self_loops,
                 outcome>>

FoundEntry ==
  /\ pc = "find_entry"
  /\ parent[at] = at
  /\ roots' = roots \cup {at}
  /\ pc' = "entry"
  /\ UNCHANGED <<input, i, parent, at, to_root, pending, inserted,
                 self_loops, outcome>>

\* Mutant of OneRoot: roots.size() >= 1.
SomeRoot == roots # {}

\* roots.size() == 1.
OneRoot == \E r \in roots : roots = {r}

PostmanDecides ==
  /\ pc = "entry"
  /\ pending = {}
  /\ Answer(IF OneRoot THEN "no_rows" ELSE "driver")
  /\ UNCHANGED <<input, i, parent, at, to_root, pending, roots, inserted,
                 self_loops>>

-----------------------------------------------------------------------------
(* CountEdges and the two checks that read it. *)

CountBegins ==
  /\ pc = "start"
  /\ Readable(columns, null)
  /\ ~Postman
  /\ pc' = "count"
  /\ UNCHANGED <<input, i, parent, at, to_root, pending, roots, inserted,
                 self_loops, outcome>>

\* Mutant of EntersGraph: > 0 where >= 0 is meant.
EntersPositive(row) == row.cost = "positive"

\* graph_add_edge puts the row's edge in the graph.
EntersGraph(row) == row.cost # "negative"

IsLoop(row) == row.source = row.target

CountEdge ==
  /\ pc = "count"
  /\ i <= Len(rows)
  /\ inserted' = inserted + (IF EntersGraph(rows[i]) THEN 1 ELSE 0)
  /\ self_loops' = self_loops + (IF EntersGraph(rows[i]) /\ IsLoop(rows[i]) THEN 1 ELSE 0)
  /\ i' = i + 1
  /\ UNCHANGED <<input, parent, at, to_root, pending, roots, pc, outcome>>

NoComponent == inserted > 0 /\ self_loops = inserted

NothingToOrder == rows # <<>> /\ inserted = 0

CensusDecides ==
  /\ pc = "count"
  /\ i > Len(rows)
  /\ Answer(IF \/ driver = "SLOAN_ORDERING" /\ NothingToOrder
               \/ driver = "BICONNECTED_COMPONENTS" /\ NoComponent
              THEN "no_rows" ELSE "driver")
  /\ UNCHANGED <<input, i, parent, at, to_root, pending, roots, inserted,
                 self_loops>>

Next ==
  \/ LeftToDriver \/ PostmanBegins \/ SkipRow \/ StartOnGraph \/ Emplace
  \/ Halve \/ FoundTo \/ Link
  \/ NothingPositive \/ GatherRoots \/ NextEntry \/ FoundEntry \/ PostmanDecides
  \/ CountBegins \/ CountEdge \/ CensusDecides

Spec == Init /\ [][Next]_vars

\* A thread that runs the adapter goes on.
FairSpec == Spec /\ WF_vars(Next)

-----------------------------------------------------------------------------
(* Properties. *)

\* The types of the check's variables; a vertex find() is asked for is in the map,
\* where operator[] would otherwise put it under root 0.
TypeOK ==
  /\ driver \in Guarded
  /\ columns \in [EdgeColumns -> Types]
  /\ rows \in Seq(Row)
  /\ i \in 1 .. (Len(rows) + 1)
  /\ DOMAIN parent \subseteq Vertices
  /\ \A v \in DOMAIN parent : parent[v] \in DOMAIN parent
  /\ at \in DOMAIN parent \cup {None}
  /\ to_root \in DOMAIN parent \cup {None}
  /\ Finding => at # None
  /\ pc = "find_from" => to_root # None
  /\ pending \subseteq DOMAIN parent
  /\ roots \subseteq DOMAIN parent
  /\ inserted \in Nat
  /\ self_loops \in Nat
  /\ pc \in {"start", "row", "find_to", "find_from", "find_entry", "entry", "count", "done"}
  /\ outcome \in {"undecided", "no_rows", "driver"}

\* The rows with a positive direction among the first k, and their ends.
PositiveRows(k) == {j \in DOMAIN rows : j <= k /\ rows[j].cost = "positive"}
Ends(k) == {rows[j].source : j \in PositiveRows(k)} \cup {rows[j].target : j \in PositiveRows(k)}

\* No row joins the vertices of U to others.
ApartAlong(U, k) == \A j \in PositiveRows(k) : (rows[j].source \in U) <=> (rows[j].target \in U)

\* The positive directions are one piece, or none.
OnePiece ==
  LET k == Len(rows) IN
  \A U \in SUBSET Ends(k) : (U # {} /\ ApartAlong(U, k)) => U = Ends(k)

Inserted == {j \in DOMAIN rows : rows[j].cost # "negative"}

\* Where the driver, called, ends the process (drivers_flow.cpp, lines 27 to 35;
\* drivers_graph.cpp, 77 to 82; drivers_unified.cpp, 34 to 38).
Crashes ==
  /\ GetData(columns, null) = "rows"
  /\ rows # <<>>
  /\ driver = "CHINESE_POSTMAN" => (Start \notin Ends(Len(rows)) /\ OnePiece)
  /\ driver = "BICONNECTED_COMPONENTS" =>
       (Inserted # {} /\ \A j \in Inserted : rows[j].source = rows[j].target)
  /\ driver = "SLOAN_ORDERING" => Inserted = {}

\* A driver is never called on an input that makes it crash, and an input is
\* answered with no rows only where the driver would: it keeps upstream's answer, or
\* error, on every other (CallFlowDriver, CallGraphDriver, CallUnifiedDriver).  The
\* check reads a cell only where its type has a reader, and so does the driver.
CrashesAloneAnswered ==
  /\ pc \notin {"start", "done"} =>
       /\ \A column \in {"source", "target"} : ReadsInt64(Unpacked(columns[column]))
       /\ ReadsDouble(Unpacked(columns["cost"]))
       /\ Found(columns, "reverse_cost") => ReadsDouble(Unpacked(columns["reverse_cost"]))
  /\ outcome = "driver" => GetData(columns, null) # "internal_error"
  /\ outcome = "driver" => ~Crashes
  /\ outcome = "no_rows" => Crashes

\* The forest is of one piece where the rows read so far are: a set of vertices
\* that no row leaves is one that no parent pointer leaves.
ApartInForest(U) == \A v \in DOMAIN parent : (v \in U) <=> (parent[v] \in U)

ForestFollowsRows ==
  pc \in {"row", "entry"} =>
    /\ DOMAIN parent = Ends(i - 1)
    /\ \A U \in SUBSET DOMAIN parent : ApartInForest(U) <=> ApartAlong(U, i - 1)

\* The check ends: find() meets a root from wherever it starts.
GuardEnds == <>(outcome # "undecided")

=============================================================================
