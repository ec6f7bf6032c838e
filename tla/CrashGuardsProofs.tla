--------------------------- MODULE CrashGuardsProofs ---------------------------
(***************************************************************************)
(* Proofs about CrashGuards, for every set of vertices and every set of    *)
(* edge queries.                                                           *)
(*                                                                         *)
(* That find() is right is said without paths: two vertices are connected  *)
(* when no set that the parent pointers do not leave holds one without the *)
(* other.  Halving keeps those sets (HalvingKeeps), linking two roots      *)
(* keeps the ones that hold both ends of the row or neither (LinkStep),    *)
(* and between two roots there is always one that tells them apart         *)
(* (RootsApart).                                                           *)
(***************************************************************************)
EXTENDS CrashGuards, TLAPS

\* The forest is of one piece where the first k rows are.
FollowsRows(k) ==
  \A U \in SUBSET DOMAIN parent : ApartInForest(U) <=> ApartAlong(U, k)

Connected(u, v) ==
  \A U \in SUBSET DOMAIN parent : ApartInForest(U) => (u \in U <=> v \in U)

Joining   == pc \in {"row", "find_to", "find_from"}
Gathering == pc \in {"entry", "find_entry"}

\* The forest after each row, and while one is joined.
Forest ==
  /\ pc = "start" => i = 1 /\ DOMAIN parent = {}
  /\ Joining \/ Gathering => /\ Postman
                             /\ rows # <<>>
                             /\ Start \notin DOMAIN parent
                             /\ FollowsRows(i - 1)
  /\ pc = "row" => DOMAIN parent = Ends(i - 1)
  /\ pc \in {"find_to", "find_from"} => /\ i <= Len(rows)
                                        /\ Positive
                                        /\ DOMAIN parent = Ends(i)
  /\ Gathering => /\ i = Len(rows) + 1
                  /\ DOMAIN parent = Ends(Len(rows))
                  /\ DOMAIN parent # {}

\* Where find() is belongs to what it was asked for.
Finds ==
  /\ pc = "find_to" => Connected(rows[i].target, at)
  /\ pc = "find_from" => Connected(rows[i].target, to_root) /\ Connected(rows[i].source, at)

\* Every vertex done with has its root among those gathered.
Gathers ==
  /\ ~Gathering => pc = "done" \/ roots = {}
  /\ Gathering =>
       /\ \A r \in roots : parent[r] = r
       /\ \A v \in DOMAIN parent \ pending :
            \/ \E r \in roots : Connected(v, r)
            \/ pc = "find_entry" /\ Connected(v, at)

\* The rows that enter the graph among the first k.
InsertedBefore(k) == {j \in Inserted : j <= k}

\* The census of the rows counted.
Census ==
  /\ pc = "start" => inserted = 0 /\ self_loops = 0
  /\ pc = "count" => /\ ~Postman
                     /\ self_loops <= inserted
                     /\ inserted = 0 <=> InsertedBefore(i - 1) = {}
                     /\ self_loops = inserted <=> \A j \in InsertedBefore(i - 1) : IsLoop(rows[j])

\* Readable input and a right decision, once there is one.
Decided ==
  /\ pc \notin {"start", "done"} => Readable(columns, null)
  /\ outcome = "driver" => ~Crashes
  /\ outcome = "no_rows" => Crashes

GInv == TypeOK /\ Forest /\ Finds /\ Gathers /\ Census /\ Decided

-----------------------------------------------------------------------------
(* Reading the columns. *)

\* A column the driver accepts is one it can read.
LEMMA AcceptedIsReadable ==
  ASSUME NEW type \in Types, NEW expected \in {"ANY_INTEGER", "ANY_NUMERICAL"},
         Accepts(expected, ClassOf(Unpacked(type)))
  PROVE  ReadsAs(expected, Unpacked(type))
BY DEF Types, Accepts, ClassOf, Unpacked, ReadsAs, ReadsInt64, ReadsDouble

\* No input, of whatever types, makes the driver's fetch read a cell it has no reader for.
LEMMA NeverInternal ==
  ASSUME columns \in [EdgeColumns -> Types]
  PROVE  GetData(columns, null) # "internal_error"
<1>1. ASSUME ColumnsFit(columns), NEW column \in EdgeColumns, Found(columns, column)
      PROVE  ReadsAs(Expected[column], Unpacked(columns[column]))
  <2>1. columns[column] \in Types
    BY <1>1
  <2>2. Expected[column] \in {"ANY_INTEGER", "ANY_NUMERICAL"}
    BY <1>1 DEF Expected, EdgeColumns
  <2>3. Accepts(Expected[column], ClassOf(Unpacked(columns[column])))
    BY <1>1 DEF ColumnsFit, ClassAt
  <2> QED BY <2>1, <2>2, <2>3, AcceptedIsReadable
<1>2. CASE ~ColumnsFit(columns)
  BY <1>2 DEF GetData
<1>3. CASE ColumnsFit(columns) /\ null # <<>>
  BY <1>3 DEF GetData
<1>4. CASE ColumnsFit(columns) /\ null = <<>>
  BY <1>1, <1>4 DEF GetData
<1> QED BY <1>2, <1>3, <1>4

\* What the guards call readable is what the driver fetches without an error.
LEMMA ReadableIsFetched ==
  ASSUME columns \in [EdgeColumns -> Types]
  PROVE  Readable(columns, null) <=> GetData(columns, null) = "rows"
<1>1. ASSUME NEW column \in EdgeColumns
      PROVE  /\ Accepts("ANY_INTEGER", ClassAt(columns, column)) <=> ClassAt(columns, column) = "INTEGER"
             /\ Accepts("ANY_NUMERICAL", ClassAt(columns, column))
                  <=> ClassAt(columns, column) \in {"INTEGER", "NUMERIC"}
  BY DEF Accepts
<1>2. /\ \A column \in {"id", "source", "target"} : Expected[column] = "ANY_INTEGER"
      /\ \A column \in {"cost", "reverse_cost"} : Expected[column] = "ANY_NUMERICAL"
  BY DEF Expected
<1>3. EdgeColumns = {"id", "source", "target"} \cup {"cost", "reverse_cost"}
  BY DEF EdgeColumns
<1>4. ColumnsFit(columns) <=> /\ \A column \in {"id", "source", "target"} : Integer(columns, column)
                              /\ Number(columns, "cost")
                              /\ Found(columns, "reverse_cost") => Number(columns, "reverse_cost")
  BY <1>1, <1>2, <1>3 DEF ColumnsFit, Strict, Integer, Number
<1>5. GetData(columns, null) = "rows" <=> ColumnsFit(columns) /\ null = <<>>
  BY NeverInternal DEF GetData
<1> QED BY <1>4, <1>5 DEF Readable

\* The guards read only cells their readers have a case for.
LEMMA ReadersFit ==
  ASSUME columns \in [EdgeColumns -> Types], Readable(columns, null)
  PROVE  /\ \A column \in {"source", "target"} : ReadsInt64(Unpacked(columns[column]))
         /\ ReadsDouble(Unpacked(columns["cost"]))
         /\ Found(columns, "reverse_cost") => ReadsDouble(Unpacked(columns["reverse_cost"]))
<1>1. \A column \in EdgeColumns : columns[column] \in Types
  OBVIOUS
<1>2. \A type \in Types : ClassOf(Unpacked(type)) = "INTEGER" => ReadsInt64(Unpacked(type))
  BY DEF Types, ClassOf, Unpacked, ReadsInt64
<1>3. \A type \in Types :
        ClassOf(Unpacked(type)) \in {"INTEGER", "NUMERIC"} => ReadsDouble(Unpacked(type))
  BY DEF Types, ClassOf, Unpacked, ReadsInt64, ReadsDouble
<1>4. {"source", "target", "cost", "reverse_cost"} \subseteq EdgeColumns
  BY DEF EdgeColumns
<1> QED BY <1>1, <1>2, <1>3, <1>4 DEF Readable, Integer, Number, ClassAt


-----------------------------------------------------------------------------
(* The rows. *)

\* What one more row adds to the ends, and asks of a set that no row leaves.
LEMMA RowAdded ==
  ASSUME NEW k \in DOMAIN rows, rows \in Seq(Row), rows[k].cost = "positive"
  PROVE  /\ Ends(k) = Ends(k - 1) \cup {rows[k].source, rows[k].target}
         /\ \A U : ApartAlong(U, k) <=>
              /\ ApartAlong(U, k - 1)
              /\ rows[k].source \in U <=> rows[k].target \in U
<1>1. k \in Nat /\ DOMAIN rows \subseteq Nat
  OBVIOUS
<1>2. PositiveRows(k) = PositiveRows(k - 1) \cup {k}
  BY <1>1 DEF PositiveRows
<1> QED BY <1>2 DEF Ends, ApartAlong

\* A row whose cost is not positive adds no end and asks nothing of a set.
LEMMA RowSkipped ==
  ASSUME NEW k \in DOMAIN rows, rows \in Seq(Row), rows[k].cost # "positive"
  PROVE  /\ Ends(k) = Ends(k - 1)
         /\ \A U : ApartAlong(U, k) <=> ApartAlong(U, k - 1)
<1>1. k \in Nat /\ DOMAIN rows \subseteq Nat
  OBVIOUS
<1>2. PositiveRows(k) = PositiveRows(k - 1)
  BY <1>1 DEF PositiveRows
<1> QED BY <1>2 DEF Ends, ApartAlong

\* Before the first row there is nothing.
LEMMA NoRows ==
  ASSUME rows \in Seq(Row)
  PROVE  Ends(0) = {} /\ \A U : ApartAlong(U, 0)
<1>1. PositiveRows(0) = {}
  BY DEF PositiveRows
<1> QED BY <1>1 DEF Ends, ApartAlong

\* The ends of the rows are vertices, and more with more rows.
LEMMA EndsAre ==
  ASSUME rows \in Seq(Row), NEW k \in 0 .. Len(rows)
  PROVE  Ends(k) \subseteq Vertices /\ Ends(k) \subseteq Ends(Len(rows))
<1>1. \A j \in DOMAIN rows : rows[j] \in Row /\ j \in 1 .. Len(rows)
  OBVIOUS
<1>2. PositiveRows(k) \subseteq PositiveRows(Len(rows))
  BY <1>1 DEF PositiveRows
<1>3. PositiveRows(k) \subseteq DOMAIN rows
  BY DEF PositiveRows
<1> QED BY <1>1, <1>2, <1>3 DEF Ends, Row

\* Only the rows' ends matter to a set that no row leaves.
LEMMA ApartAmongEnds ==
  ASSUME NEW k, NEW U
  PROVE  ApartAlong(U, k) <=> ApartAlong(U \cap Ends(k), k)
BY DEF ApartAlong, Ends

-----------------------------------------------------------------------------
(* The forest. *)

\* A vertex is in one piece with itself and with the vertex its pointer names.
LEMMA ConnectedSteps ==
  ASSUME NEW u \in DOMAIN parent, parent[u] \in DOMAIN parent
  PROVE  Connected(u, u) /\ Connected(u, parent[u])
BY DEF Connected, ApartInForest

\* Halving a path keeps the sets that the forest does not leave.
LEMMA HalvingKeeps ==
  ASSUME TypeOK, Halve
  PROVE  /\ DOMAIN parent' = DOMAIN parent
         /\ \A U \in SUBSET DOMAIN parent : ApartInForest(U)' <=> ApartInForest(U)
         /\ \A u, v : Connected(u, v)' <=> Connected(u, v)
         /\ \A r \in DOMAIN parent : parent[r] = r => parent'[r] = r
         /\ \A v \in DOMAIN parent : parent'[v] \in DOMAIN parent
         /\ at \in DOMAIN parent /\ at' \in DOMAIN parent
         /\ \A v : Connected(v, at) => Connected(v, at')
<1> DEFINE p == parent[at]
           g == parent[p]
<1>1. None \notin Vertices
  BY GuardAssumption
<1>2. at \in DOMAIN parent /\ p \in DOMAIN parent /\ g \in DOMAIN parent /\ p # at
  BY DEF TypeOK, Halve
<1>3. /\ DOMAIN parent' = DOMAIN parent
      /\ parent'[at] = g
      /\ \A v \in DOMAIN parent : v # at => parent'[v] = parent[v]
      /\ at' = g
  BY <1>2 DEF Halve, NextAt
<1>4. ASSUME NEW U \in SUBSET DOMAIN parent
      PROVE  ApartInForest(U)' <=> ApartInForest(U)
  <2>1. ASSUME ApartInForest(U) PROVE ApartInForest(U)'
    <3>1. (at \in U <=> p \in U) /\ (p \in U <=> g \in U)
      BY <1>2, <2>1 DEF ApartInForest
    <3> QED BY <1>3, <2>1, <3>1 DEF ApartInForest
  <2>2. ASSUME ApartInForest(U)' PROVE ApartInForest(U)
    <3>1. (at \in U <=> g \in U) /\ (p \in U <=> g \in U)
      BY <1>2, <1>3, <2>2 DEF ApartInForest
    <3>2. \A v \in DOMAIN parent : v # at => (v \in U <=> parent[v] \in U)
      BY <1>3, <2>2 DEF ApartInForest
    <3> QED BY <1>2, <3>1, <3>2 DEF ApartInForest
  <2> QED BY <2>1, <2>2
<1>5. \A u, v : Connected(u, v)' <=> Connected(u, v)
  BY <1>3, <1>4 DEF Connected
<1>6. \A r \in DOMAIN parent : parent[r] = r => parent'[r] = r
  BY <1>2, <1>3
<1>7. \A v \in DOMAIN parent : parent'[v] \in DOMAIN parent
  BY <1>2, <1>3 DEF TypeOK
<1>8. \A v : Connected(v, at) => Connected(v, at')
  BY <1>2, <1>3 DEF Connected, ApartInForest
<1> QED BY <1>2, <1>3, <1>4, <1>5, <1>6, <1>7, <1>8

\* Two roots are of two trees: the vertices that reach one of them, the least set that holds it and
\* the children of its vertices, do not reach the other.
LEMMA RootsApart ==
  ASSUME \A v \in DOMAIN parent : parent[v] \in DOMAIN parent,
         NEW r \in DOMAIN parent, parent[r] = r,
         NEW q \in DOMAIN parent, parent[q] = q,
         r # q
  PROVE  \E U \in SUBSET DOMAIN parent : ApartInForest(U) /\ r \in U /\ q \notin U
<1> DEFINE Rooted(S) == r \in S /\ \A v \in DOMAIN parent : parent[v] \in S => v \in S
           U == {v \in DOMAIN parent : \A S \in SUBSET DOMAIN parent : Rooted(S) => v \in S}
<1>1. Rooted(U)
  OBVIOUS
<1>2. ASSUME NEW v \in U PROVE parent[v] \in U
  <2> DEFINE W == {w \in U : parent[w] \in U}
  <2>1. Rooted(W)
    BY <1>1
  <2>2. W \in SUBSET DOMAIN parent
    OBVIOUS
  <2>3. \A w \in U : \A S \in SUBSET DOMAIN parent : Rooted(S) => w \in S
    OBVIOUS
  <2> HIDE DEF Rooted, U
  <2>4. v \in W
    BY <2>1, <2>2, <2>3
  <2> QED BY <2>4
<1>3. ApartInForest(U)
  <2>1. \A v \in DOMAIN parent : parent[v] \in U => v \in U
    BY <1>1
  <2> HIDE DEF U, Rooted
  <2> QED BY <1>2, <2>1 DEF ApartInForest
<1>4. q \notin U
  <2> DEFINE S == DOMAIN parent \ {q}
  <2>1. Rooted(S)
    OBVIOUS
  <2> QED BY <2>1
<1>5. r \in U
  BY <1>1
<1>6. U \in SUBSET DOMAIN parent
  OBVIOUS
<1> QED BY <1>3, <1>4, <1>5, <1>6

-----------------------------------------------------------------------------
(* The invariant. *)

\* Before the check there is no forest, and nothing is decided.
LEMMA InitGuards == Init => GInv
<1> SUFFICES ASSUME Init PROVE GInv
  OBVIOUS
<1>1. DOMAIN parent = {}
  BY DEF Init, EmptyMap
<1>2. PICK query \in Queries : columns = query.columns /\ null = query.null /\ rows = query.rows
  BY DEF Init
<1>3. rows \in Seq(Row) /\ columns \in [EdgeColumns -> Types]
  BY <1>2, GuardAssumption
<1>4. TypeOK
  BY <1>1, <1>3 DEF Init, TypeOK, Finding
<1>5. Forest /\ Finds /\ Gathers
  BY <1>1 DEF Init, Forest, Finds, Gathers, Joining, Gathering
<1>6. Census /\ Decided
  BY DEF Init, Census, Decided
<1> QED BY <1>4, <1>5, <1>6 DEF GInv

\* An answer changes nothing but says whether the driver is called.
LEMMA AnswerStep ==
  ASSUME GInv, NEW what \in {"driver", "no_rows"}, Answer(what),
         what = "driver" => ~Crashes,
         what = "no_rows" => Crashes,
         UNCHANGED <<input, i, parent, at, to_root, pending, roots, inserted, self_loops>>
  PROVE  GInv'
<1>1. pc' = "done" /\ outcome' = what
      /\ UNCHANGED <<driver, columns, null, rows, i, parent, at, to_root, pending, roots, inserted,
                     self_loops>>
  BY DEF Answer, input
<1>2. TypeOK'
  BY <1>1 DEF GInv, TypeOK, Finding
<1>3. Forest' /\ Finds' /\ Gathers' /\ Census'
  BY <1>1 DEF Forest, Finds, Gathers, Census, Joining, Gathering
<1>4. Crashes' <=> Crashes
  BY <1>1 DEF Crashes, Ends, PositiveRows, OnePiece, ApartAlong, Inserted, Start
<1>5. Decided'
  BY <1>1, <1>4 DEF Decided
<1> QED BY <1>2, <1>3, <1>5 DEF GInv

\* Input that is not readable, or without rows: the driver is called, and answers or
\* refuses it by itself.
LEMMA LeftStep ==
  ASSUME GInv, LeftToDriver
  PROVE  GInv'
<1>1. ~Crashes
  BY ReadableIsFetched DEF GInv, TypeOK, LeftToDriver, Crashes
<1> QED BY <1>1, AnswerStep DEF LeftToDriver

\* What the steps of the check keep when they decide nothing.
LEMMA SameInput ==
  ASSUME GInv, UNCHANGED <<input, outcome>>, pc # "done", pc' \notin {"start", "done"},
         Readable(columns, null)
  PROVE  /\ Decided'
         /\ columns' = columns /\ rows' = rows /\ driver' = driver
         /\ columns \in [EdgeColumns -> Types] /\ rows \in Seq(Row) /\ driver \in Guarded
         /\ outcome' \in {"undecided", "no_rows", "driver"}
<1>1. UNCHANGED <<driver, columns, null, rows, outcome>>
  BY DEF input
<1>2. Crashes' <=> Crashes
  BY <1>1 DEF Crashes, Ends, PositiveRows, OnePiece, ApartAlong, Inserted, Start
<1> QED BY <1>1, <1>2 DEF GInv, Decided, TypeOK

\* The postman's check begins with an empty forest, that of no rows.
LEMMA BeginStep ==
  ASSUME GInv, PostmanBegins
  PROVE  GInv'
<1>1. /\ UNCHANGED <<input, i, parent, at, to_root, pending, roots, inserted, self_loops, outcome>>
      /\ pc = "start" /\ pc' = "row" /\ Readable(columns, null) /\ Postman /\ rows # <<>>
  BY DEF PostmanBegins
<1>2. /\ Decided' /\ rows' = rows /\ driver' = driver /\ columns' = columns
      /\ rows \in Seq(Row)
      /\ outcome' \in {"undecided", "no_rows", "driver"}
  BY <1>1, SameInput
<1>3. i' = 1 /\ DOMAIN parent' = {} /\ i' - 1 = 0
  BY <1>1 DEF GInv, Forest
<1>4. Ends(0) = {} /\ (\A U : ApartAlong(U, 0)) /\ Ends(0)' = {} /\ (\A U : ApartAlong(U, 0)')
  BY <1>2, NoRows DEF Ends, ApartAlong, PositiveRows
<1>5. TypeOK'
  BY <1>1, <1>2 DEF GInv, TypeOK, Finding
<1>6. FollowsRows(i - 1)'
  BY <1>3, <1>4 DEF FollowsRows, ApartInForest
<1>7. Forest'
  BY <1>1, <1>2, <1>3, <1>4, <1>6 DEF Forest, Joining, Gathering, Postman
<1>8. Finds' /\ Gathers' /\ Census'
  BY <1>1 DEF GInv, Finds, Gathers, Census, Joining, Gathering
<1> QED BY <1>2, <1>5, <1>7, <1>8 DEF GInv

\* The sets that no row leaves are those of the same rows.
LEMMA SameRows ==
  ASSUME rows' = rows, NEW k
  PROVE  Ends(k)' = Ends(k) /\ \A U : ApartAlong(U, k)' <=> ApartAlong(U, k)
BY DEF Ends, ApartAlong, PositiveRows

\* A row that is not positive leaves the forest, and the pieces of the rows with
\* it.
LEMMA SkipStep ==
  ASSUME GInv, SkipRow
  PROVE  GInv'
<1>1. /\ UNCHANGED <<input, parent, at, to_root, pending, roots, inserted, self_loops, pc, outcome>>
      /\ pc = "row" /\ i <= Len(rows) /\ ~Positive /\ i' = i + 1
  BY DEF SkipRow
<1>2. /\ Decided' /\ rows' = rows /\ driver' = driver /\ columns' = columns
      /\ rows \in Seq(Row)
      /\ outcome' \in {"undecided", "no_rows", "driver"}
  BY <1>1, SameInput DEF GInv, Decided
<1>3. i \in DOMAIN rows /\ i' - 1 = i /\ i' \in 1 .. (Len(rows') + 1)
  BY <1>1, <1>2 DEF GInv, TypeOK
<1>4. Ends(i) = Ends(i - 1) /\ \A U : ApartAlong(U, i) <=> ApartAlong(U, i - 1)
  BY <1>1, <1>2, <1>3, RowSkipped DEF Positive
<1>5. PICK k \in DOMAIN rows : k = i
  BY <1>3
<1>6. Ends(k)' = Ends(k) /\ \A U : ApartAlong(U, k)' <=> ApartAlong(U, k)
  BY <1>2, SameRows
<1>7. TypeOK'
  BY <1>1, <1>2, <1>3 DEF GInv, TypeOK, Finding
<1>8. FollowsRows(k)'
  <2>1. FollowsRows(i - 1)
    BY <1>1 DEF GInv, Forest, Joining
  <2>2. \A U \in SUBSET DOMAIN parent : ApartInForest(U) <=> ApartAlong(U, k)
    BY <1>4, <1>5, <2>1 DEF FollowsRows
  <2> QED BY <1>1, <1>6, <2>2 DEF FollowsRows, ApartInForest
<1>9. Forest'
  <2>1. k = i' - 1
    BY <1>3, <1>5
  <2>2. FollowsRows(i - 1)'
    BY <1>8, <2>1
  <2>3. (DOMAIN parent = Ends(i - 1))'
    BY <1>1, <1>4, <1>5, <1>6, <2>1 DEF GInv, Forest
  <2> QED BY <1>1, <1>2, <2>2, <2>3 DEF GInv, Forest, Joining, Gathering, Postman, Start
<1>10. Finds' /\ Gathers' /\ Census'
  BY <1>1 DEF GInv, Finds, Gathers, Census, Joining, Gathering
<1> QED BY <1>2, <1>7, <1>9, <1>10 DEF GInv

\* A start vertex on a positive row answers without the forest: the driver does not
\* crash on it.
LEMMA OnGraphStep ==
  ASSUME GInv, StartOnGraph
  PROVE  GInv'
<1>1. i \in PositiveRows(Len(rows))
  BY DEF GInv, TypeOK, StartOnGraph, Positive, PositiveRows
<1>2. Start \in Ends(Len(rows))
  BY <1>1 DEF StartOnGraph, TouchesStart, Ends
<1>3. Postman
  BY DEF GInv, Forest, Joining, StartOnGraph
<1>4. ~Crashes
  BY <1>2, <1>3 DEF Crashes, Postman
<1> QED BY <1>4, AnswerStep DEF StartOnGraph

\* The two ends of a row enter the map as roots of their own before they are
\* joined.
LEMMA EmplaceStep ==
  ASSUME GInv, Emplace
  PROVE  GInv'
<1>1. /\ UNCHANGED <<input, i, to_root, pending, roots, inserted, self_loops, outcome>>
      /\ pc = "row" /\ i <= Len(rows) /\ Positive /\ ~TouchesStart(rows[i]) /\ pc' = "find_to"
      /\ at' = rows[i].target
      /\ parent' = Emplaced(rows[i].source, rows[i].target)
  BY DEF Emplace
<1>2. /\ Decided' /\ rows' = rows /\ driver' = driver /\ columns' = columns
      /\ rows \in Seq(Row)
      /\ outcome' \in {"undecided", "no_rows", "driver"}
  BY <1>1, SameInput DEF GInv, Decided
<1>3. i \in DOMAIN rows /\ rows[i] \in Row /\ i \in 1 .. (Len(rows) + 1) /\ i \in Nat
  BY <1>1, <1>2 DEF GInv, TypeOK
<1> DEFINE s == rows[i].source
           t == rows[i].target
<1>4. s \in Vertices /\ t \in Vertices
  BY <1>3 DEF Row
<1>5. /\ DOMAIN parent' = DOMAIN parent \cup {s, t}
      /\ \A v \in DOMAIN parent : parent'[v] = parent[v] /\ parent[v] \in DOMAIN parent
      /\ \A v \in DOMAIN parent' \ DOMAIN parent : parent'[v] = v
  BY <1>1 DEF GInv, TypeOK, Emplaced
<1>6. /\ DOMAIN parent = Ends(i - 1) /\ FollowsRows(i - 1) /\ Postman /\ rows # <<>>
      /\ Start \notin DOMAIN parent
  BY <1>1 DEF GInv, Forest, Joining
<1>7. Ends(i) = Ends(i - 1) \cup {s, t}
  BY <1>1, <1>2, <1>3, RowAdded DEF Positive
<1>8. PICK k \in DOMAIN rows : k = i
  BY <1>3
<1>9. Ends(k)' = Ends(k) /\ \A U : ApartAlong(U, k - 1)' <=> ApartAlong(U, k - 1)
  BY <1>2, SameRows
<1>10. TypeOK'
  BY <1>1, <1>2, <1>4, <1>5, GuardAssumption DEF GInv, TypeOK, Finding
<1>11. FollowsRows(i - 1)'
  <2>1. ASSUME NEW U \in SUBSET DOMAIN parent'
        PROVE  ApartInForest(U)' <=> ApartAlong(U, i - 1)
    <3>1. ApartInForest(U)' <=> ApartInForest(U \cap DOMAIN parent)
      BY <1>5 DEF ApartInForest
    <3>2. ApartInForest(U \cap DOMAIN parent) <=> ApartAlong(U \cap DOMAIN parent, i - 1)
      BY <1>6 DEF FollowsRows
    <3> QED BY <1>6, <3>1, <3>2, ApartAmongEnds
  <2>2. FollowsRows(k - 1)'
    BY <1>8, <1>9, <2>1 DEF FollowsRows
  <2> QED BY <1>1, <1>8, <2>2
<1>12. Forest'
  <2>1. Start' = Start /\ Postman' /\ Positive'
    BY <1>1, <1>2, <1>6 DEF Start, Postman, Positive
  <2>2. Start \notin DOMAIN parent'
    BY <1>1, <1>5, <1>6 DEF TouchesStart
  <2>3. DOMAIN parent' = Ends(i)' /\ i' = i
    BY <1>1, <1>5, <1>6, <1>7, <1>8, <1>9
  <2> QED BY <1>1, <1>2, <1>6, <1>11, <2>1, <2>2, <2>3 DEF Forest, Joining, Gathering
<1>13. Finds'
  BY <1>1, <1>2 DEF Finds, Connected
<1>14. Gathers' /\ Census'
  BY <1>1 DEF GInv, Gathers, Census, Joining, Gathering
<1> QED BY <1>2, <1>10, <1>12, <1>13, <1>14 DEF GInv

\* A round of find() changes pointers, never the pieces, and stays in the piece it
\* began in.
LEMMA HalveStep ==
  ASSUME GInv, Halve
  PROVE  GInv'
<1>1. /\ UNCHANGED <<input, i, to_root, pending, roots, inserted, self_loops, pc, outcome>>
      /\ Finding /\ parent[at] # at
      /\ pc \in {"find_to", "find_from", "find_entry"}
  BY DEF Halve, Finding
<1>2. /\ Decided' /\ rows' = rows /\ driver' = driver /\ columns' = columns
      /\ rows \in Seq(Row)
      /\ outcome' \in {"undecided", "no_rows", "driver"}
  BY <1>1, SameInput DEF GInv, Decided
<1>3. /\ DOMAIN parent' = DOMAIN parent
      /\ \A U \in SUBSET DOMAIN parent : ApartInForest(U)' <=> ApartInForest(U)
      /\ \A u, v : Connected(u, v)' <=> Connected(u, v)
      /\ \A r \in DOMAIN parent : parent[r] = r => parent'[r] = r
      /\ \A v \in DOMAIN parent : parent'[v] \in DOMAIN parent
      /\ at \in DOMAIN parent /\ at' \in DOMAIN parent
      /\ \A v : Connected(v, at) => Connected(v, at')
  BY HalvingKeeps DEF GInv
<1>4. PICK k \in Nat : k = i
  BY DEF GInv, TypeOK
<1>5. Ends(k)' = Ends(k) /\ \A U : ApartAlong(U, k - 1)' <=> ApartAlong(U, k - 1)
  BY <1>2, SameRows
<1>6. Ends(Len(rows))' = Ends(Len(rows))
  <2>1. PICK n : n = Len(rows)
    OBVIOUS
  <2>2. Ends(n)' = Ends(n)
    BY <1>2, SameRows
  <2> QED BY <1>2, <2>1, <2>2
<1>7. TypeOK'
  <2>1. at' # None
    BY <1>3, GuardAssumption DEF GInv, TypeOK
  <2> QED BY <1>1, <1>2, <1>3, <2>1 DEF GInv, TypeOK, Finding
<1>8. FollowsRows(i - 1)'
  <2>1. FollowsRows(k - 1)
    BY <1>1, <1>4 DEF GInv, Forest, Joining, Gathering
  <2>2. FollowsRows(k - 1)'
    BY <1>3, <1>5, <2>1 DEF FollowsRows
  <2> QED BY <1>1, <1>4, <2>2
<1>9. Forest'
  <2>1. Start' = Start /\ (Postman' <=> Postman) /\ (Positive' <=> Positive)
    BY <1>1, <1>2 DEF Start, Postman, Positive
  <2>2. Ends(i)' = Ends(i)
    BY <1>1, <1>4, <1>5
  <2> QED BY <1>1, <1>2, <1>3, <1>6, <1>8, <2>1, <2>2 DEF GInv, Forest, Joining, Gathering
<1>10. Finds'
  <2>1. pc = "find_to" => Connected(rows[i].target, at')
    BY <1>3 DEF GInv, Finds
  <2>2. pc = "find_from" => Connected(rows[i].target, to_root) /\ Connected(rows[i].source, at')
    BY <1>3 DEF GInv, Finds
  <2> QED BY <1>1, <1>2, <1>3, <2>1, <2>2 DEF Finds
<1>11. Gathers'
  <2>1. CASE ~Gathering
    BY <1>1, <2>1 DEF GInv, Gathers, Gathering
  <2>2. CASE Gathering
    <3>1. \A r \in roots : parent'[r] = r
      BY <1>3, <2>2 DEF GInv, Gathers, TypeOK
    <3>2. ASSUME NEW v \in DOMAIN parent \ pending
          PROVE  (\E r \in roots : Connected(v, r)) \/ (pc = "find_entry" /\ Connected(v, at'))
      BY <1>3, <2>2, <3>2 DEF GInv, Gathers
    <3>3. ASSUME NEW v \in DOMAIN parent \ pending
          PROVE  (\E r \in roots : Connected(v, r)') \/ (pc = "find_entry" /\ Connected(v, at)')
      BY <1>3, <3>2, <3>3
    <3> QED BY <1>1, <1>3, <2>2, <3>1, <3>3 DEF Gathers, Gathering
  <2> QED BY <2>1, <2>2
<1>12. Census'
  BY <1>1 DEF GInv, Census
<1> QED BY <1>2, <1>7, <1>9, <1>10, <1>11, <1>12 DEF GInv

\* A step within one row, or among the gathered roots, leaves the forest and what is said of it.
LEMMA SameForest ==
  ASSUME GInv, UNCHANGED <<input, i, parent, inserted, self_loops, outcome>>,
         \/ pc \in {"find_to", "find_from"} /\ pc' \in {"find_to", "find_from"}
         \/ Gathering /\ Gathering'
  PROVE  Forest' /\ Census' /\ (\A u, v : Connected(u, v)' <=> Connected(u, v))
<1>1. UNCHANGED <<driver, rows, i, parent, inserted, self_loops>>
  BY DEF input
<1>2. Start' = Start /\ (Postman' <=> Postman) /\ (Positive' <=> Positive)
  BY <1>1 DEF Start, Postman, Positive
<1>3. Ends(i)' = Ends(i) /\ Ends(Len(rows))' = Ends(Len(rows)) /\ (FollowsRows(i - 1)' <=> FollowsRows(i - 1))
  BY <1>1 DEF Ends, PositiveRows, FollowsRows, ApartInForest, ApartAlong
<1>4. \A u, v : Connected(u, v)' <=> Connected(u, v)
  BY <1>1 DEF Connected, ApartInForest
<1> QED BY <1>1, <1>2, <1>3, <1>4 DEF GInv, Forest, Census, Joining, Gathering

\* The root find() ends at is that of the vertex it was asked for.
LEMMA FoundToStep ==
  ASSUME GInv, FoundTo
  PROVE  GInv'
<1>1. /\ UNCHANGED <<input, i, parent, pending, roots, inserted, self_loops, outcome>>
      /\ pc = "find_to" /\ parent[at] = at /\ to_root' = at /\ at' = rows[i].source
      /\ pc' = "find_from"
  BY DEF FoundTo
<1>2. /\ Decided' /\ rows' = rows /\ driver' = driver /\ columns' = columns
      /\ rows \in Seq(Row)
      /\ outcome' \in {"undecided", "no_rows", "driver"}
  BY <1>1, SameInput DEF GInv, Decided
<1>3. Forest' /\ Census' /\ (\A u, v : Connected(u, v)' <=> Connected(u, v))
  BY <1>1, SameForest
<1>4. /\ at \in DOMAIN parent /\ at # None
      /\ rows[i].source \in DOMAIN parent /\ rows[i].source # None
  <2>1. i \in DOMAIN rows /\ Positive /\ DOMAIN parent = Ends(i) /\ i \in Nat
    BY <1>1, <1>2 DEF GInv, Forest, TypeOK
  <2>2. i \in PositiveRows(i)
    BY <2>1 DEF PositiveRows, Positive
  <2>3. rows[i].source \in DOMAIN parent
    BY <2>1, <2>2 DEF Ends
  <2> QED BY <1>1, <2>3, GuardAssumption DEF GInv, TypeOK, Finding
<1>5. TypeOK'
  BY <1>1, <1>2, <1>4 DEF GInv, TypeOK, Finding
<1>6. Finds'
  <2>1. Connected(rows[i].target, at)
    BY <1>1 DEF GInv, Finds
  <2>2. Connected(rows[i].source, rows[i].source)
    BY DEF Connected
  <2> QED BY <1>1, <1>2, <1>3, <2>1, <2>2 DEF Finds
<1>7. Gathers'
  BY <1>1 DEF GInv, Gathers, Gathering
<1> QED BY <1>2, <1>3, <1>5, <1>6, <1>7 DEF GInv

\* Joining the two roots makes the forest's pieces those of the rows with this row.
LEMMA LinkStep ==
  ASSUME GInv, Link
  PROVE  GInv'
<1>1. /\ UNCHANGED <<input, at, to_root, pending, roots, inserted, self_loops, outcome>>
      /\ pc = "find_from" /\ parent[at] = at
      /\ parent' = [parent EXCEPT ![at] = to_root]
      /\ i' = i + 1 /\ pc' = "row"
  BY DEF Link, Linked
<1>2. /\ Decided' /\ rows' = rows /\ driver' = driver /\ columns' = columns
      /\ rows \in Seq(Row)
      /\ outcome' \in {"undecided", "no_rows", "driver"}
  BY <1>1, SameInput DEF GInv, Decided
<1>3. /\ at \in DOMAIN parent /\ to_root \in DOMAIN parent
      /\ \A v \in DOMAIN parent : parent[v] \in DOMAIN parent
  BY <1>1 DEF GInv, TypeOK, Finding
<1>4. /\ DOMAIN parent' = DOMAIN parent
      /\ parent'[at] = to_root
      /\ \A v \in DOMAIN parent : v # at => parent'[v] = parent[v]
  BY <1>1, <1>3
<1>5. PICK k \in DOMAIN rows : k = i
  BY <1>1, <1>2 DEF GInv, Forest, TypeOK
<1>6. /\ Ends(k) = DOMAIN parent /\ FollowsRows(k - 1) /\ rows[k].cost = "positive"
      /\ Connected(rows[k].target, to_root) /\ Connected(rows[k].source, at)
  BY <1>1, <1>5 DEF GInv, Forest, Finds, Joining, Positive
<1>7. \A U : ApartAlong(U, k) <=> /\ ApartAlong(U, k - 1)
                                  /\ rows[k].source \in U <=> rows[k].target \in U
  BY <1>2, <1>6, RowAdded
<1>8. k = i' - 1 /\ i' \in 1 .. (Len(rows') + 1)
  BY <1>1, <1>2, <1>5
<1>9. Ends(k)' = Ends(k) /\ \A U : ApartAlong(U, k)' <=> ApartAlong(U, k)
  BY <1>2, SameRows
<1>10. TypeOK'
  BY <1>1, <1>2, <1>3, <1>4, <1>8 DEF GInv, TypeOK, Finding
<1>11. FollowsRows(k)'
  <2>1. ASSUME NEW U \in SUBSET DOMAIN parent
        PROVE  ApartInForest(U)' <=> ApartAlong(U, k)
    <3>1. ApartInForest(U)' <=> ApartInForest(U) /\ (at \in U <=> to_root \in U)
      BY <1>1, <1>3, <1>4 DEF ApartInForest
    <3>2. ApartInForest(U) <=> ApartAlong(U, k - 1)
      BY <1>6 DEF FollowsRows
    <3>3. ApartInForest(U) => /\ rows[k].target \in U <=> to_root \in U
                              /\ rows[k].source \in U <=> at \in U
      BY <1>6 DEF Connected
    <3> QED BY <1>7, <3>1, <3>2, <3>3
  <2> QED BY <1>4, <1>9, <2>1 DEF FollowsRows
<1>12. Forest'
  <2>1. FollowsRows(i - 1)'
    BY <1>8, <1>11
  <2>2. (DOMAIN parent = Ends(i - 1))'
    BY <1>4, <1>6, <1>8, <1>9
  <2>3. Start' = Start /\ Postman' /\ rows' # <<>> /\ Start \notin DOMAIN parent'
    BY <1>1, <1>2, <1>4 DEF GInv, Forest, Joining, Start, Postman
  <2> QED BY <1>1, <2>1, <2>2, <2>3 DEF Forest, Joining, Gathering
<1>13. Finds' /\ Gathers' /\ Census'
  BY <1>1 DEF GInv, Finds, Gathers, Census, Gathering
<1> QED BY <1>2, <1>10, <1>12, <1>13 DEF GInv

\* After the last row the forest is of all the rows.
LEMMA AllRead ==
  ASSUME GInv, pc = "row", i > Len(rows)
  PROVE  /\ i = Len(rows) + 1 /\ i - 1 = Len(rows)
         /\ rows \in Seq(Row)
         /\ DOMAIN parent = Ends(Len(rows))
         /\ Readable(columns, null)
<1>1. rows \in Seq(Row) /\ i \in 1 .. (Len(rows) + 1)
  BY DEF GInv, TypeOK
<1>2. i = Len(rows) + 1 /\ i - 1 = Len(rows)
  BY <1>1
<1> QED BY <1>1, <1>2 DEF GInv, Forest, Decided

\* Without a positive row nothing was emplaced, so the postman's graph is empty: no
\* rows.
LEMMA NothingStep ==
  ASSUME GInv, NothingPositive
  PROVE  GInv'
<1>1. /\ DOMAIN parent = Ends(Len(rows)) /\ Readable(columns, null) /\ Postman /\ rows # <<>>
      /\ DOMAIN parent = {}
  BY AllRead DEF NothingPositive, GInv, Forest, Joining
<1>2. GetData(columns, null) = "rows"
  BY <1>1, ReadableIsFetched DEF GInv, TypeOK
<1>3. Crashes
  BY <1>1, <1>2 DEF Crashes, OnePiece, Postman
<1> QED BY <1>3, AnswerStep DEF NothingPositive

\* After the last row the forest has the pieces of all rows, and every entry is
\* still to be found.
LEMMA GatherStep ==
  ASSUME GInv, GatherRoots
  PROVE  GInv'
<1>1. /\ UNCHANGED <<input, i, parent, at, to_root, roots, inserted, self_loops, outcome>>
      /\ pc = "row" /\ i > Len(rows) /\ DOMAIN parent # {}
      /\ pending' = DOMAIN parent /\ pc' = "entry"
  BY DEF GatherRoots
<1>2. /\ Decided' /\ rows' = rows /\ driver' = driver /\ columns' = columns
      /\ outcome' \in {"undecided", "no_rows", "driver"}
  BY <1>1, SameInput DEF GInv, Decided
<1>3. i = Len(rows) + 1 /\ DOMAIN parent = Ends(Len(rows)) /\ FollowsRows(i - 1)
      /\ Postman /\ rows # <<>> /\ Start \notin DOMAIN parent
  BY <1>1, AllRead DEF GInv, Forest, Joining
<1>4. TypeOK'
  BY <1>1, <1>2 DEF GInv, TypeOK, Finding
<1>5. Forest'
  <2>1. Ends(Len(rows))' = Ends(Len(rows))
    BY <1>2 DEF Ends, PositiveRows
  <2>2. FollowsRows(i - 1)'
    BY <1>1, <1>2, <1>3 DEF FollowsRows, ApartInForest, ApartAlong, PositiveRows
  <2> QED BY <1>1, <1>2, <1>3, <2>1, <2>2 DEF Forest, Joining, Gathering, Postman, Start
<1>6. Gathers'
  BY <1>1 DEF GInv, Gathers, Gathering
<1>7. Finds' /\ Census'
  BY <1>1 DEF GInv, Finds, Census
<1> QED BY <1>2, <1>4, <1>5, <1>6, <1>7 DEF GInv

\* The next entry is found from where it is, in any order of the map.
LEMMA NextEntryStep ==
  ASSUME GInv, NextEntry
  PROVE  GInv'
<1>1. /\ UNCHANGED <<input, i, parent, to_root, roots, inserted, self_loops, outcome>>
      /\ pc = "entry" /\ pc' = "find_entry"
      /\ at' \in pending /\ pending' = pending \ {at'}
  BY DEF NextEntry
<1>2. /\ Decided' /\ rows' = rows /\ driver' = driver /\ columns' = columns
      /\ outcome' \in {"undecided", "no_rows", "driver"}
  BY <1>1, SameInput DEF GInv, Decided
<1>3. Forest' /\ Census' /\ (\A u, v : Connected(u, v)' <=> Connected(u, v))
  BY <1>1, SameForest DEF Gathering
<1>4. at' \in DOMAIN parent /\ at' # None
  BY <1>1, GuardAssumption DEF GInv, TypeOK
<1>5. TypeOK'
  BY <1>1, <1>2, <1>4 DEF GInv, TypeOK, Finding
<1>6. Finds'
  BY <1>1 DEF Finds
<1>7. Gathers'
  <2>1. ASSUME NEW v \in DOMAIN parent \ pending'
        PROVE  (\E r \in roots : Connected(v, r)) \/ Connected(v, at')
    <3>1. CASE v = at'
      BY <3>1 DEF Connected
    <3>2. CASE v # at'
      BY <1>1, <2>1, <3>2 DEF GInv, Gathers, Gathering
    <3> QED BY <3>1, <3>2
  <2>2. ASSUME NEW v \in DOMAIN parent \ pending'
        PROVE  (\E r \in roots : Connected(v, r)') \/ Connected(v, at)'
    BY <1>3, <2>1, <2>2
  <2> QED BY <1>1, <2>2 DEF GInv, Gathers, Gathering
<1> QED BY <1>2, <1>3, <1>5, <1>6, <1>7 DEF GInv

\* A root found joins the others: they are those of the entries already looked up.
LEMMA FoundEntryStep ==
  ASSUME GInv, FoundEntry
  PROVE  GInv'
<1>1. /\ UNCHANGED <<input, i, parent, at, to_root, pending, inserted, self_loops, outcome>>
      /\ pc = "find_entry" /\ pc' = "entry" /\ parent[at] = at
      /\ roots' = roots \cup {at}
  BY DEF FoundEntry
<1>2. /\ Decided' /\ rows' = rows /\ driver' = driver /\ columns' = columns
      /\ outcome' \in {"undecided", "no_rows", "driver"}
  BY <1>1, SameInput DEF GInv, Decided
<1>3. Forest' /\ Census' /\ (\A u, v : Connected(u, v)' <=> Connected(u, v))
  BY <1>1, SameForest DEF Gathering
<1>4. at \in DOMAIN parent
  BY <1>1 DEF GInv, TypeOK, Finding
<1>5. TypeOK'
  BY <1>1, <1>2, <1>4 DEF GInv, TypeOK, Finding
<1>6. Finds'
  BY <1>1 DEF Finds
<1>7. Gathers'
  <2>1. ASSUME NEW v \in DOMAIN parent \ pending
        PROVE  \E r \in roots' : Connected(v, r)
    BY <1>1, <2>1 DEF GInv, Gathers, Gathering
  <2>2. ASSUME NEW v \in DOMAIN parent \ pending
        PROVE  \E r \in roots' : Connected(v, r)'
    BY <1>3, <2>1, <2>2
  <2> QED BY <1>1, <1>4, <2>2 DEF GInv, Gathers, Gathering
<1> QED BY <1>2, <1>3, <1>5, <1>6, <1>7 DEF GInv

\* The gathered roots are one exactly where the positive directions are one piece.
LEMMA RootsCountPieces ==
  ASSUME GInv, pc = "entry", pending = {}
  PROVE  OneRoot <=> OnePiece
<1>1. /\ DOMAIN parent = Ends(Len(rows)) /\ DOMAIN parent # {}
      /\ \A U \in SUBSET DOMAIN parent : ApartInForest(U) <=> ApartAlong(U, Len(rows))
  <2>1. i - 1 = Len(rows)
    BY DEF GInv, Forest, Gathering, TypeOK
  <2> QED BY <2>1 DEF GInv, Forest, Gathering, FollowsRows
<1>2. \A v \in DOMAIN parent : \E r \in roots : Connected(v, r)
  BY DEF GInv, Gathers, Gathering
<1>3. /\ roots \subseteq DOMAIN parent
      /\ \A r \in roots : parent[r] = r
      /\ \A v \in DOMAIN parent : parent[v] \in DOMAIN parent
  BY DEF GInv, TypeOK, Gathers, Gathering
<1>4. ASSUME OneRoot PROVE OnePiece
  <2>1. PICK r \in roots : roots = {r}
    BY <1>4 DEF OneRoot
  <2>2. ASSUME NEW U \in SUBSET DOMAIN parent, U # {}, ApartInForest(U)
        PROVE  U = DOMAIN parent
    <3>1. \A v \in DOMAIN parent : v \in U <=> r \in U
      BY <1>2, <2>1, <2>2 DEF Connected
    <3> QED BY <2>2, <3>1
  <2> QED BY <1>1, <2>2 DEF OnePiece
<1>5. ASSUME OnePiece PROVE OneRoot
  <2>1. PICK r \in roots : TRUE
    BY <1>1, <1>2
  <2>2. ASSUME NEW q \in roots, q # r PROVE FALSE
    <3>1. PICK U \in SUBSET DOMAIN parent : ApartInForest(U) /\ r \in U /\ q \notin U
      BY <1>3, <2>1, <2>2, RootsApart
    <3>2. U = DOMAIN parent
      BY <1>1, <1>5, <3>1 DEF OnePiece
    <3> QED BY <1>3, <2>2, <3>1, <3>2
  <2> QED BY <2>1, <2>2 DEF OneRoot
<1> QED BY <1>4, <1>5

\* There is one root exactly where there is one piece, so the postman's answer is
\* right.
LEMMA PostmanStep ==
  ASSUME GInv, PostmanDecides
  PROVE  GInv'
<1>1. OneRoot <=> OnePiece
  BY RootsCountPieces DEF PostmanDecides
<1>2. /\ Readable(columns, null) /\ Postman /\ rows # <<>> /\ Start \notin Ends(Len(rows))
  BY DEF PostmanDecides, GInv, Forest, Gathering, Decided
<1>3. GetData(columns, null) = "rows"
  BY <1>2, ReadableIsFetched DEF GInv, TypeOK
<1>4. Crashes <=> OneRoot
  BY <1>1, <1>2, <1>3 DEF Crashes, Postman
<1>5. CASE OneRoot
  <2>1. Answer("no_rows")
    BY <1>5 DEF PostmanDecides
  <2> QED BY <1>4, <1>5, <2>1, AnswerStep DEF PostmanDecides
<1>6. CASE ~OneRoot
  <2>1. Answer("driver")
    BY <1>6 DEF PostmanDecides
  <2> QED BY <1>4, <1>6, <2>1, AnswerStep DEF PostmanDecides
<1> QED BY <1>5, <1>6

\* CountEdges begins with both counters at zero, those of no rows.
LEMMA CountBeginStep ==
  ASSUME GInv, CountBegins
  PROVE  GInv'
<1>1. /\ UNCHANGED <<input, i, parent, at, to_root, pending, roots, inserted, self_loops, outcome>>
      /\ pc = "start" /\ pc' = "count" /\ Readable(columns, null) /\ ~Postman
  BY DEF CountBegins
<1>2. /\ Decided' /\ rows' = rows /\ driver' = driver /\ columns' = columns
      /\ rows \in Seq(Row)
      /\ outcome' \in {"undecided", "no_rows", "driver"}
  BY <1>1, SameInput
<1>3. i = 1 /\ i - 1 = 0 /\ inserted = 0 /\ self_loops = 0 /\ DOMAIN parent = {}
  BY <1>1 DEF GInv, Forest, Census
<1>4. \A k : InsertedBefore(k)' = InsertedBefore(k)
  BY <1>2 DEF InsertedBefore, Inserted
<1>5. InsertedBefore(0) = {}
  BY <1>2 DEF InsertedBefore, Inserted
<1>6. TypeOK'
  BY <1>1, <1>2 DEF GInv, TypeOK, Finding
<1>7. Census'
  BY <1>1, <1>2, <1>3, <1>4, <1>5 DEF Census, Postman
<1>8. Forest' /\ Finds' /\ Gathers'
  BY <1>1 DEF GInv, Forest, Finds, Gathers, Joining, Gathering
<1> QED BY <1>2, <1>6, <1>7, <1>8 DEF GInv

\* The counters are those of the rows up to this one.
LEMMA CountStep ==
  ASSUME GInv, CountEdge
  PROVE  GInv'
<1>1. /\ UNCHANGED <<input, parent, at, to_root, pending, roots, pc, outcome>>
      /\ pc = "count" /\ i <= Len(rows) /\ i' = i + 1
      /\ inserted' = inserted + (IF EntersGraph(rows[i]) THEN 1 ELSE 0)
      /\ self_loops' = self_loops + (IF EntersGraph(rows[i]) /\ IsLoop(rows[i]) THEN 1 ELSE 0)
  BY DEF CountEdge
<1>2. /\ Decided' /\ rows' = rows /\ driver' = driver /\ columns' = columns
      /\ rows \in Seq(Row)
      /\ outcome' \in {"undecided", "no_rows", "driver"}
  BY <1>1, SameInput DEF GInv, Decided
<1>3. i \in DOMAIN rows /\ i \in Nat /\ i' - 1 = i /\ i' \in 1 .. (Len(rows') + 1)
  BY <1>1, <1>2 DEF GInv, TypeOK
<1>4. /\ inserted \in Nat /\ self_loops \in Nat /\ self_loops <= inserted /\ ~Postman
      /\ inserted = 0 <=> InsertedBefore(i - 1) = {}
      /\ self_loops = inserted <=> \A j \in InsertedBefore(i - 1) : IsLoop(rows[j])
  BY <1>1 DEF GInv, Census, TypeOK
<1>5. InsertedBefore(i) = InsertedBefore(i - 1) \cup (IF EntersGraph(rows[i]) THEN {i} ELSE {})
  <2>1. DOMAIN rows \subseteq Nat
    BY <1>2
  <2> QED BY <1>3, <2>1 DEF InsertedBefore, Inserted, EntersGraph
<1>6. \A k : InsertedBefore(k)' = InsertedBefore(k)
  BY <1>2 DEF InsertedBefore, Inserted
<1>7. /\ inserted' \in Nat /\ self_loops' \in Nat /\ self_loops' <= inserted'
      /\ inserted' = 0 <=> InsertedBefore(i) = {}
      /\ self_loops' = inserted' <=> \A j \in InsertedBefore(i) : IsLoop(rows[j])
  <2>1. CASE ~EntersGraph(rows[i])
    BY <1>1, <1>4, <1>5, <2>1
  <2>2. CASE EntersGraph(rows[i]) /\ IsLoop(rows[i])
    BY <1>1, <1>4, <1>5, <2>2
  <2>3. CASE EntersGraph(rows[i]) /\ ~IsLoop(rows[i])
    BY <1>1, <1>4, <1>5, <2>3
  <2> QED BY <2>1, <2>2, <2>3
<1>8. TypeOK'
  BY <1>1, <1>2, <1>3, <1>7 DEF GInv, TypeOK, Finding
<1>9. Census'
  <2>1. \A row : IsLoop(row)' <=> IsLoop(row)
    BY DEF IsLoop
  <2> QED BY <1>1, <1>2, <1>3, <1>4, <1>6, <1>7, <2>1 DEF Census, Postman
<1>10. Forest' /\ Finds' /\ Gathers'
  BY <1>1 DEF GInv, Forest, Finds, Gathers, Joining, Gathering
<1> QED BY <1>2, <1>8, <1>9, <1>10 DEF GInv

\* The counters of all rows say whether every edge is a loop or none is in the
\* graph.
LEMMA CensusStep ==
  ASSUME GInv, CensusDecides
  PROVE  GInv'
<1>1. /\ pc = "count" /\ i > Len(rows) /\ rows \in Seq(Row) /\ i \in 1 .. (Len(rows) + 1)
      /\ driver \in Guarded
  BY DEF GInv, TypeOK, CensusDecides
<1>2. i - 1 = Len(rows)
  BY <1>1
<1>3. InsertedBefore(i - 1) = Inserted
  BY <1>1, <1>2 DEF InsertedBefore, Inserted
<1>4. /\ inserted \in Nat /\ self_loops \in Nat /\ self_loops <= inserted /\ ~Postman
      /\ inserted = 0 <=> Inserted = {}
      /\ self_loops = inserted <=> \A j \in Inserted : IsLoop(rows[j])
      /\ Readable(columns, null)
  BY <1>1, <1>3 DEF GInv, Census, Decided, TypeOK
<1>5. GetData(columns, null) = "rows"
  BY <1>4, ReadableIsFetched DEF GInv, TypeOK
<1>6. driver \in {"BICONNECTED_COMPONENTS", "SLOAN_ORDERING"}
  BY <1>1, <1>4, GuardAssumption DEF Drivers, Postman
<1>7. Inserted # {} => rows # <<>>
  BY DEF Inserted
<1>8. NoComponent <=> Inserted # {} /\ \A j \in Inserted : rows[j].source = rows[j].target
  BY <1>4 DEF NoComponent, IsLoop
<1>9. NothingToOrder <=> rows # <<>> /\ Inserted = {}
  BY <1>4 DEF NothingToOrder
<1>10. Crashes <=> \/ driver = "SLOAN_ORDERING" /\ NothingToOrder
                   \/ driver = "BICONNECTED_COMPONENTS" /\ NoComponent
  BY <1>5, <1>6, <1>7, <1>8, <1>9 DEF Crashes
<1>11. CASE Crashes
  <2>1. Answer("no_rows")
    BY <1>10, <1>11 DEF CensusDecides
  <2> QED BY <1>11, <2>1, AnswerStep DEF CensusDecides
<1>12. CASE ~Crashes
  <2>1. Answer("driver")
    BY <1>10, <1>12 DEF CensusDecides
  <2> QED BY <1>12, <2>1, AnswerStep DEF CensusDecides
<1> QED BY <1>11, <1>12

\* A step that changes nothing keeps the invariant.
LEMMA IdleStep ==
  ASSUME GInv, UNCHANGED vars
  PROVE  GInv'
<1> USE DEF vars, input, GInv
<1>1. TypeOK'
  BY DEF TypeOK, Finding
<1>2. Forest'
  BY DEF Forest, Joining, Gathering, Postman, Positive, Start, FollowsRows, ApartInForest,
     ApartAlong, Ends, PositiveRows
<1>3. Finds' /\ Gathers'
  BY DEF Finds, Gathers, Gathering, Connected, ApartInForest
<1>4. Census'
  BY DEF Census, InsertedBefore, Inserted, IsLoop, Postman
<1>5. Crashes' <=> Crashes
  BY DEF Crashes, Ends, PositiveRows, OnePiece, ApartAlong, Inserted, Start
<1>6. Decided'
  BY <1>5 DEF Decided
<1> QED BY <1>1, <1>2, <1>3, <1>4, <1>6

\* Every step of the checks keeps the invariant.
THEOREM GuardInvariance == Spec => []GInv
<1>1. ASSUME GInv, [Next]_vars
      PROVE  GInv'
  BY <1>1, LeftStep, BeginStep, SkipStep, OnGraphStep, EmplaceStep, HalveStep, FoundToStep, LinkStep,
     NothingStep, GatherStep, NextEntryStep, FoundEntryStep, PostmanStep, CountBeginStep, CountStep,
     CensusStep, IdleStep DEF Next
<1> QED BY InitGuards, <1>1, PTL DEF Spec

-----------------------------------------------------------------------------
(* The properties. *)

\* The checks' variables keep their types, and find() is asked only for vertices in its map.
THEOREM GuardTypes == Spec => []TypeOK
<1>1. GInv => TypeOK
  BY DEF GInv
<1> QED BY GuardInvariance, <1>1, PTL

\* Whatever the edge query, the driver is not called where it would end the process, and what is
\* answered without it is answered only there.
THEOREM OnlyCrashesAnswered == Spec => []CrashesAloneAnswered
<1>1. ASSUME GInv PROVE CrashesAloneAnswered
  <2>1. columns \in [EdgeColumns -> Types]
    BY <1>1 DEF GInv, TypeOK
  <2>2. pc \notin {"start", "done"} => Readable(columns, null)
    BY <1>1 DEF GInv, Decided
  <2>3. GetData(columns, null) # "internal_error"
    BY <2>1, NeverInternal
  <2> QED BY <1>1, <2>1, <2>2, <2>3, ReadersFit DEF GInv, Decided, CrashesAloneAnswered
<1> QED BY GuardInvariance, <1>1, PTL

\* However many rows and whatever pieces they make, the union-find forest has the same pieces.
THEOREM ForestIsOfTheRows == Spec => []ForestFollowsRows
<1>1. ASSUME GInv PROVE ForestFollowsRows
  <2>1. CASE pc = "row"
    BY <1>1, <2>1 DEF GInv, Forest, Joining, FollowsRows, ForestFollowsRows
  <2>2. CASE pc = "entry"
    <3>1. i - 1 = Len(rows)
      BY <1>1, <2>2 DEF GInv, Forest, Gathering, TypeOK
    <3> QED BY <1>1, <2>2, <3>1 DEF GInv, Forest, Gathering, FollowsRows, ForestFollowsRows
  <2> QED BY <2>1, <2>2 DEF ForestFollowsRows
<1> QED BY GuardInvariance, <1>1, PTL

=============================================================================
