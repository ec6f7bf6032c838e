----------------------------- MODULE CallRewrite -----------------------------
(***************************************************************************)
(* The way of a call from SQL to a driver: SpecBindReplace turns a public  *)
(* call into a call of _pgr_exec over one row of inputs                    *)
(* (spec_functions.cpp), ExecBind reads and checks it (exec_function.cpp,  *)
(* request_params.cpp), RunOnce registers the row's lists under the SQL    *)
(* text they stand for (input_slots.cpp), and the driver finds them by     *)
(* that text and a kind.  _pgr_exec may also be called directly.           *)
(*                                                                         *)
(* A query is a tuple: <<text>>, or <<"of_points", e, p>> and              *)
(* <<"no_points", e, p>> for the two WithPointsDerivedKeys makes.  The     *)
(* same tuple is the parsed query, its text and a registry key; each is    *)
(* built by its own definition.  Texts parse as one SELECT each.           *)
(***************************************************************************)
EXTENDS Overloads, Integers, SequencesExt

CONSTANTS
  Specs,      \* the public overloads of this instance
  Texts,      \* SQL texts a caller may give
  NULL,       \* the SQL NULL
  Plain,      \* per kind of argument, the values that nothing is odd about
  Odd,        \* per kind of argument, NULLs and values at or past a limit
  MaxExtras(_), \* bound: odd or defaulted arguments in one call of an overload
  MaxEmpty,   \* bound: lists without rows in one call
  DirectCalls \* direct calls of _pgr_exec, as [args, row, rows] with null_input in args

VARIABLES
  pc,
  spec,       \* the overload called
  inputs,     \* its positional arguments so far
  named,      \* its named arguments
  query,      \* the call of _pgr_exec
  request,    \* ExecBindData::request
  no_rows,    \* ExecBindData::no_rows
  ids,        \* the request's id lists, by slot, where the row has one
  registry,   \* [key, kind] -> the list registered, or none
  fetched,    \* the inputs the driver has found
  outcome

vars == <<pc, spec, inputs, named, query, request, no_rows, ids, registry, fetched, outcome>>
callVars == <<spec, inputs, named>>

NoSpec == Overload(Blank, <<>>, <<>>, DriverFlags("SHORTEST_PATH"))
EmptyMap == [x \in {} |-> x]

DriverRequest ==
  [edges_sql |-> Blank, points_sql |-> Blank, combinations_sql |-> Blank, restrictions_sql |-> Blank,
   matrix_sql |-> Blank, coordinates_sql |-> Blank, directed |-> TRUE, only_cost |-> FALSE, normal |-> TRUE,
   n_goals |-> 0, global |-> FALSE, driving_side |-> Blank, details |-> TRUE, which |-> 0,
   heuristic |-> 5, factor |-> 1, epsilon |-> 1, distance |-> 0, equicost |-> FALSE,
   max_depth |-> NoDepthLimit, mst_suffix |-> Blank, k |-> 0, heap_paths |-> FALSE,
   stop_on_first |-> TRUE, strict |-> FALSE, u_turn_on_edge |-> TRUE, start_id |-> 0, end_id |-> 0,
   root |-> 0, algorithm |-> 1, cycles |-> 1, driver |-> "SHORTEST_PATH"]

NoQuery == [args |-> EmptyMap, null_input |-> FALSE, row |-> EmptyMap, rows |-> 1]

Init ==
  /\ pc = "idle"
  /\ spec = NoSpec
  /\ inputs = <<>>
  /\ named = EmptyMap
  /\ query = NoQuery
  /\ request = DriverRequest
  /\ no_rows = FALSE
  /\ ids = EmptyMap
  /\ registry = EmptyMap
  /\ fetched = {}
  /\ outcome = "none"

Finish(how) == pc' = "done" /\ outcome' = how

----------------------------------------------------------------------------
\* The caller writes a call.

\* The kind of the n-th positional argument: a required one, then the optionals.
KindAt(n) ==
  IF n <= Len(spec.args) THEN spec.args[n]
                         ELSE spec.optionals[n - Len(spec.args)].request_field

Required == Len(spec.args)
Given == Len(inputs)

\* The odd or defaulted arguments written so far.
Extras ==
  Cardinality({n \in 1 .. Given : n > Required \/ inputs[n] \in Odd[KindAt(n)]})
    + Cardinality(DOMAIN named)

CallOverload ==
  /\ pc = "idle"
  /\ spec' \in Specs
  /\ pc' = "call"
  /\ UNCHANGED <<inputs, named, query, request, no_rows, ids, registry, fetched, outcome>>

\* One more positional argument, of the variant with as many optionals as are given.
WriteArgument ==
  /\ pc = "call"
  /\ named = EmptyMap
  /\ Given < Required + Len(spec.optionals)
  /\ \E v \in Plain[KindAt(Given + 1)] \cup Odd[KindAt(Given + 1)] :
       /\ Given >= Required \/ v \notin Plain[KindAt(Given + 1)] => Extras < MaxExtras(spec)
       /\ inputs' = Append(inputs, v)
  /\ UNCHANGED <<pc, spec, named, query, request, no_rows, ids, registry, fetched, outcome>>

NameArgument ==
  /\ pc = "call"
  /\ Given >= Required
  /\ Extras < MaxExtras(spec)
  /\ \E n \in 1 .. Len(spec.optionals) :
       LET param == spec.optionals[n] IN
       /\ param.name \notin DOMAIN named
       /\ \E v \in Plain[param.request_field] \cup Odd[param.request_field] :
            named' = [p \in DOMAIN named \cup {param.name} |-> IF p = param.name THEN v ELSE named[p]]
  /\ UNCHANGED <<pc, spec, inputs, query, request, no_rows, ids, registry, fetched, outcome>>

----------------------------------------------------------------------------
\* spec_functions.cpp: the public call becomes a call of _pgr_exec.

\* Mutant of TypeOf: the roots of a spanning tree are registered as one root.
OneRootType(kind) ==
  CASE kind \in IdKinds \cup {"ROOTS"} -> "BIGINT"
    [] kind \in ListKinds \ {"ROOTS"} -> "BIGINT_LIST"
    [] kind = "DISTANCE" -> "DOUBLE"
    [] kind = "K" -> "INTEGER"
    [] OTHER -> "VARCHAR"

\* The type each kind of argument is registered with, and a variant's signature.
TypeOf(kind) ==
  CASE kind \in SqlKinds \cup {"DRIVING_SIDE"} -> "VARCHAR"
    [] kind \in IdKinds -> "BIGINT"
    [] kind \in ListKinds -> "BIGINT_LIST"
    [] kind = "DISTANCE" -> "DOUBLE"
    [] kind = "K" -> "INTEGER"

Types(s, positional) ==
  [n \in 1 .. Len(s.args) + positional |->
     IF n <= Len(s.args) THEN TypeOf(s.args[n]) ELSE s.optionals[n - Len(s.args)].type]

IsListType(type) == type \in {"INTEGER_LIST", "BIGINT_LIST"}

NullInput ==
  \/ \E n \in 1 .. Given : inputs[n] = NULL
  \/ \E n \in 1 .. Len(spec.optionals) :
       LET name == spec.optionals[n].name IN name \in DOMAIN named /\ named[name] = NULL

\* Mutant of ResolveOptional: the named form is not looked for.
ResolvePositional(index) ==
  IF Required + index <= Given THEN inputs[Required + index] ELSE spec.optionals[index].default

\* Positional when this variant carries it positionally, else named, else the default.
ResolveOptional(index) ==
  LET param == spec.optionals[index]
      position == Required + index IN
  IF position <= Given THEN inputs[position]
  ELSE IF param.name \in DOMAIN named THEN named[param.name]
  ELSE param.default

\* What a request field keeps of a value: a text's first character for a char.
FromValue(field, v) ==
  IF field = "driving_side" THEN (IF v = <<>> THEN Blank ELSE Head(v)) ELSE v

ToValue(field, v) == IF field = "driving_side" THEN <<v>> ELSE v

\* SetRequestParameter for every field of values.
SetRequestParameters(r, values) ==
  [field \in DOMAIN r |-> IF field \in DOMAIN values THEN FromValue(field, values[field]) ELSE r[field]]

\* Mutant of FixedRequest: a run whose path costs are selected is a cost run, as upstream's is.
CostRequest(flags) ==
  [DriverRequest EXCEPT
     !.only_cost = flags.projection \in {"COST", "COST_SORTED", "COST_OF_PATH"}, !.normal = flags.normal,
     !.n_goals = flags.n_goals, !.global = flags.global, !.details = flags.details, !.which = flags.which,
     !.driver = flags.driver, !.mst_suffix = flags.mst_suffix, !.algorithm = flags.algorithm]

\* The flags an overload fixes.
FixedRequest(flags) ==
  [DriverRequest EXCEPT
     !.only_cost = flags.only_cost, !.normal = flags.normal, !.n_goals = flags.n_goals,
     !.global = flags.global, !.details = flags.details, !.which = flags.which,
     !.driver = flags.driver, !.mst_suffix = flags.mst_suffix, !.algorithm = flags.algorithm]

\* The optionals that are request parameters, and those that are id-list slots.
OptionalValues(list) ==
  LET chosen == {n \in 1 .. Len(spec.optionals) : IsListType(spec.optionals[n].type) = list} IN
  [field \in {spec.optionals[n].request_field : n \in chosen} |->
     ResolveOptional(CHOOSE n \in chosen : spec.optionals[n].request_field = field)]

SideOfDirected(flags, r) ==
  IF flags.driving_side = "FROM_DIRECTED"
  THEN [r EXCEPT !.driving_side = IF r.directed THEN "r" ELSE "b"]
  ELSE r

\* The request parameter a required argument sets.
ParameterOf ==
  [EDGES_SQL |-> "edges_sql", POINTS_SQL |-> "points_sql", COMBINATIONS_SQL |-> "combinations_sql",
   RESTRICTIONS_SQL |-> "restrictions_sql", MATRIX_SQL |-> "matrix_sql",
   COORDINATES_SQL |-> "coordinates_sql", DRIVING_SIDE |-> "driving_side", DISTANCE |-> "distance",
   K |-> "k", ROOT_VID |-> "root"]

PositionOf(kind) == CHOOSE n \in 1 .. Required : spec.args[n] = kind
Takes(kind) == \E n \in 1 .. Required : spec.args[n] = kind
Argument(kind) == inputs[PositionOf(kind)]

ArgumentValues ==
  [field \in {ParameterOf[kind] : kind \in {g \in DOMAIN ParameterOf : Takes(g)}} |->
     Argument(CHOOSE kind \in DOMAIN ParameterOf : Takes(kind) /\ ParameterOf[kind] = field)]

RequestOf ==
  LET fixed == FixedRequest(spec.flags) IN
  IF NullInput
  THEN SideOfDirected(spec.flags, fixed)
  ELSE SetRequestParameters(
         SideOfDirected(spec.flags, SetRequestParameters(fixed, OptionalValues(FALSE))), ArgumentValues)

\* Columns of the input row: a query's rows as one list, ids, or an untyped NULL.
Rows(q) == [type |-> "rows", value |-> q]
Ids(list) == [type |-> "ids", value |-> list]
NullColumn == [type |-> "NULL", value |-> NULL]

ArgumentColumn(kind) ==
  CASE kind \in IdKinds -> Ids(<<Argument(kind)>>)
    [] kind \in ListKinds -> Ids(Argument(kind))
    [] OTHER -> Rows(<<Argument(kind)>>)

\* The required arguments that fill a column by themselves.
ColumnKinds ==
  [starts |-> {"START_VID", "START_VIDS", "VIDS"}, ends |-> {"END_VID", "END_VIDS", "VIDS"},
   roots |-> {"ROOT", "ROOTS"}, via |-> {"VIA"}, combinations |-> {"COMBINATIONS_SQL"},
   restrictions |-> {"RESTRICTIONS_SQL"}, matrix |-> {"MATRIX_SQL"}, coordinates |-> {"COORDINATES_SQL"}]

ArgumentColumns ==
  [slot \in {c \in DOMAIN ColumnKinds : \E kind \in ColumnKinds[c] : Takes(kind)} |->
     ArgumentColumn(CHOOSE kind \in ColumnKinds[slot] : Takes(kind))]

EdgesOfPoints(e, p) == <<"of_points", e, p>>
EdgesWithoutPoints(e, p) == <<"no_points", e, p>>

EdgeColumns ==
  LET e == Argument("EDGES_SQL")
      p == Argument("POINTS_SQL") IN
  IF Takes("POINTS_SQL")
  THEN [points |-> Rows(<<p>>), edges_of_points |-> Rows(EdgesOfPoints(e, p)),
        edges_no_points |-> Rows(EdgesWithoutPoints(e, p))]
  ELSE IF Takes("EDGES_SQL") THEN [edges |-> Rows(<<e>>)] ELSE EmptyMap

ListColumns ==
  LET given == OptionalValues(TRUE)
      fixed == IF spec.flags.contraction_method = 0 THEN {} ELSE {"methods"} IN
  [slot \in DOMAIN given \cup fixed |->
     IF slot \in DOMAIN given THEN Ids(given[slot]) ELSE Ids(<<spec.flags.contraction_method>>)]

\* The six columns every row has.
PlainColumns ==
  [edges |-> NullColumn, combinations |-> NullColumn, starts |-> Ids(<<>>), ends |-> Ids(<<>>),
   roots |-> Ids(IF spec.flags.root_zero THEN <<0>> ELSE <<>>), via |-> Ids(<<>>)]

Overlay(f, g) == [x \in DOMAIN f \cup DOMAIN g |-> IF x \in DOMAIN g THEN g[x] ELSE f[x]]

InputRow ==
  IF NullInput THEN PlainColumns
  ELSE Overlay(Overlay(PlainColumns, ListColumns), Overlay(ArgumentColumns, EdgeColumns))

RequestArguments(r) == [field \in DOMAIN r |-> ToValue(field, r[field])]

SpecBindReplace ==
  /\ pc = "call"
  /\ Given >= Required
  /\ query' = [args |-> RequestArguments(RequestOf), null_input |-> NullInput, row |-> InputRow, rows |-> 1]
  /\ pc' = "bind"
  /\ UNCHANGED <<callVars, request, no_rows, ids, registry, fetched, outcome>>

\* _pgr_exec is catalogued: anyone may call it, with any row and parameters.
CallExec ==
  /\ pc = "idle"
  /\ query' \in DirectCalls
  /\ pc' = "bind"
  /\ UNCHANGED <<callVars, request, no_rows, ids, registry, fetched, outcome>>

----------------------------------------------------------------------------
\* exec_function.cpp: ExecBind.

\* Arguments that are NULL, or not given, leave the request's default.
ReadRequestParameters(args) ==
  SetRequestParameters(DriverRequest, [f \in {g \in DOMAIN args : args[g] # NULL} |-> args[f]])

\* Mutant of ValidSide: a side is checked for being given, not for its letter.
AnySide(r) == r.driving_side # Blank

ValidSide(r) == r.driving_side \in {"r", "l", "b", "R", "L", "B"}

\* Mutant of AStarParameters: epsilon is left to the driver.
HeuristicAndFactor(r) == r.heuristic \in 0 .. 5 /\ r.factor > 0

AStarParameters(r) == r.heuristic \in 0 .. 5 /\ r.factor > 0 /\ r.epsilon >= 1

\* Mutant of TreeParameters: the depth of a traversal of the tree is not looked at.
DistanceOnly(r) == r.mst_suffix = "DD" => r.distance >= 0

TreeParameters(r) ==
  /\ r.mst_suffix = "DD" => r.distance >= 0
  /\ r.mst_suffix \in {"BFS", "DFS"} => r.max_depth >= 0

\* Mutant of FlowAlgorithm: an algorithm past the last is let through.
KnownOrLater(r) == r.algorithm >= 1

FlowAlgorithm(r) == r.algorithm \in 1 .. 3

\* Whether the driver runs, the call has no rows, or it fails.
CheckRequest(r) ==
  LET check == CheckOf(r.driver)
      FailsUnless(holds) == IF holds THEN "run" ELSE "error" IN
  CASE check = "ASTAR_PARAMETERS" -> FailsUnless(AStarParameters(r))
    [] check = "DRIVING_DISTANCE" -> FailsUnless(r.distance >= 0)
    [] check = "WITH_POINTS_DD" -> FailsUnless(ValidSide(r) /\ r.distance >= 0)
    [] check = "SPANNING_TREE" -> FailsUnless(TreeParameters(r))
    [] check = "TRAVERSAL" -> FailsUnless(r.max_depth >= 0)
    [] check = "KSP_K" -> IF r.k >= 0 THEN "run" ELSE "no_rows"
    [] check = "WITH_POINTS_KSP" -> FailsUnless(ValidSide(r) /\ r.k >= 0)
    [] check = "DRIVING_SIDE" -> FailsUnless(ValidSide(r))
    [] check = "TURN_RESTRICTED_PATH" -> FailsUnless(r.k >= 0)
    [] check = "MAX_FLOW_ALGORITHM" -> FailsUnless(FlowAlgorithm(r))
    [] check = "CONTRACTION_CYCLES" -> IF r.cycles >= 1 THEN "run" ELSE "no_rows"
    [] OTHER -> "run"

\* INPUT_SLOTS: the columns that are lists of rows, with the kind they are
\* registered as and the query they stand for, and those that are lists of ids.
KindOf ==
  [edges |-> "edges", combinations |-> "combinations", points |-> "points", edges_of_points |-> "edges",
   edges_no_points |-> "edges", restrictions |-> "restrictions", matrix |-> "matrix",
   coordinates |-> "coordinates"]
RowSlots == DOMAIN KindOf
IdSlots == {"starts", "ends", "roots", "via", "methods", "forbidden"}

\* WithPointsDerivedKeys
OfPointsKey(e, p) == <<"of_points", e, p>>
\* Mutant of NoPointsKey: both derived edge queries get the same key.
SameKey(e, p) == <<"of_points", e, p>>

NoPointsKey(e, p) == <<"no_points", e, p>>

RegistryKey(slot, r) ==
  CASE slot = "edges" -> <<r.edges_sql>>
    [] slot = "combinations" -> <<r.combinations_sql>>
    [] slot = "points" -> <<r.points_sql>>
    [] slot = "edges_of_points" -> OfPointsKey(r.edges_sql, r.points_sql)
    [] slot = "edges_no_points" -> NoPointsKey(r.edges_sql, r.points_sql)
    [] slot = "restrictions" -> <<r.restrictions_sql>>
    [] slot = "matrix" -> <<r.matrix_sql>>
    [] slot = "coordinates" -> <<r.coordinates_sql>>

\* Mutant of BindInputSlots: the id lists' columns are not checked.
BindRowSlots(row) ==
  /\ "edges" \in DOMAIN row
  /\ \A slot \in RowSlots \cap DOMAIN row : row[slot].type \in {"NULL", "rows"}

\* Every column is of a type its slot can read, and 'edges' is there.
BindInputSlots(row) ==
  /\ "edges" \in DOMAIN row
  /\ \A slot \in RowSlots \cap DOMAIN row : row[slot].type \in {"NULL", "rows"}
  /\ \A slot \in IdSlots \cap DOMAIN row : row[slot].type \in {"NULL", "ids"}

\* Mutant of BindCheck: a call with a NULL argument is checked like any other.
CheckedAnyway(r) == CheckRequest(r)

BindCheck(r) == IF query.null_input THEN "no_rows" ELSE CheckRequest(r)

ExecBind ==
  LET r == ReadRequestParameters(query.args)
      refused == \/ r.driver \notin DRIVERS
                 \/ r.driver \notin TakesPoints /\ r.points_sql # Blank
                 \/ ~BindInputSlots(query.row) IN
  /\ pc = "bind"
  /\ IF refused \/ BindCheck(r) = "error"
     THEN Finish("error") /\ UNCHANGED <<request, no_rows>>
     ELSE /\ request' = r
          /\ no_rows' = (BindCheck(r) = "no_rows")
          /\ pc' = "run"
          /\ UNCHANGED outcome
  /\ UNCHANGED <<callVars, query, ids, registry, fetched>>

----------------------------------------------------------------------------
\* exec_function.cpp: RunOnce, over the row as DuckDB computed it.

\* What list(row) gave for each list of rows: NULL where its query has none,
\* and for restrictions perhaps a row whose path is NULL or empty.
Cell(slot) ==
  IF query.row[slot].type = "NULL" THEN {"NULL"}
  ELSE IF slot = "restrictions" THEN {"NULL", "rows", "pathless"} ELSE {"NULL", "rows"}

ListsOfRows == RowSlots \cap DOMAIN query.row
ListsOfIds == {slot \in IdSlots \cap DOMAIN query.row : query.row[slot].value # NULL}

\* Mutant of NullId: ReadIdList does not look at an element's validity.
NoNullId == FALSE

NullId == \E slot \in ListsOfIds : NULL \in Range(query.row[slot].value)

\* Unpack and EmptyInput: a list is registered, a list of no rows with its
\* columns only.  An untyped NULL column is not.
Registered == {slot \in ListsOfRows : query.row[slot].type = "rows"}
KeyOf(slot) == <<RegistryKey(slot, request), KindOf[slot]>>

\* Mutant of Inputs: a list of no rows is not registered (no EmptyInput).
InputsWithRows(cells) ==
  [key \in {KeyOf(slot) : slot \in {s \in Registered : cells[s] # "NULL"}} |->
     LET slot == CHOOSE s \in Registered : KeyOf(s) = key IN
     [query |-> query.row[slot].value, cell |-> cells[slot]]]

Inputs(cells) ==
  [key \in {KeyOf(slot) : slot \in Registered} |->
     LET slot == CHOOSE s \in Registered : KeyOf(s) = key IN
     [query |-> query.row[slot].value, cell |-> cells[slot]]]

MaterializeInputSlots(cells) ==
  /\ ids' = [slot \in ListsOfIds |-> query.row[slot].value]
  /\ registry' = Inputs(cells)

RegisteredTwice ==
  \E s, t \in Registered : s # t /\ KeyOf(s) = KeyOf(t)

\* drivers_trsp.cpp: the turn-restricted path driver is not given such a path.
RestrictionsKey == <<<<request.restrictions_sql>>, "restrictions">>

\* Mutant of RefuseEmptyRestrictionPaths: a query with no restrictions is refused too.
RefuseNoRestrictions(lists) ==
  IF request.driver # "TURN_RESTRICTED_PATH" THEN "run"
  ELSE IF RestrictionsKey \notin DOMAIN lists THEN "no_such_input"
  ELSE IF lists[RestrictionsKey].cell = "rows" THEN "run" ELSE "error"

RefuseEmptyRestrictionPaths(lists) ==
  IF request.driver # "TURN_RESTRICTED_PATH" THEN "run"
  ELSE IF RestrictionsKey \notin DOMAIN lists THEN "no_such_input"
  ELSE IF lists[RestrictionsKey].cell = "pathless" THEN "error" ELSE "run"

Unreadable ==
  \/ \E slot \in ListsOfRows : query.row[slot].type \notin {"NULL", "rows"}
  \/ \E slot \in ListsOfIds : query.row[slot].type # "ids"

RunOnce ==
  /\ pc = "run"
  /\ \E cells \in [ListsOfRows -> {"NULL", "rows", "pathless"}] :
       /\ \A slot \in ListsOfRows : cells[slot] \in Cell(slot)
       /\ Cardinality({slot \in ListsOfRows : query.row[slot].type = "rows" /\ cells[slot] = "NULL"}) <= MaxEmpty
       /\ CASE query.rows # 1 -> Finish("error") /\ UNCHANGED <<ids, registry>>
            [] query.rows = 1 /\ no_rows -> Finish("no_rows") /\ UNCHANGED <<ids, registry>>
            [] query.rows = 1 /\ ~no_rows /\ Unreadable ->
                 Finish("misread_column") /\ UNCHANGED <<ids, registry>>
            [] query.rows = 1 /\ ~no_rows /\ ~Unreadable /\ (NullId \/ RegisteredTwice) ->
                 Finish("error") /\ UNCHANGED <<ids, registry>>
            [] OTHER ->
                 /\ MaterializeInputSlots(cells)
                 /\ LET refused == RefuseEmptyRestrictionPaths(Inputs(cells)) IN
                    IF refused = "run" THEN pc' = "driver" /\ UNCHANGED outcome ELSE Finish(refused)
  /\ UNCHANGED <<callVars, query, request, no_rows, fetched>>

----------------------------------------------------------------------------
\* The driver looks its inputs up, by the texts it is passed (drivers_*.cpp).

CombinationDrivers ==
  {"SHORTEST_PATH", "BD_DIJKSTRA", "BELLMAN_FORD", "EDWARD_MOORE", "DAG_SHORTEST_PATH", "BINARY_BFS",
   "ASTAR", "BD_ASTAR", "KSP", "WITH_POINTS_KSP", "TRSP", "TRSP_WITH_POINTS", "MAX_FLOW",
   "MIN_COST_MAX_FLOW", "EDGE_DISJOINT_PATHS"}
RestrictionDrivers == {"TRSP", "TRSP_WITH_POINTS", "TRSP_VIA", "TRSP_VIA_WITH_POINTS", "TURN_RESTRICTED_PATH"}

\* do_shortestPath derives the two edge queries itself, where it is given points.
PassesPoints(r) == r.driver \in TakesPoints /\ (r.driver = "SHORTEST_PATH" => r.points_sql # Blank)

\* CombinationsOrNull: without the query the vertex arrays are read.
PassesCombinations(r) == r.driver \in CombinationDrivers /\ r.combinations_sql # Blank

Lookups(r) ==
  LET graph ==
        CASE r.driver = "TSP" -> {<<<<r.matrix_sql>>, "matrix">>}
          [] r.driver = "EUCLIDEAN_TSP" -> {<<<<r.coordinates_sql>>, "coordinates">>}
          [] PassesPoints(r) ->
               {<<OfPointsKey(r.edges_sql, r.points_sql), "edges">>,
                <<NoPointsKey(r.edges_sql, r.points_sql), "edges">>, <<<<r.points_sql>>, "points">>}
          [] OTHER -> {<<<<r.edges_sql>>, "edges">>}
      combinations == IF PassesCombinations(r) THEN {<<<<r.combinations_sql>>, "combinations">>} ELSE {}
      restrictions == IF r.driver \in RestrictionDrivers THEN {<<<<r.restrictions_sql>>, "restrictions">>} ELSE {} IN
  graph \cup combinations \cup restrictions

\* A driver stops early only where an input it has found has no rows.
Complete(found) == found = Lookups(request) \/ \E key \in found : registry[key].cell = "NULL"

\* RunDriver, seen from its inputs: a lookup that finds none is an error of its own, and
\* so is an assertion of pgRouting that fails, the one error text of a driver that is
\* raised as an InternalException.
RunDriver ==
  /\ pc = "driver"
  /\ LET missing == Lookups(request) \ DOMAIN registry IN
     \/ /\ missing # {}
        /\ \E found \in SUBSET (Lookups(request) \ missing) : fetched' = found
        /\ Finish("no_such_input")
     \/ \E found \in SUBSET (Lookups(request) \ missing), how \in {"rows", "driver_failed", "driver_assertion"} :
          /\ how = "rows" => Complete(found)
          /\ fetched' = found
          /\ Finish(how)
  /\ UNCHANGED <<callVars, query, request, no_rows, ids, registry>>

Next ==
  \/ CallOverload \/ WriteArgument \/ NameArgument \/ SpecBindReplace \/ CallExec
  \/ ExecBind \/ RunOnce \/ RunDriver

Spec == Init /\ [][Next]_vars

----------------------------------------------------------------------------
\* What the constants are: rows of the tables, values and rows of columns.

ValuesOf(type) ==
  CASE type = "BOOLEAN" -> BOOLEAN
    [] type \in {"INTEGER", "BIGINT", "DOUBLE"} -> Int
    [] type \in {"INTEGER_LIST", "BIGINT_LIST"} -> Seq(Int)
    [] OTHER -> {}

\* A table row agrees with the rest of the extension, which is tested at load.
CheckSpec(s) ==
  /\ \A n \in DOMAIN s.optionals :
       LET param == s.optionals[n] IN
       /\ param.request_field \in IF IsListType(param.type) THEN IdSlots ELSE DOMAIN DriverRequest
       /\ param.default \in ValuesOf(param.type)
  /\ s.flags.projection \in {"COST", "COST_SORTED", "COST_OF_PATH"} => ShapeOf(s.flags.driver) = "PATH"
  /\ s.flags.projection = "EDGE_COST" => ShapeOf(s.flags.driver) = "MST"
  /\ s.scalar => /\ s.flags.projection = "COLUMNS"
                 /\ Range(s.args) \subseteq {"EDGES_SQL", "COMBINATIONS_SQL", "START_VID", "START_VIDS",
                                            "END_VID", "END_VIDS"}

\* A value that no check of CheckRequest or RunOnce refuses.
Accepted(kind, v) ==
  CASE kind = "heuristic" -> v \in 0 .. 5
    [] kind = "factor" -> v > 0
    [] kind = "epsilon" -> v >= 1
    [] kind \in {"DISTANCE", "K", "max_depth"} -> v >= 0
    [] kind = "DRIVING_SIDE" -> v # <<>> /\ Head(v) \in {"r", "l", "b", "R", "L", "B"}
    [] kind \in IdKinds -> v \in Int
    [] kind \in ListKinds \cup IdSlots -> v \in Seq(Int)
    [] OTHER -> TRUE

\* What CheckSpec leaves to the tables.  No kind of argument or parameter is there
\* twice, two required arguments fill no column together, and no defaulted parameter
\* sets what an argument or the overload sets, nor has a default that is refused.
Consistent(s) ==
  LET takes(kind) == \E n \in DOMAIN s.args : s.args[n] = kind IN
  /\ s.args \in Seq(ArgKinds)
  /\ s.optionals \in Seq(Range(s.optionals))
  /\ \A m, n \in DOMAIN s.args : s.args[m] = s.args[n] => m = n
  /\ \A column \in DOMAIN ColumnKinds : \A k, l \in ColumnKinds[column] : takes(k) /\ takes(l) => k = l
  /\ \A m, n \in DOMAIN s.optionals :
       \/ s.optionals[m].name = s.optionals[n].name
       \/ s.optionals[m].request_field = s.optionals[n].request_field
       => m = n
  /\ \A n \in DOMAIN s.optionals :
       LET param == s.optionals[n] IN
       /\ param.request_field \notin {ParameterOf[kind] : kind \in DOMAIN ParameterOf}
       /\ param.request_field \notin DOMAIN ColumnKinds
       /\ param.request_field \notin {"driver", "algorithm", "only_cost"}
       /\ Accepted(param.request_field, param.default)
  /\ s.flags.driver # NULL
  /\ s.flags.contraction_method \in Nat

\* An overload takes the queries its driver looks up, and what it is checked for.
FitsDriver(s) ==
  LET takes(kind) == \E n \in DOMAIN s.args : s.args[n] = kind
      driver == s.flags.driver IN
  /\ takes("EDGES_SQL") <=> driver \notin {"TSP", "EUCLIDEAN_TSP"}
  /\ takes("MATRIX_SQL") <=> driver = "TSP"
  /\ takes("COORDINATES_SQL") <=> driver = "EUCLIDEAN_TSP"
  /\ takes("RESTRICTIONS_SQL") <=> driver \in RestrictionDrivers
  /\ takes("COMBINATIONS_SQL") => driver \in CombinationDrivers
  /\ takes("POINTS_SQL") => driver \in TakesPoints
  /\ driver \in TakesPoints \ {"SHORTEST_PATH"} =>
       takes("POINTS_SQL") /\ (takes("DRIVING_SIDE") \/ s.flags.driving_side = "FROM_DIRECTED")
  /\ ~(takes("DRIVING_SIDE") /\ s.flags.driving_side = "FROM_DIRECTED")
  /\ driver \in DRIVERS
  /\ s.flags.algorithm \in 1 .. 3

\* Costs alone are selected of a cost run, or of the closing rows of paths; no overload
\* that caps its goals, or lets the caller cap them, is a cost run.
FitsProjection(s) ==
  /\ s.flags.only_cost \in BOOLEAN
  /\ s.flags.n_goals \in Nat
  /\ s.flags.projection \in {"COST", "COST_SORTED"} => s.flags.only_cost
  /\ s.flags.n_goals # 0 => ~s.flags.only_cost
  /\ \A n \in DOMAIN s.optionals : s.optionals[n].request_field = "n_goals" => ~s.flags.only_cost

ASSUME SpecsAssumption ==
  /\ NoSpec \notin Specs
  /\ \A s \in Specs : CheckSpec(s) /\ Consistent(s) /\ FitsDriver(s) /\ FitsProjection(s)

\* The SQL NULL is none of the other values.
ASSUME ValuesAssumption ==
  /\ NULL \notin Texts \cup BOOLEAN \cup Int \cup Seq(Int)
  /\ Blank \notin Texts
  /\ ArgKinds \cup UNION {{s.optionals[n].request_field : n \in DOMAIN s.optionals} : s \in Specs}
       \subseteq DOMAIN Plain
  /\ \A kind \in SqlKinds : Plain[kind] \cup Odd[kind] \subseteq Texts \cup {NULL}
  /\ \A kind \in IdKinds : Plain[kind] \cup Odd[kind] \subseteq Int \cup {NULL}
  /\ \A kind \in ListKinds \cup {"methods", "forbidden"} :
       Plain[kind] \cup Odd[kind] \subseteq Seq(Int \cup {NULL}) \cup {NULL}
  /\ \A v \in (Plain["DRIVING_SIDE"] \cup Odd["DRIVING_SIDE"]) \ {NULL} :
       <<FromValue("driving_side", v)>> # NULL
  /\ NULL \notin {<<"r">>, <<"b">>}

\* A column of a direct call that has no type holds a NULL, one of ids a list of them.
ASSUME DirectCallsAssumption ==
  \A q \in DirectCalls : \A slot \in DOMAIN q.row :
    /\ q.row[slot].type = "NULL" => q.row[slot].value = NULL
    /\ q.row[slot].type = "ids" => q.row[slot].value \in Seq(Int \cup {NULL}) \cup {NULL}

----------------------------------------------------------------------------
\* Properties

Public == spec # NoSpec
AtDriver == pc = "driver"

\* TypeOK: a driver's id lists hold ids only, and what it has found is registered.
TypeOK ==
  /\ pc \in {"idle", "call", "bind", "run", "driver", "done"}
  /\ spec \in Specs \cup {NoSpec}
  /\ DOMAIN request = DOMAIN DriverRequest
  /\ no_rows \in BOOLEAN
  /\ DOMAIN ids \subseteq IdSlots
  /\ \A slot \in DOMAIN ids : \A n \in DOMAIN ids[slot] : ids[slot][n] \in Int
  /\ fetched \subseteq DOMAIN registry
  /\ outcome \in {"none", "rows", "no_rows", "error", "no_such_input", "misread_column",
                 "driver_failed", "driver_assertion"}

\* The queries a public call gives, each with the kind it is read as.
GivenInputs ==
  LET e == Argument("EDGES_SQL")
      p == Argument("POINTS_SQL")
      Given1(kind, as) == IF Takes(kind) THEN {<<<<Argument(kind)>>, as>>} ELSE {} IN
  (IF Takes("POINTS_SQL")
   THEN {<<<<"of_points", e, p>>, "edges">>, <<<<"no_points", e, p>>, "edges">>, <<<<p>>, "points">>}
   ELSE Given1("EDGES_SQL", "edges"))
    \cup Given1("COMBINATIONS_SQL", "combinations") \cup Given1("RESTRICTIONS_SQL", "restrictions")
    \cup Given1("MATRIX_SQL", "matrix") \cup Given1("COORDINATES_SQL", "coordinates")

\* InputsArrive: a public call's driver looks up every query the caller gave and
\* no other, and finds each registered, over the rows of the query it asks for,
\* even where that has no rows or two arguments are the same text
\* (input_registry.cpp: "no input registered").  A combinations query not passed on
\* would silently leave the driver to its empty vertex arrays (CombinationsOrNull).
InputsArrive ==
  Public =>
    /\ outcome # "no_such_input"
    /\ AtDriver =>
         /\ Lookups(request) = GivenInputs
         /\ \A key \in Lookups(request) : key \in DOMAIN registry /\ registry[key].query = key[1]

\* StrictNulls: a NULL argument, positional or named, gives no rows: the driver
\* is not called and no check of another argument raises
\* (spec_functions.cpp: upstream declares every overload STRICT).
HasNull ==
  (\E n \in DOMAIN inputs : inputs[n] = NULL) \/ (\E name \in DOMAIN named : named[name] = NULL)
StrictNulls == Public /\ HasNull => ~AtDriver /\ outcome \in {"none", "no_rows"}

\* CheckedFirst: no driver, of a public or a direct call, runs with a parameter
\* its C entry would have refused: a negative K would become a huge size_t, an
\* unknown side reach the points code, an epsilon below one or a negative depth or
\* distance run to rows upstream never gives, an algorithm past the third run none.
CheckedFirst ==
  AtDriver =>
    /\ request.driver \in DRIVERS
    /\ request.driver \in {"KSP", "WITH_POINTS_KSP", "TURN_RESTRICTED_PATH"} => request.k >= 0
    /\ request.driver \in TakesPoints \ {"SHORTEST_PATH"} => request.driving_side \in {"r", "R", "l", "L", "b", "B"}
    /\ request.driver \in {"DRIVING_DISTANCE", "WITH_POINTS_DD"} => request.distance >= 0
    /\ request.driver \in {"BREADTH_FIRST_SEARCH", "DEPTH_FIRST_SEARCH"} => request.max_depth >= 0
    /\ request.driver \in {"KRUSKAL", "PRIM"} =>
         CASE request.mst_suffix = "DD" -> request.distance >= 0
           [] request.mst_suffix \in {"BFS", "DFS"} -> request.max_depth >= 0
           [] OTHER -> TRUE
    /\ request.driver = "CONTRACTION" => request.cycles >= 1
    /\ request.driver \in {"ASTAR", "BD_ASTAR"} =>
         request.heuristic \in 0 .. 5 /\ request.factor > 0 /\ request.epsilon >= 1
    /\ request.driver = "MAX_FLOW" => request.algorithm \in 1 .. 3
    /\ request.driver = "TURN_RESTRICTED_PATH" =>
         registry[RestrictionsKey].cell # "pathless"

\* OnlyAssertionsAreInternal: of the two InternalExceptions that hang on what a call is
\* given, either of which invalidates the whole database, no call ends in the one for a
\* column read as a type it does not have (input_slots.cpp, BindInputSlots), so a failed
\* assertion of pgRouting is the only one left (exec_common.cpp; docs/BACKLOG.md:
\* "only remaining path that can invalidate the whole DuckDB instance").
OnlyAssertionsAreInternal ==
  outcome \in {"misread_column", "driver_assertion"} => outcome = "driver_assertion"

\* What a caller may be told of its own arguments and rows: a value other than NULL
\* that its check refuses (a list with a NULL id among them), and a restriction without
\* a path, which the turn-restricted driver is not given.
Refused(kind, v) == v # NULL /\ ~Accepted(kind, v)
RefusedArgument ==
  \/ \E n \in DOMAIN inputs : Refused(KindAt(n), inputs[n])
  \/ \E n \in 1 .. Len(spec.optionals) :
       LET param == spec.optionals[n] IN
       param.name \in DOMAIN named /\ Refused(param.request_field, named[param.name])
PathlessRestriction ==
  /\ request.driver = "TURN_RESTRICTED_PATH"
  /\ RestrictionsKey \in DOMAIN registry
  /\ registry[RestrictionsKey].cell = "pathless"

\* ErrorsAreTheCallers: a public call fails before its driver only for an argument of
\* its caller that is refused or a restriction without a path among the rows the caller's
\* query gave; never by the wiring between the spec table, _pgr_exec and the registry,
\* which would also be to blame for a column misread.
ErrorsAreTheCallers ==
  /\ OnlyAssertionsAreInternal
  /\ Public /\ outcome = "error" => RefusedArgument \/ PathlessRestriction

\* ParametersArrive: through the rewrite, the arguments of _pgr_exec and the
\* reading of them, a required parameter has the value of its argument (a side, its
\* first character), a defaulted one given once the value given, and one not given
\* its default.
ParametersArrive ==
  Public /\ AtDriver =>
    /\ \A n \in 1 .. Len(spec.optionals) :
         LET param == spec.optionals[n]
             value == IF IsListType(param.type) THEN ids[param.request_field] ELSE request[param.request_field]
             positional == Required + n <= Given
             by_name == param.name \in DOMAIN named IN
         /\ positional /\ ~by_name => value = inputs[Required + n]
         /\ by_name /\ ~positional => value = named[param.name]
         /\ ~positional /\ ~by_name => value = param.default
    /\ \A kind \in DOMAIN ParameterOf : Takes(kind) =>
         request[ParameterOf[kind]] = FromValue(ParameterOf[kind], Argument(kind))
    /\ spec.flags.driving_side = "FROM_DIRECTED" => request.driving_side = IF request.directed THEN "r" ELSE "b"

\* OneRowPerPair: what an overload selects fits how its driver ran: costs alone
\* come of a cost run or of each path's closing row, and a run capped to the
\* nearest n goals is never a cost run, whose totals pgRouting leaves
\* uninitialized (function_spec.hpp, COST_OF_PATH).
OneRowPerPair ==
  Public /\ AtDriver =>
    /\ spec.flags.projection \in {"COST", "COST_SORTED"} => request.only_cost
    /\ request.n_goals # 0 => ~request.only_cost
    /\ spec.flags.projection \in {"COST", "COST_SORTED", "COST_OF_PATH"} => ShapeOf(request.driver) = "PATH"
    /\ spec.flags.projection = "EDGE_COST" => ShapeOf(request.driver) = "MST"

\* Unambiguous: of all variants registered under a name, the types of a call's
\* positional arguments fit the one called only.
Unambiguous ==
  Public /\ pc = "bind" =>
    \A other \in {s \in Specs : s.name = spec.name /\ s # spec} :
      \A positional \in 0 .. Len(other.optionals) :
        Types(other, positional) # Types(spec, Given - Required)
=============================================================================
