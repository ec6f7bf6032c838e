----------------------------- MODULE TemplateCall -----------------------------
(***************************************************************************)
(* A call of a template function (src/functions/degree.cpp,                *)
(* extract_vertices.cpp, find_close_edges.cpp over sql_template.cpp): at   *)
(* bind time the function reads its arguments, learns the columns of the   *)
(* caller's queries and replaces itself by one of the fixed texts of       *)
(* TemplateText, which runs later.  Whether spatial is loaded and may be   *)
(* autoloaded belongs to the database, which other connections use too.    *)
(* What binding a query of the caller does by itself, as autoloading what  *)
(* the query calls, is the caller's and is not looked at.                  *)
(***************************************************************************)
EXTENDS TemplateText

CONSTANTS
  Absent,       \* an optional argument that is not given
  Calls,        \* the calls considered
  EdgeTables,   \* what an edge query of vertex ids or points may give
  VertexTables, \* what a vertex query may give, besides extracted vertices
  LineTables,   \* the lines an edge query near points may give
  PointLists    \* the points they are near to

\* What a query or an argument of each function may have.
QueryColumns(function) ==
  CASE function = "extract" -> {"id", "source", "target", "geom", "startpoint", "endpoint"}
    [] function = "degree_edges" -> {"id", "source", "target"}
    [] function = "degree_vertices" -> {"edge_id", "id", "in_edges", "out_edges"}
    [] function = "close" -> {"id", "geom"}

\* The caller's queries.
Queries(function) ==
  {"edges_sql"} \cup (IF function = "degree_vertices" THEN {"vertices_sql"} ELSE {})

ASSUME TemplateAssumption ==
  /\ Null \notin Calls
  /\ \A c \in Calls :
       /\ c.function \in {"extract", "degree_edges", "degree_vertices", "close"}
       /\ c.columns \in [QueryColumns(c.function) -> {"absent", "right", "wrong"}]
       /\ c.unread \subseteq Queries(c.function)
       /\ c.tolerance \in Int
  /\ \A edges \in EdgeTables :
       edges \in Seq([id : Int, source : {Null} \cup Int, target : {Null} \cup Int])
  /\ \A vertices \in VertexTables :
       vertices \in Seq([at : {Null} \cup Int, id : {Null} \cup Int,
                         in_edges : {Null} \cup Seq(Int), out_edges : {Null} \cup Seq(Int)])
  /\ \A lines \in LineTables :
       /\ IsFiniteSet(lines) /\ lines \subseteq [id : Int, y : Int, from : Int, to : Int]
       /\ \A line, other \in lines : line.id = other.id => line = other
  /\ \A points \in PointLists : points \in Seq([x : Int, y : Int])

VARIABLES
  phase,    \* of the call: "idle", "called", "bound", "answered", "refused"
  call,     \* the call
  text,     \* the text it was replaced by, or that dryrun logged, or "none"
  logged,   \* whether dryrun logged the text
  error,    \* why the call was refused, or <<>>
  tables,   \* what the queries and points of the call gave when the text ran
  answer,   \* the rows of the call
  spatial,  \* whether spatial is loaded
  autoload  \* autoload_known_extensions

NoTables == [x \in {} |-> x]

bind == <<text, logged, error>>
run  == <<tables, answer>>
vars == <<phase, call, bind, run, spatial, autoload>>

-----------------------------------------------------------------------------
(* Arguments. *)

\* The defaulted parameters, in order, and the one default that is not FALSE.
Optional(c) == IF c.function = "close" THEN <<"cap", "dryrun">> ELSE <<"dryrun">>
Default(parameter) == IF parameter = "cap" THEN 1 ELSE FALSE

\* The overloads take no, one or all optional parameters by position; each of them
\* takes any by name.
Registered(c) ==
  /\ Len(c.by_position) <= Len(Optional(c))
  /\ DOMAIN c.by_name \subseteq Rows(Optional(c))

Positional(c, parameter) ==
  LET at == {i \in DOMAIN c.by_position : Optional(c)[i] = parameter}
  IN  IF at = {} THEN Absent ELSE c.by_position[CHOOSE i \in at : TRUE]
Named(c, parameter) ==
  IF parameter \in DOMAIN c.by_name THEN c.by_name[parameter] ELSE Absent

\* A named value overrides the positional one.
Value(c, parameter) ==
  IF Named(c, parameter) # Absent THEN Named(c, parameter)
  ELSE IF Positional(c, parameter) # Absent THEN Positional(c, parameter)
  ELSE Default(parameter)

\* cap is registered as an INTEGER.
ASSUME CapAssumption ==
  \A c \in Calls : c.function = "close" =>
    {Positional(c, "cap"), Named(c, "cap")} \subseteq Int \cup {Null, Absent}

Dryrun(c) == Value(c, "dryrun") = TRUE

\* STRICT: a NULL argument, by position or by name.
NullInput(c) ==
  \/ c.null_required
  \/ \E i \in DOMAIN c.by_position : c.by_position[i] = Null
  \/ \E parameter \in DOMAIN c.by_name : c.by_name[parameter] = Null

-----------------------------------------------------------------------------
(* Checks, in the order of the code: each function is refused at its first. *)

\* A query that is no single SELECT, or does not bind.
BindColumns(c, query) == [bad |-> query \in c.unread, error |-> <<"query", query>>]

\* Mutant of Mistyped: a dryrun checks the types, too.
MistypedAlways(c, column) == [bad |-> c.columns[column] = "wrong", error |-> <<"type", column>>]

Has(c, column)      == c.columns[column] # "absent"
Missing(c, column)  == [bad |-> ~Has(c, column), error |-> <<"missing", column>>]
Mistyped(c, column) == [bad |-> ~Dryrun(c) /\ c.columns[column] = "wrong",
                        error |-> <<"type", column>>]
RequireColumn(c, column) == <<Missing(c, column), Mistyped(c, column)>>

\* Mutant of Partner: startpoint alone is enough.
PartnerOfIds(c, one, other) ==
  [bad |-> ~Has(c, "geom") /\ one \in {"source", "target"} /\ Has(c, one) /\ ~Has(c, other),
   error |-> <<"missing", other>>]

\* A column that needs another one, unless there is geom.
Partner(c, one, other) ==
  [bad |-> ~Has(c, "geom") /\ Has(c, one) /\ ~Has(c, other), error |-> <<"missing", other>>]

\* edge_id is the id of the first of pgr_degree's two queries.
Checks(c) ==
  CASE c.function = "degree_edges" ->
         <<BindColumns(c, "edges_sql")>>
         \o RequireColumn(c, "id") \o RequireColumn(c, "source") \o RequireColumn(c, "target")
    [] c.function = "degree_vertices" ->
         <<BindColumns(c, "edges_sql")>> \o RequireColumn(c, "edge_id")
         \o <<BindColumns(c, "vertices_sql")>> \o RequireColumn(c, "id")
         \o <<Mistyped(c, "in_edges"), Mistyped(c, "out_edges"),
              [bad |-> ~Has(c, "in_edges") /\ ~Has(c, "out_edges"),
               error |-> <<"missing", "in_edges">>]>>
    [] c.function = "extract" ->
         <<BindColumns(c, "edges_sql"),
           Mistyped(c, "id"), Mistyped(c, "source"), Mistyped(c, "target"),
           Mistyped(c, "geom"), Mistyped(c, "startpoint"), Mistyped(c, "endpoint"),
           Partner(c, "target", "source"), Partner(c, "source", "target"),
           Partner(c, "startpoint", "endpoint"), Partner(c, "endpoint", "startpoint"),
           [bad |-> ~Has(c, "geom") /\ ~Has(c, "source") /\ ~Has(c, "startpoint"),
            error |-> <<"missing", "geom">>]>>
    [] c.function = "close" ->
         <<[bad |-> c.tolerance < 0, error |-> <<"value", "tolerance">>],
           [bad |-> Value(c, "cap") < 0, error |-> <<"value", "cap">>],
           BindColumns(c, "edges_sql")>>
         \o RequireColumn(c, "id") \o RequireColumn(c, "geom")

Failures(c) == {n \in DOMAIN Checks(c) : Checks(c)[n].bad}

\* Upstream's precedence: geom, then startpoint and endpoint, then source and target.
TextOf(c) ==
  CASE c.function = "degree_edges" -> "from_edges"
    [] c.function = "degree_vertices" ->
         IF Has(c, "in_edges") /\ Has(c, "out_edges") THEN "in_and_out"
         ELSE IF Has(c, "in_edges") THEN "in_only" ELSE "out_only"
    [] c.function = "extract" ->
         IF Has(c, "geom") THEN IF Has(c, "id") THEN "geom_with_id" ELSE "geom"
         ELSE IF Has(c, "startpoint") THEN IF Has(c, "id") THEN "points_with_id" ELSE "points"
         ELSE IF Has(c, "id") THEN "source_target_with_id" ELSE "source_target"
    [] c.function = "close" -> "close_edges"

Geometric(t) == Columns(t) \cap {"geom", "startpoint"} # {}

-----------------------------------------------------------------------------
(* The database. *)

Init ==
  /\ phase = "idle"
  /\ call = Null
  /\ text = "none" /\ logged = FALSE /\ error = <<>>
  /\ tables = NoTables /\ answer = {}
  /\ spatial = FALSE
  /\ autoload \in BOOLEAN

\* Another connection loads spatial, or changes the setting.
LoadSpatial ==
  /\ ~spatial
  /\ spatial' = TRUE
  /\ UNCHANGED <<phase, call, bind, run, autoload>>

SetAutoload ==
  /\ autoload' = ~autoload
  /\ UNCHANGED <<phase, call, bind, run, spatial>>

-----------------------------------------------------------------------------
(* bind_replace: one of five ways a call is bound. *)

Call ==
  /\ phase = "idle"
  /\ phase' = "called"
  /\ call' \in Calls
  /\ Registered(call')
  /\ UNCHANGED <<bind, run, spatial, autoload>>

\* Mutant of EmptyResult: the call is still to run.
EmptyText == phase' = "bound" /\ answer' = {}

\* EMPTY_RESULT: the call is replaced by a text without rows.
EmptyResult == phase' = "answered" /\ answer' = {}

\* Before anything else is looked at.
BindNull ==
  /\ phase = "called"
  /\ NullInput(call)
  /\ EmptyResult
  /\ UNCHANGED <<call, bind, tables, spatial, autoload>>

BindRefused ==
  /\ phase = "called"
  /\ ~NullInput(call)
  /\ phase' = "refused"
  /\ \E first \in Failures(call) :
       /\ \A n \in Failures(call) : first <= n
       /\ error' = Checks(call)[first].error
  /\ UNCHANGED <<call, text, logged, run, spatial, autoload>>

\* LogDryrun, without asking for spatial.
BindDryrun ==
  /\ phase = "called"
  /\ ~NullInput(call) /\ Failures(call) = {}
  /\ Dryrun(call)
  /\ EmptyResult
  /\ text' = TextOf(call)
  /\ logged' = TRUE
  /\ UNCHANGED <<call, error, tables, spatial, autoload>>

\* Mutant of MayAutoload: TryAutoLoadExtension ignores the setting.
AutoloadAnyway(on) == TRUE

MayAutoload(on) == on

\* RequireSpatial: loaded already, or loaded now, or an error.
BindText ==
  /\ phase = "called"
  /\ ~NullInput(call) /\ Failures(call) = {}
  /\ ~Dryrun(call)
  /\ \/ /\ Geometric(TextOf(call)) => spatial
        /\ phase' = "bound" /\ text' = TextOf(call)
        /\ UNCHANGED <<error, spatial>>
     \/ /\ Geometric(TextOf(call)) /\ ~spatial
        /\ MayAutoload(autoload)
        /\ spatial' = TRUE
        /\ phase' = "bound" /\ text' = TextOf(call)
        /\ UNCHANGED error
     \/ /\ Geometric(TextOf(call)) /\ ~spatial
        /\ phase' = "refused" /\ error' = <<"spatial", call.function>>
        /\ UNCHANGED <<text, spatial>>
  /\ UNCHANGED <<call, logged, run, autoload>>

-----------------------------------------------------------------------------
(* The text runs. *)

\* The vertices that pgr_extractVertices gives for the edges, in their order.
Extracted(edges) ==
  LET vertices == ExtractVertices("source_target_with_id", edges)
  IN  [k \in 1 .. Cardinality(vertices) |->
         CHOOSE v \in vertices : Cardinality({w \in vertices : Before(w, v)}) = k - 1]

RunExtractVertices ==
  \E edges \in EdgeTables :
    /\ tables' = [edges |-> edges]
    /\ answer' = ExtractVertices(text, edges)

RunDegreeFromEdges ==
  \E edges \in EdgeTables :
    /\ tables' = [edges |-> edges]
    /\ answer' = DegreeFromEdges(edges)

RunDegreeFromVertices ==
  \E edges \in EdgeTables : \E vertices \in VertexTables \cup {Extracted(edges)} :
    /\ tables' = [edges |-> edges, vertices |-> vertices]
    /\ answer' = DegreeFromVertices(text, edges, vertices)

RunFindCloseEdges ==
  \E lines \in LineTables, points \in PointLists :
    /\ tables' = [lines |-> lines, points |-> points]
    /\ answer' = FindCloseEdges(lines, points, call.tolerance, Value(call, "cap"))

Run ==
  /\ phase = "bound"
  /\ phase' = "answered"
  /\ \/ call.function = "extract" /\ RunExtractVertices
     \/ call.function = "degree_edges" /\ RunDegreeFromEdges
     \/ call.function = "degree_vertices" /\ RunDegreeFromVertices
     \/ call.function = "close" /\ RunFindCloseEdges
  /\ UNCHANGED <<call, bind, spatial, autoload>>

\* The connection goes on to its next call.
Return ==
  /\ phase \in {"answered", "refused"}
  /\ phase' = "idle"
  /\ call' = Null
  /\ text' = "none" /\ logged' = FALSE /\ error' = <<>>
  /\ tables' = NoTables /\ answer' = {}
  /\ UNCHANGED <<spatial, autoload>>

Next ==
  \/ Call \/ BindNull \/ BindRefused \/ BindDryrun \/ BindText \/ Run \/ Return
  \/ LoadSpatial \/ SetAutoload

Spec == Init /\ [][Next]_vars

-----------------------------------------------------------------------------
(* Properties. *)

\* The call that is answered has run, and is one of this function.
Ran(function) == phase = "answered" /\ tables # NoTables /\ call.function = function

\* The phases, and what each of them has.
TypeOK ==
  /\ phase \in {"idle", "called", "bound", "answered", "refused"}
  /\ (phase = "idle") = (call = Null)
  /\ phase = "bound" => text # "none"
  /\ (phase = "refused") = (error # <<>>)
  /\ answer # {} => tables # NoTables
  /\ tables # NoTables => phase = "answered" /\ text # "none"
  /\ {logged, spatial, autoload} \subseteq BOOLEAN

\* A call with a NULL argument has no rows and no error, whatever else is wrong with
\* it; a dryrun has no rows and its text logged, and is refused only for values, queries
\* that do not bind and missing columns, never for a type or for want of spatial; every other call that
\* is not refused runs (extract_vertices.cpp: "a STRICT call with a NULL argument,
\* and every dryrun").
EmptyExactly ==
  /\ phase = "refused" => /\ ~NullInput(call)
                          /\ Dryrun(call) => error[1] \in {"value", "query", "missing"}
  /\ phase = "answered" => (tables = NoTables) = (NullInput(call) \/ Dryrun(call))
  /\ logged = (phase = "answered" /\ ~NullInput(call) /\ Dryrun(call))

\* A text is only bound when the queries bind and have the columns it reads, with types
\* it can read, and when the functions it calls are there; and a call loads spatial only
\* for such a text, with autoloading on (sql_template.cpp: "would load spatial ...
\* even for a caller who turned autoloading off").
BoundTextsRun ==
  [][phase = "called" /\ phase' # "called" =>
       /\ phase' = "bound" => /\ call.unread = {}
                              /\ \A column \in Columns(text') : call.columns[column] = "right"
                              /\ Geometric(text') => spatial'
       /\ spatial' # spatial => phase' = "bound" /\ Geometric(text') /\ autoload]_vars

\* The vertices extracted are the ends of the edges, each once; points are numbered
\* in order; and with ids every edge is listed once among the outgoing and once among
\* the incoming edges, at the end it has, also where that end is NULL.
VerticesAreTheEnds ==
  Ran("extract") =>
    LET edges == tables.edges
        Lengths(list) == SumFunction([v \in answer |-> Len(OrEmpty(v[list]))])
    IN  /\ {v.at : v \in answer} = Ends(edges)
        /\ \A v, w \in answer : v # w /\ v.at = w.at => v.at = Null
        /\ Geometric(text) => /\ {v.id : v \in answer} = 1 .. Cardinality(answer)
                              /\ \A v, w \in answer : v.id < w.id => ~Before(w, v)
        /\ IF "id" \in Columns(text)
             THEN /\ Lengths("in_edges") = Len(edges) /\ Lengths("out_edges") = Len(edges)
                  /\ \A e \in Rows(edges) :
                       /\ \E v \in answer : v.at = e.source /\ e.id \in Rows(OrEmpty(v.out_edges))
                       /\ \E v \in answer : v.at = e.target /\ e.id \in Rows(OrEmpty(v.in_edges))
             ELSE \A v \in answer : v.in_edges = Null /\ v.out_edges = Null

\* Both forms of pgr_degree count the same, when the vertices are those that
\* pgr_extractVertices gives for the edges and no id is there twice; every edge
\* counts twice, a NULL end included; a node has one row, and none without edges.
DegreesAgree ==
  /\ Ran("degree_edges") \/ Ran("degree_vertices") =>
       \A row \in answer : row.degree \in Nat \ {0}
  /\ Ran("degree_edges") =>
       SumFunction([row \in answer |-> row.degree]) = 2 * Len(tables.edges)
  /\ Ran("degree_vertices") /\ text = "in_and_out" =>
       (tables.vertices = Extracted(tables.edges)
        /\ Cardinality({e.id : e \in Rows(tables.edges)}) = Len(tables.edges)
          => /\ NodeDegrees(answer) = {row \in DegreeFromEdges(tables.edges) : row.node # Null}
             /\ \A r, s \in answer : r.node = s.node => r = s)

\* Every point, also one given twice, gets the edges nearest to it: as many as cap
\* allows, within the tolerance, none of them farther than one that is left out
\* (find_close_edges.cpp: "each input point gets its own cap").
NearestOfEachPoint ==
  Ran("close") =>
    \A i \in DOMAIN tables.points :
      LET far(line) == Distance2(line, tables.points[i])
          near  == {line \in tables.lines : far(line) <= call.tolerance * call.tolerance}
          taken == {line \in tables.lines : \E row \in answer : row.index = i /\ row.edge_id = line.id}
          cap   == Value(call, "cap")
      IN  /\ taken \subseteq near
          /\ Cardinality(taken) = IF Cardinality(near) < cap THEN Cardinality(near) ELSE cap
          /\ \A line \in taken, other \in near \ taken : far(line) <= far(other)

\* South of a line that goes east, north of one that goes west.
RightOf(line, point) == IF line.from < line.to THEN point.y < line.y ELSE point.y > line.y

\* A point on the line is on its right, one beyond an end on its left, nothing is on
\* the right without a tolerance, and every other point is on the side where one who
\* goes along the line has it (find_close_edges.cpp: "Upstream's corner cases are
\* kept").
SidesAsDocumented ==
  Ran("close") =>
    \A row \in answer :
      \E line \in tables.lines :
        LET point   == tables.points[row.index]
            at_end  == Located(line, point) \in {0, Length(line)}
            on_line == Distance2(line, point) = 0
        IN  /\ line.id = row.edge_id
            /\ row.side = IF call.tolerance = 0 THEN "l" ELSE IF on_line THEN "r"
                          ELSE IF at_end THEN "l"
                          ELSE IF RightOf(line, point) THEN "r" ELSE "l"

\* A defaulted parameter given both by position and by name has the positional value
\* (docs/BACKLOG.md).
PositionalWins ==
  phase = "answered" /\ ~NullInput(call) /\ Positional(call, "dryrun") # Absent =>
    logged = Positional(call, "dryrun")

=============================================================================
