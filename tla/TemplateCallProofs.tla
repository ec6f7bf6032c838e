-------------------------- MODULE TemplateCallProofs --------------------------
(***************************************************************************)
(* Proofs about TemplateCall, for any calls and tables: what a call that   *)
(* is not refused ends with, that a text is bound only where it can run,   *)
(* the side and the nearest edges that pgr_findCloseEdges gives for every  *)
(* table of lines and list of points, the rows that pgr_extractVertices    *)
(* collects from every table of edges, and that the texts of pgr_degree    *)
(* count alike.                                                            *)
(***************************************************************************)
EXTENDS TemplateCall, FiniteSetTheorems, TLAPS

\* Nothing is bound yet.
Unbound == text = "none" /\ ~logged /\ tables = NoTables /\ answer = {}

\* What each phase leaves behind.
Phases ==
  /\ phase \in {"idle", "called"} => Unbound
  /\ phase # "idle" => call \in Calls
  /\ phase = "refused" => Unbound
  /\ phase = "bound" => /\ ~NullInput(call)
                        /\ ~Dryrun(call)
                        /\ ~logged
                        /\ tables = NoTables
                        /\ answer = {}

\* The rows of a call of pgr_findCloseEdges are those of its lines and points.
CloseAnswered ==
  /\ phase = "bound" /\ call.function = "close" =>
       call.tolerance >= 0 /\ Value(call, "cap") \in Nat
  /\ Ran("close") => /\ call.tolerance >= 0
                     /\ Value(call, "cap") \in Nat
                     /\ tables.lines \in LineTables
                     /\ tables.points \in PointLists
                     /\ answer = FindCloseEdges(tables.lines, tables.points, call.tolerance,
                                                Value(call, "cap"))

\* The rows of every other call are those that its text gives for its tables.
TablesAnswered ==
  /\ phase = "bound" \/ tables # NoTables => text = TextOf(call)
  /\ Ran("extract") \/ Ran("degree_edges") \/ Ran("degree_vertices") => tables.edges \in EdgeTables
  /\ Ran("extract") => answer = ExtractVertices(text, tables.edges)
  /\ Ran("degree_edges") => answer = DegreeFromEdges(tables.edges)
  /\ Ran("degree_vertices") =>
       /\ tables.vertices \in VertexTables \cup {Extracted(tables.edges)}
       /\ answer = DegreeFromVertices(text, tables.edges, tables.vertices)

\* The invariant: the types and what was answered without running the text need the
\* phases, and the rows of a text what it was called with and what it read.
Bound == TypeOK /\ EmptyExactly /\ Phases
TInv  == Bound /\ CloseAnswered /\ TablesAnswered

-----------------------------------------------------------------------------
\* The rows of two tables, one after the other.
LEMMA RowsOfBoth ==
  ASSUME NEW X, NEW s \in Seq(X), NEW t \in Seq(X)
  PROVE  Rows(s \o t) = Rows(s) \cup Rows(t)
<1>1. ASSUME NEW i \in DOMAIN (s \o t)
      PROVE  (s \o t)[i] \in Rows(s) \cup Rows(t)
  <2>1. i \in 1 .. Len(s) + Len(t)
    OBVIOUS
  <2>2. CASE i <= Len(s)
    <3>1. i \in DOMAIN s /\ (s \o t)[i] = s[i]
      BY <2>1, <2>2
    <3> QED BY <3>1 DEF Rows
  <2>3. CASE i > Len(s)
    <3>1. i - Len(s) \in DOMAIN t /\ (s \o t)[i] = t[i - Len(s)]
      BY <2>1, <2>3
    <3> QED BY <3>1 DEF Rows
  <2> QED BY <2>1, <2>2, <2>3
<1>2. ASSUME NEW i \in DOMAIN s
      PROVE  s[i] \in Rows(s \o t)
  <2>1. i \in DOMAIN (s \o t) /\ (s \o t)[i] = s[i]
    OBVIOUS
  <2> QED BY <2>1 DEF Rows
<1>3. ASSUME NEW i \in DOMAIN t
      PROVE  t[i] \in Rows(s \o t)
  <2>1. i + Len(s) \in DOMAIN (s \o t) /\ (s \o t)[i + Len(s)] = t[i]
    OBVIOUS
  <2> QED BY <2>1 DEF Rows
<1> QED BY <1>1, <1>2, <1>3 DEF Rows

\* The row of a table of one.
LEMMA RowsOfOne ==
  ASSUME NEW X, NEW x \in X
  PROVE  <<x>> \in Seq(X) /\ Rows(<<x>>) = {x}
<1>1. DOMAIN <<x>> = {1} /\ <<x>>[1] = x
  OBVIOUS
<1> QED BY <1>1 DEF Rows

\* The rows of three tables, one after the other.
LEMMA RowsOfThree ==
  ASSUME NEW X, NEW s \in Seq(X), NEW t \in Seq(X), NEW u \in Seq(X)
  PROVE  s \o t \o u \in Seq(X) /\ Rows(s \o t \o u) = Rows(s) \cup Rows(t) \cup Rows(u)
<1> DEFINE both == s \o t
<1>1. both \in Seq(X) /\ Rows(both) = Rows(s) \cup Rows(t)
  BY RowsOfBoth
<1> HIDE DEF both
<1>2. both \o u \in Seq(X) /\ Rows(both \o u) = Rows(both) \cup Rows(u)
  BY <1>1, RowsOfBoth
<1> QED BY <1>1, <1>2 DEF both

\* The checks that a column is there, and of the right type.
Requires(c, columns) == {Missing(c, q) : q \in columns} \cup {Mistyped(c, q) : q \in columns}

\* RequireColumn is the two checks of its column.
LEMMA RequireColumnIs ==
  ASSUME NEW c, NEW q, NEW X, Requires(c, {q}) \subseteq X
  PROVE  RequireColumn(c, q) \in Seq(X) /\ Rows(RequireColumn(c, q)) = Requires(c, {q})
<1>1. DOMAIN RequireColumn(c, q) = {1, 2}
  BY DEF RequireColumn
<1>2. RequireColumn(c, q)[1] = Missing(c, q) /\ RequireColumn(c, q)[2] = Mistyped(c, q)
  BY DEF RequireColumn
<1>3. Missing(c, q) \in X /\ Mistyped(c, q) \in X
  BY DEF Requires
<1>4. RequireColumn(c, q) \in Seq(X)
  BY <1>3 DEF RequireColumn
<1>5. Rows(RequireColumn(c, q)) = Requires(c, {q})
  BY <1>1, <1>2 DEF Rows, Requires
<1> QED BY <1>4, <1>5

\* The checks of each function, as sets.  Those of pgr_degree over edges.
LEMMA DegreeEdgesChecks ==
  ASSUME NEW c, c.function = "degree_edges"
  PROVE  Rows(Checks(c)) = Requires(c, {"id", "source", "target"}) \cup {BindColumns(c, "edges_sql")}
<1> DEFINE read == BindColumns(c, "edges_sql")
           X == Requires(c, {"id", "source", "target"}) \cup {read}
           Of(q) == RequireColumn(c, q)
<1>1. Checks(c) = <<read>> \o Of("id") \o Of("source") \o Of("target")
  BY DEF Checks
<1>2. /\ Of("id") \in Seq(X) /\ Rows(Of("id")) = Requires(c, {"id"})
      /\ Of("source") \in Seq(X) /\ Rows(Of("source")) = Requires(c, {"source"})
      /\ Of("target") \in Seq(X) /\ Rows(Of("target")) = Requires(c, {"target"})
  <2>1. \A q \in {"id", "source", "target"} : Requires(c, {q}) \subseteq X
    BY DEF Requires
  <2> QED BY <2>1, RequireColumnIs
<1> DEFINE one == <<read>>
<1>3. one \in Seq(X) /\ Rows(one) = {read}
  <2> HIDE DEF read
  <2> QED BY RowsOfOne
<1> HIDE DEF read, X, Of, one
<1> DEFINE three == one \o Of("id") \o Of("source")
<1>4. three \in Seq(X) /\ Rows(three) = {read} \cup Requires(c, {"id"}) \cup Requires(c, {"source"})
  BY <1>2, <1>3, RowsOfThree
<1> HIDE DEF three
<1>5. Rows(three \o Of("target")) = Rows(three) \cup Rows(Of("target"))
  BY <1>2, <1>4, RowsOfBoth
<1>6. Rows(Checks(c)) = {read} \cup Requires(c, {"id"}) \cup Requires(c, {"source"})
                          \cup Requires(c, {"target"})
  BY <1>1, <1>2, <1>4, <1>5 DEF three, one
<1> QED BY <1>6 DEF Requires, read

\* Those of pgr_degree over edges and vertices.
LEMMA DegreeVerticesChecks ==
  ASSUME NEW c, c.function = "degree_vertices"
  PROVE  Rows(Checks(c)) = Requires(c, {"edge_id", "id"})
                             \cup {BindColumns(c, "edges_sql"), BindColumns(c, "vertices_sql"),
                                   Mistyped(c, "in_edges"), Mistyped(c, "out_edges"),
                                   [bad |-> ~Has(c, "in_edges") /\ ~Has(c, "out_edges"),
                                    error |-> <<"missing", "in_edges">>]}
<1> DEFINE either == [bad |-> ~Has(c, "in_edges") /\ ~Has(c, "out_edges"),
                      error |-> <<"missing", "in_edges">>]
           lists == <<Mistyped(c, "in_edges"), Mistyped(c, "out_edges"), either>>
           first == BindColumns(c, "edges_sql")
           second == BindColumns(c, "vertices_sql")
           X == Requires(c, {"edge_id", "id"})
                  \cup {first, second, Mistyped(c, "in_edges"), Mistyped(c, "out_edges"), either}
           Of(q) == RequireColumn(c, q)
<1>1. Checks(c) = <<first>> \o Of("edge_id") \o <<second>> \o Of("id") \o lists
  BY DEF Checks
<1>2. /\ Of("edge_id") \in Seq(X) /\ Rows(Of("edge_id")) = Requires(c, {"edge_id"})
      /\ Of("id") \in Seq(X) /\ Rows(Of("id")) = Requires(c, {"id"})
  <2>1. \A q \in {"edge_id", "id"} : Requires(c, {q}) \subseteq X
    BY DEF Requires
  <2> QED BY <2>1, RequireColumnIs
<1>3. lists \in Seq(X) /\ Rows(lists) = {Mistyped(c, "in_edges"), Mistyped(c, "out_edges"), either}
  <2> HIDE DEF either, first, second
  <2>1. /\ DOMAIN lists = 1 .. 3 /\ lists[1] = Mistyped(c, "in_edges")
        /\ lists[2] = Mistyped(c, "out_edges") /\ lists[3] = either
    OBVIOUS
  <2>2. lists \in Seq(X)
    OBVIOUS
  <2> HIDE DEF lists
  <2>3. Rows(lists) = {lists[1], lists[2], lists[3]}
    BY <2>1 DEF Rows
  <2> QED BY <2>1, <2>2, <2>3
<1> DEFINE one == <<first>>
           other == <<second>>
<1>4. /\ one \in Seq(X) /\ Rows(one) = {first}
      /\ other \in Seq(X) /\ Rows(other) = {second}
  <2> HIDE DEF first, second
  <2> QED BY RowsOfOne
<1> HIDE DEF X, Of, lists, first, second, one, other
<1> DEFINE three == one \o Of("edge_id") \o other
<1>5. three \in Seq(X) /\ Rows(three) = {first} \cup Requires(c, {"edge_id"}) \cup {second}
  BY <1>2, <1>4, RowsOfThree
<1> HIDE DEF three
<1>6. Rows(three \o Of("id") \o lists) = Rows(three) \cup Rows(Of("id")) \cup Rows(lists)
  BY <1>2, <1>3, <1>5, RowsOfThree
<1>7. Rows(Checks(c)) = {first} \cup Requires(c, {"edge_id"}) \cup {second} \cup Requires(c, {"id"})
                          \cup {Mistyped(c, "in_edges"), Mistyped(c, "out_edges"), either}
  BY <1>1, <1>2, <1>3, <1>5, <1>6 DEF three, one, other
<1> QED BY <1>7 DEF Requires, first, second

\* Those of pgr_findCloseEdges.
LEMMA CloseChecks ==
  ASSUME NEW c, c.function = "close"
  PROVE  Rows(Checks(c)) = Requires(c, {"id", "geom"})
                             \cup {[bad |-> c.tolerance < 0, error |-> <<"value", "tolerance">>],
                                   [bad |-> Value(c, "cap") < 0, error |-> <<"value", "cap">>],
                                   BindColumns(c, "edges_sql")}
<1> DEFINE far == [bad |-> c.tolerance < 0, error |-> <<"value", "tolerance">>]
           few == [bad |-> Value(c, "cap") < 0, error |-> <<"value", "cap">>]
           read == BindColumns(c, "edges_sql")
           values == <<far, few, read>>
           X == Requires(c, {"id", "geom"}) \cup {far, few, read}
           Of(q) == RequireColumn(c, q)
<1>1. Checks(c) = values \o Of("id") \o Of("geom")
  BY DEF Checks
<1>2. /\ Of("id") \in Seq(X) /\ Rows(Of("id")) = Requires(c, {"id"})
      /\ Of("geom") \in Seq(X) /\ Rows(Of("geom")) = Requires(c, {"geom"})
  <2>1. \A q \in {"id", "geom"} : Requires(c, {q}) \subseteq X
    BY DEF Requires
  <2> QED BY <2>1, RequireColumnIs
<1>3. values \in Seq(X) /\ Rows(values) = {far, few, read}
  <2> HIDE DEF far, few, read
  <2>1. DOMAIN values = 1 .. 3 /\ values[1] = far /\ values[2] = few /\ values[3] = read
    OBVIOUS
  <2>2. values \in Seq(X)
    OBVIOUS
  <2> HIDE DEF values
  <2>3. Rows(values) = {values[1], values[2], values[3]}
    BY <2>1 DEF Rows
  <2> QED BY <2>1, <2>2, <2>3
<1> HIDE DEF X, Of, values
<1>4. Rows(values \o Of("id")) = Rows(values) \cup Rows(Of("id"))
  BY <1>2, <1>3, RowsOfBoth
<1>5. Rows(values \o Of("id") \o Of("geom")) = Rows(values \o Of("id")) \cup Rows(Of("geom"))
  <2> DEFINE both == values \o Of("id")
  <2>1. both \in Seq(X)
    BY <1>2, <1>3
  <2> HIDE DEF both
  <2>2. Rows(both \o Of("geom")) = Rows(both) \cup Rows(Of("geom"))
    BY <1>2, <2>1, RowsOfBoth
  <2> QED BY <2>2 DEF both
<1>6. Rows(Checks(c)) = {far, few, read} \cup Requires(c, {"id"}) \cup Requires(c, {"geom"})
  BY <1>1, <1>2, <1>3, <1>4, <1>5
<1> QED BY <1>6 DEF Requires

\* Those of pgr_extractVertices.
LEMMA ExtractChecks ==
  ASSUME NEW c, c.function = "extract"
  PROVE  Rows(Checks(c)) = {Mistyped(c, q) : q \in QueryColumns("extract")}
                             \cup {Partner(c, "target", "source"), Partner(c, "source", "target"),
                                   Partner(c, "startpoint", "endpoint"), Partner(c, "endpoint", "startpoint"),
                                   [bad |-> ~Has(c, "geom") /\ ~Has(c, "source") /\ ~Has(c, "startpoint"),
                                    error |-> <<"missing", "geom">>],
                                   BindColumns(c, "edges_sql")}
<1> DEFINE any == [bad |-> ~Has(c, "geom") /\ ~Has(c, "source") /\ ~Has(c, "startpoint"),
                   error |-> <<"missing", "geom">>]
           read == BindColumns(c, "edges_sql")
           list == <<read, Mistyped(c, "id"), Mistyped(c, "source"), Mistyped(c, "target"),
                     Mistyped(c, "geom"), Mistyped(c, "startpoint"), Mistyped(c, "endpoint"),
                     Partner(c, "target", "source"), Partner(c, "source", "target"),
                     Partner(c, "startpoint", "endpoint"), Partner(c, "endpoint", "startpoint"), any>>
<1>1. Checks(c) = list
  BY DEF Checks
<1> HIDE DEF any, read
<1>2. /\ DOMAIN list = 1 .. 12
      /\ list[1] = read
      /\ list[2] = Mistyped(c, "id")
      /\ list[3] = Mistyped(c, "source")
      /\ list[4] = Mistyped(c, "target")
      /\ list[5] = Mistyped(c, "geom")
      /\ list[6] = Mistyped(c, "startpoint")
      /\ list[7] = Mistyped(c, "endpoint")
      /\ list[8] = Partner(c, "target", "source")
      /\ list[9] = Partner(c, "source", "target")
      /\ list[10] = Partner(c, "startpoint", "endpoint")
      /\ list[11] = Partner(c, "endpoint", "startpoint")
      /\ list[12] = any
  OBVIOUS
<1> HIDE DEF list
<1>3. Rows(list) = {list[1], list[2], list[3], list[4], list[5], list[6], list[7], list[8], list[9],
                    list[10], list[11], list[12]}
  BY <1>2 DEF Rows
<1>4. QueryColumns("extract") = {"id", "source", "target", "geom", "startpoint", "endpoint"}
  BY DEF QueryColumns
<1> QED BY <1>1, <1>2, <1>3, <1>4 DEF any, read

\* A check that fails has an error to give, and in a dryrun not one of a type.
LEMMA WhatFails ==
  ASSUME NEW c \in Calls, NEW check \in Rows(Checks(c)), check.bad
  PROVE  check.error # <<>> /\ (Dryrun(c) => check.error[1] \in {"value", "query", "missing"})
<1>1. ASSUME NEW q, check = Mistyped(c, q)
      PROVE  ~Dryrun(c) /\ check.error = <<"type", q>>
  BY <1>1 DEF Mistyped
<1>2. ASSUME NEW q, check = Missing(c, q)
      PROVE  check.error = <<"missing", q>>
  BY <1>2 DEF Missing
<1>3. ASSUME NEW one, NEW other, check = Partner(c, one, other)
      PROVE  check.error = <<"missing", other>>
  BY <1>3 DEF Partner
<1>5. ASSUME NEW query, check = BindColumns(c, query)
      PROVE  check.error = <<"query", query>>
  BY <1>5 DEF BindColumns
<1>4. \/ \E q : check = Mistyped(c, q) \/ check = Missing(c, q)
      \/ \E query : check = BindColumns(c, query)
      \/ \E one, other : check = Partner(c, one, other)
      \/ check.error \in {<<"missing", "geom">>, <<"missing", "in_edges">>,
                          <<"value", "tolerance">>, <<"value", "cap">>}
  <2>1. CASE c.function = "degree_edges"
    BY <2>1, DegreeEdgesChecks DEF Requires
  <2>2. CASE c.function = "degree_vertices"
    BY <2>2, DegreeVerticesChecks DEF Requires
  <2>3. CASE c.function = "extract"
    BY <2>3, ExtractChecks
  <2>4. CASE c.function = "close"
    BY <2>4, CloseChecks DEF Requires
  <2> QED BY <2>1, <2>2, <2>3, <2>4, TemplateAssumption
<1> QED BY <1>1, <1>2, <1>3, <1>4, <1>5

\* When no check fails, every query binds.
LEMMA PassedBinds ==
  ASSUME NEW c \in Calls, Failures(c) = {}
  PROVE  c.unread = {}
<1>1. \A check \in Rows(Checks(c)) : ~check.bad
  BY DEF Failures, Rows
<1>2. \A query : BindColumns(c, query) \in Rows(Checks(c)) => query \notin c.unread
  BY <1>1 DEF BindColumns
<1>3. BindColumns(c, "edges_sql") \in Rows(Checks(c))
  BY DegreeEdgesChecks, DegreeVerticesChecks, ExtractChecks, CloseChecks, TemplateAssumption
<1>4. c.function = "degree_vertices" => BindColumns(c, "vertices_sql") \in Rows(Checks(c))
  BY DegreeVerticesChecks
<1>5. c.unread \subseteq Queries(c.function)
  BY TemplateAssumption
<1> QED BY <1>2, <1>3, <1>4, <1>5 DEF Queries

\* A column that is there when no check fails is of the right type.
LEMMA PassedIsRight ==
  ASSUME NEW c \in Calls, Failures(c) = {}, ~Dryrun(c), NEW q \in QueryColumns(c.function),
         Mistyped(c, q) \in Rows(Checks(c)), Has(c, q)
  PROVE  c.columns[q] = "right"
<1>1. ~Mistyped(c, q).bad
  BY DEF Failures, Rows
<1>2. c.columns[q] \in {"absent", "right", "wrong"}
  BY TemplateAssumption
<1> QED BY <1>1, <1>2 DEF Mistyped, Has

\* When no check fails, the text chosen reads columns that are there and right.
LEMMA TextIsReadable ==
  ASSUME NEW c \in Calls, Failures(c) = {}, ~Dryrun(c)
  PROVE  \A q \in Columns(TextOf(c)) : c.columns[q] = "right"
<1>1. \A check \in Rows(Checks(c)) : ~check.bad
  BY DEF Failures, Rows
<1>2. \A q : Missing(c, q) \in Rows(Checks(c)) => Has(c, q)
  BY <1>1 DEF Missing
<1>3. ASSUME NEW columns, columns \subseteq QueryColumns(c.function),
             Requires(c, columns) \subseteq Rows(Checks(c))
      PROVE  \A q \in columns : c.columns[q] = "right"
  BY <1>2, <1>3, PassedIsRight DEF Requires
<1>4. CASE c.function = "degree_edges"
  <2>1. \A q \in {"id", "source", "target"} : c.columns[q] = "right"
    BY <1>3, <1>4, DegreeEdgesChecks DEF QueryColumns
  <2> QED BY <1>4, <2>1 DEF TextOf, Columns
<1>5. CASE c.function = "degree_vertices"
  <2>1. \A q \in {"edge_id", "id"} : c.columns[q] = "right"
    <3>1. {"edge_id", "id"} \subseteq QueryColumns(c.function)
      BY <1>5 DEF QueryColumns
    <3>2. Requires(c, {"edge_id", "id"}) \subseteq Rows(Checks(c))
      BY <1>5, DegreeVerticesChecks
    <3> QED BY <1>3, <3>1, <3>2
  <2>2. \A q \in {"in_edges", "out_edges"} : Has(c, q) => c.columns[q] = "right"
    BY <1>5, DegreeVerticesChecks, PassedIsRight DEF QueryColumns
  <2>3. Has(c, "in_edges") \/ Has(c, "out_edges")
    <3> DEFINE either == [bad |-> ~Has(c, "in_edges") /\ ~Has(c, "out_edges"),
                          error |-> <<"missing", "in_edges">>]
    <3>1. either \in Rows(Checks(c))
      BY <1>5, DegreeVerticesChecks
    <3>2. ~either.bad
      BY <1>1, <3>1
    <3> QED BY <3>2
  <2> QED BY <1>5, <2>1, <2>2, <2>3 DEF TextOf, Columns
<1>6. CASE c.function = "extract"
  <2>1. \A q \in QueryColumns("extract") : Has(c, q) => c.columns[q] = "right"
    BY <1>6, ExtractChecks, PassedIsRight
  <2>2. ~Has(c, "geom") =>
          /\ Has(c, "source") <=> Has(c, "target")
          /\ Has(c, "startpoint") <=> Has(c, "endpoint")
          /\ Has(c, "source") \/ Has(c, "startpoint")
    <3>1. /\ ~Partner(c, "target", "source").bad
          /\ ~Partner(c, "source", "target").bad
          /\ ~Partner(c, "startpoint", "endpoint").bad
          /\ ~Partner(c, "endpoint", "startpoint").bad
          /\ Has(c, "geom") \/ Has(c, "source") \/ Has(c, "startpoint")
      <4> DEFINE any == [bad |-> ~Has(c, "geom") /\ ~Has(c, "source") /\ ~Has(c, "startpoint"),
                         error |-> <<"missing", "geom">>]
      <4>1. {Partner(c, "target", "source"), Partner(c, "source", "target"),
             Partner(c, "startpoint", "endpoint"), Partner(c, "endpoint", "startpoint"), any}
              \subseteq Rows(Checks(c))
        BY <1>6, ExtractChecks
      <4>2. ~any.bad
        BY <1>1, <4>1
      <4> QED BY <1>1, <4>1, <4>2
    <3> QED BY <3>1 DEF Partner
  <2> QED BY <1>6, <2>1, <2>2 DEF TextOf, Columns, QueryColumns
<1>7. CASE c.function = "close"
  <2>1. {"id", "geom"} \subseteq QueryColumns(c.function)
    BY <1>7 DEF QueryColumns
  <2>2. Requires(c, {"id", "geom"}) \subseteq Rows(Checks(c))
    BY <1>7, CloseChecks
  <2>3. \A q \in {"id", "geom"} : c.columns[q] = "right"
    BY <1>3, <2>1, <2>2
  <2> QED BY <1>7, <2>3 DEF TextOf, Columns
<1> QED BY <1>4, <1>5, <1>6, <1>7, TemplateAssumption

\* Some text is chosen, whatever the columns.
LEMMA SomeText ==
  ASSUME NEW c \in Calls
  PROVE  TextOf(c) # "none"
BY TemplateAssumption DEF TextOf

-----------------------------------------------------------------------------
Lines  == [id : Int, y : Int, from : Int, to : Int]
Points == [x : Int, y : Int]

\* A point whose nearest point on the line is between its ends is straight above or
\* below that.
LEMMA BetweenTheEnds ==
  ASSUME NEW line \in Lines, NEW point \in Points, Located(line, point) \in 1 .. Length(line) - 1
  PROVE  line.from + Ahead(line) * Located(line, point) - point.x = 0
<1>1. /\ line.from \in Int /\ line.to \in Int /\ line.y \in Int
      /\ point.x \in Int /\ point.y \in Int
  BY DEF Lines, Points
<1>2. CASE line.from < line.to
  <2>1. Length(line) = line.to - line.from /\ Ahead(line) = 1
    BY <1>1, <1>2 DEF Length, Ahead
  <2>2. Located(line, point) = point.x - line.from
    BY <1>1, <2>1 DEF Located
  <2> QED BY <1>1, <2>1, <2>2
<1>3. CASE ~(line.from < line.to)
  <2>1. Length(line) = line.from - line.to /\ Ahead(line) = 0 - 1
    BY <1>1, <1>3 DEF Length, Ahead
  <2>2. Located(line, point) = line.from - point.x
    BY <1>1, <2>1 DEF Located
  <2> QED BY <1>1, <2>1, <2>2
<1> QED BY <1>2, <1>3

\* The side of a row of a line and a point, by where the point is.
LEMMA SideIs ==
  ASSUME NEW line \in Lines, NEW point \in Points, NEW tolerance \in Nat
  PROVE  Side(line, point, tolerance)
           = IF tolerance = 0 THEN "l" ELSE IF Distance2(line, point) = 0 THEN "r"
             ELSE IF Located(line, point) \in {0, Length(line)} THEN "l"
             ELSE IF RightOf(line, point) THEN "r" ELSE "l"
<1>1. CASE tolerance = 0
  BY <1>1 DEF Side
<1>2. CASE tolerance > 0 /\ Distance2(line, point) = 0
  BY <1>2 DEF Side
<1>3. CASE tolerance > 0 /\ Distance2(line, point) # 0
  <2>1. Located(line, point) \in 0 .. Length(line)
    BY DEF Located, Length, Ahead, Lines, Points
  <2>2. Length(line) \in Nat
    BY DEF Length, Lines
  <2>3. CASE Located(line, point) \in {0, Length(line)}
    BY <1>3, <2>2, <2>3 DEF Side
  <2>4. CASE Located(line, point) \in 1 .. Length(line) - 1
    <3>1. line.from + Ahead(line) * Located(line, point) - point.x = 0
      BY <2>4, BetweenTheEnds
    <3>2. point.y # line.y
      <4> DEFINE dx == line.from + Ahead(line) * Located(line, point) - point.x
                 dy == line.y - point.y
      <4>1. dx * dx + dy * dy # 0
        BY <1>3 DEF Distance2
      <4>2. dx = 0
        BY <3>1
      <4> HIDE DEF dx
      <4>3. dy * dy # 0
        BY <4>1, <4>2 DEF Lines, Points
      <4> QED BY <4>3 DEF Lines, Points
    <3>3. Side(line, point, tolerance) = "r" <=> Ahead(line) * (point.y - line.y) <= 0
      BY <1>3, <2>4 DEF Side
    <3>4. Ahead(line) * (point.y - line.y) <= 0 <=> RightOf(line, point)
      BY <3>2 DEF Ahead, RightOf, Lines, Points
    <3>5. Side(line, point, tolerance) \in {"l", "r"}
      BY DEF Side
    <3>6. Located(line, point) \notin {0, Length(line)}
      BY <2>2, <2>4
    <3> QED BY <1>3, <3>3, <3>4, <3>5, <3>6
  <2> QED BY <2>1, <2>2, <2>3, <2>4
<1> QED BY <1>1, <1>2, <1>3

-----------------------------------------------------------------------------
\* The elements of S that a relation puts before s, and how many they are.
Earlier(S, rel, s) == {t \in S : <<t, s>> \in rel}
Rank(S, rel) == [s \in S |-> Cardinality(Earlier(S, rel, s))]

StrictOrder(S, rel) ==
  /\ \A s \in S : <<s, s>> \notin rel
  /\ \A s, t, u \in S : <<s, t>> \in rel /\ <<t, u>> \in rel => <<s, u>> \in rel
  /\ \A s, t \in S : s # t => <<s, t>> \in rel \/ <<t, s>> \in rel

\* The numbers from 1 to n are n.
LEMMA FirstNumbers ==
  ASSUME NEW n \in Nat
  PROVE  IsFiniteSet(1 .. n) /\ Cardinality(1 .. n) = n
<1>1. n \in Int /\ 1 \in Int
  OBVIOUS
<1>2. IsFiniteSet(1 .. n)
  BY <1>1, FS_Interval
<1>3. Cardinality(1 .. n) = n
  <2>1. Cardinality(1 .. n) = IF 1 > n THEN 0 ELSE n - 1 + 1
    BY <1>1, FS_Interval
  <2> QED BY <2>1
<1> QED BY <1>2, <1>3

\* A sequence has as many places as its length.
LEMMA Places ==
  ASSUME NEW s, NEW S, s \in Seq(S)
  PROVE  IsFiniteSet(DOMAIN s) /\ Cardinality(DOMAIN s) = Len(s)
<1>1. Len(s) \in Nat /\ DOMAIN s = 1 .. Len(s)
  OBVIOUS
<1>2. IsFiniteSet(1 .. Len(s)) /\ Cardinality(1 .. Len(s)) = Len(s)
  BY <1>1, FirstNumbers
<1> QED BY <1>1, <1>2

\* In a finite set under a strict order every element has a rank of its own, from 0
\* up, and an earlier element a smaller one.
LEMMA Ranks ==
  ASSUME NEW S, IsFiniteSet(S), NEW rel, StrictOrder(S, rel)
  PROVE  /\ Rank(S, rel) \in Bijection(S, 0 .. Cardinality(S) - 1)
         /\ \A s, t \in S : <<s, t>> \in rel => Rank(S, rel)[s] < Rank(S, rel)[t]
<1> DEFINE n == Cardinality(S)
           below(s) == Earlier(S, rel, s)
           rank == Rank(S, rel)
<1>1. n \in Nat
  BY FS_CardinalityType
<1>2. ASSUME NEW s \in S
      PROVE  IsFiniteSet(below(s)) /\ Cardinality(below(s)) \in 0 .. n - 1
  <2>1. below(s) \in SUBSET S /\ s \notin below(s)
    BY DEF StrictOrder, Earlier
  <2>2. /\ IsFiniteSet(below(s)) /\ Cardinality(below(s)) <= n
        /\ n = Cardinality(below(s)) => S = below(s)
    BY <2>1, FS_Subset
  <2>3. Cardinality(below(s)) \in Nat
    BY <2>2, FS_CardinalityType
  <2> QED BY <1>1, <2>1, <2>2, <2>3
<1>3. rank \in [S -> 0 .. n - 1] /\ \A s \in S : rank[s] = Cardinality(below(s))
  BY <1>2 DEF Rank
<1>4. ASSUME NEW s \in S, NEW t \in S, <<s, t>> \in rel
      PROVE  rank[s] < rank[t]
  <2>1. below(s) \in SUBSET below(t) /\ s \in below(t) /\ s \notin below(s)
    BY <1>4 DEF StrictOrder, Earlier
  <2>2. /\ Cardinality(below(s)) <= Cardinality(below(t))
        /\ Cardinality(below(t)) = Cardinality(below(s)) => below(t) = below(s)
    BY <1>2, <2>1, FS_Subset
  <2> QED BY <1>2, <1>3, <2>1, <2>2
<1> HIDE DEF n, below, rank
<1>5. rank \in Injection(S, 0 .. n - 1)
  <2>1. ASSUME NEW s \in S, NEW t \in S, s # t
        PROVE  rank[s] # rank[t]
    <3>1. rank[s] \in Int /\ rank[t] \in Int
      BY <1>3
    <3>2. <<s, t>> \in rel \/ <<t, s>> \in rel
      BY <2>1 DEF StrictOrder
    <3>3. rank[s] < rank[t] \/ rank[t] < rank[s]
      BY <1>4, <3>2
    <3> QED BY <3>1, <3>3
  <2> QED BY <1>3, <2>1 DEF Injection, IsInjective
<1>6. IsFiniteSet(0 .. n - 1) /\ Cardinality(0 .. n - 1) = n
  BY <1>1, FS_Interval
<1>7. rank \in Surjection(S, 0 .. n - 1)
  BY <1>5, <1>6, FS_Injection DEF n
<1> QED BY <1>4, <1>5, <1>7 DEF Bijection, n, rank

\* So as many elements as a cap allows have a rank below it.
LEMMA FirstRanks ==
  ASSUME NEW S, IsFiniteSet(S), NEW rel, StrictOrder(S, rel), NEW cap \in Nat
  PROVE  LET first == {s \in S : Rank(S, rel)[s] < cap}
         IN  /\ IsFiniteSet(first)
             /\ Cardinality(first) = IF Cardinality(S) < cap THEN Cardinality(S) ELSE cap
<1> DEFINE n == Cardinality(S)
           m == IF n < cap THEN n ELSE cap
           rank == Rank(S, rel)
           first == {s \in S : rank[s] < cap}
           g == [s \in first |-> rank[s]]
<1>1. n \in Nat
  BY FS_CardinalityType
<1>2. rank \in Bijection(S, 0 .. n - 1)
  BY Ranks
<1> HIDE DEF n, rank
<1>3. g \in Bijection(first, 0 .. m - 1)
  <2>1. /\ rank \in [S -> 0 .. n - 1]
        /\ \A s, t \in S : rank[s] = rank[t] => s = t
        /\ \A k \in 0 .. n - 1 : \E s \in S : rank[s] = k
    BY <1>2 DEF Bijection, Injection, IsInjective, Surjection
  <2>2. g \in [first -> 0 .. m - 1]
    BY <1>1, <2>1
  <2>3. \A k \in 0 .. m - 1 : \E s \in first : g[s] = k
    <3> TAKE k \in 0 .. m - 1
    <3>1. k \in 0 .. n - 1 /\ k < cap
      BY <1>1
    <3>2. PICK s \in S : rank[s] = k
      BY <2>1, <3>1
    <3> QED BY <3>1, <3>2
  <2>4. \A s, t \in first : g[s] = g[t] => s = t
    BY <2>1
  <2> QED BY <2>2, <2>3, <2>4 DEF Bijection, Injection, IsInjective, Surjection
<1>4. IsFiniteSet(first)
  BY FS_Subset
<1>5. Cardinality(0 .. m - 1) = m
  <2>1. m \in Nat
    BY <1>1
  <2> HIDE DEF m
  <2> QED BY <2>1, FS_Interval
<1>6. ExistsBijection(first, 0 .. m - 1)
  BY <1>3 DEF ExistsBijection
<1> HIDE DEF m, first, g
<1>7. Cardinality(first) = m
  BY <1>4, <1>5, <1>6, FS_Bijection
<1> QED BY <1>4, <1>7 DEF n, m, first, rank

\* cap is an integer when no argument is NULL.
LEMMA CapIsInteger ==
  ASSUME NEW c \in Calls, c.function = "close", ~NullInput(c)
  PROVE  Value(c, "cap") \in Int
<1>1. {Positional(c, "cap"), Named(c, "cap")} \subseteq Int \cup {Null, Absent}
  BY CapAssumption
<1>2. CASE Named(c, "cap") # Absent
  <2>1. Named(c, "cap") # Null
    BY <1>2 DEF Named, NullInput
  <2> QED BY <1>1, <1>2, <2>1 DEF Value
<1>3. CASE Named(c, "cap") = Absent /\ Positional(c, "cap") # Absent
  <2> DEFINE at == {i \in DOMAIN c.by_position : Optional(c)[i] = "cap"}
  <2>1. at # {} /\ Positional(c, "cap") = c.by_position[CHOOSE i \in at : TRUE]
    BY <1>3 DEF Positional
  <2>2. (CHOOSE i \in at : TRUE) \in DOMAIN c.by_position
    BY <2>1
  <2>3. Positional(c, "cap") # Null
    BY <2>1, <2>2 DEF NullInput
  <2> QED BY <1>1, <1>3, <2>3 DEF Value
<1>4. CASE Named(c, "cap") = Absent /\ Positional(c, "cap") = Absent
  BY <1>4 DEF Value, Default
<1> QED BY <1>2, <1>3, <1>4

\* What the tables of a call hold.
LEMMA LinesAndPoints ==
  ASSUME NEW lines \in LineTables, NEW points \in PointLists
  PROVE  /\ IsFiniteSet(lines) /\ lines \subseteq Lines
         /\ \A line, other \in lines : line.id = other.id => line = other
         /\ \A i \in DOMAIN points : points[i] \in Points
<1>1. points \in Seq(Points)
  BY TemplateAssumption DEF Points
<1>2. \A i \in DOMAIN points : points[i] \in Points
  BY <1>1
<1>3. IsFiniteSet(lines) /\ lines \subseteq Lines
  BY TemplateAssumption DEF Lines
<1>4. \A line, other \in lines : line.id = other.id => line = other
  BY TemplateAssumption
<1> QED BY <1>2, <1>3, <1>4

\* The results of one point, as the rows that row_number counts, and their order.
ResultsOf(lines, points, tolerance, i) == {r \in Results(lines, points, tolerance) : r.index = i}
NearerPairs(points, rows) == {p \in rows \X rows : Nearer(points, p[1], p[2])}

\* Every distance is a whole number.
LEMMA DistanceIsInteger ==
  ASSUME NEW line \in Lines, NEW point \in Points
  PROVE  Distance2(line, point) \in Int
<1>1. Length(line) \in Int /\ Ahead(line) \in {1, 0 - 1}
  BY DEF Length, Ahead, Lines
<1>2. Located(line, point) \in Int
  BY <1>1 DEF Located, Lines, Points
<1> DEFINE dx == line.from + Ahead(line) * Located(line, point) - point.x
           dy == line.y - point.y
<1>3. dx \in Int /\ dy \in Int
  BY <1>1, <1>2 DEF Lines, Points
<1> HIDE DEF dx, dy
<1>4. dx * dx + dy * dy \in Int
  BY <1>3
<1> QED BY <1>4 DEF Distance2, dx, dy

\* ORDER BY distance, edge_id leaves no two results of a point in doubt, as no two
\* edges have one id.
LEMMA ResultsOrdered ==
  ASSUME NEW lines \in LineTables, NEW points \in PointLists, NEW tolerance \in Nat,
         NEW i \in DOMAIN points
  PROVE  LET rows == ResultsOf(lines, points, tolerance, i)
         IN  /\ StrictOrder(rows, NearerPairs(points, rows))
             /\ IsFiniteSet(rows)
             /\ \A X \in SUBSET rows : /\ IsFiniteSet(X) /\ IsFiniteSet({r.line : r \in X})
                                       /\ Cardinality({r.line : r \in X}) = Cardinality(X)
<1> DEFINE rows == ResultsOf(lines, points, tolerance, i)
           far(r) == Distance2(r.line, points[i])
<1>1. /\ IsFiniteSet(lines) /\ lines \subseteq Lines
      /\ \A line, other \in lines : line.id = other.id => line = other
      /\ points[i] \in Points
  BY LinesAndPoints
<1>2. \A r \in rows : r = [line |-> r.line, index |-> i] /\ r.line \in lines
  BY DEF ResultsOf, Results
<1>3. \A r \in rows : far(r) \in Int /\ r.line.id \in Int /\ r.index = i
  <2> TAKE r \in rows
  <2>1. r.line \in Lines /\ r.index = i
    BY <1>1, <1>2
  <2>2. far(r) \in Int
    BY <1>1, <2>1, DistanceIsInteger
  <2> QED BY <2>1, <2>2 DEF Lines
<1> HIDE DEF rows
<1>4. \A r, s \in rows : r.line = s.line => r = s
  BY <1>2
<1>5. \A r, s \in rows : <<r, s>> \in NearerPairs(points, rows)
                           <=> far(r) < far(s) \/ (far(r) = far(s) /\ r.line.id < s.line.id)
  BY <1>3 DEF NearerPairs, Nearer
<1> HIDE DEF far
<1>6. \A r, s \in rows : r # s => r.line.id # s.line.id
  BY <1>1, <1>2, <1>4
<1>7. StrictOrder(rows, NearerPairs(points, rows))
  <2>1. \A r \in rows : <<r, r>> \notin NearerPairs(points, rows)
    BY <1>3, <1>5
  <2>2. ASSUME NEW r \in rows, NEW s \in rows, NEW t \in rows,
               <<r, s>> \in NearerPairs(points, rows), <<s, t>> \in NearerPairs(points, rows)
        PROVE  <<r, t>> \in NearerPairs(points, rows)
    BY <1>3, <1>5, <2>2
  <2>3. ASSUME NEW r \in rows, NEW s \in rows, r # s
        PROVE  <<r, s>> \in NearerPairs(points, rows) \/ <<s, r>> \in NearerPairs(points, rows)
    BY <1>3, <1>5, <1>6, <2>3
  <2> QED BY <2>1, <2>2, <2>3 DEF StrictOrder
<1>8. IsFiniteSet(rows)
  <2> DEFINE g == [r \in rows |-> r.line]
  <2>1. g \in Injection(rows, lines)
    BY <1>2, <1>4 DEF Injection, IsInjective
  <2> HIDE DEF g
  <2> QED BY <1>1, <2>1, FS_Injection
<1>9. ASSUME NEW X \in SUBSET rows
      PROVE  /\ IsFiniteSet(X) /\ IsFiniteSet({r.line : r \in X})
             /\ Cardinality({r.line : r \in X}) = Cardinality(X)
  <2> DEFINE image == {r.line : r \in X}
             g == [r \in X |-> r.line]
  <2>1. IsFiniteSet(X)
    BY <1>8, FS_Subset
  <2>2. g \in Bijection(X, image)
    BY <1>4 DEF Bijection, Injection, IsInjective, Surjection
  <2>3. ExistsBijection(X, image)
    BY <2>2 DEF ExistsBijection
  <2> HIDE DEF image
  <2>4. IsFiniteSet(image) /\ Cardinality(image) = Cardinality(X)
    BY <2>1, <2>3, FS_Bijection
  <2> QED BY <2>1, <2>4 DEF image
<1> QED BY <1>7, <1>8, <1>9 DEF rows

\* What NearestOfEachPoint asks for one point.
NearestAt(lines, points, tolerance, cap, found, i) ==
  LET far(line) == Distance2(line, points[i])
      near  == {line \in lines : far(line) <= tolerance * tolerance}
      taken == {line \in lines : \E row \in found : row.index = i /\ row.edge_id = line.id}
  IN  /\ taken \subseteq near
      /\ Cardinality(taken) = IF Cardinality(near) < cap THEN Cardinality(near) ELSE cap
      /\ \A line \in taken, other \in near \ taken : far(line) <= far(other)

\* The rows of pgr_findCloseEdges for one point are the first of its results, as many
\* as cap allows, and no result left out is nearer.
LEMMA FirstRowsAreNearest ==
  ASSUME NEW lines \in LineTables, NEW points \in PointLists, NEW tolerance \in Nat,
         NEW cap \in Nat, NEW i \in DOMAIN points,
         NEW found, found = FindCloseEdges(lines, points, tolerance, cap)
  PROVE  NearestAt(lines, points, tolerance, cap, found, i)
<1> DEFINE far(line) == Distance2(line, points[i])
           near  == {line \in lines : far(line) <= tolerance * tolerance}
           taken == {line \in lines : \E row \in found : row.index = i /\ row.edge_id = line.id}
           results == Results(lines, points, tolerance)
           rows == ResultsOf(lines, points, tolerance, i)
           pairs == NearerPairs(points, rows)
           first == {r \in rows : Rank(rows, pairs)[r] < cap}
<1>1. /\ StrictOrder(rows, pairs) /\ IsFiniteSet(rows)
      /\ \A X \in SUBSET rows : /\ IsFiniteSet(X) /\ IsFiniteSet({r.line : r \in X})
                                /\ Cardinality({r.line : r \in X}) = Cardinality(X)
  BY ResultsOrdered
<1>2. /\ lines \subseteq Lines /\ points[i] \in Points
      /\ \A line, other \in lines : line.id = other.id => line = other
  BY LinesAndPoints
<1>3. {r.line : r \in rows} = near
  <2>1. \A r \in rows : r.line \in near
    BY DEF ResultsOf, Results
  <2>2. \A line \in near : [line |-> line, index |-> i] \in rows
    BY DEF ResultsOf, Results
  <2> HIDE DEF rows, near
  <2>3. \A line \in near : \E r \in rows : r.line = line
    BY <2>2
  <2> QED BY <2>1, <2>3
<1>4. \A r \in rows : /\ RowNumber(results, points, r) = 1 + Rank(rows, pairs)[r]
                      /\ Rank(rows, pairs)[r] \in Nat
  <2> TAKE r \in rows
  <2>1. {s \in results : InPartition(points, s, r) /\ Nearer(points, s, r)}
          = Earlier(rows, pairs, r)
    BY DEF InPartition, Earlier, NearerPairs, ResultsOf
  <2>2. Rank(rows, pairs)[r] = Cardinality(Earlier(rows, pairs, r))
    BY DEF Rank
  <2>3. Cardinality(Earlier(rows, pairs, r)) \in Nat
    <3>1. IsFiniteSet(Earlier(rows, pairs, r))
      BY <1>1 DEF Earlier
    <3> QED BY <3>1, FS_CardinalityType
  <2> QED BY <2>1, <2>2, <2>3 DEF RowNumber
<1>5. first = {r \in rows : RowNumber(results, points, r) <= cap}
  BY <1>4
<1>6. taken = {r.line : r \in first}
  <2>1. ASSUME NEW line \in taken
        PROVE  \E r \in first : r.line = line
    <3>1. PICK row \in found :
            row.index = i /\ row.edge_id = line.id
      BY <2>1
    <3>2. PICK r \in results : /\ RowNumber(results, points, r) <= cap
                               /\ row.edge_id = r.line.id /\ row.index = r.index
      BY DEF FindCloseEdges
    <3>3. r \in rows /\ r.line \in lines /\ line \in lines
      BY <3>1, <3>2 DEF ResultsOf, Results
    <3>4. r.line = line
      BY <1>2, <3>1, <3>2, <3>3
    <3> QED BY <1>5, <3>2, <3>3, <3>4
  <2>2. ASSUME NEW r \in first
        PROVE  r.line \in taken
    <3>1. r \in results /\ r.index = i /\ r.line \in lines /\ RowNumber(results, points, r) <= cap
      BY <1>5 DEF ResultsOf, Results
    <3> DEFINE row == [edge_id |-> r.line.id, index |-> r.index,
                       side |-> Side(r.line, points[r.index], tolerance)]
    <3>2. row \in found
      BY <3>1 DEF FindCloseEdges
    <3>3. row.index = i /\ row.edge_id = r.line.id
      BY <3>1
    <3> HIDE DEF row
    <3> QED BY <3>1, <3>2, <3>3
  <2> HIDE DEF taken, first
  <2> QED BY <2>1, <2>2
<1>7. Cardinality(first) = IF Cardinality(rows) < cap THEN Cardinality(rows) ELSE cap
  <2> HIDE DEF rows, pairs
  <2> QED BY <1>1, FirstRanks
<1>8. Cardinality(near) = Cardinality(rows) /\ Cardinality(taken) = Cardinality(first)
  <2>1. first \in SUBSET rows /\ rows \in SUBSET rows
    OBVIOUS
  <2> HIDE DEF rows, first, near, taken
  <2> QED BY <1>1, <1>3, <1>6, <2>1
<1>9. ASSUME NEW line \in taken, NEW other \in near \ taken
      PROVE  far(line) <= far(other)
  <2>1. PICK r \in first : r.line = line
    BY <1>6
  <2>2. PICK s \in rows : s.line = other
    BY <1>3
  <2>3. s \notin first /\ r \in rows
    BY <1>6, <2>2
  <2>4. ~(Rank(rows, pairs)[s] < Rank(rows, pairs)[r])
    <3>1. Rank(rows, pairs)[r] < cap /\ ~(Rank(rows, pairs)[s] < cap)
      BY <2>3
    <3> HIDE DEF rows, pairs, first
    <3>2. Rank(rows, pairs)[r] \in Nat /\ Rank(rows, pairs)[s] \in Nat
      BY <1>4, <2>3
    <3> QED BY <3>1, <3>2
  <2>5. <<s, r>> \notin pairs
    <3> HIDE DEF rows, pairs
    <3> QED BY <1>1, <2>3, <2>4, Ranks
  <2>6. r.index = i /\ s.index = i /\ r.line \in lines /\ s.line \in lines
    BY <2>3 DEF ResultsOf, Results
  <2>7. ~(far(other) < far(line))
    BY <2>1, <2>2, <2>3, <2>5, <2>6 DEF NearerPairs, Nearer
  <2>8. far(line) \in Int /\ far(other) \in Int
    BY <1>2, <2>1, <2>2, <2>6, DistanceIsInteger
  <2> HIDE DEF far
  <2> QED BY <2>7, <2>8
<1>10. taken \subseteq near
  <2>1. first \subseteq rows
    OBVIOUS
  <2> HIDE DEF first, rows, near, taken
  <2> QED BY <1>3, <1>6, <2>1
<1> HIDE DEF near, taken, far, first, rows
<1>11. Cardinality(taken) = IF Cardinality(near) < cap THEN Cardinality(near) ELSE cap
  BY <1>7, <1>8
<1> QED BY <1>9, <1>10, <1>11 DEF NearestAt, near, taken, far

-----------------------------------------------------------------------------
(* Sums. *)

\* The equation of the recursive function that SumFunction applies.
Sums(f, S, g) ==
  g = [T \in SUBSET S |-> IF T = {} THEN 0
                          ELSE LET x == CHOOSE x \in T : TRUE IN f[x] + g[T \ {x}]]

\* SumFunction is a recursive function on the subsets of its domain; a function that
\* obeys its equation is the one.
LEMMA SumIs ==
  ASSUME NEW S, IsFiniteSet(S), NEW f, DOMAIN f = S, NEW g, Sums(f, S, g)
  PROVE  SumFunction(f) = g[S]
<1> DEFINE sum == CHOOSE h : Sums(f, S, h)
           R == StrictSubsetOrdering(S)
           different == {T \in SUBSET S : sum[T] # g[T]}
<1>1. SumFunction(f) = sum[S]
  BY DEF SumFunction, SumFunctionOnSet, FoldFunctionOnSet, MapThenFoldSet, Sums
<1>2. Sums(f, S, sum)
  OBVIOUS
<1>3. \A h : Sums(f, S, h) => \A T \in SUBSET S :
        h[T] = IF T = {} THEN 0 ELSE f[CHOOSE x \in T : TRUE] + h[T \ {CHOOSE x \in T : TRUE}]
  BY DEF Sums
<1> HIDE DEF sum
<1>4. different = {}
  <2> SUFFICES ASSUME different # {} PROVE FALSE
    OBVIOUS
  <2>1. IsWellFoundedOn(R, SUBSET S)
    <3>1. FiniteSubsetsOf(S) = SUBSET S
      BY FS_FiniteSubsetsOfFinite
    <3>2. IsWellFoundedOn(R, FiniteSubsetsOf(S))
      BY FS_StrictSubsetOrderingWellFounded
    <3> HIDE DEF R
    <3> QED BY <3>1, <3>2
  <2>2. PICK T \in different : \A U \in different : <<U, T>> \notin R
    <3>1. different \subseteq SUBSET S
      OBVIOUS
    <3> HIDE DEF different, R
    <3> QED BY <2>1, <3>1, WFMin
  <2> DEFINE x == CHOOSE x \in T : TRUE
  <2>3. CASE T = {}
    BY <1>2, <1>3, <2>3
  <2>4. CASE T # {}
    <3>1. x \in T
      BY <2>4
    <3>2. T \ {x} \in SUBSET S /\ <<T \ {x}, T>> \in R
      BY <3>1 DEF StrictSubsetOrdering
    <3>3. sum[T \ {x}] = g[T \ {x}]
      BY <2>2, <3>2
    <3>4. sum[T] = f[x] + sum[T \ {x}] /\ g[T] = f[x] + g[T \ {x}]
      BY <1>2, <1>3, <2>4
    <3> QED BY <3>3, <3>4
  <2> QED BY <2>3, <2>4
<1> QED BY <1>1, <1>4

\* The sum of the sizes of disjoint sets is the size of their union.
LEMMA SumOfSizes ==
  ASSUME NEW S, IsFiniteSet(S), NEW f, DOMAIN f = S, NEW group,
         \A x \in S : IsFiniteSet(group[x]) /\ f[x] = Cardinality(group[x]),
         \A x, y \in S : x # y => group[x] \cap group[y] = {}
  PROVE  /\ IsFiniteSet(UNION {group[x] : x \in S})
         /\ SumFunction(f) = Cardinality(UNION {group[x] : x \in S})
<1> DEFINE all(T) == UNION {group[x] : x \in T}
           g == [T \in SUBSET S |-> Cardinality(all(T))]
<1>1. ASSUME NEW T \in SUBSET S
      PROVE  IsFiniteSet(all(T)) /\ Cardinality(all(T)) \in Nat
  <2> DEFINE groups == {group[x] : x \in T}
             h == [x \in T |-> group[x]]
  <2>1. IsFiniteSet(T)
    BY FS_Subset
  <2>2. h \in Surjection(T, groups)
    BY DEF Surjection
  <2>3. \A G \in groups : IsFiniteSet(G)
    OBVIOUS
  <2> HIDE DEF groups, h
  <2>4. IsFiniteSet(groups)
    BY <2>1, <2>2, FS_Surjection
  <2>5. IsFiniteSet(UNION groups)
    BY <2>3, <2>4, FS_UNION
  <2>6. Cardinality(UNION groups) \in Nat
    BY <2>5, FS_CardinalityType
  <2> QED BY <2>5, <2>6 DEF groups
<1>2. g[{}] = 0
  <2>1. all({}) = {}
    OBVIOUS
  <2> HIDE DEF all
  <2> QED BY <2>1, FS_EmptySet
<1>3. ASSUME NEW T \in SUBSET S, NEW x \in T
      PROVE  g[T] = f[x] + g[T \ {x}]
  <2> DEFINE rest == T \ {x}
  <2>1. rest \in SUBSET S /\ x \in S
    OBVIOUS
  <2>2. all(T) = group[x] \cup all(rest) /\ group[x] \cap all(rest) = {}
    OBVIOUS
  <2>3. IsFiniteSet(group[x]) /\ IsFiniteSet(all(rest))
    BY <1>1, <2>1
  <2>4. Cardinality(group[x]) \in Nat /\ Cardinality(all(rest)) \in Nat
    BY <2>3, FS_CardinalityType
  <2> HIDE DEF all, rest
  <2>5. Cardinality(all(T)) = Cardinality(group[x]) + Cardinality(all(rest))
                                - Cardinality(group[x] \cap all(rest))
    BY <2>2, <2>3, FS_Union
  <2>6. Cardinality(group[x] \cap all(rest)) = 0
    BY <2>2, FS_EmptySet
  <2>7. g[T] = Cardinality(all(T)) /\ g[rest] = Cardinality(all(rest))
    BY <2>1
  <2>8. g[T] = f[x] + g[rest]
    BY <2>1, <2>4, <2>5, <2>6, <2>7
  <2> QED BY <2>8 DEF rest
<1>4. Sums(f, S, g)
  <2>1. \A T \in SUBSET S : T # {} => g[T] = f[CHOOSE x \in T : TRUE] + g[T \ {CHOOSE x \in T : TRUE}]
    <3> TAKE T \in SUBSET S
    <3> HAVE T # {}
    <3>1. (CHOOSE x \in T : TRUE) \in T
      OBVIOUS
    <3> HIDE DEF g
    <3> QED BY <1>3, <3>1
  <2>2. DOMAIN g = SUBSET S /\ g = [T \in SUBSET S |-> g[T]]
    OBVIOUS
  <2> HIDE DEF g
  <2> QED BY <1>2, <2>1, <2>2 DEF Sums
<1>5. SumFunction(f) = g[S]
  <2> HIDE DEF g
  <2> QED BY <1>4, SumIs
<1>6. g[S] = Cardinality(all(S)) /\ IsFiniteSet(all(S))
  BY <1>1
<1> QED BY <1>5, <1>6

\* A sum of natural numbers is one.
LEMMA SumIsNatural ==
  ASSUME NEW S, IsFiniteSet(S), NEW f \in [S -> Nat]
  PROVE  SumFunction(f) \in Nat
<1> DEFINE group == [x \in S |-> {x} \X (1 .. f[x])]
<1>1. ASSUME NEW x \in S
      PROVE  IsFiniteSet(group[x]) /\ f[x] = Cardinality(group[x])
  <2>1. IsFiniteSet({x}) /\ Cardinality({x}) = 1
    BY FS_Singleton
  <2>2. IsFiniteSet(1 .. f[x]) /\ Cardinality(1 .. f[x]) = f[x]
    BY FirstNumbers
  <2>3. /\ IsFiniteSet({x} \X (1 .. f[x]))
        /\ Cardinality({x} \X (1 .. f[x])) = Cardinality({x}) * Cardinality(1 .. f[x])
    BY <2>1, <2>2, FS_Product
  <2> QED BY <2>1, <2>2, <2>3
<1>2. \A x, y \in S : x # y => group[x] \cap group[y] = {}
  OBVIOUS
<1> HIDE DEF group
<1>3. /\ IsFiniteSet(UNION {group[x] : x \in S})
      /\ SumFunction(f) = Cardinality(UNION {group[x] : x \in S})
  BY <1>1, <1>2, SumOfSizes
<1> QED BY <1>3, FS_CardinalityType

\* The sum of one value is that value.
LEMMA SumOfOne ==
  ASSUME NEW x, NEW f, DOMAIN f = {x}, f[x] \in Nat
  PROVE  SumFunction(f) = f[x]
<1> DEFINE group == [y \in {x} |-> 1 .. f[x]]
<1>1. IsFiniteSet(1 .. f[x]) /\ Cardinality(1 .. f[x]) = f[x]
  BY FirstNumbers
<1>2. IsFiniteSet({x})
  BY FS_Singleton
<1>3. UNION {group[y] : y \in {x}} = 1 .. f[x]
  OBVIOUS
<1>4. /\ \A y \in {x} : IsFiniteSet(group[y]) /\ f[y] = Cardinality(group[y])
      /\ \A y, z \in {x} : y # z => group[y] \cap group[z] = {}
  BY <1>1
<1> HIDE DEF group
<1>5. SumFunction(f) = Cardinality(UNION {group[y] : y \in {x}})
  BY <1>2, <1>4, SumOfSizes
<1> QED BY <1>1, <1>3, <1>5

-----------------------------------------------------------------------------
(* pgr_extractVertices. *)

\* Every rank is there, and an enumeration by ranks lists every element once.
LEMMA Enumerates ==
  ASSUME NEW S, IsFiniteSet(S), NEW rel, StrictOrder(S, rel)
  PROVE  /\ Cardinality(S) \in Nat
         /\ \A k \in 1 .. Cardinality(S) : \E s \in S : Rank(S, rel)[s] = k - 1
         /\ \A nth : /\ nth \in [1 .. Cardinality(S) -> S]
                     /\ \A k \in 1 .. Cardinality(S) : Rank(S, rel)[nth[k]] = k - 1
                     => nth \in Bijection(1 .. Cardinality(S), S)
<1> DEFINE n == Cardinality(S)
           rank == Rank(S, rel)
<1>1. n \in Nat
  BY FS_CardinalityType
<1>2. /\ rank \in [S -> 0 .. n - 1]
      /\ \A s, t \in S : rank[s] = rank[t] => s = t
      /\ \A k \in 0 .. n - 1 : \E s \in S : rank[s] = k
  <2>1. rank \in Bijection(S, 0 .. n - 1)
    BY Ranks
  <2> QED BY <2>1 DEF Bijection, Injection, IsInjective, Surjection
<1> HIDE DEF n, rank
<1>3. ASSUME NEW k \in 1 .. n
      PROVE  \E s \in S : rank[s] = k - 1
  <2>1. k - 1 \in 0 .. n - 1
    BY <1>1
  <2> QED BY <1>2, <2>1
<1>4. ASSUME NEW nth \in [1 .. n -> S], \A k \in 1 .. n : rank[nth[k]] = k - 1
      PROVE  nth \in Bijection(1 .. n, S)
  <2>1. \A k, m \in 1 .. n : nth[k] = nth[m] => k = m
    <3> TAKE k, m \in 1 .. n
    <3> HAVE nth[k] = nth[m]
    <3>1. k - 1 = m - 1
      BY <1>4
    <3> QED BY <3>1, <1>1
  <2>2. \A s \in S : \E k \in 1 .. n : nth[k] = s
    <3> TAKE s \in S
    <3>1. rank[s] + 1 \in 1 .. n
      BY <1>1, <1>2
    <3>2. nth[rank[s] + 1] \in S /\ rank[nth[rank[s] + 1]] = rank[s]
      <4>1. rank[nth[rank[s] + 1]] = (rank[s] + 1) - 1
        BY <1>4, <3>1
      <4>2. rank[s] \in Int
        BY <1>2
      <4> QED BY <1>4, <3>1, <4>1, <4>2
    <3> QED BY <1>2, <3>1, <3>2
  <2> QED BY <1>4, <2>1, <2>2 DEF Bijection, Injection, IsInjective, Surjection
<1> QED BY <1>1, <1>3, <1>4 DEF n, rank

EdgeRows == [id : Int, source : {Null} \cup Int, target : {Null} \cup Int]

\* The edges that have an end at a vertex, by their row.
There(edges, end, vertex) == {i \in DOMAIN edges : edges[i][end] = vertex}

\* list(id ORDER BY id) is NULL when no edge is there, and otherwise has the id of
\* every edge that is there, once for each edge.
LEMMA EdgesAtLists ==
  ASSUME NEW edges \in Seq(EdgeRows), NEW end \in {"source", "target"}, NEW vertex
  PROVE  LET there == There(edges, end, vertex)
             list == EdgesAt(edges, end, vertex)
         IN  /\ IsFiniteSet(there) /\ Cardinality(there) \in Nat
             /\ there = {} => list = Null
             /\ there # {} =>
                  /\ list # Null /\ list \in Seq(Int) /\ Len(list) = Cardinality(there)
                  /\ \E nth \in Bijection(1 .. Len(list), there) :
                       \A k \in 1 .. Len(list) : list[k] = edges[nth[k]].id
<1> DEFINE there == There(edges, end, vertex)
           list == EdgesAt(edges, end, vertex)
           n == Cardinality(there)
           earlier(i) == {j \in there : \/ edges[j].id < edges[i].id
                                        \/ edges[j].id = edges[i].id /\ j < i}
           nth == [k \in 1 .. n |-> CHOOSE i \in there : Cardinality(earlier(i)) = k - 1]
           rel == {p \in there \X there : p[1] \in earlier(p[2])}
<1>1. IsFiniteSet(there) /\ n \in Nat
  <2>1. Len(edges) \in Nat /\ there \in SUBSET (1 .. Len(edges))
    BY DEF There
  <2>2. IsFiniteSet(there)
    <3>1. IsFiniteSet(1 .. Len(edges))
      BY <2>1, FS_Interval
    <3> HIDE DEF there
    <3> QED BY <2>1, <3>1, FS_Subset
  <2> QED BY <2>2, FS_CardinalityType
<1>2. \A i \in there : i \in Nat /\ edges[i].id \in Int
  <2> TAKE i \in there
  <2>1. i \in 1 .. Len(edges) /\ edges[i] \in EdgeRows
    BY DEF There
  <2> QED BY <2>1 DEF EdgeRows
<1>3. there = {} => list = Null
  BY DEF EdgesAt, There
<1>4. there # {} => list = [k \in 1 .. n |-> edges[nth[k]].id]
  <2> SUFFICES ASSUME there # {} PROVE list = [k \in 1 .. n |-> edges[nth[k]].id]
    OBVIOUS
  <2>1. list = [k \in 1 .. n |-> edges[CHOOSE i \in there : Cardinality(earlier(i)) = k - 1].id]
    BY DEF EdgesAt, There
  <2> HIDE DEF earlier, list, there
  <2> QED BY <2>1
<1> HIDE DEF there, list
<1>5. \A i, j \in there : <<j, i>> \in rel
                            <=> edges[j].id < edges[i].id \/ (edges[j].id = edges[i].id /\ j < i)
  OBVIOUS
<1>6. \A i \in there : Rank(there, rel)[i] = Cardinality(earlier(i))
  <2> TAKE i \in there
  <2>1. Earlier(there, rel, i) = earlier(i)
    BY DEF Earlier
  <2> QED BY <2>1 DEF Rank
<1> HIDE DEF rel, earlier
<1>7. StrictOrder(there, rel)
  <2>1. \A i \in there : <<i, i>> \notin rel
    BY <1>2, <1>5
  <2>2. ASSUME NEW i \in there, NEW j \in there, NEW k \in there,
               <<i, j>> \in rel, <<j, k>> \in rel
        PROVE  <<i, k>> \in rel
    <3>1. edges[i].id \in Int /\ edges[j].id \in Int /\ edges[k].id \in Int
          /\ i \in Nat /\ j \in Nat /\ k \in Nat
      BY <1>2
    <3>2. edges[i].id < edges[j].id \/ (edges[i].id = edges[j].id /\ i < j)
      BY <1>5, <2>2
    <3>3. edges[j].id < edges[k].id \/ (edges[j].id = edges[k].id /\ j < k)
      BY <1>5, <2>2
    <3>4. edges[i].id < edges[k].id \/ (edges[i].id = edges[k].id /\ i < k)
      BY <3>1, <3>2, <3>3
    <3> QED BY <1>5, <3>4
  <2>3. \A i, j \in there : i # j => <<i, j>> \in rel \/ <<j, i>> \in rel
    BY <1>2, <1>5
  <2> QED BY <2>1, <2>2, <2>3 DEF StrictOrder
<1>8. \A k \in 1 .. n : nth[k] \in there /\ Rank(there, rel)[nth[k]] = k - 1
  <2> TAKE k \in 1 .. n
  <2>1. \E i \in there : Cardinality(earlier(i)) = k - 1
    BY <1>1, <1>6, <1>7, Enumerates
  <2>2. nth[k] \in there /\ Cardinality(earlier(nth[k])) = k - 1
    BY <2>1
  <2> QED BY <1>6, <2>2
<1>9. nth \in Bijection(1 .. n, there)
  <2>1. nth \in [1 .. n -> there]
    BY <1>8
  <2> HIDE DEF nth
  <2> QED BY <1>1, <1>7, <1>8, <2>1, Enumerates
<1>10. ASSUME there # {}
       PROVE  /\ list # Null /\ list \in Seq(Int) /\ Len(list) = n
              /\ \E p \in Bijection(1 .. Len(list), there) :
                   \A k \in 1 .. Len(list) : list[k] = edges[p[k]].id
  <2>1. list = [k \in 1 .. n |-> edges[nth[k]].id]
    BY <1>4, <1>10
  <2>2. \A k \in 1 .. n : edges[nth[k]].id \in Int
    BY <1>2, <1>8
  <2> HIDE DEF n, nth
  <2>3. list \in Seq(Int) /\ Len(list) = n /\ \A k \in 1 .. n : list[k] = edges[nth[k]].id
    BY <1>1, <2>1, <2>2 DEF n
  <2>4. list # Null
    BY <2>3, NullAssumption
  <2> QED BY <1>9, <2>3, <2>4
<1> QED BY <1>1, <1>3, <1>10 DEF there, list

BeforePairs(rows) == {p \in rows \X rows : Before(p[1], p[2])}

\* Rows of vertices: one for each end of the edges, though two may be NULL, in an
\* order that leaves no two in doubt.
VertexRows(rows, edges) ==
  /\ IsFiniteSet(rows)
  /\ {v.at : v \in rows} = Ends(edges)
  /\ \A v, w \in rows : v # w /\ v.at = w.at => v.at = Null
  /\ StrictOrder(rows, BeforePairs(rows))

\* Every edge is in the list of one row: that of the end it has.
Lists(rows, edges, list, end) ==
  /\ \A v \in rows : v[list] \in {Null, EdgesAt(edges, end, v.at)}
  /\ \A v, w \in rows : v # w /\ v.at = w.at => Null \in {v[list], w[list]}
  /\ \A i \in DOMAIN edges :
       \E v \in rows : v.at = edges[i][end] /\ v[list] = EdgesAt(edges, end, v.at)

\* The ends of the edges are finitely many vertices, or NULL.
LEMMA EndsAre ==
  ASSUME NEW edges \in Seq(EdgeRows)
  PROVE  /\ IsFiniteSet(Ends(edges)) /\ Ends(edges) \subseteq {Null} \cup Int
         /\ \A i \in DOMAIN edges : {edges[i].source, edges[i].target} \subseteq Ends(edges)
         /\ \A v \in Ends(edges) : There(edges, "source", v) # {} \/ There(edges, "target", v) # {}
<1> DEFINE sources == {edges[i].source : i \in DOMAIN edges}
           targets == {edges[i].target : i \in DOMAIN edges}
<1>1. Ends(edges) = sources \cup targets
  BY DEF Ends, Rows
<1>2. \A i \in DOMAIN edges : edges[i] \in EdgeRows
  OBVIOUS
<1>3. IsFiniteSet(DOMAIN edges)
  BY Places
<1>4. IsFiniteSet(sources)
  <2> DEFINE f == [i \in DOMAIN edges |-> edges[i].source]
  <2>1. f \in Surjection(DOMAIN edges, sources)
    BY DEF Surjection
  <2> HIDE DEF f, sources
  <2> QED BY <1>3, <2>1, FS_Surjection
<1>5. IsFiniteSet(targets)
  <2> DEFINE f == [i \in DOMAIN edges |-> edges[i].target]
  <2>1. f \in Surjection(DOMAIN edges, targets)
    BY DEF Surjection
  <2> HIDE DEF f, targets
  <2> QED BY <1>3, <2>1, FS_Surjection
<1>6. IsFiniteSet(sources \cup targets)
  <2> HIDE DEF sources, targets
  <2> QED BY <1>4, <1>5, FS_Union
<1>7. sources \cup targets \subseteq {Null} \cup Int
  BY <1>2 DEF EdgeRows
<1>8. \A v \in sources \cup targets : There(edges, "source", v) # {} \/ There(edges, "target", v) # {}
  BY DEF There
<1>9. \A i \in DOMAIN edges : {edges[i].source, edges[i].target} \subseteq sources \cup targets
  OBVIOUS
<1> HIDE DEF sources, targets
<1> QED BY <1>1, <1>6, <1>7, <1>8, <1>9

\* Rows of ends that tell two NULL rows apart are ordered by Before.
LEMMA OrderedByEnds ==
  ASSUME NEW rows, \A v \in rows : v.at \in {Null} \cup Int,
         \A v, w \in rows : v # w /\ v.at = w.at =>
           v.at = Null /\ (Before(v, w) \/ Before(w, v))
  PROVE  StrictOrder(rows, BeforePairs(rows))
<1> USE NullAssumption
<1>1. \A v, w \in rows : <<v, w>> \in BeforePairs(rows) <=> Before(v, w)
  BY DEF BeforePairs
<1>2. \A v \in rows : ~Before(v, v)
  BY DEF Before
<1>3. ASSUME NEW u \in rows, NEW v \in rows, NEW w \in rows, Before(u, v), Before(v, w)
      PROVE  Before(u, w)
  BY <1>3 DEF Before
<1>4. ASSUME NEW v \in rows, NEW w \in rows, v # w
      PROVE  Before(v, w) \/ Before(w, v)
  BY <1>4 DEF Before
<1> QED BY <1>1, <1>2, <1>3, <1>4 DEF StrictOrder

\* agg_out FULL OUTER JOIN agg_in.
LEMMA JoinedIs ==
  ASSUME NEW edges \in Seq(EdgeRows)
  PROVE  /\ VertexRows(Joined(edges), edges)
         /\ Lists(Joined(edges), edges, "in_edges", "target")
         /\ Lists(Joined(edges), edges, "out_edges", "source")
<1> DEFINE rows == Joined(edges)
           into(v) == EdgesAt(edges, "target", v)
           out(v) == EdgesAt(edges, "source", v)
           named == {[at |-> v, in_edges |-> into(v), out_edges |-> out(v)] : v \in Ends(edges) \ {Null}}
           arriving == [at |-> Null, in_edges |-> into(Null), out_edges |-> Null]
           leaving == [at |-> Null, in_edges |-> Null, out_edges |-> out(Null)]
           nulls == {v \in {arriving, [at |-> Null, in_edges |-> Null, out_edges |-> out(Null)]} :
                       v.in_edges # Null \/ v.out_edges # Null}
<1>1. rows = named \cup nulls
  BY DEF Joined
<1>2. \A v : /\ There(edges, "target", v) # {} <=> into(v) # Null
             /\ There(edges, "source", v) # {} <=> out(v) # Null
  <2>1. \A v : /\ There(edges, "target", v) = {} => into(v) = Null
               /\ There(edges, "target", v) # {} => into(v) # Null
    BY EdgesAtLists
  <2>2. \A v : /\ There(edges, "source", v) = {} => out(v) = Null
               /\ There(edges, "source", v) # {} => out(v) # Null
    BY EdgesAtLists
  <2> QED BY <2>1, <2>2
<1>3. /\ IsFiniteSet(Ends(edges)) /\ Ends(edges) \subseteq {Null} \cup Int
      /\ \A i \in DOMAIN edges : edges[i].source \in Ends(edges) /\ edges[i].target \in Ends(edges)
      /\ \A v \in Ends(edges) : There(edges, "source", v) # {} \/ There(edges, "target", v) # {}
  BY EndsAre
<1>4. Null \in Ends(edges) <=> into(Null) # Null \/ out(Null) # Null
  <2>1. into(Null) # Null \/ out(Null) # Null => Null \in Ends(edges)
    BY <1>2, <1>3 DEF There
  <2> QED BY <1>2, <1>3, <2>1
<1> HIDE DEF into, out
<1>5. nulls = (IF into(Null) # Null THEN {arriving} ELSE {})
                \cup (IF out(Null) # Null THEN {leaving} ELSE {})
  OBVIOUS
<1>6. \A v \in named : /\ v.at \in Ends(edges) \ {Null}
                       /\ v.in_edges = into(v.at) /\ v.out_edges = out(v.at)
                       /\ v = [at |-> v.at, in_edges |-> into(v.at), out_edges |-> out(v.at)]
  OBVIOUS
<1>7. /\ arriving.at = Null /\ arriving.in_edges = into(Null) /\ arriving.out_edges = Null
      /\ leaving.at = Null /\ leaving.in_edges = Null /\ leaving.out_edges = out(Null)
  OBVIOUS
<1>8. \A v \in Ends(edges) \ {Null} : \E w \in named :
        w.at = v /\ w.in_edges = into(v) /\ w.out_edges = out(v)
  <2> TAKE v \in Ends(edges) \ {Null}
  <2>1. [at |-> v, in_edges |-> into(v), out_edges |-> out(v)] \in named
    OBVIOUS
  <2> QED BY <2>1
<1>9. IsFiniteSet(rows)
  <2> DEFINE f == [v \in Ends(edges) \ {Null} |->
                     [at |-> v, in_edges |-> into(v), out_edges |-> out(v)]]
             vertices == Ends(edges) \ {Null}
  <2>1. f \in Surjection(vertices, named)
    BY DEF Surjection
  <2>2. IsFiniteSet(vertices)
    BY <1>3, FS_RemoveElement
  <2> HIDE DEF f, vertices
  <2>3. IsFiniteSet(named)
    BY <2>1, <2>2, FS_Surjection
  <2>4. IsFiniteSet(nulls)
    <3>1. nulls \in SUBSET {arriving, leaving}
      OBVIOUS
    <3>2. IsFiniteSet({arriving} \cup {leaving})
      BY FS_Singleton, FS_Union
    <3>3. {arriving} \cup {leaving} = {arriving, leaving}
      OBVIOUS
    <3> HIDE DEF nulls, arriving, leaving
    <3> QED BY <3>1, <3>2, <3>3, FS_Subset
  <2> HIDE DEF named, nulls, rows
  <2> QED BY <1>1, <2>3, <2>4, FS_Union
<1> HIDE DEF named, nulls, rows, arriving, leaving
<1>10. \A v \in rows : \/ v \in named
                       \/ v = arriving /\ into(Null) # Null
                       \/ v = leaving /\ out(Null) # Null
  BY <1>1, <1>5
<1>11. {v.at : v \in rows} = Ends(edges)
  <2>1. \A v \in rows : v.at \in Ends(edges)
    BY <1>4, <1>6, <1>7, <1>10
  <2>2. \A e \in Ends(edges) : \E v \in rows : v.at = e
    BY <1>1, <1>4, <1>5, <1>7, <1>8
  <2> QED BY <2>1, <2>2
<1>12. \A v, w \in rows : v # w /\ v.at = w.at =>
         /\ v.at = Null
         /\ \/ v = arriving /\ w = leaving /\ into(Null) # Null
            \/ v = leaving /\ w = arriving /\ into(Null) # Null
  BY <1>6, <1>7, <1>10
<1>13. StrictOrder(rows, BeforePairs(rows))
  <2>1. \A v \in rows : v.at \in {Null} \cup Int
    BY <1>3, <1>11
  <2>2. into(Null) # Null => Before(arriving, leaving)
    BY <1>7 DEF Before
  <2>3. \A v, w \in rows : v # w /\ v.at = w.at => v.at = Null /\ (Before(v, w) \/ Before(w, v))
    BY <1>12, <2>2
  <2> QED BY <2>1, <2>3, OrderedByEnds
<1>14. VertexRows(rows, edges)
  BY <1>9, <1>11, <1>12, <1>13 DEF VertexRows
<1>15. Lists(rows, edges, "in_edges", "target")
  <2>1. \A v \in rows : v.in_edges \in {Null, into(v.at)}
    BY <1>6, <1>7, <1>10
  <2>2. \A v, w \in rows : v # w /\ v.at = w.at => Null \in {v.in_edges, w.in_edges}
    BY <1>7, <1>12
  <2>3. ASSUME NEW i \in DOMAIN edges
        PROVE  \E v \in rows : v.at = edges[i].target /\ v.in_edges = into(v.at)
    <3>1. edges[i].target \in Ends(edges)
      BY <1>3
    <3>2. edges[i].target = Null => into(Null) # Null
      BY <1>2 DEF There
    <3> QED BY <1>1, <1>5, <1>7, <1>8, <3>1, <3>2
  <2> QED BY <2>1, <2>2, <2>3 DEF Lists, into
<1>16. Lists(rows, edges, "out_edges", "source")
  <2>1. \A v \in rows : v.out_edges \in {Null, out(v.at)}
    BY <1>6, <1>7, <1>10
  <2>2. \A v, w \in rows : v # w /\ v.at = w.at => Null \in {v.out_edges, w.out_edges}
    BY <1>7, <1>12
  <2>3. ASSUME NEW i \in DOMAIN edges
        PROVE  \E v \in rows : v.at = edges[i].source /\ v.out_edges = out(v.at)
    <3>1. edges[i].source \in Ends(edges)
      BY <1>3
    <3>2. edges[i].source = Null => out(Null) # Null
      BY <1>2 DEF There
    <3> QED BY <1>1, <1>5, <1>7, <1>8, <3>1, <3>2
  <2> QED BY <2>1, <2>2, <2>3 DEF Lists, out
<1> QED BY <1>14, <1>15, <1>16 DEF rows

\* the_ends UNION the_ends.
LEMMA ListlessIs ==
  ASSUME NEW edges \in Seq(EdgeRows)
  PROVE  /\ VertexRows(Listless(edges), edges)
         /\ \A v \in Listless(edges) : v.in_edges = Null /\ v.out_edges = Null
<1> DEFINE rows == Listless(edges)
           f == [v \in Ends(edges) |-> [at |-> v, in_edges |-> Null, out_edges |-> Null]]
<1>1. /\ \A v \in rows : /\ v = [at |-> v.at, in_edges |-> Null, out_edges |-> Null]
                         /\ v.at \in Ends(edges) /\ v.in_edges = Null /\ v.out_edges = Null
      /\ \A e \in Ends(edges) : \E v \in rows : v.at = e
  <2>1. ASSUME NEW v \in rows
        PROVE  /\ v = [at |-> v.at, in_edges |-> Null, out_edges |-> Null]
               /\ v.at \in Ends(edges) /\ v.in_edges = Null /\ v.out_edges = Null
    <3>1. PICK e \in Ends(edges) : v = [at |-> e, in_edges |-> Null, out_edges |-> Null]
      BY DEF Listless
    <3> QED BY <3>1
  <2>2. ASSUME NEW e \in Ends(edges)
        PROVE  \E v \in rows : v.at = e
    <3> DEFINE v == [at |-> e, in_edges |-> Null, out_edges |-> Null]
    <3>1. v \in rows /\ v.at = e
      BY DEF Listless
    <3> HIDE DEF v, rows
    <3> QED BY <3>1
  <2> HIDE DEF rows
  <2> QED BY <2>1, <2>2
<1>2. IsFiniteSet(Ends(edges)) /\ Ends(edges) \subseteq {Null} \cup Int
  BY EndsAre
<1>3. IsFiniteSet(rows)
  <2>1. f \in Surjection(Ends(edges), rows)
    BY DEF Surjection, Listless
  <2> HIDE DEF f, rows
  <2> QED BY <1>2, <2>1, FS_Surjection
<1> HIDE DEF rows
<1>4. \A v, w \in rows : v.at = w.at => v = w
  BY <1>1
<1>5. StrictOrder(rows, BeforePairs(rows))
  BY <1>1, <1>2, <1>4, OrderedByEnds
<1>6. {v.at : v \in rows} = Ends(edges)
  BY <1>1
<1>7. VertexRows(rows, edges)
  BY <1>3, <1>4, <1>5, <1>6 DEF VertexRows
<1> QED BY <1>1, <1>7 DEF rows

ExtractTexts == {"geom_with_id", "geom", "points_with_id", "points",
                 "source_target_with_id", "source_target"}

\* What pgr_extractVertices gives: the rows of the join or of the union, with ids that
\* are the vertices or number the rows in their order.
LEMMA ExtractedRows ==
  ASSUME NEW edges \in Seq(EdgeRows), NEW text_of \in ExtractTexts
  PROVE  LET found == ExtractVertices(text_of, edges)
         IN  /\ VertexRows(found, edges)
             /\ IF "id" \in Columns(text_of)
                  THEN /\ Lists(found, edges, "in_edges", "target")
                       /\ Lists(found, edges, "out_edges", "source")
                  ELSE \A v \in found : v.in_edges = Null /\ v.out_edges = Null
             /\ "source" \in Columns(text_of) => \A v \in found : v.id = v.at
             /\ "source" \notin Columns(text_of) =>
                  /\ {v.id : v \in found} = 1 .. Cardinality(found)
                  /\ \A v, w \in found : v.id < w.id => ~Before(w, v)
<1> DEFINE found == ExtractVertices(text_of, edges)
           points == IF "id" \in Columns(text_of) THEN Joined(edges) ELSE Listless(edges)
           id(v) == IF "source" \in Columns(text_of) THEN v.at
                    ELSE 1 + Cardinality({w \in points : Before(w, v)})
           rel == BeforePairs(points)
<1>1. found = {Vertex(v, id(v)) : v \in points}
  BY DEF ExtractVertices
<1>2. VertexRows(points, edges)
  BY JoinedIs, ListlessIs
<1>3. IF "id" \in Columns(text_of)
        THEN /\ Lists(points, edges, "in_edges", "target")
             /\ Lists(points, edges, "out_edges", "source")
        ELSE \A v \in points : v.in_edges = Null /\ v.out_edges = Null
  BY JoinedIs, ListlessIs
<1>4. \A v, w \in points : v.at = w.at /\ v.in_edges = w.in_edges /\ v.out_edges = w.out_edges => v = w
  <2>1. \A v \in points : v = [at |-> v.at, in_edges |-> v.in_edges, out_edges |-> v.out_edges]
    BY DEF Joined, Listless
  <2> HIDE DEF points
  <2> QED BY <2>1
<1> HIDE DEF points
<1>5. \A v \in points : id(v) = IF "source" \in Columns(text_of) THEN v.at
                                ELSE 1 + Rank(points, rel)[v]
  <2> TAKE v \in points
  <2>1. {w \in points : Before(w, v)} = Earlier(points, rel, v)
    BY DEF Earlier, BeforePairs
  <2> QED BY <2>1 DEF Rank
<1> HIDE DEF id
<1> DEFINE row(v) == Vertex(v, id(v))
<1>6. \A v \in points : /\ row(v).at = v.at /\ row(v).id = id(v)
                        /\ row(v).in_edges = v.in_edges /\ row(v).out_edges = v.out_edges
                        /\ row(v)["in_edges"] = v["in_edges"] /\ row(v)["out_edges"] = v["out_edges"]
  BY DEF Vertex
<1>7. \A v, w \in points : row(v) = row(w) => v = w
  BY <1>4, <1>6
<1>8. \A v, w \in points : Before(row(v), row(w)) <=> Before(v, w)
  BY <1>6 DEF Before
<1> HIDE DEF row
<1>9. /\ \A v \in points : row(v) \in found
      /\ \A x \in found : \E v \in points : x = row(v)
  BY <1>1 DEF row
<1> HIDE DEF found, rel
<1>10. IsFiniteSet(found) /\ Cardinality(found) = Cardinality(points)
  <2> DEFINE f == [v \in points |-> row(v)]
  <2>1. f \in Bijection(points, found)
    BY <1>7, <1>9 DEF Bijection, Injection, IsInjective, Surjection
  <2>2. ExistsBijection(points, found) /\ IsFiniteSet(points)
    BY <1>2, <2>1 DEF ExistsBijection, VertexRows
  <2> QED BY <2>2, FS_Bijection
<1>11. VertexRows(found, edges)
  <2>1. {v.at : v \in found} = {v.at : v \in points}
    BY <1>6, <1>9
  <2>2. \A v, w \in found : v # w /\ v.at = w.at => v.at = Null
    BY <1>2, <1>6, <1>9 DEF VertexRows
  <2>3. StrictOrder(found, BeforePairs(found))
    <3>1. \A v, w \in points : <<row(v), row(w)>> \in BeforePairs(found) <=> <<v, w>> \in BeforePairs(points)
      BY <1>8, <1>9 DEF BeforePairs
    <3>2. StrictOrder(points, BeforePairs(points))
      BY <1>2 DEF VertexRows
    <3>3. \A x \in found : <<x, x>> \notin BeforePairs(found)
      BY <1>9, <3>1, <3>2 DEF StrictOrder
    <3>4. ASSUME NEW x \in found, NEW y \in found, NEW z \in found,
                 <<x, y>> \in BeforePairs(found), <<y, z>> \in BeforePairs(found)
          PROVE  <<x, z>> \in BeforePairs(found)
      <4>1. PICK u \in points, v \in points, w \in points : x = row(u) /\ y = row(v) /\ z = row(w)
        BY <1>9
      <4>2. <<u, v>> \in BeforePairs(points) /\ <<v, w>> \in BeforePairs(points)
        BY <3>1, <3>4, <4>1
      <4>3. <<u, w>> \in BeforePairs(points)
        BY <3>2, <4>2 DEF StrictOrder
      <4> QED BY <3>1, <4>1, <4>3
    <3>5. \A x, y \in found : x # y => <<x, y>> \in BeforePairs(found) \/ <<y, x>> \in BeforePairs(found)
      BY <1>9, <3>1, <3>2 DEF StrictOrder
    <3> QED BY <3>3, <3>4, <3>5 DEF StrictOrder
  <2> QED BY <1>2, <1>10, <2>1, <2>2, <2>3 DEF VertexRows
<1>12. ASSUME NEW list \in {"in_edges", "out_edges"}, NEW end \in {"source", "target"},
              Lists(points, edges, list, end)
       PROVE  Lists(found, edges, list, end)
  <2>1. \A v \in points : row(v)[list] = v[list] /\ row(v).at = v.at
    BY <1>6
  <2>2. \A x \in found : x[list] \in {Null, EdgesAt(edges, end, x.at)}
    BY <1>9, <1>12, <2>1 DEF Lists
  <2>3. \A x, y \in found : x # y /\ x.at = y.at => Null \in {x[list], y[list]}
    BY <1>9, <1>12, <2>1 DEF Lists
  <2>4. ASSUME NEW i \in DOMAIN edges
        PROVE  \E x \in found : x.at = edges[i][end] /\ x[list] = EdgesAt(edges, end, x.at)
    <3>1. PICK v \in points : v.at = edges[i][end] /\ v[list] = EdgesAt(edges, end, v.at)
      BY <1>12 DEF Lists
    <3> QED BY <1>9, <2>1, <3>1
  <2> QED BY <2>2, <2>3, <2>4 DEF Lists
<1>13. IF "id" \in Columns(text_of)
         THEN /\ Lists(found, edges, "in_edges", "target")
              /\ Lists(found, edges, "out_edges", "source")
         ELSE \A v \in found : v.in_edges = Null /\ v.out_edges = Null
  BY <1>3, <1>6, <1>9, <1>12
<1>14. "source" \in Columns(text_of) => \A v \in found : v.id = v.at
  BY <1>5, <1>6, <1>9
<1>15. ASSUME "source" \notin Columns(text_of)
       PROVE  /\ {v.id : v \in found} = 1 .. Cardinality(found)
              /\ \A v, w \in found : v.id < w.id => ~Before(w, v)
  <2> DEFINE n == Cardinality(points)
             rank == Rank(points, rel)
  <2>1. IsFiniteSet(points) /\ StrictOrder(points, rel)
    BY <1>2 DEF VertexRows, rel
  <2>2. n \in Nat
    BY <2>1, FS_CardinalityType
  <2>3. /\ rank \in [points -> 0 .. n - 1]
        /\ \A k \in 0 .. n - 1 : \E v \in points : rank[v] = k
        /\ \A v, w \in points : <<v, w>> \in rel => rank[v] < rank[w]
    <3>1. /\ rank \in Bijection(points, 0 .. n - 1)
          /\ \A v, w \in points : <<v, w>> \in rel => rank[v] < rank[w]
      BY <2>1, Ranks
    <3> QED BY <3>1 DEF Bijection, Surjection
  <2> HIDE DEF rank, n
  <2>4. \A v \in points : row(v).id = 1 + rank[v]
    BY <1>5, <1>6, <1>15 DEF rank
  <2>5. \A x \in found : x.id \in 1 .. n
    <3> TAKE x \in found
    <3>1. PICK v \in points : x = row(v)
      BY <1>9
    <3>2. rank[v] \in 0 .. n - 1 /\ x.id = 1 + rank[v]
      BY <2>3, <2>4, <3>1
    <3> QED BY <2>2, <3>2
  <2>6. \A k \in 1 .. n : \E x \in found : x.id = k
    <3> TAKE k \in 1 .. n
    <3>1. k - 1 \in 0 .. n - 1 /\ 1 + (k - 1) = k
      BY <2>2
    <3>2. PICK v \in points : rank[v] = k - 1
      BY <2>3, <3>1
    <3> QED BY <1>9, <2>4, <3>1, <3>2
  <2>7. ASSUME NEW x \in found, NEW y \in found, x.id < y.id
        PROVE  ~Before(y, x)
    <3>1. PICK v \in points, w \in points : x = row(v) /\ y = row(w)
      BY <1>9
    <3>2. 1 + rank[v] < 1 + rank[w] /\ rank[v] \in Int /\ rank[w] \in Int
      BY <2>3, <2>4, <2>7, <3>1
    <3>3. <<w, v>> \notin rel
      BY <2>3, <3>2
    <3>4. ~Before(w, v)
      BY <3>3 DEF rel, BeforePairs
    <3> QED BY <1>8, <3>1, <3>4
  <2> QED BY <1>10, <2>5, <2>6, <2>7 DEF n
<1> QED BY <1>11, <1>13, <1>14, <1>15 DEF found

\* Every edge is once in the lists of one end.
LEMMA EveryEdgeListed ==
  ASSUME NEW edges \in Seq(EdgeRows), NEW rows, IsFiniteSet(rows),
         NEW list \in {"in_edges", "out_edges"}, NEW end \in {"source", "target"},
         Lists(rows, edges, list, end)
  PROVE  /\ SumFunction([v \in rows |-> Len(OrEmpty(v[list]))]) = Len(edges)
         /\ \A e \in Rows(edges) : \E v \in rows : v.at = e[end] /\ e.id \in Rows(OrEmpty(v[list]))
<1> DEFINE f == [v \in rows |-> Len(OrEmpty(v[list]))]
           group == [v \in rows |-> IF v[list] = Null THEN {} ELSE There(edges, end, v.at)]
<1>1. \A v : /\ IsFiniteSet(There(edges, end, v)) /\ Cardinality(There(edges, end, v)) \in Nat
             /\ There(edges, end, v) = {} => EdgesAt(edges, end, v) = Null
             /\ There(edges, end, v) # {} =>
                  /\ EdgesAt(edges, end, v) # Null
                  /\ Len(EdgesAt(edges, end, v)) = Cardinality(There(edges, end, v))
  BY EdgesAtLists
<1>2. \A i \in DOMAIN edges : i \in There(edges, end, edges[i][end])
  BY DEF There
<1>3. ASSUME NEW v \in rows
      PROVE  IsFiniteSet(group[v]) /\ f[v] = Cardinality(group[v])
  <2>1. CASE v[list] = Null
    <3>1. f[v] = 0 /\ group[v] = {}
      BY <2>1 DEF OrEmpty
    <3> QED BY <3>1, FS_EmptySet
  <2>2. CASE v[list] # Null
    <3>1. v[list] = EdgesAt(edges, end, v.at)
      BY <2>2 DEF Lists
    <3>2. group[v] = There(edges, end, v.at) /\ f[v] = Len(EdgesAt(edges, end, v.at))
      BY <2>2, <3>1 DEF OrEmpty
    <3>3. There(edges, end, v.at) # {}
      BY <1>1, <2>2, <3>1
    <3> QED BY <1>1, <3>2, <3>3
  <2> QED BY <2>1, <2>2
<1>4. ASSUME NEW v \in rows, NEW w \in rows, v # w
      PROVE  group[v] \cap group[w] = {}
  <2>1. CASE v.at = w.at
    <3>1. Null \in {v[list], w[list]}
      BY <1>4, <2>1 DEF Lists
    <3> QED BY <3>1
  <2>2. CASE v.at # w.at
    BY <2>2 DEF There
  <2> QED BY <2>1, <2>2
<1>5. UNION {group[v] : v \in rows} = DOMAIN edges
  <2>1. \A v \in rows : group[v] \subseteq DOMAIN edges
    BY DEF There
  <2>2. ASSUME NEW i \in DOMAIN edges
        PROVE  \E v \in rows : i \in group[v]
    <3>1. PICK v \in rows : v.at = edges[i][end] /\ v[list] = EdgesAt(edges, end, v.at)
      BY DEF Lists
    <3>2. i \in There(edges, end, v.at)
      BY <1>2, <3>1
    <3>3. v[list] # Null
      BY <1>1, <3>1, <3>2
    <3> QED BY <3>2, <3>3
  <2> HIDE DEF group
  <2> QED BY <2>1, <2>2
<1>6. Cardinality(DOMAIN edges) = Len(edges)
  BY Places
<1>7. SumFunction(f) = Len(edges)
  <2>1. DOMAIN f = rows
    OBVIOUS
  <2> HIDE DEF f, group
  <2>2. SumFunction(f) = Cardinality(UNION {group[v] : v \in rows})
    BY <1>3, <1>4, <2>1, SumOfSizes, SMTT(20)
  <2> QED BY <1>5, <1>6, <2>2
<1>8. ASSUME NEW e \in Rows(edges)
      PROVE  \E v \in rows : v.at = e[end] /\ e.id \in Rows(OrEmpty(v[list]))
  <2>1. PICK i \in DOMAIN edges : e = edges[i]
    BY DEF Rows
  <2>2. PICK v \in rows : v.at = edges[i][end] /\ v[list] = EdgesAt(edges, end, v.at)
    BY DEF Lists
  <2> DEFINE there == There(edges, end, v.at)
             ids == EdgesAt(edges, end, v.at)
  <2>3. i \in there
    BY <1>2, <2>2
  <2>4. /\ ids # Null /\ ids \in Seq(Int)
        /\ \E nth \in Bijection(1 .. Len(ids), there) :
             \A k \in 1 .. Len(ids) : ids[k] = edges[nth[k]].id
    BY <2>3, EdgesAtLists
  <2> HIDE DEF there, ids
  <2>5. PICK nth \in Bijection(1 .. Len(ids), there) :
          \A k \in 1 .. Len(ids) : ids[k] = edges[nth[k]].id
    BY <2>4
  <2>6. PICK k \in 1 .. Len(ids) : nth[k] = i
    BY <2>3, <2>5 DEF Bijection, Surjection
  <2>7. ids[k] = e.id /\ k \in DOMAIN ids
    BY <2>1, <2>4, <2>5, <2>6
  <2>8. OrEmpty(v[list]) = ids
    BY <2>2, <2>4 DEF OrEmpty, ids
  <2>9. e.id \in Rows(ids)
    BY <2>7 DEF Rows
  <2> QED BY <2>1, <2>2, <2>8, <2>9
<1> QED BY <1>7, <1>8

-----------------------------------------------------------------------------
(* pgr_degree. *)

\* How many edges have an end at a vertex.
DegreeOf(edges, v) ==
  Cardinality(There(edges, "source", v)) + Cardinality(There(edges, "target", v))

\* Counting over the edges gives every end its degree, and every edge two of them.
LEMMA DegreesFromEdges ==
  ASSUME NEW edges \in Seq(EdgeRows), NEW rows, rows = DegreeFromEdges(edges)
  PROVE  /\ rows = {[node |-> v, degree |-> DegreeOf(edges, v)] : v \in Ends(edges)}
         /\ \A v \in Ends(edges) : DegreeOf(edges, v) \in Nat \ {0}
         /\ SumFunction([row \in rows |-> row.degree]) = 2 * Len(edges)
<1> DEFINE f == [row \in rows |-> row.degree]
           from(v) == There(edges, "source", v)
           to(v) == There(edges, "target", v)
           slots(v) == (from(v) \X {"source"}) \cup (to(v) \X {"target"})
           group == [row \in rows |-> slots(row.node)]
           all == (DOMAIN edges) \X {"source", "target"}
<1>1. rows = {[node |-> v, degree |-> DegreeOf(edges, v)] : v \in Ends(edges)}
  <2>1. ASSUME NEW v
        PROVE  /\ CountIn([i \in DOMAIN edges |-> edges[i].source], v) = Cardinality(from(v))
               /\ CountIn([i \in DOMAIN edges |-> edges[i].target], v) = Cardinality(to(v))
    <3>1. /\ {i \in DOMAIN [j \in DOMAIN edges |-> edges[j].source] :
                [j \in DOMAIN edges |-> edges[j].source][i] = v} = from(v)
          /\ {i \in DOMAIN [j \in DOMAIN edges |-> edges[j].target] :
                [j \in DOMAIN edges |-> edges[j].target][i] = v} = to(v)
      BY DEF There
    <3> QED BY <3>1 DEF CountIn
  <2> QED BY <2>1 DEF DegreeFromEdges, DegreeOf
<1>2. \A v : /\ IsFiniteSet(from(v)) /\ Cardinality(from(v)) \in Nat
             /\ IsFiniteSet(to(v)) /\ Cardinality(to(v)) \in Nat
  BY EdgesAtLists
<1>3. ASSUME NEW v \in Ends(edges)
      PROVE  DegreeOf(edges, v) \in Nat \ {0}
  <2>1. from(v) # {} \/ to(v) # {}
    BY EndsAre
  <2>2. Cardinality(from(v)) # 0 \/ Cardinality(to(v)) # 0
    BY <1>2, <2>1, FS_EmptySet
  <2> QED BY <1>2, <2>2 DEF DegreeOf
<1>4. ASSUME NEW v
      PROVE  IsFiniteSet(slots(v)) /\ Cardinality(slots(v)) = DegreeOf(edges, v)
  <2> DEFINE left == from(v) \X {"source"}
             right == to(v) \X {"target"}
  <2>1. /\ IsFiniteSet({"source"}) /\ Cardinality({"source"}) = 1
        /\ IsFiniteSet({"target"}) /\ Cardinality({"target"}) = 1
    BY FS_Singleton
  <2> HIDE DEF from, to
  <2>2. IsFiniteSet(left) /\ Cardinality(left) = Cardinality(from(v)) * 1
    BY <1>2, <2>1, FS_Product
  <2>3. IsFiniteSet(right) /\ Cardinality(right) = Cardinality(to(v)) * 1
    BY <1>2, <2>1, FS_Product
  <2>4. left \cap right = {}
    OBVIOUS
  <2> HIDE DEF left, right
  <2>5. /\ IsFiniteSet(left \cup right)
        /\ Cardinality(left \cup right) = Cardinality(left) + Cardinality(right) - Cardinality(left \cap right)
    BY <2>2, <2>3, FS_Union
  <2>6. Cardinality(left \cap right) = 0
    BY <2>4, FS_EmptySet
  <2>7. Cardinality(left \cup right) = Cardinality(from(v)) + Cardinality(to(v))
    BY <1>2, <2>2, <2>3, <2>5, <2>6
  <2> QED BY <2>5, <2>7 DEF DegreeOf, left, right, from, to
<1>5. \A row \in rows : /\ row.node \in Ends(edges) /\ row.degree = DegreeOf(edges, row.node)
                        /\ row = [node |-> row.node, degree |-> DegreeOf(edges, row.node)]
  BY <1>1
<1>6. IsFiniteSet(rows)
  <2> DEFINE g == [v \in Ends(edges) |-> [node |-> v, degree |-> DegreeOf(edges, v)]]
  <2>1. g \in Surjection(Ends(edges), rows)
    BY <1>1 DEF Surjection
  <2>2. IsFiniteSet(Ends(edges))
    BY EndsAre
  <2> HIDE DEF g
  <2> QED BY <2>1, <2>2, FS_Surjection
<1>7. \A v \in Ends(edges) : \E row \in rows : row.node = v
  <2> TAKE v \in Ends(edges)
  <2>1. [node |-> v, degree |-> DegreeOf(edges, v)] \in rows
    BY <1>1
  <2> QED BY <2>1
<1> HIDE DEF slots
<1>8. ASSUME NEW row \in rows
      PROVE  IsFiniteSet(group[row]) /\ f[row] = Cardinality(group[row])
  BY <1>4, <1>5
<1>9. ASSUME NEW row \in rows, NEW other \in rows, row # other
      PROVE  group[row] \cap group[other] = {}
  <2>1. row.node # other.node
    BY <1>5, <1>9
  <2>2. slots(row.node) \cap slots(other.node) = {}
    BY <2>1 DEF slots, There
  <2> QED BY <2>2
<1>10. UNION {group[row] : row \in rows} = all
  <2>1. \A row \in rows : group[row] \subseteq all
    BY DEF slots, There
  <2>2. ASSUME NEW slot \in all
        PROVE  \E row \in rows : slot \in group[row]
    <3>1. PICK i \in DOMAIN edges : slot = <<i, "source">> \/ slot = <<i, "target">>
      OBVIOUS
    <3>2. edges[i].source \in Ends(edges) /\ edges[i].target \in Ends(edges)
      BY EndsAre
    <3>3. CASE slot = <<i, "source">>
      <4>1. slot \in slots(edges[i].source)
        BY <3>3 DEF slots, There
      <4> QED BY <1>7, <3>2, <4>1
    <3>4. CASE slot = <<i, "target">>
      <4>1. slot \in slots(edges[i].target)
        BY <3>4 DEF slots, There
      <4> QED BY <1>7, <3>2, <4>1
    <3> QED BY <3>1, <3>3, <3>4
  <2> HIDE DEF group, all
  <2> QED BY <2>1, <2>2
<1>11. Cardinality(all) = 2 * Len(edges)
  <2>1. Len(edges) \in Nat
    OBVIOUS
  <2>2. IsFiniteSet(DOMAIN edges) /\ Cardinality(DOMAIN edges) = Len(edges)
    BY Places
  <2>3. IsFiniteSet({"source", "target"}) /\ Cardinality({"source", "target"}) = 2
    <3>1. IsFiniteSet({"source"}) /\ Cardinality({"source"}) = 1
      BY FS_Singleton
    <3>2. {"source"} \cup {"target"} = {"source", "target"} /\ "target" \notin {"source"}
      OBVIOUS
    <3>3. /\ IsFiniteSet({"source"} \cup {"target"})
          /\ Cardinality({"source"} \cup {"target"}) = Cardinality({"source"}) + 1
      BY <3>1, <3>2, FS_AddElement
    <3> QED BY <3>1, <3>2, <3>3
  <2>4. Cardinality(all) = Cardinality(DOMAIN edges) * Cardinality({"source", "target"})
    BY <2>2, <2>3, FS_Product
  <2> QED BY <2>1, <2>2, <2>3, <2>4
<1>12. SumFunction(f) = 2 * Len(edges)
  <2>1. DOMAIN f = rows
    OBVIOUS
  <2> HIDE DEF f, group
  <2>2. SumFunction(f) = Cardinality(UNION {group[row] : row \in rows})
    <3>1. \A x \in rows : IsFiniteSet(group[x]) /\ f[x] = Cardinality(group[x])
      BY <1>8
    <3>2. \A x, y \in rows : x # y => group[x] \cap group[y] = {}
      BY <1>9
    <3>3. SumFunction(f) = Cardinality(UNION {group[x] : x \in rows})
      BY <1>6, <2>1, <3>1, <3>2, SumOfSizes
    <3> QED BY <3>3
  <2> QED BY <1>10, <1>11, <2>2
<1> QED BY <1>1, <1>3, <1>12

\* Rows of vertices that pgr_degree can read.
Readable(vertices) ==
  /\ IsFiniteSet(DOMAIN vertices)
  /\ \A i \in DOMAIN vertices : /\ vertices[i].in_edges \in {Null} \cup Seq(Int)
                                /\ vertices[i].out_edges \in {Null} \cup Seq(Int)

\* The pairs of a list entry of a vertex and an edge.
Matches(text_of, edges, v) ==
  {m \in (DOMAIN EdgeIds(text_of, v)) \X (DOMAIN edges) : EdgeIds(text_of, v)[m[1]] = edges[m[2]].id}

\* Totals are natural numbers.
LEMMA TotalIsNatural ==
  ASSUME NEW edges \in Seq(EdgeRows), NEW text_of, NEW vertices, Readable(vertices), NEW id
  PROVE  /\ Total(text_of, edges, vertices, id) \in Nat
         /\ \A i \in DOMAIN vertices :
              Cardinality(Matches(text_of, edges, vertices[i])) \in Nat
<1> DEFINE S == {i \in DOMAIN vertices : vertices[i].id = id}
           f == [i \in S |-> Cardinality(Matches(text_of, edges, vertices[i]))]
<1>1. ASSUME NEW i \in DOMAIN vertices
      PROVE  Cardinality(Matches(text_of, edges, vertices[i])) \in Nat
  <2> DEFINE ids == EdgeIds(text_of, vertices[i])
  <2>1. ids \in Seq(Int)
    <3>1. OrEmpty(vertices[i].in_edges) \in Seq(Int) /\ OrEmpty(vertices[i].out_edges) \in Seq(Int)
      BY DEF Readable, OrEmpty
    <3>2. /\ (IF "in_edges" \in Columns(text_of) THEN OrEmpty(vertices[i].in_edges) ELSE <<>>) \in Seq(Int)
          /\ (IF "out_edges" \in Columns(text_of) THEN OrEmpty(vertices[i].out_edges) ELSE <<>>) \in Seq(Int)
      BY <3>1
    <3> QED BY <3>2 DEF EdgeIds
  <2> HIDE DEF ids
  <2>2. DOMAIN ids = 1 .. Len(ids) /\ Len(ids) \in Nat /\ DOMAIN edges = 1 .. Len(edges) /\ Len(edges) \in Nat
    BY <2>1
  <2>3. IsFiniteSet(DOMAIN ids) /\ IsFiniteSet(DOMAIN edges)
    BY <2>2, FS_Interval
  <2>4. IsFiniteSet((DOMAIN ids) \X (DOMAIN edges))
    BY <2>3, FS_Product
  <2>5. Matches(text_of, edges, vertices[i]) \in SUBSET ((DOMAIN ids) \X (DOMAIN edges))
    BY DEF Matches, ids
  <2>6. IsFiniteSet(Matches(text_of, edges, vertices[i]))
    BY <2>4, <2>5, FS_Subset
  <2> QED BY <2>6, FS_CardinalityType
<1>2. IsFiniteSet(S)
  <2>1. IsFiniteSet(DOMAIN vertices) /\ S \in SUBSET (DOMAIN vertices)
    BY DEF Readable
  <2> HIDE DEF S
  <2> QED BY <2>1, FS_Subset
<1>3. f \in [S -> Nat]
  BY <1>1
<1>4. Total(text_of, edges, vertices, id) = SumFunction(f)
  BY DEF Total, Matches
<1> HIDE DEF f, S
<1> QED BY <1>1, <1>2, <1>3, <1>4, SumIsNatural

\* The rows that pgr_extractVertices gives, listed in their order: each row once.
LEMMA ExtractedLists ==
  ASSUME NEW edges \in Seq(EdgeRows)
  PROVE  LET found == ExtractVertices("source_target_with_id", edges)
             n == Cardinality(found)
         IN  /\ n \in Nat /\ DOMAIN Extracted(edges) = 1 .. n
             /\ \A k \in 1 .. n : Extracted(edges)[k] \in found
             /\ \A k, m \in 1 .. n : Extracted(edges)[k] = Extracted(edges)[m] => k = m
             /\ \A v \in found : \E k \in 1 .. n : Extracted(edges)[k] = v
<1> DEFINE found == ExtractVertices("source_target_with_id", edges)
           n == Cardinality(found)
           rel == BeforePairs(found)
           nth == [k \in 1 .. n |-> CHOOSE v \in found : Cardinality({w \in found : Before(w, v)}) = k - 1]
<1>1. Extracted(edges) = nth
  BY DEF Extracted
<1>2. IsFiniteSet(found) /\ StrictOrder(found, rel)
  BY ExtractedRows DEF ExtractTexts, VertexRows
<1> HIDE DEF found
<1>3. \A v \in found : Rank(found, rel)[v] = Cardinality({w \in found : Before(w, v)})
  <2> TAKE v \in found
  <2>1. {w \in found : Before(w, v)} = Earlier(found, rel, v)
    BY DEF Earlier, BeforePairs
  <2> QED BY <2>1 DEF Rank
<1> HIDE DEF rel
<1>4. /\ n \in Nat
      /\ \A k \in 1 .. n : \E v \in found : Rank(found, rel)[v] = k - 1
  BY <1>2, Enumerates
<1>5. \A k \in 1 .. n : nth[k] \in found /\ Rank(found, rel)[nth[k]] = k - 1
  <2> TAKE k \in 1 .. n
  <2>1. \E v \in found : Cardinality({w \in found : Before(w, v)}) = k - 1
    BY <1>3, <1>4
  <2>2. nth[k] \in found /\ Cardinality({w \in found : Before(w, nth[k])}) = k - 1
    BY <2>1
  <2> QED BY <1>3, <2>2
<1>6. nth \in Bijection(1 .. n, found)
  <2>1. nth \in [1 .. n -> found]
    BY <1>5
  <2> HIDE DEF nth
  <2> QED BY <1>2, <1>5, <2>1, Enumerates
<1> HIDE DEF nth, n
<1>7. /\ DOMAIN nth = 1 .. n
      /\ \A k \in 1 .. n : nth[k] \in found
      /\ \A k, m \in 1 .. n : nth[k] = nth[m] => k = m
      /\ \A v \in found : \E k \in 1 .. n : nth[k] = v
  BY <1>6 DEF Bijection, Injection, IsInjective, Surjection
<1> QED BY <1>1, <1>4, <1>7 DEF n, found

\* Where no id is there twice, the lists of a vertex match as many edges as it has.
LEMMA MatchesAreDegrees ==
  ASSUME NEW edges \in Seq(EdgeRows), \A i, j \in DOMAIN edges : edges[i].id = edges[j].id => i = j,
         NEW v, v.in_edges = EdgesAt(edges, "target", v.at),
         v.out_edges = EdgesAt(edges, "source", v.at)
  PROVE  Cardinality(Matches("in_and_out", edges, v)) = DegreeOf(edges, v.at)
<1> DEFINE to == There(edges, "target", v.at)
           from == There(edges, "source", v.at)
           into == OrEmpty(v.in_edges)
           out == OrEmpty(v.out_edges)
           ids == into \o out
           matches == Matches("in_and_out", edges, v)
           f == [m \in matches |-> m[1]]
<1>1. ASSUME NEW end \in {"source", "target"}
      PROVE  LET list == OrEmpty(EdgesAt(edges, end, v.at))
                 there == There(edges, end, v.at)
             IN  /\ list \in Seq(Int) /\ Len(list) = Cardinality(there)
                 /\ \A k \in 1 .. Len(list) : \E i \in there : list[k] = edges[i].id
                 /\ Cardinality(there) \in Nat
  <2> DEFINE list == EdgesAt(edges, end, v.at)
             there == There(edges, end, v.at)
  <2>1. /\ IsFiniteSet(there) /\ Cardinality(there) \in Nat
        /\ there = {} => list = Null
        /\ there # {} =>
             /\ list # Null /\ list \in Seq(Int) /\ Len(list) = Cardinality(there)
             /\ \E nth \in Bijection(1 .. Len(list), there) :
                  \A k \in 1 .. Len(list) : list[k] = edges[nth[k]].id
    BY EdgesAtLists
  <2> HIDE DEF list, there
  <2>2. CASE there = {}
    <3>1. OrEmpty(list) = <<>> /\ Cardinality(there) = 0
      BY <2>1, <2>2, FS_EmptySet DEF OrEmpty
    <3> QED BY <2>1, <3>1 DEF list, there
  <2>3. CASE there # {}
    <3>1. PICK nth \in Bijection(1 .. Len(list), there) :
            \A k \in 1 .. Len(list) : list[k] = edges[nth[k]].id
      BY <2>1, <2>3
    <3>2. \A k \in 1 .. Len(list) : nth[k] \in there
      BY <3>1 DEF Bijection, Injection
    <3>3. OrEmpty(list) = list
      BY <2>1, <2>3 DEF OrEmpty
    <3> QED BY <2>1, <2>3, <3>1, <3>2, <3>3 DEF list, there
  <2> QED BY <2>2, <2>3
<1>2. /\ into \in Seq(Int) /\ Len(into) = Cardinality(to) /\ Cardinality(to) \in Nat
      /\ \A k \in 1 .. Len(into) : \E i \in DOMAIN edges : into[k] = edges[i].id
  BY <1>1 DEF There
<1>3. /\ out \in Seq(Int) /\ Len(out) = Cardinality(from) /\ Cardinality(from) \in Nat
      /\ \A k \in 1 .. Len(out) : \E i \in DOMAIN edges : out[k] = edges[i].id
  BY <1>1 DEF There
<1>4. EdgeIds("in_and_out", v) = ids
  BY DEF EdgeIds, Columns
<1> HIDE DEF into, out
<1>5. /\ ids \in Seq(Int) /\ DOMAIN ids = 1 .. Len(into) + Len(out)
      /\ \A k \in 1 .. Len(into) + Len(out) :
           ids[k] = IF k <= Len(into) THEN into[k] ELSE out[k - Len(into)]
  <2>1. into \in Seq(Int) /\ out \in Seq(Int)
    BY <1>2, <1>3
  <2>2. ids \in Seq(Int) /\ Len(ids) = Len(into) + Len(out)
    BY <2>1
  <2>3. \A k \in 1 .. Len(into) + Len(out) :
          ids[k] = IF k <= Len(into) THEN into[k] ELSE out[k - Len(into)]
    BY <2>1
  <2> HIDE DEF ids
  <2> QED BY <2>2, <2>3
<1>6. \A k \in DOMAIN ids : \E i \in DOMAIN edges : ids[k] = edges[i].id
  <2> TAKE k \in DOMAIN ids
  <2>1. k \in 1 .. Len(into) + Len(out) /\ Len(into) \in Nat /\ Len(out) \in Nat
    BY <1>2, <1>3, <1>5
  <2>2. CASE k <= Len(into)
    <3>1. k \in 1 .. Len(into) /\ ids[k] = into[k]
      BY <1>5, <2>1, <2>2
    <3> QED BY <1>2, <3>1
  <2>3. CASE ~(k <= Len(into))
    <3>1. k - Len(into) \in 1 .. Len(out) /\ ids[k] = out[k - Len(into)]
      BY <1>5, <2>1, <2>3
    <3> QED BY <1>3, <3>1, SMTT(20)
  <2> QED BY <2>2, <2>3
<1> HIDE DEF ids
<1>7. matches = {m \in (DOMAIN ids) \X (DOMAIN edges) : ids[m[1]] = edges[m[2]].id}
  BY <1>4 DEF Matches
<1> HIDE DEF matches
<1>8. f \in Bijection(matches, DOMAIN ids)
  <2>1. f \in [matches -> DOMAIN ids]
    BY <1>7
  <2>2. ASSUME NEW m \in matches, NEW o \in matches, f[m] = f[o]
        PROVE  m = o
    <3>1. /\ m = <<m[1], m[2]>> /\ o = <<o[1], o[2]>> /\ m[1] = o[1]
          /\ m[2] \in DOMAIN edges /\ o[2] \in DOMAIN edges
          /\ edges[m[2]].id = edges[o[2]].id
      BY <1>7, <2>2
    <3> QED BY <3>1
  <2>3. ASSUME NEW k \in DOMAIN ids
        PROVE  \E m \in matches : f[m] = k
    <3>1. PICK i \in DOMAIN edges : ids[k] = edges[i].id
      BY <1>6
    <3>2. <<k, i>> \in matches
      BY <1>7, <3>1
    <3> QED BY <3>2
  <2> QED BY <2>1, <2>2, <2>3 DEF Bijection, Injection, IsInjective, Surjection
<1>9. IsFiniteSet(DOMAIN ids) /\ Cardinality(DOMAIN ids) = Len(into) + Len(out)
  <2>1. Len(into) + Len(out) \in Nat
    BY <1>2, <1>3
  <2>2. /\ IsFiniteSet(1 .. Len(into) + Len(out))
        /\ Cardinality(1 .. Len(into) + Len(out)) = Len(into) + Len(out)
    BY <2>1, FirstNumbers
  <2> QED BY <1>5, <2>2
<1>10. Cardinality(matches) = Cardinality(DOMAIN ids)
  <2>1. f \in Injection(matches, DOMAIN ids) /\ f \in Surjection(matches, DOMAIN ids)
    BY <1>8 DEF Bijection
  <2> HIDE DEF f
  <2> QED BY <1>9, <2>1, FS_Injection
<1>11. Cardinality(matches) = Cardinality(from) + Cardinality(to)
  BY <1>2, <1>3, <1>9, <1>10
<1> QED BY <1>11 DEF DegreeOf, matches

\* With ids that are apart, the vertices that pgr_extractVertices gives for the edges
\* have the degrees that the edges give.
LEMMA FormsAgree ==
  ASSUME NEW edges \in Seq(EdgeRows), \A i, j \in DOMAIN edges : edges[i].id = edges[j].id => i = j
  PROVE  LET rows == DegreeFromVertices("in_and_out", edges, Extracted(edges)) IN
         /\ NodeDegrees(rows) = {row \in DegreeFromEdges(edges) : row.node # Null}
         /\ \A r, s \in rows : r.node = s.node => r = s
<1> DEFINE vertices == Extracted(edges)
           found == ExtractVertices("source_target_with_id", edges)
           n == Cardinality(found)
           total(v) == Total("in_and_out", edges, vertices, v)
<1>1. /\ n \in Nat /\ DOMAIN vertices = 1 .. n
      /\ \A k \in 1 .. n : vertices[k] \in found
      /\ \A k, m \in 1 .. n : vertices[k] = vertices[m] => k = m
      /\ \A v \in found : \E k \in 1 .. n : vertices[k] = v
  BY ExtractedLists
<1>2. /\ {v.at : v \in found} = Ends(edges)
      /\ \A v, w \in found : v # w /\ v.at = w.at => v.at = Null
      /\ \A v \in found : v.id = v.at
      /\ Lists(found, edges, "in_edges", "target")
      /\ Lists(found, edges, "out_edges", "source")
  <2>1. /\ VertexRows(found, edges)
        /\ \A v \in found : v.id = v.at
        /\ Lists(found, edges, "in_edges", "target")
        /\ Lists(found, edges, "out_edges", "source")
    BY ExtractedRows DEF ExtractTexts, Columns
  <2> QED BY <2>1 DEF VertexRows
<1> HIDE DEF found, vertices
<1>3. Rows(vertices) = found
  BY <1>1 DEF Rows
<1>4. ASSUME NEW v \in found, v.at # Null
      PROVE  v.in_edges = EdgesAt(edges, "target", v.at) /\ v.out_edges = EdgesAt(edges, "source", v.at)
  <2>1. ASSUME NEW list \in {"in_edges", "out_edges"}, NEW end \in {"source", "target"},
               Lists(found, edges, list, end)
        PROVE  v[list] = EdgesAt(edges, end, v.at)
    <3>1. CASE There(edges, end, v.at) = {}
      <4>1. EdgesAt(edges, end, v.at) = Null
        BY <3>1, EdgesAtLists
      <4> QED BY <2>1, <4>1 DEF Lists
    <3>2. CASE There(edges, end, v.at) # {}
      <4>1. PICK i \in DOMAIN edges : edges[i][end] = v.at
        BY <3>2 DEF There
      <4>2. PICK w \in found : w.at = edges[i][end] /\ w[list] = EdgesAt(edges, end, w.at)
        BY <2>1 DEF Lists
      <4>3. w = v
        BY <1>2, <1>4, <4>1, <4>2
      <4> QED BY <4>2, <4>3
    <3> QED BY <3>1, <3>2
  <2> QED BY <1>2, <2>1
<1>5. \A v \in Ends(edges) : DegreeOf(edges, v) \in Nat \ {0}
  <2> DEFINE rows == DegreeFromEdges(edges)
  <2>1. rows = DegreeFromEdges(edges)
    OBVIOUS
  <2> HIDE DEF rows
  <2> QED BY <2>1, DegreesFromEdges
<1>6. ASSUME NEW v \in found, v.at # Null
      PROVE  total(v.id) = DegreeOf(edges, v.at)
  <2>1. PICK k \in 1 .. n : vertices[k] = v
    BY <1>1
  <2>2. {i \in DOMAIN vertices : vertices[i].id = v.id} = {k}
    BY <1>1, <1>2, <1>6, <2>1
  <2>3. Cardinality(Matches("in_and_out", edges, v)) = DegreeOf(edges, v.at)
    BY <1>4, <1>6, MatchesAreDegrees
  <2> DEFINE f == [i \in {i \in DOMAIN vertices : vertices[i].id = v.id} |->
                     Cardinality(Matches("in_and_out", edges, vertices[i]))]
  <2>4. total(v.id) = SumFunction(f)
    BY DEF Total, Matches
  <2>5. DOMAIN f = {k} /\ f[k] = DegreeOf(edges, v.at)
    BY <2>1, <2>2, <2>3
  <2>6. f[k] \in Nat
    <3>1. v.at \in Ends(edges)
      BY <1>2
    <3> QED BY <1>5, <2>5, <3>1
  <2> HIDE DEF f, total
  <2> QED BY <2>4, <2>5, <2>6, SumOfOne
<1> DEFINE totals == {[node |-> v.id, degree |-> total(v.id)] : v \in found}
           degrees == {[node |-> v, degree |-> DegreeOf(edges, v)] : v \in Ends(edges)}
<1>7. /\ NodeDegrees(DegreeFromVertices("in_and_out", edges, vertices))
           = {row \in totals : row.node # Null /\ row.degree > 0}
      /\ \A r, s \in DegreeFromVertices("in_and_out", edges, vertices) : r.node = s.node => r = s
  <2> DEFINE rows == DegreeFromVertices("in_and_out", edges, vertices)
             RowAt(i) == [row |-> i, node |-> vertices[i].id, degree |-> total(vertices[i].id)]
  <2>1. rows = {r \in {RowAt(i) : i \in DOMAIN vertices} : r.node # Null /\ r.degree > 0}
    BY DEF DegreeFromVertices
  <2> HIDE DEF rows, total
  <2>2. ASSUME NEW r \in rows
        PROVE  /\ r.node # Null /\ r.degree > 0
               /\ \E i \in DOMAIN vertices : r = RowAt(i)
               /\ [node |-> r.node, degree |-> r.degree] \in totals
    BY <1>1, <2>1
  <2>3. ASSUME NEW row \in totals, row.node # Null, row.degree > 0
        PROVE  row \in NodeDegrees(rows)
    <3>1. PICK i \in DOMAIN vertices : row = [node |-> vertices[i].id, degree |-> total(vertices[i].id)]
      BY <1>1
    <3>2. RowAt(i) \in rows /\ RowAt(i).node = row.node /\ RowAt(i).degree = row.degree
      BY <2>1, <2>3, <3>1
    <3> QED BY <3>1, <3>2 DEF NodeDegrees
  <2>4. NodeDegrees(rows) = {row \in totals : row.node # Null /\ row.degree > 0}
    <3>1. ASSUME NEW row \in NodeDegrees(rows)
          PROVE  row \in totals /\ row.node # Null /\ row.degree > 0
      <4>1. PICK r \in rows : row = [node |-> r.node, degree |-> r.degree]
        BY <3>1 DEF NodeDegrees
      <4>2. row.node = r.node /\ row.degree = r.degree
        BY <4>1
      <4> QED BY <2>2, <4>1, <4>2
    <3> HIDE DEF totals
    <3> QED BY <2>3, <3>1
  <2>5. ASSUME NEW r \in rows, NEW s \in rows, r.node = s.node
        PROVE  r = s
    <3>1. PICK i \in DOMAIN vertices : r = RowAt(i)
      BY <2>2, Zenon
    <3>2. PICK k \in DOMAIN vertices : s = RowAt(k)
      BY <2>2, Zenon
    <3>3. vertices[i].id = vertices[k].id /\ vertices[i].id # Null
      BY <2>2, <2>5, <3>1, <3>2
    <3>4. i = k
      BY <1>1, <1>2, <3>3
    <3> QED BY <3>1, <3>2, <3>4
  <2> QED BY <2>4, <2>5 DEF rows
<1>8. DegreeFromEdges(edges) = degrees
  <2> DEFINE rows == DegreeFromEdges(edges)
  <2>1. rows = DegreeFromEdges(edges)
    OBVIOUS
  <2> HIDE DEF rows
  <2>2. rows = {[node |-> v, degree |-> DegreeOf(edges, v)] : v \in Ends(edges)}
    BY <2>1, DegreesFromEdges
  <2> QED BY <2>1, <2>2
<1> HIDE DEF total
<1>9. ASSUME NEW row \in totals, row.node # Null
      PROVE  row \in degrees
  <2>1. PICK v \in found : row = [node |-> v.id, degree |-> total(v.id)]
    OBVIOUS
  <2>2. v.id = v.at /\ v.at # Null /\ v.at \in Ends(edges)
    BY <1>2, <1>9, <2>1
  <2>3. row = [node |-> v.at, degree |-> DegreeOf(edges, v.at)]
    BY <1>6, <2>1, <2>2
  <2> QED BY <2>2, <2>3
<1>10. ASSUME NEW row \in degrees, row.node # Null
       PROVE  row \in totals /\ row.degree > 0
  <2>1. PICK e \in Ends(edges) : row = [node |-> e, degree |-> DegreeOf(edges, e)]
    OBVIOUS
  <2>2. PICK v \in found : v.at = e
    BY <1>2
  <2>3. v.at # Null /\ v.id = v.at
    BY <1>2, <1>10, <2>1, <2>2
  <2>4. row = [node |-> v.id, degree |-> total(v.id)]
    BY <1>6, <2>1, <2>2, <2>3
  <2>5. row.degree > 0
    BY <1>5, <2>1
  <2> QED BY <2>4, <2>5
<1> HIDE DEF totals, degrees
<1>11. {row \in totals : row.node # Null /\ row.degree > 0} = {row \in degrees : row.node # Null}
  <2>1. \A row \in degrees : row.node # Null => row.degree > 0
    BY <1>10
  <2> QED BY <1>9, <1>10, <2>1
<1> QED BY <1>7, <1>8, <1>11 DEF vertices

\* The edges of as many ids as rows have ids that are apart.
LEMMA IdsAreApart ==
  ASSUME NEW edges \in Seq(EdgeRows), Cardinality({e.id : e \in Rows(edges)}) = Len(edges)
  PROVE  \A i, j \in DOMAIN edges : edges[i].id = edges[j].id => i = j
<1> DEFINE ids == {e.id : e \in Rows(edges)}
           f == [i \in DOMAIN edges |-> edges[i].id]
<1>1. f \in Surjection(DOMAIN edges, ids)
  BY DEF Rows, Surjection
<1>2. IsFiniteSet(DOMAIN edges) /\ Cardinality(DOMAIN edges) = Len(edges)
  BY Places
<1>3. f \in Injection(DOMAIN edges, ids)
  <2> HIDE DEF f
  <2> QED BY <1>1, <1>2, FS_SurjSameCardinalityImpliesInj
<1> QED BY <1>3 DEF Injection, IsInjective

\* The vertices that pgr_degree may be given are ones that it can read.
LEMMA VerticesAreReadable ==
  ASSUME NEW edges \in Seq(EdgeRows), NEW vertices \in VertexTables \cup {Extracted(edges)}
  PROVE  Readable(vertices)
<1>1. CASE vertices \in VertexTables
  <2> DEFINE X == [at : {Null} \cup Int, id : {Null} \cup Int,
                   in_edges : {Null} \cup Seq(Int), out_edges : {Null} \cup Seq(Int)]
  <2>1. vertices \in Seq(X)
    BY <1>1, TemplateAssumption
  <2> HIDE DEF X
  <2>2. \A i \in DOMAIN vertices : vertices[i] \in X
    BY <2>1
  <2>3. IsFiniteSet(DOMAIN vertices)
    BY <2>1, Places
  <2> QED BY <2>2, <2>3 DEF Readable, X
<1>2. CASE vertices = Extracted(edges)
  <2> DEFINE found == ExtractVertices("source_target_with_id", edges)
             n == Cardinality(found)
  <2>1. n \in Nat /\ DOMAIN vertices = 1 .. n /\ \A k \in 1 .. n : vertices[k] \in found
    BY <1>2, ExtractedLists
  <2>2. /\ Lists(found, edges, "in_edges", "target")
        /\ Lists(found, edges, "out_edges", "source")
    BY ExtractedRows DEF ExtractTexts, Columns
  <2>3. \A v : /\ EdgesAt(edges, "target", v) \in {Null} \cup Seq(Int)
               /\ EdgesAt(edges, "source", v) \in {Null} \cup Seq(Int)
    BY EdgesAtLists
  <2> HIDE DEF found
  <2>4. \A v \in found : /\ v.in_edges \in {Null} \cup Seq(Int)
                         /\ v.out_edges \in {Null} \cup Seq(Int)
    BY <2>2, <2>3 DEF Lists
  <2>5. IsFiniteSet(DOMAIN vertices)
    BY <2>1, FS_Interval
  <2> HIDE DEF n
  <2> QED BY <2>1, <2>4, <2>5 DEF Readable
<1> QED BY <1>1, <1>2

-----------------------------------------------------------------------------
(* The invariant and the theorems. *)

\* Init => TInv: no call is being made.
LEMMA InitHolds == Init => TInv
BY TemplateAssumption DEF Init, TInv, Bound, CloseAnswered, TablesAnswered, TypeOK, EmptyExactly, Phases,
                          Unbound, Ran

\* Every step keeps the phases and what they leave behind.
LEMMA BoundKept == Bound /\ [Next]_vars => Bound'
<1> SUFFICES ASSUME Bound, [Next]_vars PROVE Bound'
  OBVIOUS
<1> USE DEF Bound, TypeOK, EmptyExactly, Phases, Unbound, bind, run
<1>1. CASE Call
  BY <1>1, TemplateAssumption DEF Call
<1>2. CASE BindNull
  <2>1. call \in Calls /\ NullInput(call)
    BY <1>2 DEF BindNull
  <2>2. TypeOK' /\ Phases'
    BY <1>2 DEF BindNull, EmptyResult
  <2>3. EmptyExactly'
    BY <1>2 DEF BindNull, EmptyResult
  <2> QED BY <2>2, <2>3
<1>3. CASE BindRefused
  <2>1. PICK first \in Failures(call) : error' = Checks(call)[first].error
    BY <1>3 DEF BindRefused
  <2>2. Checks(call)[first] \in Rows(Checks(call)) /\ Checks(call)[first].bad
    BY <2>1 DEF Failures, Rows
  <2>3. error' # <<>> /\ (Dryrun(call) => error'[1] \in {"value", "query", "missing"})
    BY <1>3, <2>1, <2>2, WhatFails DEF BindRefused
  <2> QED BY <1>3, <2>3 DEF BindRefused
<1>4. CASE BindDryrun
  BY <1>4 DEF BindDryrun, EmptyResult
<1>5. CASE BindText
  <2>1. /\ phase = "called" /\ ~NullInput(call) /\ ~Dryrun(call)
        /\ text = "none" /\ ~logged /\ tables = NoTables /\ answer = {} /\ error = <<>>
        /\ call \in Calls /\ call # Null
        /\ call' = call /\ logged' = logged /\ tables' = tables /\ answer' = answer
        /\ autoload' = autoload
    BY <1>5, TemplateAssumption DEF BindText
  <2>2. CASE phase' = "bound" /\ text' = TextOf(call) /\ error' = error /\ spatial' \in BOOLEAN
    <3>1. text' # "none"
      BY <2>1, <2>2, SomeText
    <3>2. TypeOK' /\ Phases'
      BY <2>1, <2>2, <3>1
    <3>3. EmptyExactly'
      BY <2>1, <2>2
    <3> QED BY <3>2, <3>3
  <2>3. CASE phase' = "refused" /\ error' = <<"spatial", call.function>>
             /\ text' = text /\ spatial' = spatial
    <3>1. TypeOK' /\ Phases'
      BY <2>1, <2>3
    <3>2. EmptyExactly'
      BY <2>1, <2>3
    <3> QED BY <3>1, <3>2
  <2> QED BY <1>5, <2>2, <2>3 DEF BindText
<1>6. CASE Run
  <2>1. tables' # NoTables
    BY <1>6 DEF Run, RunExtractVertices, RunDegreeFromEdges, RunDegreeFromVertices,
                RunFindCloseEdges, NoTables
  <2> QED BY <1>6, <2>1 DEF Run
<1>7. CASE Return
  BY <1>7, TemplateAssumption DEF Return
<1>8. CASE LoadSpatial \/ SetAutoload \/ UNCHANGED vars
  <2>1. /\ UNCHANGED <<phase, call, text, logged, error, tables, answer>>
        /\ spatial' \in BOOLEAN /\ autoload' \in BOOLEAN
    BY <1>8 DEF LoadSpatial, SetAutoload, vars
  <2>2. TypeOK' /\ Phases'
    BY <2>1
  <2>3. EmptyExactly'
    BY <2>1
  <2> QED BY <2>2, <2>3
<1> QED BY <1>1, <1>2, <1>3, <1>4, <1>5, <1>6, <1>7, <1>8 DEF Next

\* A call of pgr_findCloseEdges is bound only with a tolerance that is not negative,
\* and run only over the lines and points its row is then of.
LEMMA CloseKept == TInv /\ [Next]_vars => CloseAnswered'
<1> SUFFICES ASSUME TInv, [Next]_vars PROVE CloseAnswered'
  OBVIOUS
<1>1. call \in Calls \/ phase = "idle"
  BY DEF TInv, Bound, Phases
<1>2. CASE BindText
  <2>1. call \in Calls /\ Failures(call) = {} /\ call' = call /\ tables' = NoTables
    BY <1>2 DEF BindText, TInv, Bound, Phases, Unbound, run
  <2>2. call.function = "close" => call.tolerance >= 0
    <3> SUFFICES ASSUME call.function = "close" PROVE call.tolerance >= 0
      OBVIOUS
    <3> DEFINE far == [bad |-> call.tolerance < 0, error |-> <<"value", "tolerance">>]
    <3>1. far \in Rows(Checks(call))
      BY CloseChecks
    <3>2. ~far.bad
      BY <2>1, <3>1 DEF Failures, Rows
    <3>3. ~(call.tolerance < 0)
      BY <3>2
    <3>4. call.tolerance \in Int
      BY <2>1, TemplateAssumption
    <3> QED BY <3>3, <3>4
  <2>3. call.function = "close" => Value(call, "cap") \in Nat
    <3> SUFFICES ASSUME call.function = "close" PROVE Value(call, "cap") \in Nat
      OBVIOUS
    <3> DEFINE few == [bad |-> Value(call, "cap") < 0, error |-> <<"value", "cap">>]
    <3>1. few \in Rows(Checks(call))
      BY CloseChecks
    <3>2. ~few.bad
      BY <2>1, <3>1 DEF Failures, Rows
    <3>3. ~(Value(call, "cap") < 0)
      BY <3>2
    <3>4. Value(call, "cap") \in Int
      BY <1>2, <2>1, CapIsInteger DEF BindText
    <3> QED BY <3>3, <3>4
  <2> QED BY <2>1, <2>2, <2>3 DEF CloseAnswered, Ran
<1>3. CASE Run
  <2>1. call \in Calls /\ call' = call /\ phase = "bound"
    BY <1>1, <1>3 DEF Run
  <2>2. CASE call.function = "close"
    <3>1. RunFindCloseEdges
      BY <1>3, <2>2 DEF Run
    <3>2. PICK lines \in LineTables, points \in PointLists :
            /\ tables' = [lines |-> lines, points |-> points]
            /\ answer' = FindCloseEdges(lines, points, call.tolerance, Value(call, "cap"))
      BY <3>1 DEF RunFindCloseEdges
    <3>3. call.tolerance >= 0 /\ Value(call, "cap") \in Nat
      BY <2>1, <2>2 DEF TInv, CloseAnswered
    <3> QED BY <1>3, <2>1, <3>2, <3>3 DEF CloseAnswered, Ran, Run
  <2> QED BY <1>3, <2>1, <2>2 DEF CloseAnswered, Ran, Run
<1>4. CASE Call \/ BindNull \/ BindRefused \/ BindDryrun
  BY <1>4 DEF Call, BindNull, BindRefused, BindDryrun, EmptyResult, TInv, Bound, Phases, Unbound,
              CloseAnswered, Ran, run, bind
<1>5. CASE Return
  BY <1>5 DEF Return, CloseAnswered, Ran
<1>6. CASE LoadSpatial \/ SetAutoload \/ UNCHANGED vars
  BY <1>6 DEF LoadSpatial, SetAutoload, vars, bind, run, TInv, CloseAnswered, Ran
<1> QED BY <1>2, <1>3, <1>4, <1>5, <1>6 DEF Next

\* A text that ran gave its rows for the tables that the call then has.
LEMMA TablesKept == TInv /\ [Next]_vars => TablesAnswered'
<1> SUFFICES ASSUME TInv, [Next]_vars PROVE TablesAnswered'
  OBVIOUS
<1>1. CASE BindText
  <2>1. /\ call' = call /\ tables' = NoTables
        /\ phase' = "bound" => text' = TextOf(call)
        /\ phase' \in {"bound", "refused"}
    BY <1>1 DEF BindText, TInv, Bound, Phases, Unbound, run
  <2> QED BY <2>1 DEF TablesAnswered, Ran
<1>2. CASE Run
  <2>1. /\ call' = call /\ text' = text /\ text = TextOf(call) /\ phase' = "answered"
        /\ call \in Calls
    BY <1>2 DEF Run, bind, TInv, TablesAnswered, Bound, Phases
  <2>2. CASE call.function = "extract"
    <3>1. RunExtractVertices
      BY <1>2, <2>2 DEF Run
    <3> QED BY <2>1, <2>2, <3>1 DEF RunExtractVertices, TablesAnswered, Ran
  <2>3. CASE call.function = "degree_edges"
    <3>1. RunDegreeFromEdges
      BY <1>2, <2>3 DEF Run
    <3> QED BY <2>1, <2>3, <3>1 DEF RunDegreeFromEdges, TablesAnswered, Ran
  <2>4. CASE call.function = "degree_vertices"
    <3>1. RunDegreeFromVertices
      BY <1>2, <2>4 DEF Run
    <3> QED BY <2>1, <2>4, <3>1 DEF RunDegreeFromVertices, TablesAnswered, Ran
  <2>5. CASE call.function = "close"
    BY <2>1, <2>5 DEF TablesAnswered, Ran
  <2> QED BY <1>2, <2>2, <2>3, <2>4, <2>5 DEF Run
<1>3. CASE Call \/ BindNull \/ BindRefused \/ BindDryrun
  <2>1. tables' = NoTables /\ phase' # "bound"
    BY <1>3 DEF Call, BindNull, BindRefused, BindDryrun, EmptyResult, TInv, Bound, Phases, Unbound, run, bind
  <2> QED BY <2>1 DEF TablesAnswered, Ran
<1>4. CASE Return
  BY <1>4 DEF Return, TablesAnswered, Ran
<1>5. CASE LoadSpatial \/ SetAutoload \/ UNCHANGED vars
  <2>1. UNCHANGED <<phase, call, text, tables, answer>>
    BY <1>5 DEF LoadSpatial, SetAutoload, vars, bind, run
  <2> QED BY <2>1 DEF TInv, TablesAnswered, Ran
<1> QED BY <1>1, <1>2, <1>3, <1>4, <1>5 DEF Next

\* In every behaviour, TInv: what each phase of a call leaves behind, and why a call
\* is answered empty or refused.
THEOREM CallInvariance == Spec => []TInv
<1>1. Init => TInv
  BY InitHolds
<1>2. TInv /\ [Next]_vars => TInv'
  BY BoundKept, CloseKept, TablesKept DEF TInv
<1> QED BY <1>1, <1>2, PTL DEF Spec

\* The phases and what each of them has, for any calls and tables.
THEOREM CallTypes == Spec => []TypeOK
<1>1. TInv => TypeOK
  BY DEF TInv, Bound
<1> QED BY <1>1, CallInvariance, PTL

\* A NULL argument or a dryrun gives no rows, and a NULL no error, whatever else is
\* wrong with the call; everything else that is not refused runs (sql_template.cpp).
THEOREM EmptyForNullAndDryrun == Spec => []EmptyExactly
<1>1. TInv => EmptyExactly
  BY DEF TInv, Bound
<1> QED BY <1>1, CallInvariance, PTL

\* Whatever columns the caller's queries have, the text bound reads only queries that
\* bind and columns that are there with types it can read, and spatial is there or is loaded with
\* autoloading on (degree.cpp, extract_vertices.cpp, find_close_edges.cpp, RequireSpatial).
THEOREM BoundTextsAreReadable == Spec => BoundTextsRun
<1>1. TInv /\ [Next]_vars =>
        (phase = "called" /\ phase' # "called" =>
          /\ phase' = "bound" => /\ call.unread = {}
                                 /\ \A column \in Columns(text') : call.columns[column] = "right"
                                 /\ Geometric(text') => spatial'
          /\ spatial' # spatial => phase' = "bound" /\ Geometric(text') /\ autoload)
  <2> SUFFICES ASSUME TInv, [Next]_vars, phase = "called", phase' # "called"
               PROVE  /\ phase' = "bound" =>
                           /\ call.unread = {}
                           /\ \A column \in Columns(text') : call.columns[column] = "right"
                           /\ Geometric(text') => spatial'
                      /\ spatial' # spatial => phase' = "bound" /\ Geometric(text') /\ autoload
    OBVIOUS
  <2>1. call \in Calls
    BY DEF TInv, Bound, Phases
  <2>2. CASE BindText
    BY <2>1, <2>2, PassedBinds, TextIsReadable DEF BindText, MayAutoload
  <2>3. CASE ~BindText
    <3>1. phase' # "bound" /\ spatial' = spatial
      BY <2>3 DEF Next, Call, BindNull, BindRefused, BindDryrun, EmptyResult, Run, Return,
                   LoadSpatial, SetAutoload, vars
    <3> QED BY <3>1
  <2> QED BY <2>2, <2>3
<1> QED BY <1>1, CallInvariance, PTL DEF Spec, BoundTextsRun

\* Every row of pgr_findCloseEdges has the side its documentation gives, for any
\* lines, points and tolerance: r on the line, l beyond its ends, and elsewhere the
\* one where the point is (find_close_edges.cpp).
THEOREM SidesOfCloseEdges == Spec => []SidesAsDocumented
<1>1. TInv => SidesAsDocumented
  <2> SUFFICES ASSUME TInv, Ran("close"), NEW row \in answer
               PROVE  \E line \in tables.lines :
                        LET point   == tables.points[row.index]
                            at_end  == Located(line, point) \in {0, Length(line)}
                            on_line == Distance2(line, point) = 0
                        IN  /\ line.id = row.edge_id
                            /\ row.side = IF call.tolerance = 0 THEN "l" ELSE IF on_line THEN "r"
                                          ELSE IF at_end THEN "l"
                                          ELSE IF RightOf(line, point) THEN "r" ELSE "l"
    BY DEF SidesAsDocumented
  <2> DEFINE lines == tables.lines
             points == tables.points
  <2>1. /\ call \in Calls /\ call.tolerance >= 0
        /\ lines \in LineTables /\ points \in PointLists
        /\ answer = FindCloseEdges(lines, points, call.tolerance, Value(call, "cap"))
    BY DEF TInv, Bound, Phases, CloseAnswered, Ran
  <2>2. PICK r \in Results(lines, points, call.tolerance) :
          row = [edge_id |-> r.line.id, index |-> r.index,
                 side |-> Side(r.line, points[r.index], call.tolerance)]
    BY <2>1 DEF FindCloseEdges
  <2>3. r.line \in lines /\ r.index \in DOMAIN points
    BY DEF Results
  <2>4. r.line \in Lines /\ points[r.index] \in Points /\ call.tolerance \in Nat
    <3>1. lines \subseteq Lines /\ points \in Seq(Points) /\ call.tolerance \in Int
      BY <2>1, TemplateAssumption DEF Lines, Points
    <3> HIDE DEF lines, points
    <3> QED BY <2>1, <2>3, <3>1
  <2>5. row.edge_id = r.line.id /\ row.index = r.index
        /\ row.side = Side(r.line, points[r.index], call.tolerance)
    BY <2>2
  <2> HIDE DEF lines, points
  <2>6. Side(r.line, points[r.index], call.tolerance)
          = IF call.tolerance = 0 THEN "l" ELSE IF Distance2(r.line, points[r.index]) = 0 THEN "r"
            ELSE IF Located(r.line, points[r.index]) \in {0, Length(r.line)} THEN "l"
            ELSE IF RightOf(r.line, points[r.index]) THEN "r" ELSE "l"
    BY <2>4, SideIs
  <2> QED BY <2>3, <2>5, <2>6 DEF lines, points
<1> QED BY <1>1, CallInvariance, PTL

\* Every point of a call of pgr_findCloseEdges gets the edges nearest to it, as many
\* as its cap allows, for any lines, points, tolerance and cap (find_close_edges.cpp).
THEOREM NearestEdges == Spec => []NearestOfEachPoint
<1>1. TInv => NearestOfEachPoint
  <2> SUFFICES ASSUME TInv, Ran("close") PROVE NearestOfEachPoint
    BY DEF NearestOfEachPoint
  <2> DEFINE lines == tables.lines
             points == tables.points
             tolerance == call.tolerance
             cap == Value(call, "cap")
  <2>1. /\ lines \in LineTables /\ points \in PointLists
        /\ tolerance >= 0 /\ cap \in Nat
        /\ answer = FindCloseEdges(lines, points, tolerance, cap)
    BY DEF TInv, CloseAnswered
  <2>2. tolerance \in Nat
    <3>1. call \in Calls
      BY DEF TInv, Bound, Phases, Ran
    <3> QED BY <2>1, <3>1, TemplateAssumption
  <2> HIDE DEF lines, points, tolerance, cap
  <2>3. \A i \in DOMAIN points : NearestAt(lines, points, tolerance, cap, answer, i)
    BY <2>1, <2>2, FirstRowsAreNearest
  <2> QED BY <2>3 DEF NearestOfEachPoint, NearestAt, lines, points, tolerance, cap
<1> QED BY <1>1, CallInvariance, PTL

\* The edge tables are sequences of edges, and a text of pgr_extractVertices is one of six.
LEMMA TablesAndTexts ==
  /\ \A edges \in EdgeTables : edges \in Seq(EdgeRows)
  /\ \A c \in Calls : c.function = "extract" => TextOf(c) \in ExtractTexts
<1>1. \A edges \in EdgeTables : edges \in Seq(EdgeRows)
  BY TemplateAssumption DEF EdgeRows
<1>2. \A c \in Calls : c.function = "extract" => TextOf(c) \in ExtractTexts
  BY DEF TextOf, ExtractTexts
<1> QED BY <1>1, <1>2

\* Whatever the edges, pgr_extractVertices gives each of their ends once, points with
\* numbers in order, and with ids every edge in one list going out and one coming in,
\* a NULL end included (extract_vertices.cpp, all six texts).
THEOREM ExtractedVertices == Spec => []VerticesAreTheEnds
<1>1. TInv => VerticesAreTheEnds
  <2> SUFFICES ASSUME TInv, Ran("extract") PROVE VerticesAreTheEnds
    BY DEF VerticesAreTheEnds
  <2> DEFINE edges == tables.edges
             Lengths(list) == SumFunction([v \in answer |-> Len(OrEmpty(v[list]))])
  <2>1. /\ edges \in Seq(EdgeRows) /\ text \in ExtractTexts
        /\ answer = ExtractVertices(text, edges)
    <3>1. call \in Calls /\ call.function = "extract"
      BY DEF TInv, Bound, Phases, Ran
    <3>2. edges \in EdgeTables /\ text = TextOf(call) /\ answer = ExtractVertices(text, edges)
      BY DEF TInv, TablesAnswered, Ran
    <3> QED BY <3>1, <3>2, TablesAndTexts
  <2> HIDE DEF edges
  <2>2. /\ VertexRows(answer, edges)
        /\ IF "id" \in Columns(text)
             THEN /\ Lists(answer, edges, "in_edges", "target")
                  /\ Lists(answer, edges, "out_edges", "source")
             ELSE \A v \in answer : v.in_edges = Null /\ v.out_edges = Null
        /\ "source" \notin Columns(text) =>
             /\ {v.id : v \in answer} = 1 .. Cardinality(answer)
             /\ \A v, w \in answer : v.id < w.id => ~Before(w, v)
    BY <2>1, ExtractedRows
  <2>3. Geometric(text) => "source" \notin Columns(text)
    BY <2>1 DEF ExtractTexts, Geometric, Columns
  <2>4. ASSUME "id" \in Columns(text)
        PROVE  /\ Lengths("in_edges") = Len(edges) /\ Lengths("out_edges") = Len(edges)
               /\ \A e \in Rows(edges) :
                    /\ \E v \in answer : v.at = e.source /\ e.id \in Rows(OrEmpty(v.out_edges))
                    /\ \E v \in answer : v.at = e.target /\ e.id \in Rows(OrEmpty(v.in_edges))
    <3>1. /\ Lists(answer, edges, "in_edges", "target")
          /\ Lists(answer, edges, "out_edges", "source")
          /\ IsFiniteSet(answer)
      BY <2>2, <2>4 DEF VertexRows
    <3>2. /\ Lengths("in_edges") = Len(edges)
          /\ \A e \in Rows(edges) : \E v \in answer : v.at = e["target"] /\ e.id \in Rows(OrEmpty(v["in_edges"]))
      BY <2>1, <3>1, EveryEdgeListed
    <3>3. /\ Lengths("out_edges") = Len(edges)
          /\ \A e \in Rows(edges) : \E v \in answer : v.at = e["source"] /\ e.id \in Rows(OrEmpty(v["out_edges"]))
      BY <2>1, <3>1, EveryEdgeListed
    <3> QED BY <3>2, <3>3
  <2>5. /\ {v.at : v \in answer} = Ends(edges)
        /\ \A v, w \in answer : v # w /\ v.at = w.at => v.at = Null
    BY <2>2 DEF VertexRows
  <2>6. "id" \notin Columns(text) => \A v \in answer : v.in_edges = Null /\ v.out_edges = Null
    BY <2>2
  <2>7. Geometric(text) => /\ {v.id : v \in answer} = 1 .. Cardinality(answer)
                           /\ \A v, w \in answer : v.id < w.id => ~Before(w, v)
    BY <2>2, <2>3
  <2> QED BY <2>4, <2>5, <2>6, <2>7 DEF VerticesAreTheEnds, edges
<1> QED BY <1>1, CallInvariance, PTL

\* Whatever the edges, pgr_degree counts every edge twice and lists no node without
\* edges, and its two forms agree on the vertices of pgr_extractVertices when the ids
\* are apart (degree.cpp).
THEOREM DegreesCount == Spec => []DegreesAgree
<1>1. TInv => DegreesAgree
  <2> SUFFICES ASSUME TInv PROVE DegreesAgree
    OBVIOUS
  <2> DEFINE edges == tables.edges
  <2>1. Ran("degree_edges") \/ Ran("degree_vertices") => edges \in Seq(EdgeRows)
    BY TablesAndTexts DEF TInv, TablesAnswered
  <2>2. ASSUME Ran("degree_edges")
        PROVE  /\ \A row \in answer : row.degree \in Nat \ {0}
               /\ SumFunction([row \in answer |-> row.degree]) = 2 * Len(edges)
    <3>1. edges \in Seq(EdgeRows) /\ answer = DegreeFromEdges(edges)
      BY <2>1, <2>2 DEF TInv, TablesAnswered
    <3> HIDE DEF edges
    <3>2. /\ answer = {[node |-> v, degree |-> DegreeOf(edges, v)] : v \in Ends(edges)}
          /\ \A v \in Ends(edges) : DegreeOf(edges, v) \in Nat \ {0}
          /\ SumFunction([row \in answer |-> row.degree]) = 2 * Len(edges)
      BY <3>1, DegreesFromEdges
    <3>3. \A row \in answer : row.degree \in Nat \ {0}
      BY <3>2
    <3> QED BY <3>2, <3>3
  <2>3. ASSUME Ran("degree_vertices")
        PROVE  \A row \in answer : row.degree \in Nat \ {0}
    <3> DEFINE vertices == tables.vertices
    <3>1. /\ edges \in Seq(EdgeRows)
          /\ vertices \in VertexTables \cup {Extracted(edges)}
          /\ answer = DegreeFromVertices(text, edges, vertices)
      BY <2>1, <2>3 DEF TInv, TablesAnswered
    <3> HIDE DEF edges, vertices
    <3>2. \A id : Total(text, edges, vertices, id) \in Nat
      BY <3>1, VerticesAreReadable, TotalIsNatural
    <3> QED BY <3>1, <3>2 DEF DegreeFromVertices
  <2>4. ASSUME Ran("degree_vertices"), text = "in_and_out", tables.vertices = Extracted(edges),
               Cardinality({e.id : e \in Rows(edges)}) = Len(edges)
        PROVE  /\ NodeDegrees(answer) = {row \in DegreeFromEdges(edges) : row.node # Null}
               /\ \A r, s \in answer : r.node = s.node => r = s
    <3>1. edges \in Seq(EdgeRows) /\ answer = DegreeFromVertices("in_and_out", edges, Extracted(edges))
      BY <2>1, <2>4 DEF TInv, TablesAnswered
    <3> HIDE DEF edges
    <3>2. \A i, j \in DOMAIN edges : edges[i].id = edges[j].id => i = j
      BY <2>4, <3>1, IdsAreApart
    <3> QED BY <3>1, <3>2, FormsAgree
  <2> QED BY <2>2, <2>3, <2>4 DEF DegreesAgree
<1> QED BY <1>1, CallInvariance, PTL
=============================================================================
