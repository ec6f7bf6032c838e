----------------------------- MODULE TemplateText -----------------------------
(***************************************************************************)
(* What the fixed SQL texts of pgr_degree, pgr_extractVertices and         *)
(* pgr_findCloseEdges compute (src/functions), as operators over small     *)
(* tables.  A table is a sequence of rows.  An edge row has an id and two  *)
(* ends, vertex ids or points numbered in the order of their coordinates,  *)
(* either of which may be NULL.  The edges near a point are horizontal     *)
(* lines, given by their height and the x of their two ends.               *)
(***************************************************************************)
EXTENDS Integers, SequencesExt

CONSTANT Null

ASSUME NullAssumption == Null \notin Int \cup Seq(Int)

Rows(table) == {table[i] : i \in DOMAIN table}
CountIn(seq, x) == Cardinality({i \in DOMAIN seq : seq[i] = x})

\* The columns a text reads.
Columns(text) ==
  CASE text = "geom_with_id"          -> {"id", "geom"}
    [] text = "geom"                  -> {"geom"}
    [] text = "points_with_id"        -> {"id", "startpoint", "endpoint"}
    [] text = "points"                -> {"startpoint", "endpoint"}
    [] text = "source_target_with_id" -> {"id", "source", "target"}
    [] text = "source_target"         -> {"source", "target"}
    [] text = "from_edges"            -> {"source", "target"}
    [] text = "in_and_out"            -> {"edge_id", "id", "in_edges", "out_edges"}
    [] text = "in_only"               -> {"edge_id", "id", "in_edges"}
    [] text = "out_only"              -> {"edge_id", "id", "out_edges"}
    [] text = "close_edges"           -> {"id", "geom"}

-----------------------------------------------------------------------------
(* pgr_extractVertices. *)

Ends(edges) == {e.source : e \in Rows(edges)} \cup {e.target : e \in Rows(edges)}

\* list(id ORDER BY id) of one group, or NULL where the group does not exist.
EdgesAt(edges, end, vertex) ==
  LET there == {i \in DOMAIN edges : edges[i][end] = vertex}
      earlier(i) == {j \in there : \/ edges[j].id < edges[i].id
                                   \/ edges[j].id = edges[i].id /\ j < i}
      nth(k) == CHOOSE i \in there : Cardinality(earlier(i)) = k - 1
  IN  IF there = {} THEN Null ELSE [k \in 1 .. Cardinality(there) |-> edges[nth(k)].id]

\* Mutant of Joined: LEFT JOIN, which loses the vertices no edge leaves.
LeftJoined(edges) ==
  {[at |-> e.source, in_edges |-> IF e.source = Null THEN Null ELSE EdgesAt(edges, "target", e.source),
    out_edges |-> EdgesAt(edges, "source", e.source)] : e \in Rows(edges)}

\* agg_out FULL OUTER JOIN agg_in: a NULL joins nothing, so the edges without a
\* source and those without a target make two rows.
Joined(edges) ==
  {[at |-> v, in_edges |-> EdgesAt(edges, "target", v), out_edges |-> EdgesAt(edges, "source", v)]
     : v \in Ends(edges) \ {Null}}
  \cup {v \in {[at |-> Null, in_edges |-> EdgesAt(edges, "target", Null), out_edges |-> Null],
               [at |-> Null, in_edges |-> Null, out_edges |-> EdgesAt(edges, "source", Null)]}
          : v.in_edges # Null \/ v.out_edges # Null}

\* the_ends UNION the_ends: without ids there are no lists.
Listless(edges) == {[at |-> v, in_edges |-> Null, out_edges |-> Null] : v \in Ends(edges)}

\* ORDER BY x, y with NULLs last; which of two NULL rows is first is left open by
\* SQL, and is the one with incoming edges here.
Before(v, w) ==
  \/ v.at # Null /\ (w.at = Null \/ v.at < w.at)
  \/ v.at = Null /\ w.at = Null /\ v.in_edges # Null /\ w.in_edges = Null

Vertex(v, id) == [at |-> v.at, id |-> id, in_edges |-> v.in_edges, out_edges |-> v.out_edges]

\* The vertices of source and target are their own ids; points get row numbers.
ExtractVertices(text, edges) ==
  LET points == IF "id" \in Columns(text) THEN Joined(edges) ELSE Listless(edges)
  IN  {Vertex(v, IF "source" \in Columns(text) THEN v.at
                 ELSE 1 + Cardinality({w \in points : Before(w, v)})) : v \in points}

-----------------------------------------------------------------------------
(* pgr_degree. *)

\* FROM_EDGES: every row counts at its source and at its target, and NULL is a
\* node of its own.
DegreeFromEdges(edges) ==
  {[node |-> v,
    degree |-> CountIn([i \in DOMAIN edges |-> edges[i].source], v)
             + CountIn([i \in DOMAIN edges |-> edges[i].target], v)] : v \in Ends(edges)}

OrEmpty(list) == IF list = Null THEN <<>> ELSE list

\* Mutant of EdgeIds: without the coalesce a vertex needs both its lists.
BothLists(text, v) ==
  IF Null \in {v.in_edges, v.out_edges} THEN <<>> ELSE v.in_edges \o v.out_edges

\* EDGE_IDS, by the lists the vertex query has.
EdgeIds(text, v) ==
  (IF "in_edges" \in Columns(text) THEN OrEmpty(v.in_edges) ELSE <<>>)
  \o (IF "out_edges" \in Columns(text) THEN OrEmpty(v.out_edges) ELSE <<>>)

\* totals: the pairs of a list entry of the vertex and an edge row with that id.
Total(text, edges, vertices, id) ==
  LET matches(i) == {m \in (DOMAIN EdgeIds(text, vertices[i])) \X (DOMAIN edges) :
                       EdgeIds(text, vertices[i])[m[1]] = edges[m[2]].id}
  IN  SumFunction([i \in {i \in DOMAIN vertices : vertices[i].id = id} |-> Cardinality(matches(i))])

\* Mutant of DegreeFromVertices: LEFT JOIN totals.
TotalsLeftJoined(text, edges, vertices) ==
  {[row |-> i, node |-> vertices[i].id, degree |-> Total(text, edges, vertices, vertices[i].id)]
     : i \in DOMAIN vertices}

\* FROM_VERTICES: the vertex rows with a total, also where an id has several of them;
\* a NULL id joins none.
DegreeFromVertices(text, edges, vertices) ==
  {r \in {[row |-> i, node |-> vertices[i].id,
           degree |-> Total(text, edges, vertices, vertices[i].id)] : i \in DOMAIN vertices} :
     r.node # Null /\ r.degree > 0}

\* The degrees of the nodes, without the rows they come from.
NodeDegrees(rows) == {[node |-> r.node, degree |-> r.degree] : r \in rows}

-----------------------------------------------------------------------------
(* pgr_findCloseEdges. *)

Length(line) == IF line.from < line.to THEN line.to - line.from ELSE line.from - line.to
Ahead(line)  == IF line.from < line.to THEN 1 ELSE -1

\* ST_LineLocatePoint, not divided by the line's length.
Located(line, point) ==
  LET along == Ahead(line) * (point.x - line.from)
  IN  IF along < 0 THEN 0 ELSE IF along > Length(line) THEN Length(line) ELSE along

\* ST_Distance, squared.
Distance2(line, point) ==
  LET dx == line.from + Ahead(line) * Located(line, point) - point.x
      dy == line.y - point.y
  IN  dx * dx + dy * dy

\* Mutant of Side: the ends of a line have sides as its other points do.
SideOfEnds(line, point, tolerance) ==
  IF tolerance > 0 /\ Ahead(line) * (point.y - line.y) <= 0 THEN "r" ELSE "l"

\* The sign of the cross product of the line's direction and the way to the point.
Side(line, point, tolerance) ==
  IF /\ tolerance > 0
     /\ \/ Distance2(line, point) = 0
        \/ /\ Located(line, point) \in 1 .. Length(line) - 1
           /\ Ahead(line) * (point.y - line.y) <= 0
    THEN "r" ELSE "l"

\* The lines within the tolerance of each point.
Results(lines, points, tolerance) ==
  {r \in [line : lines, index : DOMAIN points] :
     Distance2(r.line, points[r.index]) <= tolerance * tolerance}

\* Mutant of InPartition: PARTITION BY point.
PartitionByPoint(points, r, s) == points[r.index] = points[s.index]

\* PARTITION BY point_index.
InPartition(points, r, s) == r.index = s.index

\* ORDER BY distance, edge_id.
Nearer(points, r, s) ==
  LET far(row) == Distance2(row.line, points[row.index])
  IN  far(r) < far(s) \/ (far(r) = far(s) /\ r.line.id < s.line.id)

\* rn.  No two rows of a partition tie, because the ids of the lines are their own
\* (TemplateAssumption of TemplateCall.tla); row_number() would order such rows as it
\* pleases.
RowNumber(results, points, r) ==
  1 + Cardinality({s \in results : InPartition(points, s, r) /\ Nearer(points, s, r)})

FindCloseEdges(lines, points, tolerance, cap) ==
  LET results == Results(lines, points, tolerance)
  IN  {[edge_id |-> r.line.id, index |-> r.index, side |-> Side(r.line, points[r.index], tolerance)]
         : r \in {s \in results : RowNumber(results, points, s) <= cap}}

=============================================================================
