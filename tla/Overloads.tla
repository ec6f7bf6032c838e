------------------------------ MODULE Overloads ------------------------------
(***************************************************************************)
(* The public overloads as data: the spec tables of src/functions, one set *)
(* per *_specs.cpp file, and the DRIVERS table they refer to.  A table row *)
(* keeps what decides how a call is rewritten and what its driver reads;   *)
(* the text of a column list (Projection::COLUMNS) is left out.            *)
(***************************************************************************)
EXTENDS Naturals, Sequences

\* max_depth's default, BIGINT's maximum: a number no depth of a model reaches.
NoDepthLimit == 2147483647

\* The empty text, and the blank a char has before it is set.
Blank == "blank"

Param(name, type, default, field) ==
  [name |-> name, type |-> type, default |-> default, request_field |-> field]

DIRECTED == Param("directed", "BOOLEAN", TRUE, "directed")
CAP == Param("cap", "BIGINT", 1, "n_goals")
GLOBAL == Param("global", "BOOLEAN", TRUE, "global")
DETAILS == Param("details", "BOOLEAN", FALSE, "details")
HEURISTIC == Param("heuristic", "INTEGER", 5, "heuristic")
FACTOR == Param("factor", "DOUBLE", 1, "factor")
EPSILON == Param("epsilon", "DOUBLE", 1, "epsilon")
EQUICOST == Param("equicost", "BOOLEAN", FALSE, "equicost")
MAX_DEPTH == Param("max_depth", "BIGINT", NoDepthLimit, "max_depth")
HEAP_PATHS == Param("heap_paths", "BOOLEAN", FALSE, "heap_paths")
STOP_ON_FIRST == Param("stop_on_first", "BOOLEAN", TRUE, "stop_on_first")
VIA_STRICT == Param("strict", "BOOLEAN", FALSE, "strict")
VIA_U_TURN_ON_EDGE == Param("U_turn_on_edge", "BOOLEAN", TRUE, "u_turn_on_edge")
START_ID == Param("start_id", "BIGINT", 0, "start_id")
END_ID == Param("end_id", "BIGINT", 0, "end_id")
CONTRACTION_METHODS == Param("methods", "INTEGER_LIST", <<1, 2>>, "methods")
CYCLES == Param("cycles", "INTEGER", 1, "cycles")
FORBIDDEN == Param("forbidden", "BIGINT_LIST", <<>>, "forbidden")

\* ArgKind, by the type each is registered with: SQL texts, ids and lists of ids; and
\* the three that are neither.
SqlKinds == {"EDGES_SQL", "COMBINATIONS_SQL", "POINTS_SQL", "RESTRICTIONS_SQL", "MATRIX_SQL", "COORDINATES_SQL"}
IdKinds == {"START_VID", "END_VID", "ROOT", "ROOT_VID"}
ListKinds == {"START_VIDS", "END_VIDS", "VIDS", "ROOTS", "VIA"}
ArgKinds == SqlKinds \cup IdKinds \cup ListKinds \cup {"DISTANCE", "K", "DRIVING_SIDE"}

\* DriverFlags with its defaults, and the driver.
DriverFlags(driver) ==
  [driver |-> driver, only_cost |-> FALSE, normal |-> TRUE, n_goals |-> 0, global |-> FALSE,
   driving_side |-> "NONE", details |-> TRUE, which |-> 0, mst_suffix |-> Blank, root_zero |-> FALSE,
   algorithm |-> 1, contraction_method |-> 0, projection |-> "ALL"]

Costs(flags, projection) == [flags EXCEPT !.only_cost = TRUE, !.projection = projection]
Backward(flags) == [flags EXCEPT !.normal = FALSE]
Sided(flags, source) == [flags EXCEPT !.driving_side = source]
ColumnsFlags(driver) == [DriverFlags(driver) EXCEPT !.projection = "COLUMNS"]

Overload(name, args, optionals, flags) ==
  [name |-> name, args |-> args, optionals |-> optionals, flags |-> flags, scalar |-> FALSE]

Overloads(name, signatures, optionals, flags) ==
  {Overload(name, args, optionals, flags) : args \in signatures}

Scalar(overloads) == {[spec EXCEPT !.scalar = TRUE] : spec \in overloads}

\* The signatures most families have.
OneToOne == <<"START_VID", "END_VID">>
OneToMany == <<"START_VID", "END_VIDS">>
ManyToOne == <<"START_VIDS", "END_VID">>
ManyToMany == <<"START_VIDS", "END_VIDS">>
Combinations == <<"COMBINATIONS_SQL">>
Paths == {OneToOne, OneToMany, ManyToOne, ManyToMany, Combinations}

EdgesOnly == {<<"EDGES_SQL">>}
Over(queries, signatures) == {queries \o s : s \in signatures}
Edges(signatures) == Over(<<"EDGES_SQL">>, signatures)
EdgesPoints(signatures) == Over(<<"EDGES_SQL", "POINTS_SQL">>, signatures)
With(signatures, last) == {s \o last : s \in signatures}

\* A withPoints overload takes its side as the last argument, or from directed.
BySide(name, signatures, optionals, flags) ==
  Overloads(name, With(signatures, <<"DRIVING_SIDE">>), optionals, Sided(flags, "ARGUMENT"))
    \cup Overloads(name, signatures, optionals, Sided(flags, "FROM_DIRECTED"))

----------------------------------------------------------------------------

DIJKSTRA_SPECS ==
  LET path == DriverFlags("SHORTEST_PATH")
      near_args == {OneToMany, ManyToOne, ManyToMany, Combinations}
      Near(name, Flags(_)) ==
        UNION {Overloads(name, Edges({s}),
                         IF s \in {OneToMany, ManyToOne} THEN <<DIRECTED, CAP>>
                                                        ELSE <<DIRECTED, CAP, GLOBAL>>,
                         Flags(s)) : s \in near_args}
      Direction(s, flags) == IF s = ManyToOne THEN Backward(flags) ELSE flags
      NearFlags(s) ==
        Direction(s, [path EXCEPT !.global = s \in {ManyToMany, Combinations}])
      NearCostFlags(s) ==
        Direction(s, [path EXCEPT !.global = TRUE, !.projection = "COST_OF_PATH"]) IN
  Overloads("pgr_dijkstra", Edges(Paths \ {ManyToOne}), <<DIRECTED>>, path)
    \cup Overloads("pgr_dijkstra", Edges({ManyToOne}), <<DIRECTED>>, Backward(path))
    \cup Overloads("pgr_dijkstraCost", Edges(Paths), <<DIRECTED>>, Costs(path, "COST"))
    \cup Overloads("pgr_dijkstraCostMatrix", Edges({<<"START_VIDS">>}), <<DIRECTED>>, Costs(path, "COST"))
    \cup Near("pgr_dijkstraNear", NearFlags)
    \cup Near("pgr_dijkstraNearCost", NearCostFlags)
    \cup Overloads("pgr_dijkstraVia", Edges({<<"VIA">>}), <<DIRECTED, VIA_STRICT, VIA_U_TURN_ON_EDGE>>,
                   DriverFlags("DIJKSTRA_VIA"))

WITH_POINTS_SPECS ==
  LET points == [DriverFlags("SHORTEST_PATH") EXCEPT !.global = TRUE, !.which = 1]
      cost == Costs(points, "COST") IN
  BySide("pgr_withPoints", EdgesPoints({OneToOne, OneToMany, Combinations}), <<DIRECTED, DETAILS>>, points)
    \cup BySide("pgr_withPoints", EdgesPoints({ManyToOne, ManyToMany}), <<DIRECTED, DETAILS>>, Backward(points))
    \cup BySide("pgr_withPointsCost", EdgesPoints(Paths \ {ManyToOne}), <<DIRECTED>>, cost)
    \cup BySide("pgr_withPointsCost", EdgesPoints({ManyToOne}), <<DIRECTED>>, Backward(cost))
    \cup BySide("pgr_withPointsCostMatrix", EdgesPoints({<<"START_VIDS">>}), <<DIRECTED>>, cost)
    \cup BySide("pgr_withPointsVia", EdgesPoints({<<"VIA">>}),
                <<DIRECTED, VIA_STRICT, VIA_U_TURN_ON_EDGE, DETAILS>>, DriverFlags("WITH_POINTS_VIA"))

BD_DIJKSTRA_SPECS ==
  LET path == DriverFlags("BD_DIJKSTRA") IN
  Overloads("pgr_bdDijkstra", Edges(Paths), <<DIRECTED>>, path)
    \cup Overloads("pgr_bdDijkstraCost", Edges(Paths), <<DIRECTED>>, Costs(path, "COST"))
    \cup Overloads("pgr_bdDijkstraCostMatrix", Edges({<<"VIDS">>}), <<DIRECTED>>, Costs(path, "COST"))

BELLMAN_FORD_SPECS ==
  Overloads("pgr_bellmanFord", Edges(Paths), <<DIRECTED>>, DriverFlags("BELLMAN_FORD"))
    \cup Overloads("pgr_edwardMoore", Edges(Paths), <<DIRECTED>>, DriverFlags("EDWARD_MOORE"))

DAG_SHORTEST_PATH_SPECS ==
  Overloads("pgr_dagShortestPath", Edges(Paths), <<>>, DriverFlags("DAG_SHORTEST_PATH"))

BREADTH_FIRST_SEARCH_SPECS ==
  Overloads("pgr_binaryBreadthFirstSearch", Edges(Paths), <<DIRECTED>>, DriverFlags("BINARY_BFS"))
    \cup Overloads("pgr_breadthFirstSearch", Edges({<<"ROOT">>, <<"ROOTS">>}), <<DIRECTED, MAX_DEPTH>>,
                   DriverFlags("BREADTH_FIRST_SEARCH"))

COMPONENTS_SPECS ==
  Overloads("pgr_connectedComponents", EdgesOnly, <<>>, DriverFlags("CONNECTED_COMPONENTS"))
    \cup Overloads("pgr_strongComponents", EdgesOnly, <<>>, DriverFlags("STRONG_COMPONENTS"))
    \cup Overloads("pgr_biconnectedComponents", EdgesOnly, <<>>, ColumnsFlags("BICONNECTED_COMPONENTS"))
    \cup Overloads("pgr_articulationPoints", EdgesOnly, <<>>, ColumnsFlags("ARTICULATION_POINTS"))
    \cup Overloads("pgr_bridges", EdgesOnly, <<>>, ColumnsFlags("BRIDGES"))
    \cup Overloads("pgr_makeConnected", EdgesOnly, <<>>, ColumnsFlags("MAKE_CONNECTED"))

COLORING_SPECS ==
  Overloads("pgr_sequentialVertexColoring", EdgesOnly, <<>>, ColumnsFlags("SEQUENTIAL_VERTEX_COLORING"))
    \cup Overloads("pgr_bipartite", EdgesOnly, <<>>, ColumnsFlags("BIPARTITE"))
    \cup Overloads("pgr_edgeColoring", EdgesOnly, <<>>, ColumnsFlags("EDGE_COLORING"))

ASTAR_OPTIONALS == <<DIRECTED, HEURISTIC, FACTOR, EPSILON>>

ASTAR_SPECS ==
  LET path == DriverFlags("ASTAR")
      cost == Costs(path, "COST_SORTED") IN
  Overloads("pgr_aStar", Edges(Paths \ {ManyToOne}), ASTAR_OPTIONALS, path)
    \cup Overloads("pgr_aStar", Edges({ManyToOne}), ASTAR_OPTIONALS, Backward(path))
    \cup Overloads("pgr_aStarCost", Edges(Paths \ {ManyToOne}), ASTAR_OPTIONALS, cost)
    \cup Overloads("pgr_aStarCost", Edges({ManyToOne}), ASTAR_OPTIONALS, Backward(cost))
    \cup Overloads("pgr_aStarCostMatrix", Edges({<<"VIDS">>}), ASTAR_OPTIONALS, Costs(path, "COST"))

BD_ASTAR_SPECS ==
  LET path == DriverFlags("BD_ASTAR") IN
  Overloads("pgr_bdAstar", Edges(Paths), ASTAR_OPTIONALS, path)
    \cup Overloads("pgr_bdAstarCost", Edges(Paths), ASTAR_OPTIONALS, Costs(path, "COST"))
    \cup Overloads("pgr_bdAstarCostMatrix", Edges({<<"VIDS">>}), ASTAR_OPTIONALS, Costs(path, "COST"))

DRIVING_DISTANCE_SPECS ==
  LET dd == DriverFlags("WITH_POINTS_DD") IN
  Overloads("pgr_drivingDistance", Edges({<<"ROOTS", "DISTANCE">>}), <<DIRECTED, EQUICOST>>,
            DriverFlags("DRIVING_DISTANCE"))
    \cup Overloads("pgr_drivingDistance", Edges({<<"ROOT", "DISTANCE">>}), <<DIRECTED>>,
                   DriverFlags("DRIVING_DISTANCE"))
    \cup BySide("pgr_withPointsDD", EdgesPoints({<<"ROOT", "DISTANCE">>}), <<DIRECTED, DETAILS>>, dd)
    \cup BySide("pgr_withPointsDD", EdgesPoints({<<"ROOTS", "DISTANCE">>}), <<DIRECTED, DETAILS, EQUICOST>>, dd)

SPANNING_TREE_SPECS ==
  LET Suffixed(driver, suffix) == [DriverFlags(driver) EXCEPT !.mst_suffix = suffix]
      Forest(driver) == [DriverFlags(driver) EXCEPT !.projection = "EDGE_COST", !.root_zero = TRUE]
      roots == {<<"ROOT">>, <<"ROOTS">>}
      Trees(driver, forest, bfs, dfs, dd) ==
        Overloads(forest, EdgesOnly, <<>>, Forest(driver))
          \cup Overloads(bfs, Edges(roots), <<MAX_DEPTH>>, Suffixed(driver, "BFS"))
          \cup Overloads(dfs, Edges(roots), <<MAX_DEPTH>>, Suffixed(driver, "DFS"))
          \cup Overloads(dd, With(Edges(roots), <<"DISTANCE">>), <<>>, Suffixed(driver, "DD")) IN
  Trees("KRUSKAL", "pgr_kruskal", "pgr_kruskalBFS", "pgr_kruskalDFS", "pgr_kruskalDD")
    \cup Trees("PRIM", "pgr_prim", "pgr_primBFS", "pgr_primDFS", "pgr_primDD")

TRAVERSAL_SPECS ==
  Overloads("pgr_depthFirstSearch", Edges({<<"ROOT">>, <<"ROOTS">>}), <<DIRECTED, MAX_DEPTH>>,
            DriverFlags("DEPTH_FIRST_SEARCH"))

KSP_SPECS ==
  Overloads("pgr_ksp", With(Edges(Paths), <<"K">>), <<DIRECTED, HEAP_PATHS>>, DriverFlags("KSP"))
    \cup BySide("pgr_withPointsKSP", With(EdgesPoints(Paths), <<"K">>), <<DIRECTED, HEAP_PATHS, DETAILS>>,
                DriverFlags("WITH_POINTS_KSP"))
    \cup Overloads("pgr_turnRestrictedPath", {<<"EDGES_SQL", "RESTRICTIONS_SQL", "START_VID", "END_VID", "K">>},
                   <<DIRECTED, HEAP_PATHS, STOP_ON_FIRST, VIA_STRICT>>, DriverFlags("TURN_RESTRICTED_PATH"))

TRSP_SPECS ==
  LET Restricted(signatures) == Over(<<"EDGES_SQL", "RESTRICTIONS_SQL">>, signatures)
      AtPoints(signatures) == Over(<<"EDGES_SQL", "RESTRICTIONS_SQL", "POINTS_SQL">>, signatures) IN
  Overloads("pgr_trsp", Restricted(Paths), <<DIRECTED>>, DriverFlags("TRSP"))
    \cup BySide("pgr_trsp_withPoints", AtPoints(Paths), <<DIRECTED, DETAILS>>, DriverFlags("TRSP_WITH_POINTS"))
    \cup Overloads("pgr_trspVia", Restricted({<<"VIA">>}), <<DIRECTED, VIA_STRICT, VIA_U_TURN_ON_EDGE>>,
                   DriverFlags("TRSP_VIA"))
    \cup BySide("pgr_trspVia_withPoints", AtPoints({<<"VIA">>}),
                <<DIRECTED, VIA_STRICT, VIA_U_TURN_ON_EDGE, DETAILS>>, DriverFlags("TRSP_VIA_WITH_POINTS"))

TSP_SPECS ==
  Overloads("pgr_TSP", {<<"MATRIX_SQL">>}, <<START_ID, END_ID>>, DriverFlags("TSP"))
    \cup Overloads("pgr_TSPeuclidean", {<<"COORDINATES_SQL">>}, <<START_ID, END_ID>>, DriverFlags("EUCLIDEAN_TSP"))

ORDERING_SPECS ==
  Overloads("pgr_cuthillMckeeOrdering", EdgesOnly, <<>>, ColumnsFlags("CUTHILL_MCKEE_ORDERING"))
    \cup Overloads("pgr_kingOrdering", EdgesOnly, <<>>, ColumnsFlags("KING_ORDERING"))
    \cup Overloads("pgr_sloanOrdering", EdgesOnly, <<>>, ColumnsFlags("SLOAN_ORDERING"))
    \cup Overloads("pgr_topologicalSort", EdgesOnly, <<>>, ColumnsFlags("TOPOLOGICAL_SORT"))

ALLPAIRS_SPECS ==
  Overloads("pgr_johnson", EdgesOnly, <<DIRECTED>>, ColumnsFlags("JOHNSON"))
    \cup Overloads("pgr_floydWarshall", EdgesOnly, <<DIRECTED>>, ColumnsFlags("FLOYD_WARSHALL"))

METRICS_SPECS ==
  Overloads("pgr_betweennessCentrality", EdgesOnly, <<DIRECTED>>, ColumnsFlags("BETWEENNESS_CENTRALITY"))
    \cup Scalar(Overloads("pgr_bandwidth", EdgesOnly, <<>>, ColumnsFlags("BANDWIDTH")))

PLANAR_SPECS == Scalar(Overloads("pgr_isPlanar", EdgesOnly, <<>>, ColumnsFlags("IS_PLANAR")))

LINE_GRAPH_SPECS ==
  Overloads("pgr_lineGraph", EdgesOnly, <<DIRECTED>>, DriverFlags("LINE_GRAPH"))
    \cup Overloads("pgr_lineGraphFull", EdgesOnly, <<>>, DriverFlags("LINE_GRAPH_FULL"))

TRANSITIVE_CLOSURE_SPECS ==
  Overloads("pgr_transitiveClosure", EdgesOnly, <<>>, ColumnsFlags("TRANSITIVE_CLOSURE"))

DOMINATOR_SPECS ==
  Overloads("pgr_lengauerTarjanDominatorTree", Edges({<<"ROOT_VID">>}), <<>>, ColumnsFlags("DOMINATOR_TREE"))

MINCUT_SPECS == Overloads("pgr_stoerWagner", EdgesOnly, <<>>, DriverFlags("STOER_WAGNER"))

CIRCUITS_SPECS == Overloads("pgr_hawickCircuits", EdgesOnly, <<>>, DriverFlags("HAWICK_CIRCUITS"))

MAX_FLOW_SPECS ==
  LET Algorithm(n) == [ColumnsFlags("MAX_FLOW") EXCEPT !.algorithm = n]
      cost == DriverFlags("MIN_COST_MAX_FLOW")
      disjoint == DriverFlags("EDGE_DISJOINT_PATHS") IN
  Overloads("pgr_pushRelabel", Edges(Paths), <<>>, Algorithm(1))
    \cup Overloads("pgr_boykovKolmogorov", Edges(Paths), <<>>, Algorithm(2))
    \cup Overloads("pgr_edmondsKarp", Edges(Paths), <<>>, Algorithm(3))
    \cup Scalar(Overloads("pgr_maxFlow", Edges(Paths), <<>>, Costs(Algorithm(1), "COLUMNS")))
    \cup Overloads("pgr_maxFlowMinCost", Edges(Paths), <<>>, cost)
    \cup Scalar(Overloads("pgr_maxFlowMinCost_Cost", Edges(Paths), <<>>, Costs(cost, "COLUMNS")))
    \cup Overloads("pgr_edgeDisjointPaths", Edges(Paths \ {ManyToOne}), <<DIRECTED>>, disjoint)
    \cup Overloads("pgr_edgeDisjointPaths", Edges({ManyToOne}), <<DIRECTED>>, ColumnsFlags("EDGE_DISJOINT_PATHS"))
    \cup Overloads("pgr_maxCardinalityMatch", EdgesOnly, <<>>, ColumnsFlags("MAX_CARDINALITY_MATCH"))

CHINESE_SPECS ==
  LET postman == ColumnsFlags("CHINESE_POSTMAN") IN
  Overloads("pgr_chinesePostman", EdgesOnly, <<>>, postman)
    \cup Scalar(Overloads("pgr_chinesePostmanCost", EdgesOnly, <<>>, Costs(postman, "COLUMNS")))

CONTRACTION_SPECS ==
  LET contraction == DriverFlags("CONTRACTION")
      Method(n) == [contraction EXCEPT !.contraction_method = n] IN
  Overloads("pgr_contraction", EdgesOnly, <<DIRECTED, CONTRACTION_METHODS, CYCLES, FORBIDDEN>>, contraction)
    \cup Overloads("pgr_contractionDeadEnd", EdgesOnly, <<DIRECTED, FORBIDDEN>>, Method(1))
    \cup Overloads("pgr_contractionLinear", EdgesOnly, <<DIRECTED, FORBIDDEN>>, Method(2))
    \cup Overloads("pgr_contractionHierarchies", EdgesOnly, <<DIRECTED, FORBIDDEN>>,
                   DriverFlags("CONTRACTION_HIERARCHIES"))

SpecTables ==
  UNION {DIJKSTRA_SPECS, WITH_POINTS_SPECS, BD_DIJKSTRA_SPECS, BELLMAN_FORD_SPECS, DAG_SHORTEST_PATH_SPECS,
         BREADTH_FIRST_SEARCH_SPECS, COMPONENTS_SPECS, COLORING_SPECS, ASTAR_SPECS, BD_ASTAR_SPECS,
         DRIVING_DISTANCE_SPECS, SPANNING_TREE_SPECS, TRAVERSAL_SPECS, KSP_SPECS, TRSP_SPECS, TSP_SPECS,
         ORDERING_SPECS, ALLPAIRS_SPECS, METRICS_SPECS, PLANAR_SPECS, LINE_GRAPH_SPECS,
         TRANSITIVE_CLOSURE_SPECS, DOMINATOR_SPECS, MINCUT_SPECS, CIRCUITS_SPECS, MAX_FLOW_SPECS,
         CHINESE_SPECS, CONTRACTION_SPECS}

----------------------------------------------------------------------------
\* DRIVERS: the drivers there are, the check a driver's C entry makes first, its
\* result shape, and whether it reads points.

DRIVERS ==
  {"SHORTEST_PATH", "BD_DIJKSTRA", "BELLMAN_FORD", "EDWARD_MOORE", "DAG_SHORTEST_PATH", "BINARY_BFS",
   "CONNECTED_COMPONENTS", "ASTAR", "BD_ASTAR", "DRIVING_DISTANCE", "WITH_POINTS_DD", "KRUSKAL", "PRIM",
   "BREADTH_FIRST_SEARCH", "DEPTH_FIRST_SEARCH", "KSP", "WITH_POINTS_KSP", "DIJKSTRA_VIA",
   "WITH_POINTS_VIA", "TRSP", "TRSP_WITH_POINTS", "TRSP_VIA", "TRSP_VIA_WITH_POINTS",
   "TURN_RESTRICTED_PATH", "TSP", "EUCLIDEAN_TSP", "ARTICULATION_POINTS", "BICONNECTED_COMPONENTS",
   "BRIDGES", "STRONG_COMPONENTS", "MAKE_CONNECTED", "SEQUENTIAL_VERTEX_COLORING", "BIPARTITE",
   "EDGE_COLORING", "CUTHILL_MCKEE_ORDERING", "KING_ORDERING", "SLOAN_ORDERING", "TOPOLOGICAL_SORT",
   "JOHNSON", "FLOYD_WARSHALL", "BETWEENNESS_CENTRALITY", "BANDWIDTH", "IS_PLANAR", "LINE_GRAPH",
   "LINE_GRAPH_FULL", "TRANSITIVE_CLOSURE", "DOMINATOR_TREE", "STOER_WAGNER", "HAWICK_CIRCUITS",
   "MAX_FLOW", "MIN_COST_MAX_FLOW", "EDGE_DISJOINT_PATHS", "MAX_CARDINALITY_MATCH", "CHINESE_POSTMAN",
   "CONTRACTION", "CONTRACTION_HIERARCHIES"}

TakesPoints ==
  {"SHORTEST_PATH", "WITH_POINTS_DD", "WITH_POINTS_KSP", "WITH_POINTS_VIA", "TRSP_WITH_POINTS",
   "TRSP_VIA_WITH_POINTS"}

CheckOf(driver) ==
  CASE driver \in {"ASTAR", "BD_ASTAR"} -> "ASTAR_PARAMETERS"
    [] driver = "DRIVING_DISTANCE" -> "DRIVING_DISTANCE"
    [] driver = "WITH_POINTS_DD" -> "WITH_POINTS_DD"
    [] driver \in {"KRUSKAL", "PRIM"} -> "SPANNING_TREE"
    [] driver \in {"BREADTH_FIRST_SEARCH", "DEPTH_FIRST_SEARCH"} -> "TRAVERSAL"
    [] driver = "KSP" -> "KSP_K"
    [] driver = "WITH_POINTS_KSP" -> "WITH_POINTS_KSP"
    [] driver \in {"WITH_POINTS_VIA", "TRSP_WITH_POINTS", "TRSP_VIA_WITH_POINTS"} -> "DRIVING_SIDE"
    [] driver = "TURN_RESTRICTED_PATH" -> "TURN_RESTRICTED_PATH"
    [] driver = "MAX_FLOW" -> "MAX_FLOW_ALGORITHM"
    [] driver = "CONTRACTION" -> "CONTRACTION_CYCLES"
    [] OTHER -> "NONE"

ShapeOf(driver) ==
  CASE driver \in {"SHORTEST_PATH", "BD_DIJKSTRA", "BELLMAN_FORD", "EDWARD_MOORE", "DAG_SHORTEST_PATH",
                   "BINARY_BFS", "ASTAR", "BD_ASTAR", "TRSP", "TRSP_WITH_POINTS", "CHINESE_POSTMAN"} -> "PATH"
    [] driver \in {"DRIVING_DISTANCE", "WITH_POINTS_DD", "KRUSKAL", "PRIM", "BREADTH_FIRST_SEARCH",
                   "DEPTH_FIRST_SEARCH"} -> "MST"
    [] OTHER -> "another"

=============================================================================
