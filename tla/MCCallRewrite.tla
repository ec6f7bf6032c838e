---------------------------- MODULE MCCallRewrite ----------------------------
(* Instances of CallRewrite for model checking. *)
EXTENDS CallRewrite, TLC

CONSTANTS t1, t2

Flags == {"directed", "global", "details", "equicost", "heap_paths", "stop_on_first", "strict", "u_turn_on_edge"}
Numbers == {"n_goals", "heuristic", "factor", "epsilon", "max_depth", "start_id", "end_id", "cycles"}
Kinds == ArgKinds \cup Flags \cup Numbers \cup {"methods", "forbidden"}

PlainValues ==
  [kind \in Kinds |->
     CASE kind \in SqlKinds -> Texts
       [] kind \in ListKinds \cup {"methods", "forbidden"} -> {<<2>>}
       [] kind = "DRIVING_SIDE" -> {<<"R", "x">>}
       [] kind \in {"directed", "global", "stop_on_first", "u_turn_on_edge"} -> {FALSE}
       [] kind \in Flags -> {TRUE}
       [] OTHER -> {2}]

OddValues ==
  [kind \in Kinds |->
     CASE kind \in SqlKinds \cup IdKinds \cup Flags -> {NULL}
       [] kind \in ListKinds \cup {"methods", "forbidden"} -> {NULL, <<>>, <<2, NULL>>}
       [] kind = "DRIVING_SIDE" -> {NULL, <<>>, <<"x">>}
       [] kind = "heuristic" -> {NULL, 0, 6}
       [] kind \in {"DISTANCE", "K", "max_depth"} -> {NULL, 0 - 1, 0}
       [] OTHER -> {NULL, 0}]

\* The overloads with the most optionals, points, restrictions or id lists.
RichSpecs ==
  {s \in SpecTables : s.flags.driver \in {"TURN_RESTRICTED_PATH", "CONTRACTION"}}
    \cup {s \in SpecTables : /\ s.flags.driver \in {"ASTAR", "WITH_POINTS_KSP"}
                             /\ {"END_VIDS", "COMBINATIONS_SQL"} \cap Range(s.args) # {}
                             /\ "START_VIDS" \notin Range(s.args)}

ExtrasOf(s) == IF s \in RichSpecs THEN 2 ELSE 1

\* Direct calls: parameters the public calls never pass, over rows with columns
\* missing, untyped, of the right type and of the wrong one.
WrongColumn == [type |-> "wrong", value |-> "wrong"]
DirectDrivers == {"KSP", "TRSP_WITH_POINTS", "TURN_RESTRICTED_PATH", "CONTRACTION"}
DirectArgs(e, other) ==
  {[driver |-> d, edges_sql |-> e, points_sql |-> p, k |-> k, cycles |-> 0, driving_side |-> side] :
     d \in DirectDrivers, p \in {Blank, other}, k \in {NULL, 0 - 1}, side \in {<<"B">>, <<"x">>}}
DirectRows(e, other) ==
  {EmptyMap} \cup
  {Overlay(slot :> column, "edges" :> edges) :
     slot \in {"edges_no_points", "restrictions", "starts", "forbidden"},
     column \in {NullColumn, Rows(<<other>>), Ids(<<2, NULL>>), WrongColumn},
     edges \in {Rows(<<e>>), WrongColumn}}
OutsideCallsOf(e, other) ==
  {[args |-> a, null_input |-> how = "null", row |-> r, rows |-> IF how = "two rows" THEN 2 ELSE 1] :
     a \in DirectArgs(e, other), r \in DirectRows(e, other), how \in {"null", "one row", "two rows"}}

\* A driver there is not, and the algorithms a public call cannot choose.
NumberedCallsOf(e) ==
  {[args |-> a, null_input |-> FALSE, row |-> "edges" :> Rows(<<e>>), rows |-> 1] :
     a \in {[driver |-> "NO_DRIVER", edges_sql |-> e]}
             \cup {[driver |-> "MAX_FLOW", edges_sql |-> e, algorithm |-> n] : n \in {NULL, 0, 3, 4}}}

OutsideCalls ==
  OutsideCallsOf(t1, t2) \cup OutsideCallsOf(t2, t1) \cup NumberedCallsOf(t1) \cup NumberedCallsOf(t2)

Symmetry == Permutations(Texts)

=============================================================================
