---------------------------- MODULE MCCrashGuards ----------------------------
(* An instance of CrashGuards for model checking. *)
EXTENDS CrashGuards

VertexIds == 1 .. 4

\* The vertices are interchangeable, so they are numbered as the rows meet them: a
\* row's ends are vertices met before or the next one.
NextIds(met) == 1 .. (IF met = 4 THEN 4 ELSE met + 1)
Larger(a, b) == IF a > b THEN a ELSE b
Numbered(costs) ==
  LET OfLength[n \in 0 .. 4] ==
        IF n = 0 THEN {[rows |-> <<>>, met |-> 0]}
        ELSE UNION {
          UNION {
            {[rows |-> Append(q.rows, [source |-> s, target |-> t, cost |-> c]),
              met |-> Larger(q.met, Larger(s, t))] :
                t \in NextIds(Larger(q.met, s)), c \in costs} : s \in NextIds(q.met)} :
          q \in OfLength[n - 1]}
  IN [n \in 0 .. 4 |-> {q.rows : q \in OfLength[n]}]

\* Up to three rows of any costs, and four of positive ones: find() halves paths
\* while rows are still joined.
RowSequences ==
  (UNION {Numbered({"negative", "zero", "positive"})[n] : n \in 0 .. 3})
    \cup Numbered({"positive"})[4]

Plain == [column \in EdgeColumns |-> IF column \in {"id", "source", "target"} THEN "INTEGER" ELSE "DOUBLE"]

\* Any type of one column, or of both costs.
SomeColumns ==
  {[Plain EXCEPT ![column] = type] : column \in EdgeColumns, type \in Types}
    \cup {[Plain EXCEPT !["cost"] = s, !["reverse_cost"] = t] : s \in Types, t \in Types}

\* Queries on which some driver would crash, and one on which none would.
FewRows ==
  {<<>>} \cup {<<[source |-> 1, target |-> t, cost |-> c]>> : t \in {1, 2}, c \in {"negative", "zero", "positive"}}

NullCells(seq, types) ==
  {<<>>} \cup {<<k, column>> : k \in DOMAIN seq, column \in {a \in EdgeColumns : types[a] # "absent"}}

Query(seq, types, cell) == [rows |-> seq, columns |-> types, null |-> cell]

EdgeQueries ==
  {Query(seq, Plain, <<>>) : seq \in RowSequences}
    \cup UNION {{Query(seq, types, cell) : cell \in NullCells(seq, types)} :
                  seq \in FewRows, types \in SomeColumns}

=============================================================================
