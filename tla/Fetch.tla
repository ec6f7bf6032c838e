-------------------------------- MODULE Fetch --------------------------------
(***************************************************************************)
(* Reading an edge query's columns: as Unpack registers them               *)
(* (input_slots.cpp), as a driver fetches them (get_data.hpp,              *)
(* get_check_data.cpp) and as the guards look at them first                *)
(* (drivers_graph.cpp, drivers_flow.cpp).                                  *)
(*                                                                         *)
(* columns gives each column's SQL type, or "absent"; INTEGER stands for   *)
(* the seven types that fit in int64_t and INTEGER_LIST for their lists.   *)
(* null is the <<row, column>> of a NULL cell, or <<>>.                    *)
(***************************************************************************)
EXTENDS Naturals, Sequences

EdgeColumns == {"id", "source", "target", "cost", "reverse_cost"}
Types == {"absent", "INTEGER", "UBIGINT", "FLOAT", "DOUBLE", "DECIMAL", "VARCHAR", "INTEGER_LIST",
          "VARCHAR_LIST"}

\* ClassOf: UBIGINT is deliberately absent from the integers.
ClassOf(type) ==
  CASE type = "INTEGER" -> "INTEGER"
    [] type \in {"FLOAT", "DOUBLE", "DECIMAL"} -> "NUMERIC"
    [] type = "VARCHAR" -> "TEXT"
    [] type = "INTEGER_LIST" -> "INTEGER_ARRAY"
    [] OTHER -> "UNSUPPORTED"

\* Mutant of Unpacked: a DECIMAL column is registered as it is.
Uncast(type) == type

\* Unpack casts a DECIMAL column once.
Unpacked(type) == IF type = "DECIMAL" THEN "DOUBLE" ELSE type

Found(columns, column) == columns[column] # "absent"
ClassAt(columns, column) == ClassOf(Unpacked(columns[column]))

-----------------------------------------------------------------------------
(* The guards: their own lambdas and loop over the NULLs. *)

Integer(columns, column) == Found(columns, column) /\ ClassAt(columns, column) = "INTEGER"

\* Mutant of Number: DOUBLE costs are not looked at.
IntegerNumber(columns, column) == Integer(columns, column)

Number(columns, column) ==
  Found(columns, column) /\ ClassAt(columns, column) \in {"INTEGER", "NUMERIC"}

Readable(columns, null) ==
  /\ \A column \in {"id", "source", "target"} : Integer(columns, column)
  /\ Number(columns, "cost")
  /\ Found(columns, "reverse_cost") => Number(columns, "reverse_cost")
  /\ null = <<>>

\* ReadInt64 and ReadDouble: the types they have a case for; a column of another
\* type ends in an internal error.
ReadsInt64(type)  == type = "INTEGER"
ReadsDouble(type) == type \in {"FLOAT", "DOUBLE"} \/ ReadsInt64(type)

-----------------------------------------------------------------------------
(* The driver. *)

\* Upstream's get_edges: the columns it asks for, by the types it expects of them.
Expected == [id |-> "ANY_INTEGER", source |-> "ANY_INTEGER", target |-> "ANY_INTEGER",
             cost |-> "ANY_NUMERICAL", reverse_cost |-> "ANY_NUMERICAL"]
Strict(column) == column # "reverse_cost"

Accepts(expected, class) ==
  CASE expected = "ANY_INTEGER" -> class = "INTEGER"
    [] expected = "ANY_NUMERICAL" -> class \in {"INTEGER", "NUMERIC"}

\* fetch_column_info.
ColumnsFit(columns) ==
  \A column \in EdgeColumns :
    IF Found(columns, column) THEN Accepts(Expected[column], ClassAt(columns, column))
                              ELSE ~Strict(column)

\* getBigInt and getFloat8: the reader a column is read with.
ReadsAs(expected, type) ==
  IF expected = "ANY_INTEGER" THEN ReadsInt64(type) ELSE ReadsDouble(type)

\* get_data: the rows, or the error its driver reports.
GetData(columns, null) ==
  IF ~ColumnsFit(columns) THEN "column_error"
  ELSE IF null # <<>> THEN "null_error"
  ELSE IF \A column \in EdgeColumns :
            Found(columns, column) => ReadsAs(Expected[column], Unpacked(columns[column]))
    THEN "rows" ELSE "internal_error"

=============================================================================
