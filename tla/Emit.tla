-------------------------------- MODULE Emit --------------------------------
(***************************************************************************)
(* Result emitters (result_emitters.cpp): the rows of a driver leave       *)
(* ExecFunction in output chunks of VectorSize, and the columns upstream's *)
(* C layer would compute (seq, path_seq, path_id) are computed here, with  *)
(* EmitState carrying what depends on earlier rows from one chunk to the   *)
(* next.  Exec has the life of a call around this; here it is one          *)
(* ExecState that is given one driver result after another.                *)
(*                                                                         *)
(* The loops over the rows of a chunk are taken one row at a time.  Only   *)
(* the columns that are computed are modelled; the others are copied from  *)
(* the driver's row, whose number stands for them.                         *)
(***************************************************************************)
EXTENDS Integers, Sequences, FiniteSets

CONSTANTS
  Shapes,     \* the ResultShapes of this instance
  Edges,      \* edge ids a driver's row may carry: ids, -1 and -2
  Sizes,      \* lengths of a row's own array (targets, contracted vertices), and a
              \* route row's place in its path, counted from 0
  VectorSize, \* STANDARD_VECTOR_SIZE, 2048 in DuckDB
  Int32Max,   \* largest INTEGER, 2^31 - 1 in DuckDB
  MaxRows,    \* bound: rows of one driver result
  MaxResults  \* bound: results, one per input, of one ExecState

\* Shapes by the column they number their rows with.
Int32Numbered == {"PATH", "KSP", "ROUTES", "TSP_TOUR", "EDGE", "LINE_GRAPH_FULL",
                  "TRANSITIVE_CLOSURE", "STOER_WAGNER", "CIRCUITS", "FLOW"}
Int64Numbered == {"PAIRS", "MST", "IDS", "ID_VALUE"}
Unnumbered    == {"TRIPLES", "CONTRACTED", "CONTRACTION_HIERARCHIES"}
ListShapes    == {"TRANSITIVE_CLOSURE", "CONTRACTED", "CONTRACTION_HIERARCHIES"}
PathShapes    == {"PATH", "KSP"}

ASSUME EmitAssumption ==
  /\ Shapes \subseteq Int32Numbered \cup Int64Numbered \cup Unnumbered
  /\ Edges \subseteq Int
  /\ Sizes \subseteq Nat
  /\ VectorSize \in Nat \ {0}
  /\ Int32Max \in Nat
  /\ MaxRows \in Nat
  /\ MaxResults \in Nat

VARIABLES
  shape,   \* ExecBindData.shape: fixed for the life of the call
  rows,    \* DriverResult.rows: what the columns are computed from
  emit,    \* EmitState
  n,       \* rows of the output chunk being written
  i,       \* how many of them are written
  size,    \* length of that chunk's list child vector
  out,     \* the rows written for this result, over all its chunks
  results, \* how many results the driver has returned
  pc

vars == <<shape, rows, emit, n, i, size, out, results, pc>>

NewEmitState == [offset |-> 0, next_path_seq |-> 1, next_path_id |-> 1]

Row == [edge : Edges, own : Sizes]

Init ==
  /\ shape \in Shapes
  /\ rows = <<>>
  /\ emit = NewEmitState
  /\ n = 0
  /\ i = 0
  /\ size = 0
  /\ out = <<>>
  /\ results = 0
  /\ pc = "idle"

\* Mutant of StartState: only the offset starts again.
OffsetReset(e) ==
  [offset |-> 0, next_path_seq |-> e.next_path_seq, next_path_id |-> e.next_path_id]

\* emit = EmitState(), before the driver runs for another input.
StartState(e) == NewEmitState

\* The driver has run for an input and returned any rows (external).
NewResult ==
  /\ pc = "idle"
  /\ results < MaxResults
  /\ \E m \in 0 .. MaxRows : rows' \in [1 .. m -> Row]
  /\ emit' = StartState(emit)
  /\ out' = <<>>
  /\ results' = results + 1
  /\ pc' = "call"
  /\ UNCHANGED <<shape, n, i, size>>

\* ExecFunction: this call writes the next n rows, into an empty chunk.
StartChunk ==
  /\ pc = "call"
  /\ LET left == Len(rows) - emit.offset IN
       n' = IF left < VectorSize THEN left ELSE VectorSize
  /\ i' = 0
  /\ size' = 0
  /\ pc' = "row"
  /\ UNCHANGED <<shape, rows, emit, out, results>>

\* k, the index of the row at hand, counted from 1.
K == emit.offset + i + 1

\* Mutant of CastFits: the cast does not look at its argument.
CastUnchecked(k) == TRUE

\* NumericCast<int32_t>(k) throws when k does not fit.
CastFits(k) == k <= Int32Max

\* The bits an unchecked cast would leave in an INTEGER.
Int32(k) == ((k + Int32Max + 1) % (2 * (Int32Max + 1))) - (Int32Max + 1)

\* The seq column, 0 where the shape has none.
Seq32Or64 ==
  IF shape \in Int32Numbered THEN Int32(K) ELSE IF shape \in Int64Numbered THEN K ELSE 0

\* The row written at k; a column the shape lacks is 0.
Written(path_seq, path_id, first, length) ==
  [row |-> K, chunk_offset |-> emit.offset, seq |-> Seq32Or64, path_seq |-> path_seq,
   path_id |-> path_id, first |-> first, length |-> length]

\* EmitState with other numbers for the next row.
Numbers(path_seq, path_id) ==
  [offset |-> emit.offset, next_path_seq |-> path_seq, next_path_id |-> path_id]

\* What the loops over the rows share.
RowStep ==
  /\ pc = "row"
  /\ i < n
  /\ shape \in Int32Numbered => CastFits(K)
  /\ i' = i + 1
  /\ UNCHANGED <<shape, rows, n, results, pc>>

\* path_seq restarts after the last row of a path.
NextPathSeq(path_seq, edge) == IF edge < 0 THEN 1 ELSE path_seq + 1

\* Mutant of NextPathId: any negative edge ends a path.
PathIdAtNegative(path_id, edge) == IF edge < 0 THEN path_id + 1 ELSE path_id

NextPathId(path_id, edge) == IF edge = -1 THEN path_id + 1 ELSE path_id

EmitPath ==
  /\ shape = "PATH"
  /\ RowStep
  /\ out' = Append(out, Written(emit.next_path_seq, 0, 0, 0))
  /\ emit' = Numbers(NextPathSeq(emit.next_path_seq, rows[K].edge), emit.next_path_id)
  /\ UNCHANGED size

EmitKsp ==
  /\ shape = "KSP"
  /\ RowStep
  /\ out' = Append(out, Written(emit.next_path_seq, emit.next_path_id, 0, 0))
  /\ emit' = Numbers(NextPathSeq(emit.next_path_seq, rows[K].edge),
                     NextPathId(emit.next_path_id, rows[K].edge))
  /\ UNCHANGED size

\* A Via driver counts path_seq itself, from 0; its path_id is copied.
EmitRoutes ==
  /\ shape = "ROUTES"
  /\ RowStep
  /\ out' = Append(out, Written(rows[K].own + 1, 0, 0, 0))
  /\ UNCHANGED <<emit, size>>

\* Every column but the seq is the driver's.
EmitFlatRow ==
  /\ shape \notin PathShapes \cup ListShapes \cup {"ROUTES"}
  /\ RowStep
  /\ out' = Append(out, Written(0, 0, 0, 0))
  /\ UNCHANGED <<emit, size>>

\* Mutant of ListStart: every list starts where the chunk's lists start.
ListAtBase(at) == 0

\* Mutant of ListStart: off by one.
ListOneEarly(at) == at - 1

\* Where a row's list starts in the chunk's child vector.
ListStart(at) == at

\* The row's array goes into the chunk's child vector, after the arrays of the
\* rows before it in that chunk.
EmitListRow ==
  /\ shape \in ListShapes
  /\ RowStep
  /\ out' = Append(out, Written(0, 0, ListStart(size), rows[K].own))
  /\ size' = size + rows[K].own
  /\ UNCHANGED emit

\* The exception ends the call; the chunk is lost, those before it are out.
CastThrows ==
  /\ pc = "row"
  /\ i < n
  /\ shape \in Int32Numbered
  /\ ~CastFits(K)
  /\ pc' = "failed"
  /\ UNCHANGED <<shape, rows, emit, n, i, size, out, results>>

\* Mutant of MoreOutput: off by one.
MoreThanOne(offset) == offset + 1 < Len(rows)

\* HAVE_MORE_OUTPUT, or else NEED_MORE_INPUT.
MoreOutput(offset) == offset < Len(rows)

\* The chunk is out: offset += n.
EndChunk ==
  /\ pc = "row"
  /\ i = n
  /\ emit' = [offset |-> emit.offset + n, next_path_seq |-> emit.next_path_seq,
              next_path_id |-> emit.next_path_id]
  /\ pc' = IF MoreOutput(emit.offset + n) THEN "call" ELSE "idle"
  /\ i' = 0
  /\ n' = 0
  /\ UNCHANGED <<shape, rows, size, out, results>>

Next ==
  \/ NewResult
  \/ StartChunk
  \/ EmitPath
  \/ EmitKsp
  \/ EmitRoutes
  \/ EmitFlatRow
  \/ EmitListRow
  \/ CastThrows
  \/ EndChunk

Spec == Init /\ [][Next]_vars

-----------------------------------------------------------------------------
(* Properties. *)

OutRow == [row : Nat, chunk_offset : Nat, seq : Int, path_seq : Nat, path_id : Nat,
           first : Nat, length : Nat]

\* The types result_emitters.hpp and driver_kind.hpp declare, and the position
\* of the loop within the result.
TypeOK ==
  /\ shape \in Shapes
  /\ rows \in Seq(Row)
  /\ emit \in [offset : Nat, next_path_seq : Nat, next_path_id : Nat]
  /\ n \in Nat
  /\ i \in 0 .. n
  /\ size \in Nat
  /\ out \in Seq(OutRow)
  /\ results \in 0 .. MaxResults
  /\ pc \in {"idle", "call", "row", "failed"}

\* Every row is written once, in the driver's order, and numbered by its place
\* in the whole result, however the result falls into chunks; an INTEGER seq
\* never wraps.
SeqCountsRows ==
  \A p \in DOMAIN out : /\ out[p].row = p
                        /\ shape \notin Unnumbered => out[p].seq = p

\* s is the number of row k within its path: the row before the path is the last
\* of another one, and no row of the path before k ends it.
IsPathSeq(s, k) ==
  /\ s \in 1 .. k
  /\ s = k \/ rows[k - s].edge < 0
  /\ \A j \in (k - s + 1) .. (k - 1) : rows[j].edge >= 0

\* path_seq counts from the first row of each path, across chunks, and never
\* from a path of an earlier result (EmitPath, EmitKsp).
PathSeqRestarts ==
  shape \in PathShapes => \A p \in DOMAIN out : IsPathSeq(out[p].path_seq, p)

\* path_id counts the paths that ended before the row, in the whole answer
\* (EmitKsp: "path_id starts at 1 and grows after each row whose edge is -1").
EndsBefore(k) == {j \in 1 .. (k - 1) : rows[j].edge = -1}

PathIdCounts ==
  shape = "KSP" => \A p \in DOMAIN out : out[p].path_id = 1 + Cardinality(EndsBefore(p))

\* The numbers a row carries are those of its place, in the answer and in its path,
\* wherever chunks and earlier results end (EmitPath, EmitKsp, FillInt).
RowsNumbered == SeqCountsRows /\ PathSeqRestarts /\ PathIdCounts

\* Where -1 is the only negative edge a driver writes, as the K shortest path
\* drivers do, (path_id, path_seq) grows from row to row, so it is a key.
KeysGrow ==
  shape = "KSP" /\ (\A k \in DOMAIN rows : rows[k].edge >= -1) =>
    \A p, q \in DOMAIN out : p < q =>
      \/ out[p].path_id < out[q].path_id
      \/ out[p].path_id = out[q].path_id /\ out[p].path_seq < out[q].path_seq

\* The lists of a chunk do not overlap in its child vector, so each row shows
\* its own array only (EmitTransitiveClosure, EmitContractedColumns).
ListsDisjoint ==
  shape \in ListShapes =>
    \A p, q \in DOMAIN out : p < q /\ out[p].chunk_offset = out[q].chunk_offset =>
      out[p].first + out[p].length <= out[q].first

\* A result is not given up before its last row is out.
NothingLeftBehind == pc = "idle" => Len(out) = Len(rows)

=============================================================================
