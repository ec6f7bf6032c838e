----------------------------- MODULE FamilyDriver -----------------------------
(***************************************************************************)
(* Who owns the memory a driver allocates, from the driver that returned   *)
(* it to the ExecState that frees it (family_drivers.cpp, exec_common.cpp, *)
(* exec_function.cpp).  A per-family driver writes its rows through one of *)
(* the row pointers of a DriverCall and its messages through three more;   *)
(* RunFamilyDriver hands on the rows its shape names and frees the rest;   *)
(* RunDriver puts them in a DriverResult, whose Release frees them as that *)
(* shape; the DriverResult moves to the ExecState, where it stays until    *)
(* the next input's result or the end of the call.                         *)
(*                                                                         *)
(* A block is named by the call that allocated it, what it holds and,      *)
(* for the array a row owns, the number of the row (0 for the others).  A  *)
(* pointer is the set of the block it points to, {} when it is null.       *)
(***************************************************************************)
EXTENDS Naturals

CONSTANTS
  Shapes,   \* the ResultShapes of this instance
  MaxRows,  \* bound: rows of one driver result
  MaxCalls  \* bound: inputs of the ExecState

\* Each shape's row struct (RowsOf).
StructOf ==
  [PATH |-> "Path_rt", KSP |-> "Path_rt", PAIRS |-> "II_t_rt", ID_VALUE |-> "II_t_rt",
   MST |-> "MST_rt", ROUTES |-> "Routes_t", TSP_TOUR |-> "TSP_tour_rt", IDS |-> "int64_t",
   TRIPLES |-> "IID_t_rt", EDGE |-> "Edge_rt", LINE_GRAPH_FULL |-> "Line_graph_full_rt",
   TRANSITIVE_CLOSURE |-> "TransitiveClosure_rt", STOER_WAGNER |-> "StoerWagner_t",
   CIRCUITS |-> "circuits_rt", FLOW |-> "Flow_t", CONTRACTED |-> "contracted_rt",
   CONTRACTION_HIERARCHIES |-> "contractionHierarchies_rt"]

\* Shapes whose rows own an array each, and their structs.
ListShapes  == {"TRANSITIVE_CLOSURE", "CONTRACTED", "CONTRACTION_HIERARCHIES"}
ListStructs == {StructOf[s] : s \in ListShapes}

Structs  == {StructOf[s] : s \in Shapes}
Messages == {"log", "notice", "err"}

ASSUME FamilyAssumption ==
  /\ Shapes \subseteq DOMAIN StructOf
  /\ MaxRows \in Nat
  /\ MaxCalls \in Nat

Block == [call : 1 .. MaxCalls, what : Structs \cup Messages, row : 0 .. MaxRows]

VARIABLES
  shape,       \* InfoOf(driver).shape
  unified,     \* whether the driver is SHORTEST_PATH, which is no family driver
  heap,        \* the blocks allocated and not freed
  calls,       \* how many times RunDriver was called
  fields,      \* DriverCall: the row pointers
  count,       \* DriverCall: the count
  messages,    \* DriverCall: the messages
  out,         \* DriverOutput: rows and count
  err,         \* DriverOutput.err, then err_text: what it says, "none" when it is empty
  result,      \* RunDriver's local DriverResult
  kept,        \* ExecState.result
  pc,
  misuse,      \* history: a block was read or freed that was not there, or as
               \* another struct than its own
  unwound,     \* history: an exception that is no std::string left RunFamilyDriver
  failed       \* history: the present call's driver went wrong

vars == <<shape, unified, heap, calls, fields, count, messages, out, err, result, kept,
          pc, misuse, unwound, failed>>

Own == StructOf[shape]

NoFields   == [s \in Structs |-> {}]
NoMessages == [m \in Messages |-> {}]
NoOutput   == [rows |-> {}, count |-> 0]

\* A DriverResult without rows.
EmptyResult(s) == [shape |-> s, rows |-> {}, count |-> 0]

BlockOf(call, what, row) == [call |-> call, what |-> what, row |-> row]

\* The arrays of the first k rows behind a pointer.
ArraysOf(rows, k) == {BlockOf(b.call, b.what, j) : b \in rows, j \in 1 .. k}

\* Mutant of Released: no shape's rows own anything.
ReleasedFlat(r) == r.rows

\* DriverResult::Release: the blocks freed.
Released(r) == r.rows \cup (IF r.shape \in ListShapes THEN ArraysOf(r.rows, r.count) ELSE {})

\* free() of all of these, each allocated and of the struct its owner takes it for.
Free(blocks, what) ==
  /\ heap' = heap \ blocks
  /\ misuse' = (misuse \/ ~(blocks \subseteq heap) \/ \E b \in blocks : b.what # what)

Init ==
  /\ shape \in Shapes
  /\ unified \in (IF shape = "PATH" THEN BOOLEAN ELSE {FALSE})
  /\ heap = {}
  /\ calls = 0
  /\ fields = NoFields
  /\ count = 0
  /\ messages = NoMessages
  /\ out = NoOutput
  /\ err = "none"
  /\ result = EmptyResult(shape)
  /\ kept = EmptyResult("PATH")
  /\ pc = "idle"
  /\ misuse = FALSE
  /\ unwound = FALSE
  /\ failed = FALSE

\* ExecFunction gives up the earlier result before RunOnce, which calls RunDriver
\* for the next input, answers it without rows (no_rows), or throws before the
\* driver, at an input slot.
RunOnce ==
  /\ pc = "idle"
  /\ calls < MaxCalls
  /\ calls' = calls + 1
  /\ fields' = NoFields
  /\ count' = 0
  /\ messages' = NoMessages
  /\ out' = NoOutput
  /\ err' = "none"
  /\ result' = EmptyResult(shape)
  /\ Free(Released(kept), StructOf[kept.shape])
  /\ kept' = EmptyResult("PATH")
  /\ failed' = FALSE
  /\ pc' \in {"driver", "rows", "thrown"}
  /\ UNCHANGED <<shape, unified, unwound>>

\* do_shortestPath returns; it may leave rows behind when it reports an error.  It
\* counts only rows it wrote, which is assumed of it: nothing here looks.
ShortestPathReturns ==
  /\ pc = "driver"
  /\ unified
  /\ \E written, error \in BOOLEAN, k \in 0 .. MaxRows :
       LET rows == IF written THEN {BlockOf(calls, Own, 0)} ELSE {} IN
       /\ k > 0 => written
       /\ result' = [shape |-> shape, rows |-> rows, count |-> k]
       /\ heap' = heap \cup rows
       /\ err' = IF error THEN "driver" ELSE "none"
       /\ failed' = error
  /\ pc' = "check"
  /\ UNCHANGED <<shape, unified, calls, fields, count, messages, out, kept, misuse, unwound>>

MessageBlocks(some) ==
  [m \in Messages |-> IF m \in some THEN {BlockOf(calls, m, 0)} ELSE {}]

\* What a driver allocated: rows of struct s or none, the arrays of k rows, and
\* some messages.
Allocates(s, written, k, some) ==
  LET rows == IF written THEN {BlockOf(calls, s, 0)} ELSE {} IN
  rows \cup (IF s \in ListStructs THEN ArraysOf(rows, k) ELSE {})
       \cup {BlockOf(calls, m, 0) : m \in some}

\* The group's adapter passed the driver the row pointer of struct s; rows were
\* written there or not, and k to the count, whatever the rows, and some messages.
DriverWrites(s, written, k, some) ==
  LET rows == IF written THEN {BlockOf(calls, s, 0)} ELSE {} IN
  /\ fields' = [t \in Structs |-> IF t = s THEN rows ELSE {}]
  /\ count' = k
  /\ messages' = MessageBlocks(some)
  /\ heap' = heap \cup Allocates(s, written, k, some)

FamilyDriverReturns ==
  /\ pc = "driver"
  /\ ~unified
  /\ \E s \in Structs, written \in BOOLEAN, k \in 0 .. MaxRows, some \in SUBSET Messages :
       /\ DriverWrites(s, written, k, some)
       /\ failed' = \/ "err" \in some
                    \/ written /\ s # Own
                    \/ k > 0 /\ ~(written /\ s = Own)
  /\ pc' = "select"
  /\ UNCHANGED <<shape, unified, calls, out, err, result, kept, misuse, unwound>>

\* A std::string leaves the adapter, before the driver (an input refused, a lookup
\* that failed) or after it (no memory for a message, in the driver's catch block
\* or where CallUnifiedDriver copies its streams).  The error that no group knows
\* the driver is set in the same place.
AdapterThrows ==
  /\ pc = "driver"
  /\ ~unified
  /\ \E s \in Structs, written \in BOOLEAN, k \in 0 .. MaxRows, some \in SUBSET Messages :
       DriverWrites(s, written, k, some)
  /\ err' = "thrown"
  /\ failed' = TRUE
  /\ pc' = "select"
  /\ UNCHANGED <<shape, unified, calls, out, result, kept, misuse, unwound>>

\* Any other exception (std::bad_alloc in an adapter or in a driver's catch block)
\* passes RunFamilyDriver: the DriverCall is gone, and what a driver wrote through
\* it has no owner any more.
AdapterUnwinds ==
  /\ pc = "driver"
  /\ ~unified
  /\ \E s \in Structs, written \in BOOLEAN, k \in 0 .. MaxRows, some \in SUBSET Messages :
       heap' = heap \cup Allocates(s, written, k, some)
  /\ unwound' = TRUE
  /\ failed' = TRUE
  /\ pc' = "thrown"
  /\ UNCHANGED <<shape, unified, calls, fields, count, messages, out, err, result, kept, misuse>>

\* Mutant of RowsOf: whichever pointer the driver wrote.
RowsOfAny(f) == UNION {f[s] : s \in Structs}

RowsOf(f) == f[Own]

\* Mutant of DropWrongShapeRows: the last shape's pointer is not looked at.
DropAllButHierarchies(f) ==
  UNION {f[s] : s \in Structs \ {Own, "contractionHierarchies_rt"}}

\* The rows of every other struct.
DropWrongShapeRows(f) == UNION {f[s] : s \in Structs \ {Own}}

\* Mutant of WrongShape: a count without rows is not looked for.
StrayRows(strays, rows) == strays # {}

WrongShape(strays, rows) == strays # {} \/ (count > 0 /\ rows = {})

SelectRows ==
  /\ pc = "select"
  /\ LET rows   == RowsOf(fields)
         strays == DropWrongShapeRows(fields)
     IN
     /\ out' = [rows |-> rows, count |-> count]
     /\ heap' = heap \ strays
     /\ misuse' = (misuse \/ ~(strays \subseteq heap))
     /\ err' = IF err = "none" /\ WrongShape(strays, rows) THEN "wrong_shape" ELSE err
  /\ fields' = NoFields
  /\ pc' = "log"
  /\ UNCHANGED <<shape, unified, calls, count, messages, result, kept, unwound, failed>>

\* TakeMessage: the message freed after it is copied.
Taken(m) == messages[m]

\* The messages are taken in this order.
NextTake == [log |-> "notice", notice |-> "err", err |-> "return"]

TakeMessage ==
  /\ pc \in Messages
  /\ Free(Taken(pc), pc)
  /\ messages' = [m \in Messages |-> IF m = pc THEN {} ELSE messages[m]]
  /\ err' = IF pc = "err" /\ err = "none" /\ messages[pc] # {} THEN "driver" ELSE err
  /\ pc' = NextTake[pc]
  /\ UNCHANGED <<shape, unified, calls, fields, count, out, result, kept, unwound, failed>>

\* The copy throws std::bad_alloc, which nothing catches here: the rows and the
\* messages not taken yet have no owner any more.
CopyFails ==
  /\ pc \in Messages
  /\ messages[pc] # {}
  /\ unwound' = TRUE
  /\ pc' = "thrown"
  /\ UNCHANGED <<shape, unified, heap, calls, fields, count, messages, out, err, result, kept,
                 misuse, failed>>

\* RunDriver takes the rows RunFamilyDriver returned.
TakeOutput ==
  /\ pc = "return"
  /\ result' = [shape |-> shape, rows |-> out.rows, count |-> out.count]
  /\ out' = NoOutput
  /\ pc' = "check"
  /\ UNCHANGED <<shape, unified, heap, calls, fields, count, messages, err, kept, misuse,
                 unwound, failed>>

\* WasInterrupted, or the driver reported an error: RunDriver throws, and its
\* result is freed on the way out.
DropResult ==
  /\ pc = "check"
  /\ Free(Released(result), StructOf[result.shape])
  /\ result' = EmptyResult("PATH")
  /\ pc' = "thrown"
  /\ UNCHANGED <<shape, unified, calls, fields, count, messages, out, err, kept, unwound,
                 failed>>

\* Mutant of MovedFrom: the source still points to the rows.
MovedCopy(r) == r

\* DriverResult's moves leave their source empty.
MovedFrom(r) == EmptyResult(r.shape)

\* No error: RunDriver's result is moved to the ExecState, which releases the one
\* it had; RunDriver's own is destroyed.
KeepResult ==
  /\ pc = "check"
  /\ err = "none"
  /\ Free(Released(kept), StructOf[kept.shape])
  /\ kept' = result
  /\ result' = MovedFrom(result)
  /\ pc' = "rows"
  /\ UNCHANGED <<shape, unified, calls, fields, count, messages, out, err, unwound, failed>>

\* RunDriver's DriverResult goes out of scope, and the rows are written to output
\* chunks, as the structs of the shape; a NumericCast may throw (Emit.tla).
EmitRows ==
  /\ pc = "rows"
  /\ heap' = heap \ Released(result)
  /\ misuse' = \/ misuse
               \/ ~(Released(result) \subseteq heap)
               \/ kept.count > 0 /\ kept.rows = {}
               \/ \E b \in Released(kept) : b \notin heap' \/ b.what # Own
  /\ result' = EmptyResult("PATH")
  /\ pc' \in {"idle", "thrown"}
  /\ UNCHANGED <<shape, unified, calls, fields, count, messages, out, err, kept, unwound,
                 failed>>

\* ~ExecState: after the last input, after an exception, or when the query is
\* given up between two calls.
Destroy ==
  /\ pc \in {"idle", "thrown"}
  /\ Free(Released(kept), StructOf[kept.shape])
  /\ kept' = EmptyResult(kept.shape)
  /\ pc' = "destroyed"
  /\ UNCHANGED <<shape, unified, calls, fields, count, messages, out, err, result, unwound,
                 failed>>

Next ==
  \/ RunOnce
  \/ ShortestPathReturns
  \/ FamilyDriverReturns
  \/ AdapterThrows
  \/ AdapterUnwinds
  \/ SelectRows
  \/ TakeMessage
  \/ CopyFails
  \/ TakeOutput
  \/ DropResult
  \/ KeepResult
  \/ EmitRows
  \/ Destroy

Spec == Init /\ [][Next]_vars

-----------------------------------------------------------------------------
(* Properties. *)

Pointer(what) == {{}} \cup {{BlockOf(c, what, 0)} : c \in 1 .. MaxCalls}

IsResult(r) ==
  /\ r.shape \in Shapes \cup {"PATH"}
  /\ r.rows \in Pointer(StructOf[r.shape])
  /\ r.count \in 0 .. MaxRows

\* Every pointer points to what it is declared to point to: a DriverCall field to
\* its own struct, and rows, which is void *, to the struct the shape names
\* (exec_common.hpp, DriverResult; family_drivers.hpp, DriverOutput).
TypeOK ==
  /\ shape \in Shapes
  /\ unified \in BOOLEAN
  /\ heap \subseteq Block
  /\ calls \in 0 .. MaxCalls
  /\ DOMAIN fields = Structs /\ \A s \in Structs : fields[s] \in Pointer(s)
  /\ count \in 0 .. MaxRows
  /\ DOMAIN messages = Messages /\ \A m \in Messages : messages[m] \in Pointer(m)
  /\ DOMAIN out = {"rows", "count"} /\ out.rows \in Pointer(Own) /\ out.count \in 0 .. MaxRows
  /\ err \in {"none", "thrown", "wrong_shape", "driver"}
  /\ IsResult(result)
  /\ IsResult(kept)
  /\ pc \in {"idle", "driver", "select", "return", "check", "rows", "thrown", "destroyed"}
            \cup Messages
  /\ misuse \in BOOLEAN
  /\ unwound \in BOOLEAN
  /\ failed \in BOOLEAN

\* Nothing is freed twice, or read or freed after it was freed, or as another
\* struct than it is, whatever the driver wrote and however the call ends.
NoMisuse == ~misuse

\* The arrays of rows of another struct, which DropWrongShapeRows leaves.
StrayArrays == {b \in Block : b.row > 0 /\ b.what # Own}

\* When the ExecState is gone so is everything its drivers allocated, but for the
\* arrays of stray rows and what an exception that passed RunFamilyDriver left
\* without owner.
NothingLeaks == pc = "destroyed" /\ ~unwound => heap \subseteq StrayArrays

\* While rows are streamed only those rows are allocated: neither the result of
\* an earlier input nor a message outlives the call that made it.
OnlyKeptRows ==
  pc = "idle" => heap \subseteq Released(kept) \cup StrayArrays

\* A driver that reported an error, threw, or wrote rows of another shape than
\* its DriverKind declares never answers with rows.
FailedNeverAnswers == pc = "rows" => ~failed

\* What a call answers with, and keeps while it does, are the rows of its last
\* driver, which did not fail (RunDriver, RunOnce).
AnswersOwnRows == OnlyKeptRows /\ FailedNeverAnswers

=============================================================================
