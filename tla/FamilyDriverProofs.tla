-------------------------- MODULE FamilyDriverProofs --------------------------
(***************************************************************************)
(* Proofs about FamilyDriver, for every set of shapes, every number of     *)
(* rows and every number of inputs.                                        *)
(*                                                                         *)
(* That nothing is freed twice needs to be known of every pointer at every *)
(* step: that what it owns is on the heap (Allocated), that no other       *)
(* pointer owns it, because the pointers that do are never set together    *)
(* (OneHolder) or were set by different calls (OwnCall), and that a count  *)
(* has its rows (Counted).  That nothing leaks needs the converse, that    *)
(* what is on the heap is owned (AllHeld).                                 *)
(***************************************************************************)
EXTENDS FamilyDriver, TLAPS

\* What a row pointer of the DriverCall owns.
FieldHolds(s) ==
  fields[s] \cup (IF s \in ListStructs THEN ArraysOf(fields[s], count) ELSE {})

\* The DriverOutput, as the DriverResult it becomes.
OutResult == [shape |-> shape, rows |-> out.rows, count |-> out.count]

\* Where the messages not yet taken are.
Before == [log |-> {"select", "log"},
           notice |-> {"select", "log", "notice"},
           err |-> {"select", "log", "notice", "err"}]

\* RunFamilyDriver between its choice of rows and its return.
Returning == Messages \cup {"return"}

\* A pointer is null but for the steps between its two owners.
OneHolder ==
  /\ pc # "select" => \A s \in Structs : fields[s] = {}
  /\ \A m \in Messages : messages[m] # {} => pc \in Before[m] \/ unwound
  /\ out.rows # {} => pc \in Returning \/ unwound
  /\ result.rows # {} => pc = "check" /\ result.shape = shape
  /\ kept.rows # {} => pc # "destroyed" /\ kept.shape = shape
  /\ unwound => pc \in {"thrown", "destroyed"}
  /\ calls = 0 => pc \in {"idle", "destroyed"}
  /\ unified => shape = "PATH"

\* What a pointer owns is there.
Allocated ==
  /\ \A s \in Structs : FieldHolds(s) \subseteq heap
  /\ \A m \in Messages : messages[m] \subseteq heap
  /\ pc \in Returning => Released(OutResult) \subseteq heap
  /\ Released(result) \subseteq heap
  /\ Released(kept) \subseteq heap

\* The ExecState's rows are of an earlier call than those on their way to it.
OwnCall ==
  /\ \A s \in Structs : \A b \in fields[s] : b.call = calls
  /\ \A b \in out.rows \cup result.rows : b.call = calls
  /\ \A b \in kept.rows : /\ b.call <= calls
                          /\ pc \in Returning \cup {"driver", "select", "check"} => b.call < calls

\* A count without rows is an error by now.
Counted ==
  /\ pc \in Returning /\ out.count > 0 /\ out.rows = {} => err # "none"
  /\ pc = "check" /\ result.count > 0 /\ result.rows = {} => err # "none"
  /\ pc = "rows" /\ kept.count > 0 => kept.rows # {}

\* A failure is an error by now, or will be found.
FailureKnown ==
  /\ pc = "select" /\ failed => \/ err # "none"
                                \/ messages["err"] # {}
                                \/ WrongShape(DropWrongShapeRows(fields), RowsOf(fields))
  /\ pc \in Messages /\ failed => err # "none" \/ messages["err"] # {}
  /\ pc \in {"return", "check"} /\ failed => err # "none"
  /\ pc = "rows" => ~failed

\* What is there is owned, but for the arrays of stray rows.
AllHeld ==
  ~unwound =>
    \A b \in heap \ StrayArrays :
      \/ \E s \in Structs : b \in FieldHolds(s)
      \/ \E m \in Messages : b \in messages[m]
      \/ b \in Released(OutResult)
      \/ b \in Released(result)
      \/ b \in Released(kept)

DInv ==
  /\ TypeOK
  /\ OneHolder
  /\ Allocated
  /\ OwnCall
  /\ Counted
  /\ FailureKnown
  /\ AllHeld
  /\ NoMisuse

-----------------------------------------------------------------------------
(* Lemmas about the blocks. *)

\* A message is no row struct.
LEMMA StructsApart ==
  ASSUME NEW s \in Shapes \cup {"PATH"}
  PROVE  StructOf[s] \notin Messages
<1>1. s \in DOMAIN StructOf
  BY FamilyAssumption DEF StructOf
<1> QED BY <1>1 DEF StructOf, Messages

\* Whether rows own arrays is known from their struct as from their shape.
LEMMA ListsAgree ==
  ASSUME NEW s \in Shapes \cup {"PATH"}
  PROVE  StructOf[s] \in ListStructs <=> s \in ListShapes
<1>1. s \in DOMAIN StructOf
  BY FamilyAssumption DEF StructOf
<1>2. ListStructs = {"TransitiveClosure_rt", "contracted_rt", "contractionHierarchies_rt"}
  BY DEF ListStructs, ListShapes, StructOf
<1> QED BY <1>1, <1>2 DEF StructOf, ListShapes

\* What a DriverResult frees is of its own struct and of the call that wrote its rows.
LEMMA ReleasedBlocks ==
  ASSUME NEW r, IsResult(r), NEW b \in Released(r)
  PROVE  /\ b.what = StructOf[r.shape]
         /\ r.rows # {}
         /\ \E a \in r.rows : b.call = a.call
BY DEF IsResult, Pointer, Released, ArraysOf, BlockOf

\* A DriverResult without rows frees nothing.
LEMMA NothingReleased ==
  ASSUME NEW r, r.rows = {}
  PROVE  Released(r) = {}
BY DEF Released, ArraysOf

\* The rows chosen own what the shape's pointer owned.
LEMMA OwnField ==
  ASSUME TypeOK, NEW r, r.shape = shape, r.rows = fields[Own], r.count = count
  PROVE  Released(r) = FieldHolds(Own)
<1>1. Own \in ListStructs <=> shape \in ListShapes
  BY ListsAgree DEF TypeOK, Own
<1> QED BY <1>1 DEF FieldHolds, Released

\* Rows are the blocks of their struct.
LEMMA RowBlocks ==
  ASSUME NEW r, IsResult(r), NEW b \in r.rows
  PROVE  /\ b.call \in Nat
         /\ b.what = StructOf[r.shape]
BY DEF IsResult, Pointer, BlockOf

\* The DriverOutput is one of the shape's results.
LEMMA OutTyped ==
  ASSUME TypeOK
  PROVE  IsResult(OutResult)
BY DEF TypeOK, OutResult, IsResult, Own

\* The shape's struct is one the DriverCall has a pointer for.
LEMMA OwnStruct ==
  ASSUME TypeOK
  PROVE  Own \in Structs
BY DEF TypeOK, Own, Structs

\* What a row pointer owns is of its struct: the rows themselves or their arrays.
LEMMA FieldBlocks ==
  ASSUME TypeOK, NEW s \in Structs, NEW b \in FieldHolds(s)
  PROVE  b.what = s /\ (b \in fields[s] \/ b.row > 0)
<1>1. fields[s] \in Pointer(s)
  BY DEF TypeOK
<1> QED BY <1>1 DEF Pointer, FieldHolds, ArraysOf, BlockOf

\* What a message pointer owns is that message, never rows.
LEMMA MessageOfItsOwn ==
  ASSUME TypeOK, NEW m \in Messages, NEW b \in messages[m]
  PROVE  b.what = m /\ b.what \notin Structs
<1>1. messages[m] \in Pointer(m)
  BY DEF TypeOK
<1>2. b.what = m
  BY <1>1 DEF Pointer, BlockOf
<1> QED BY <1>2, StructsApart DEF Structs

\* What the ExecState owns is of this call's struct.
LEMMA KeptBlocks ==
  ASSUME TypeOK, OneHolder, NEW b \in Released(kept)
  PROVE  /\ b.what = Own
         /\ \E a \in kept.rows : b.call = a.call /\ a.call \in Nat
<1>1. IsResult(kept)
  BY DEF TypeOK
<1>2. b.what = StructOf[kept.shape] /\ kept.rows # {} /\ \E a \in kept.rows : b.call = a.call
  BY <1>1, ReleasedBlocks
<1> QED BY <1>1, <1>2, RowBlocks DEF OneHolder, Own

\* A null row pointer owns nothing.
LEMMA NullHoldsNothing ==
  ASSUME NEW s \in Structs, fields[s] = {}
  PROVE  FieldHolds(s) = {}
BY DEF FieldHolds, ArraysOf

\* Outside the choice of rows, the DriverCall's row pointers are null.
LEMMA NoFieldHolds ==
  ASSUME OneHolder, pc # "select", NEW s \in Structs
  PROVE  fields[s] = {} /\ FieldHolds(s) = {}
BY NullHoldsNothing DEF OneHolder

\* Once the messages are taken, their pointers are null.
LEMMA NoMessageHolds ==
  ASSUME OneHolder, pc \notin Messages \cup {"select"}, ~unwound, NEW m \in Messages
  PROVE  messages[m] = {}
BY DEF OneHolder, Before, Messages

\* Outside RunFamilyDriver the DriverOutput owns nothing.
LEMMA NoOutHolds ==
  ASSUME OneHolder, pc \notin Returning, ~unwound
  PROVE  out.rows = {} /\ Released(OutResult) = {}
BY NothingReleased DEF OneHolder, OutResult

\* RunDriver's result owns rows only until they are dropped or kept.
LEMMA NoResultHolds ==
  ASSUME OneHolder, pc # "check"
  PROVE  result.rows = {} /\ Released(result) = {}
BY NothingReleased DEF OneHolder

\* Between two calls, and when the driver is about to run, only the ExecState owns anything.
LEMMA OnlyKept ==
  ASSUME DInv, pc \notin Returning \cup {"select", "check"}, ~unwound
  PROVE  \A b \in heap \ StrayArrays : b \in Released(kept)
<1>1. OneHolder /\ pc \notin Messages /\ pc # "select" /\ pc # "check" /\ pc \notin Returning
  BY DEF DInv, Returning
<1> QED BY <1>1, NoFieldHolds, NoMessageHolds, NoOutHolds, NoResultHolds DEF DInv, AllHeld

-----------------------------------------------------------------------------
(* The invariant. *)

\* The constants as numbers.
LEMMA Bounds ==
  /\ MaxCalls \in Nat
  /\ 0 \in 0 .. MaxRows
  /\ 0 \in 0 .. MaxCalls
<1>1. MaxRows \in Nat /\ MaxCalls \in Nat
  BY FamilyAssumption
<1> QED BY <1>1

\* Calls are counted within the bound, and none is under way before the first.
LEMMA CallCount ==
  ASSUME TypeOK, OneHolder
  PROVE  /\ calls \in Nat
         /\ pc \notin {"idle", "destroyed"} => calls \in 1 .. MaxCalls
<1>1. calls \in 0 .. MaxCalls
  BY DEF TypeOK
<1>2. pc \notin {"idle", "destroyed"} => calls # 0
  BY DEF OneHolder
<1> QED BY <1>1, <1>2, Bounds

\* Before the first call nothing is allocated.
LEMMA InitDriver == Init => DInv
<1> SUFFICES ASSUME Init PROVE DInv
  OBVIOUS
<1>1. Released(result) = {} /\ Released(kept) = {} /\ Released(OutResult) = {}
  BY NothingReleased DEF Init, EmptyResult, NoOutput, OutResult
<1>2. TypeOK
  <2>1. DOMAIN fields = Structs /\ \A s \in Structs : fields[s] \in Pointer(s)
    BY DEF Init, NoFields, Pointer
  <2>2. DOMAIN messages = Messages /\ \A m \in Messages : messages[m] \in Pointer(m)
    BY DEF Init, NoMessages, Pointer
  <2>3. DOMAIN out = {"rows", "count"} /\ out.rows \in Pointer(Own) /\ out.count \in 0 .. MaxRows
    BY Bounds DEF Init, NoOutput, Pointer
  <2>4. IsResult(result) /\ IsResult(kept)
    BY Bounds DEF Init, EmptyResult, IsResult, Pointer
  <2>5. shape \in Shapes /\ unified \in BOOLEAN /\ heap \subseteq Block /\ calls \in 0 .. MaxCalls
        /\ count \in 0 .. MaxRows
    BY Bounds, Zenon DEF Init
  <2> QED BY <2>1, <2>2, <2>3, <2>4, <2>5 DEF Init, TypeOK
<1>3. \A s \in Structs : FieldHolds(s) = {}
  BY NullHoldsNothing DEF Init, NoFields
<1>4. OneHolder
  <2>1. unified => shape = "PATH"
    BY DEF Init
  <2> QED BY <2>1 DEF Init, OneHolder, NoFields, NoMessages, NoOutput, EmptyResult
<1>5. Allocated
  BY <1>1, <1>3 DEF Init, Allocated, NoMessages
<1>6. OwnCall
  BY DEF Init, OwnCall, NoFields, NoOutput, EmptyResult
<1>7. Counted /\ FailureKnown
  BY DEF Init, Counted, FailureKnown, Returning, Messages
<1>8. AllHeld /\ NoMisuse
  BY DEF Init, AllHeld, NoMisuse
<1> QED BY <1>2, <1>4, <1>5, <1>6, <1>7, <1>8 DEF DInv

\* A new DriverCall owns nothing, and the ExecState's rows are freed before it.
LEMMA RunOnceStep ==
  ASSUME DInv, RunOnce
  PROVE  DInv'
<1>1. TypeOK /\ OneHolder /\ Allocated /\ OwnCall /\ AllHeld /\ NoMisuse /\ pc = "idle" /\ ~unwound
  BY DEF DInv, RunOnce, OneHolder
<1>2. /\ calls \in Nat /\ calls < MaxCalls /\ calls' = calls + 1
      /\ pc' \in {"driver", "rows", "thrown"} /\ unwound' = unwound /\ shape' = shape
      /\ failed' = FALSE
      /\ kept' = EmptyResult("PATH") /\ result' = EmptyResult(shape)
      /\ out' = NoOutput /\ count' = 0 /\ err' = "none" /\ unified' = unified
      /\ heap' = heap \ Released(kept)
      /\ misuse' = \/ misuse
                   \/ ~(Released(kept) \subseteq heap)
                   \/ \E b \in Released(kept) : b.what # StructOf[kept.shape]
  BY <1>1, CallCount DEF RunOnce, Free
<1>3. /\ kept'.rows = {} /\ result'.rows = {} /\ out'.rows = {}
      /\ Released(result') = {} /\ Released(OutResult') = {} /\ Released(kept') = {}
  BY <1>2, NothingReleased DEF EmptyResult, NoOutput, OutResult
<1>4. /\ \A s \in Structs : fields'[s] = {} /\ FieldHolds(s)' = {}
      /\ \A m \in Messages : messages'[m] = {}
  BY DEF RunOnce, NoFields, NoMessages, FieldHolds, ArraysOf
<1>5. TypeOK'
  <2>1. DOMAIN fields' = Structs /\ \A s \in Structs : fields'[s] \in Pointer(s)
    BY DEF RunOnce, NoFields, Pointer
  <2>2. DOMAIN messages' = Messages /\ \A m \in Messages : messages'[m] \in Pointer(m)
    BY DEF RunOnce, NoMessages, Pointer
  <2>3. DOMAIN out' = {"rows", "count"} /\ out'.rows \in Pointer(Own) /\ out'.count \in 0 .. MaxRows
    BY <1>2, Bounds DEF NoOutput, Pointer
  <2>4. IsResult(result') /\ IsResult(kept') /\ count' \in 0 .. MaxRows
    <3>1. shape \in Shapes
      BY <1>1 DEF TypeOK
    <3> QED BY <1>2, <3>1, Bounds DEF EmptyResult, IsResult, Pointer
  <2>5. calls' \in 0 .. MaxCalls
    BY <1>2, Bounds
  <2>6. heap' \subseteq Block /\ misuse' \in BOOLEAN /\ shape' \in Shapes /\ unified' \in BOOLEAN
    BY <1>1, <1>2 DEF TypeOK
  <2>7. pc' \in {"idle", "driver", "select", "return", "check", "rows", "thrown", "destroyed"}
                \cup Messages
    BY <1>2
  <2>8. Own' = Own
    BY <1>2 DEF Own
  <2>9. failed' \in BOOLEAN /\ unwound' \in BOOLEAN
        /\ err' \in {"none", "thrown", "wrong_shape", "driver"}
    BY <1>1, <1>2 DEF TypeOK
  <2> QED BY <2>1, <2>2, <2>3, <2>4, <2>5, <2>6, <2>7, <2>8, <2>9 DEF TypeOK
<1>6. OneHolder'
  <2>1. calls' # 0
    BY <1>2
  <2> QED BY <1>1, <1>2, <1>3, <1>4, <2>1 DEF OneHolder
<1>7. Allocated'
  <2>1. pc' \notin Returning
    BY <1>2 DEF Returning, Messages
  <2> QED BY <1>3, <1>4, <2>1 DEF Allocated
<1>8. OwnCall'
  BY <1>3, <1>4 DEF OwnCall
<1>9. Counted' /\ FailureKnown'
  <2>1. kept'.count = 0
    BY <1>2 DEF EmptyResult
  <2> QED BY <1>2, <2>1 DEF Counted, FailureKnown, Returning, Messages
<1>10. AllHeld'
  <2>1. \A b \in heap \ StrayArrays : b \in Released(kept)
    BY <1>1, OnlyKept DEF Returning, Messages
  <2>2. StrayArrays' = StrayArrays
    BY <1>2 DEF StrayArrays, Own
  <2>3. heap' \ StrayArrays' = {}
    BY <1>2, <2>1, <2>2
  <2> QED BY <2>3 DEF AllHeld
<1>11. NoMisuse'
  <2>1. \A b \in Released(kept) : b \in heap /\ b.what = StructOf[kept.shape]
    BY <1>1, ReleasedBlocks DEF Allocated, TypeOK
  <2> QED BY <1>1, <1>2, <2>1 DEF NoMisuse
<1> QED BY <1>5, <1>6, <1>7, <1>8, <1>9, <1>10, <1>11 DEF DInv

\* The rows do_shortestPath allocates are new, and RunDriver's result owns them.
LEMMA ShortestPathStep ==
  ASSUME DInv, ShortestPathReturns
  PROVE  DInv'
<1>1. TypeOK /\ OneHolder /\ Allocated /\ OwnCall /\ AllHeld /\ NoMisuse /\ pc = "driver" /\ ~unwound
  BY DEF DInv, ShortestPathReturns, OneHolder
<1>2. PICK written, error \in BOOLEAN, k \in 0 .. MaxRows :
        LET rows == IF written THEN {BlockOf(calls, Own, 0)} ELSE {} IN
        /\ k > 0 => written
        /\ result' = [shape |-> shape, rows |-> rows, count |-> k]
        /\ heap' = heap \cup rows
        /\ err' = IF error THEN "driver" ELSE "none"
        /\ failed' = error
  BY Zenon DEF ShortestPathReturns
<1> DEFINE rows == IF written THEN {BlockOf(calls, Own, 0)} ELSE {}
<1>3. /\ result'.shape = shape /\ result'.rows = rows /\ result'.count = k
      /\ heap' = heap \cup rows
  BY <1>2
<1>4. pc' = "check" /\ UNCHANGED <<shape, unified, calls, fields, count, messages, out, kept, misuse,
                                   unwound>>
  BY DEF ShortestPathReturns
<1>5. unified /\ shape = "PATH" /\ Own \in Structs /\ calls \in 1 .. MaxCalls
  <2>1. calls \in 1 .. MaxCalls /\ Own \in Structs
    BY <1>1, CallCount, OwnStruct
  <2> QED BY <1>1, <2>1 DEF ShortestPathReturns, OneHolder
<1>6. Released(result') = rows
  BY <1>3, <1>5 DEF Released, ListShapes
<1>7. TypeOK'
  <2>1. rows \subseteq Block
    BY <1>5, FamilyAssumption DEF Block, BlockOf
  <2>2. rows \in Pointer(Own)
    BY <1>5 DEF Pointer
  <2>3. heap' \subseteq Block
    BY <1>1, <1>3, <2>1 DEF TypeOK
  <2>4. IsResult(result')
    BY <1>1, <1>3, <2>2 DEF IsResult, TypeOK, Own
  <2>5. err' \in {"none", "thrown", "wrong_shape", "driver"} /\ failed' \in BOOLEAN
    BY <1>2
  <2> QED BY <1>1, <1>4, <2>3, <2>4, <2>5 DEF TypeOK, Own
<1>8. OneHolder'
  BY <1>1, <1>3, <1>4, <1>5 DEF OneHolder, Before, Messages, Returning
<1>9. \A s \in Structs : FieldHolds(s)' = {}
  BY <1>1, <1>4 DEF FieldHolds, OneHolder, ArraysOf
<1>10. Released(kept') = Released(kept)
  BY <1>4
<1>11. Allocated'
  <2>1. pc' \notin Returning
    BY <1>4 DEF Returning, Messages
  <2> QED BY <1>1, <1>3, <1>4, <1>6, <1>9, <1>10, <2>1 DEF Allocated
<1>12. OwnCall'
  <2>1. \A b \in result'.rows : b.call = calls'
    BY <1>3, <1>4 DEF BlockOf
  <2> QED BY <1>1, <1>4, <2>1 DEF OwnCall
<1>13. Counted' /\ FailureKnown'
  <2>1. rows = {} => ~written
    OBVIOUS
  <2>2. k > 0 => written
    BY <1>2
  <2>3. failed' = error /\ err' = IF error THEN "driver" ELSE "none"
    BY <1>2
  <2> QED BY <1>3, <1>4, <2>1, <2>2, <2>3 DEF Counted, FailureKnown, Returning, Messages
<1>14. AllHeld'
  <2>1. \A b \in heap \ StrayArrays : b \in Released(kept)
    BY <1>1, OnlyKept DEF Returning, Messages
  <2>2. StrayArrays' = StrayArrays
    BY <1>4 DEF StrayArrays, Own
  <2> QED BY <1>3, <1>6, <1>10, <2>1, <2>2 DEF AllHeld
<1>15. NoMisuse'
  BY <1>1, <1>4 DEF NoMisuse
<1> QED BY <1>7, <1>8, <1>11, <1>12, <1>13, <1>14, <1>15 DEF DInv

\* Whatever the adapter's driver wrote is what its pointers own now.
LEMMA DriverWrote ==
  ASSUME DInv, pc = "driver", pc' = "select",
         NEW s \in Structs, NEW rows, rows = {} \/ rows = {BlockOf(calls, s, 0)},
         NEW k \in 0 .. MaxRows, NEW some \in SUBSET Messages,
         fields' = [t \in Structs |-> IF t = s THEN rows ELSE {}],
         count' = k,
         messages' = MessageBlocks(some),
         heap' = heap \cup rows \cup (IF s \in ListStructs THEN ArraysOf(rows, k) ELSE {})
                      \cup {BlockOf(calls, m, 0) : m \in some},
         UNCHANGED <<shape, unified, calls, out, result, kept, misuse, unwound>>,
         err' \in {"none", "thrown", "wrong_shape", "driver"},
         failed' \in BOOLEAN
  PROVE  TypeOK' /\ OneHolder' /\ Allocated' /\ OwnCall' /\ Counted' /\ AllHeld' /\ NoMisuse'
<1> DEFINE own  == IF s \in ListStructs THEN ArraysOf(rows, k) ELSE {}
           said == {BlockOf(calls, m, 0) : m \in some}
<1>1. TypeOK /\ OneHolder /\ Allocated /\ OwnCall /\ AllHeld /\ NoMisuse /\ ~unwound
  BY DEF DInv, OneHolder
<1>2. calls \in 1 .. MaxCalls
  BY <1>1, CallCount
<1>3. /\ fields' = [t \in Structs |-> IF t = s THEN rows ELSE {}]
      /\ count' = k
      /\ heap' = heap \cup rows \cup own \cup said
      /\ messages' = [m \in Messages |-> IF m \in some THEN {BlockOf(calls, m, 0)} ELSE {}]
  BY DEF MessageBlocks
<1>4. /\ fields'[s] = rows
      /\ \A t \in Structs : t # s => fields'[t] = {}
      /\ \A m \in Messages : messages'[m] = IF m \in some THEN {BlockOf(calls, m, 0)} ELSE {}
  BY <1>3
<1>5. \A b \in rows : b = BlockOf(calls, s, 0)
  OBVIOUS
<1>6. rows \in Pointer(s)
  BY <1>2 DEF Pointer
<1>7. FieldHolds(s)' = rows \cup own /\ \A t \in Structs : t # s => FieldHolds(t)' = {}
  BY <1>3, <1>4 DEF FieldHolds, ArraysOf
<1>8. Released(OutResult') = {} /\ Released(result') = {} /\ Released(kept') = Released(kept)
      /\ result'.rows = {} /\ out'.rows = {} /\ kept' = kept
  <2>1. pc \notin Returning
    BY DEF Returning, Messages
  <2>2. Released(OutResult) = {} /\ Released(result) = {} /\ result.rows = {} /\ out.rows = {}
    BY <1>1, <2>1, NoOutHolds, NoResultHolds
  <2> QED BY <2>2 DEF OutResult
<1>9. TypeOK'
  <2>1. DOMAIN fields' = Structs /\ \A t \in Structs : fields'[t] \in Pointer(t)
    BY <1>3, <1>4, <1>6 DEF Pointer
  <2>2. DOMAIN messages' = Messages /\ \A m \in Messages : messages'[m] \in Pointer(m)
    BY <1>2, <1>3 DEF Pointer
  <2>3. rows \subseteq Block
    BY <1>2, <1>5, FamilyAssumption DEF Block, BlockOf
  <2>4. own \subseteq Block
    <3>1. \A j \in 1 .. k : j \in 0 .. MaxRows
      BY FamilyAssumption
    <3> QED BY <1>2, <1>5, <3>1 DEF Block, BlockOf, ArraysOf
  <2>5. said \subseteq Block
    BY <1>2, FamilyAssumption DEF Block, BlockOf
  <2>6. heap' \subseteq Block
    BY <1>1, <1>3, <2>3, <2>4, <2>5 DEF TypeOK
  <2> HIDE DEF own, said
  <2> QED BY <1>1, <1>3, <2>1, <2>2, <2>6 DEF TypeOK, Own
<1>10. OneHolder'
  <2>1. \A m \in Messages : pc' \in Before[m]
    BY DEF Before, Messages
  <2> QED BY <1>1, <1>8, <2>1 DEF OneHolder
<1>11. Allocated'
  <2>1. \A m \in Messages : messages'[m] \subseteq said
    BY <1>4
  <2>2. pc' \notin Returning
    BY DEF Returning, Messages
  <2> HIDE DEF own, said
  <2>3. rows \subseteq heap' /\ own \subseteq heap' /\ said \subseteq heap' /\ heap \subseteq heap'
    BY <1>3
  <2> QED BY <1>1, <1>7, <1>8, <2>1, <2>2, <2>3 DEF Allocated
<1>12. OwnCall'
  <2>1. \A b \in rows : b.call = calls
    BY <1>5 DEF BlockOf
  <2>2. \A t \in Structs : \A b \in fields'[t] : b.call = calls
    BY <1>4, <2>1
  <2>3. \A b \in kept'.rows : b.call <= calls /\ b.call < calls
    BY <1>1, <1>8 DEF OwnCall
  <2> QED BY <1>8, <2>2, <2>3 DEF OwnCall
<1>13. Counted'
  BY DEF Counted, Returning, Messages
<1>14. AllHeld'
  <2>1. \A b \in heap \ StrayArrays : b \in Released(kept)
    BY <1>1, OnlyKept DEF Returning, Messages
  <2>2. StrayArrays' = StrayArrays
    BY DEF StrayArrays, Own
  <2>3. \A b \in said : \E m \in Messages : b \in messages'[m]
    BY <1>4
  <2> HIDE DEF own, said
  <2>4. \A b \in heap' \ StrayArrays' : b \in heap \ StrayArrays \/ b \in rows \cup own \/ b \in said
    BY <1>3, <2>2
  <2> QED BY <1>7, <1>8, <2>1, <2>3, <2>4 DEF AllHeld
<1>15. NoMisuse'
  BY <1>1 DEF NoMisuse
<1> QED BY <1>9, <1>10, <1>11, <1>12, <1>13, <1>14, <1>15

\* What a driver allocates is new, and owned by the pointers it wrote.
LEMMA FamilyDriverStep ==
  ASSUME DInv, FamilyDriverReturns
  PROVE  DInv'
<1>1. PICK s \in Structs, written \in BOOLEAN, k \in 0 .. MaxRows, some \in SUBSET Messages :
        /\ DriverWrites(s, written, k, some)
        /\ failed' = \/ "err" \in some
                     \/ written /\ s # Own
                     \/ k > 0 /\ ~(written /\ s = Own)
  BY Zenon DEF FamilyDriverReturns
<1>2. /\ pc = "driver" /\ pc' = "select"
      /\ UNCHANGED <<shape, unified, calls, out, err, result, kept, misuse, unwound>>
  BY DEF FamilyDriverReturns
<1>3. err' \in {"none", "thrown", "wrong_shape", "driver"} /\ failed' \in BOOLEAN
  BY <1>1, <1>2 DEF DInv, TypeOK
<1>4. TypeOK' /\ OneHolder' /\ Allocated' /\ OwnCall' /\ Counted' /\ AllHeld' /\ NoMisuse'
  <2> DEFINE rows == IF written THEN {BlockOf(calls, s, 0)} ELSE {}
  <2>1. rows = {} \/ rows = {BlockOf(calls, s, 0)}
    OBVIOUS
  <2>2. /\ fields' = [t \in Structs |-> IF t = s THEN rows ELSE {}]
        /\ count' = k
        /\ messages' = MessageBlocks(some)
        /\ heap' = heap \cup rows \cup (IF s \in ListStructs THEN ArraysOf(rows, k) ELSE {})
                        \cup {BlockOf(calls, m, 0) : m \in some}
    BY <1>1 DEF DriverWrites, Allocates
  <2> HIDE DEF rows
  <2> QED BY <1>2, <1>3, <2>1, <2>2, DriverWrote
<1>5. ASSUME failed'
      PROVE  messages'["err"] # {} \/ WrongShape(DropWrongShapeRows(fields), RowsOf(fields))'
  <2> DEFINE rows == IF written THEN {BlockOf(calls, s, 0)} ELSE {}
  <2>1. /\ fields' = [t \in Structs |-> IF t = s THEN rows ELSE {}]
        /\ count' = k
        /\ messages' = [m \in Messages |-> IF m \in some THEN {BlockOf(calls, m, 0)} ELSE {}]
    BY <1>1 DEF DriverWrites, MessageBlocks
  <2>2. fields'[s] = rows /\ \A t \in Structs : t # s => fields'[t] = {}
    BY <2>1
  <2>3. Own' = Own /\ Own \in Structs
    BY <1>2, OwnStruct DEF Own, DInv
  <2>4. CASE "err" \in some
    <3>1. "err" \in Messages
      BY DEF Messages
    <3> QED BY <2>1, <2>4, <3>1
  <2>5. CASE written /\ s # Own
    <3>1. fields'[s] # {} /\ s \in Structs \ {Own'}
      BY <2>2, <2>3, <2>5
    <3>2. DropWrongShapeRows(fields') # {}
      BY <3>1, <2>3 DEF DropWrongShapeRows
    <3> QED BY <3>2, <2>3 DEF WrongShape, DropWrongShapeRows
  <2>6. CASE k > 0 /\ ~(written /\ s = Own)
    <3>1. fields'[Own] = {}
      BY <2>2, <2>3, <2>6
    <3> QED BY <2>1, <2>3, <2>6, <3>1 DEF WrongShape, RowsOf
  <2>7. "err" \in some \/ (written /\ s # Own) \/ (k > 0 /\ ~(written /\ s = Own))
    BY <1>1, <1>5
  <2> QED BY <2>4, <2>5, <2>6, <2>7
<1>6. FailureKnown'
  BY <1>2, <1>5 DEF FailureKnown, Messages
<1> QED BY <1>4, <1>6 DEF DInv

\* The same when an exception leaves the adapter, which is an error by then.
LEMMA AdapterStep ==
  ASSUME DInv, AdapterThrows
  PROVE  DInv'
<1>1. PICK s \in Structs, written \in BOOLEAN, k \in 0 .. MaxRows, some \in SUBSET Messages :
        DriverWrites(s, written, k, some)
  BY Zenon DEF AdapterThrows
<1>2. /\ pc = "driver" /\ pc' = "select" /\ err' = "thrown" /\ failed'
      /\ UNCHANGED <<shape, unified, calls, out, result, kept, misuse, unwound>>
  BY DEF AdapterThrows
<1>3. failed' \in BOOLEAN
  BY DEF AdapterThrows
<1>4. TypeOK' /\ OneHolder' /\ Allocated' /\ OwnCall' /\ Counted' /\ AllHeld' /\ NoMisuse'
  <2> DEFINE rows == IF written THEN {BlockOf(calls, s, 0)} ELSE {}
  <2>1. rows = {} \/ rows = {BlockOf(calls, s, 0)}
    OBVIOUS
  <2>2. /\ fields' = [t \in Structs |-> IF t = s THEN rows ELSE {}]
        /\ count' = k
        /\ messages' = MessageBlocks(some)
        /\ heap' = heap \cup rows \cup (IF s \in ListStructs THEN ArraysOf(rows, k) ELSE {})
                        \cup {BlockOf(calls, m, 0) : m \in some}
    BY <1>1 DEF DriverWrites, Allocates
  <2> HIDE DEF rows
  <2> QED BY <1>2, <1>3, <2>1, <2>2, DriverWrote
<1>5. FailureKnown'
  BY <1>2 DEF FailureKnown, Messages
<1> QED BY <1>4, <1>5 DEF DInv

\* Any other exception takes the DriverCall with it.
LEMMA UnwindStep ==
  ASSUME DInv, AdapterUnwinds
  PROVE  DInv'
<1>1. PICK s \in Structs, written \in BOOLEAN, k \in 0 .. MaxRows, some \in SUBSET Messages :
        heap' = heap \cup Allocates(s, written, k, some)
  BY Zenon DEF AdapterUnwinds
<1>2. /\ TypeOK /\ OneHolder /\ Allocated /\ OwnCall /\ NoMisuse
      /\ pc = "driver" /\ pc' = "thrown" /\ unwound' = TRUE /\ failed' = TRUE
      /\ UNCHANGED <<shape, unified, calls, fields, count, messages, out, err, result, kept, misuse>>
  BY DEF DInv, AdapterUnwinds
<1>3. calls \in 1 .. MaxCalls
  BY <1>2, CallCount
<1>4. Allocates(s, written, k, some) \subseteq Block
  <2>1. k \in Nat /\ MaxRows \in Nat /\ k <= MaxRows
    BY FamilyAssumption
  <2> QED BY <1>3, <2>1 DEF Allocates, ArraysOf, BlockOf, Block
<1>5. pc \notin Returning /\ pc' \notin Returning \cup {"driver", "select", "check", "rows"}
      /\ pc \notin Messages \cup {"select", "check"} /\ pc' \notin Messages
  BY <1>2 DEF Returning, Messages
<1>6. TypeOK'
  <2>1. heap' \subseteq Block
    BY <1>1, <1>2, <1>4 DEF TypeOK
  <2> QED BY <1>2, <2>1 DEF TypeOK, Own
<1>7. OneHolder'
  BY <1>2, <1>5 DEF OneHolder
<1>8. Allocated'
  <2>1. heap \subseteq heap' /\ Released(result') = Released(result) /\ Released(kept') = Released(kept)
    BY <1>1, <1>2
  <2>2. \A s2 \in Structs : FieldHolds(s2)' = FieldHolds(s2)
    BY <1>2 DEF FieldHolds
  <2> QED BY <1>2, <1>5, <2>1, <2>2 DEF Allocated
<1>9. OwnCall'
  BY <1>2, <1>5 DEF OwnCall
<1>10. Counted' /\ FailureKnown' /\ AllHeld' /\ NoMisuse'
  BY <1>2, <1>5 DEF Counted, FailureKnown, AllHeld, NoMisuse
<1> QED BY <1>6, <1>7, <1>8, <1>9, <1>10 DEF DInv

\* The shape's rows move to the output, rows of other structs are freed and the
\* error set.
LEMMA SelectStep ==
  ASSUME DInv, SelectRows
  PROVE  DInv'
<1> DEFINE rows == RowsOf(fields)
           strays == DropWrongShapeRows(fields)
<1>1. /\ TypeOK /\ OneHolder /\ Allocated /\ OwnCall /\ FailureKnown /\ AllHeld /\ NoMisuse
      /\ pc = "select" /\ ~unwound
  BY DEF DInv, SelectRows, OneHolder
<1>2. /\ out' = [rows |-> rows, count |-> count]
      /\ heap' = heap \ strays
      /\ misuse' = (misuse \/ ~(strays \subseteq heap))
      /\ err' = IF err = "none" /\ WrongShape(strays, rows) THEN "wrong_shape" ELSE err
      /\ fields' = [s \in Structs |-> {}]
      /\ pc' = "log"
      /\ UNCHANGED <<shape, unified, calls, count, messages, result, kept, unwound, failed>>
  BY Zenon DEF SelectRows, NoFields
<1>3. out'.rows = rows /\ out'.count = count /\ rows = fields[Own] /\ Own' = Own /\ Own \in Structs
  BY <1>1, <1>2, OwnStruct DEF RowsOf, Own
<1>4. \A s \in Structs : fields'[s] = {} /\ FieldHolds(s)' = {}
  BY <1>2 DEF FieldHolds, ArraysOf
<1>5. \A b \in strays : \E s \in Structs \ {Own} : b \in fields[s] /\ b.what = s /\ b \in heap
  <2>1. ASSUME NEW s \in Structs \ {Own}, NEW b \in fields[s]
        PROVE  b.what = s /\ b \in heap
    <3>1. b \in FieldHolds(s)
      BY <2>1 DEF FieldHolds
    <3> QED BY <1>1, <3>1, FieldBlocks DEF Allocated
  <2> QED BY <2>1 DEF DropWrongShapeRows
<1>6. Released(OutResult') = FieldHolds(Own)
  <2>1. OutResult'.shape = shape /\ OutResult'.rows = fields[Own] /\ OutResult'.count = count
    BY <1>2, <1>3 DEF OutResult
  <2> QED BY <1>1, <2>1, OwnField
<1>7. Released(result') = {} /\ Released(kept') = Released(kept) /\ result'.rows = {} /\ kept' = kept
  BY <1>1, <1>2, NoResultHolds
<1> HIDE DEF rows, strays
<1>8. TypeOK'
  <2>1. heap' \subseteq Block
    BY <1>1, <1>2 DEF TypeOK
  <2>2. DOMAIN out' = {"rows", "count"}
    BY <1>2
  <2>3. out'.rows \in Pointer(Own) /\ out'.count \in 0 .. MaxRows
    BY <1>1, <1>3 DEF TypeOK, Own, Structs
  <2>4. DOMAIN fields' = Structs /\ \A s \in Structs : fields'[s] \in Pointer(s)
    BY <1>2, <1>4 DEF Pointer
  <2>5. err' \in {"none", "thrown", "wrong_shape", "driver"}
    BY <1>1, <1>2 DEF TypeOK
  <2>6. misuse' \in BOOLEAN
    BY <1>2
  <2>7. pc' \in Messages
    BY <1>2 DEF Messages
  <2> QED BY <1>1, <1>2, <1>3, <2>1, <2>2, <2>3, <2>4, <2>5, <2>6, <2>7 DEF TypeOK
<1>9. OneHolder'
  <2>1. \A m \in Messages : pc' \in Before[m]
    BY <1>2 DEF Before, Messages
  <2>2. pc' \in Returning
    BY <1>2 DEF Returning, Messages
  <2> QED BY <1>1, <1>2, <1>4, <1>7, <2>1, <2>2 DEF OneHolder
<1>10. Allocated'
  <2>1. \A b \in FieldHolds(Own) : b \in heap'
    <3>1. \A b \in FieldHolds(Own) : b.what = Own /\ b \in heap
      BY <1>1, <1>3, FieldBlocks DEF Allocated
    <3> QED BY <1>2, <1>5, <3>1
  <2>2. \A m \in Messages : \A b \in messages[m] : b \in heap'
    <3>1. \A m \in Messages : \A b \in messages[m] : b.what \notin Structs /\ b \in heap
      BY <1>1, MessageOfItsOwn DEF Allocated
    <3> QED BY <1>2, <1>5, <3>1
  <2>3. \A b \in Released(kept) : b \in heap'
    <3>1. \A b \in Released(kept) : b.what = Own /\ b \in heap
      BY <1>1, KeptBlocks DEF Allocated
    <3> QED BY <1>2, <1>5, <3>1
  <2> QED BY <1>2, <1>4, <1>6, <1>7, <2>1, <2>2, <2>3 DEF Allocated
<1>11. OwnCall'
  BY <1>1, <1>2, <1>3, <1>4, <1>7 DEF OwnCall, Returning, Messages
<1>12. Counted'
  <2>1. WrongShape(strays, rows) => err' # "none"
    BY <1>2
  <2>2. out'.count > 0 /\ out'.rows = {} => WrongShape(strays, rows)
    BY <1>3 DEF WrongShape
  <2> QED BY <1>2, <2>1, <2>2 DEF Counted
<1>13. FailureKnown'
  <2>1. failed => err # "none" \/ messages["err"] # {} \/ WrongShape(strays, rows)
    BY <1>1 DEF FailureKnown, strays, rows
  <2> QED BY <1>2, <2>1 DEF FailureKnown
<1>14. AllHeld'
  <2>1. StrayArrays' = StrayArrays
    BY <1>2 DEF StrayArrays, Own
  <2>2. SUFFICES ASSUME NEW b \in heap' \ StrayArrays
                 PROVE  \/ \E m \in Messages : b \in messages'[m]
                        \/ b \in Released(OutResult')
                        \/ b \in Released(kept')
    BY <2>1 DEF AllHeld
  <2>3. b \in heap /\ b \notin strays /\ b \in Block
    BY <1>1, <1>2 DEF TypeOK
  <2>4. pc \notin Returning
    BY <1>1 DEF Returning, Messages
  <2>5. b \notin Released(OutResult) /\ b \notin Released(result)
    BY <1>1, <2>4, NoOutHolds, NoResultHolds
  <2>6. ASSUME NEW s \in Structs, b \in FieldHolds(s), s # Own
        PROVE  FALSE
    <3>1. b.what = s /\ (b \in fields[s] \/ b.row > 0)
      BY <1>1, <2>6, FieldBlocks
    <3>2. b \notin fields[s]
      BY <2>3, <2>6 DEF strays, DropWrongShapeRows
    <3> QED BY <2>2, <2>3, <2>6, <3>1, <3>2 DEF StrayArrays
  <2>7. b \in FieldHolds(Own) \/ (\E m \in Messages : b \in messages[m]) \/ b \in Released(kept)
    BY <1>1, <2>2, <2>3, <2>5, <2>6 DEF AllHeld
  <2> QED BY <1>2, <1>6, <1>7, <2>7
<1>15. NoMisuse'
  <2>1. strays \subseteq heap
    BY <1>5
  <2> QED BY <1>1, <1>2, <2>1 DEF NoMisuse
<1> QED BY <1>8, <1>9, <1>10, <1>11, <1>12, <1>13, <1>14, <1>15 DEF DInv

\* A message is freed once, after its copy.
LEMMA TakeStep ==
  ASSUME DInv, TakeMessage
  PROVE  DInv'
<1>1. /\ TypeOK /\ OneHolder /\ Allocated /\ OwnCall /\ Counted /\ FailureKnown /\ AllHeld /\ NoMisuse
      /\ pc \in Messages /\ ~unwound
  BY DEF DInv, TakeMessage, OneHolder, Messages
<1>2. /\ heap' = heap \ messages[pc]
      /\ misuse' = (misuse \/ ~(messages[pc] \subseteq heap) \/ \E b \in messages[pc] : b.what # pc)
      /\ messages' = [m \in Messages |-> IF m = pc THEN {} ELSE messages[m]]
      /\ err' = IF pc = "err" /\ err = "none" /\ messages[pc] # {} THEN "driver" ELSE err
      /\ pc' = NextTake[pc]
      /\ UNCHANGED <<shape, unified, calls, fields, count, out, result, kept, unwound, failed>>
  BY Zenon DEF TakeMessage, Free, Taken
<1>3. \/ pc = "log" /\ pc' = "notice"
      \/ pc = "notice" /\ pc' = "err"
      \/ pc = "err" /\ pc' = "return"
  BY <1>1, <1>2 DEF NextTake, Messages
<1>4. \A m \in Messages : messages'[m] = IF m = pc THEN {} ELSE messages[m]
  BY <1>2
<1>5. \A b \in messages[pc] : b.what = pc /\ b.what \notin Structs /\ b \in heap
  BY <1>1, MessageOfItsOwn DEF Allocated
<1>6. Released(kept') = Released(kept) /\ OutResult' = OutResult /\ Released(result') = {}
      /\ result'.rows = {} /\ kept' = kept /\ out' = out
  <2>1. pc # "check"
    BY <1>3
  <2> QED BY <1>1, <1>2, <2>1, NoResultHolds DEF OutResult
<1>7. \A s \in Structs : fields'[s] = {} /\ FieldHolds(s)' = {}
  <2>1. \A s \in Structs : fields[s] = {}
    BY <1>1, <1>3 DEF OneHolder
  <2> QED BY <1>2, <2>1 DEF FieldHolds, ArraysOf
<1>8. pc' \in Returning /\ pc \in Returning
  BY <1>3 DEF Returning, Messages
<1>9. TypeOK'
  <2>1. heap' \subseteq Block
    BY <1>1, <1>2 DEF TypeOK
  <2>2. DOMAIN messages' = Messages /\ \A m \in Messages : messages'[m] \in Pointer(m)
    BY <1>1, <1>2 DEF TypeOK, Pointer
  <2>3. err' \in {"none", "thrown", "wrong_shape", "driver"} /\ misuse' \in BOOLEAN
    BY <1>1, <1>2 DEF TypeOK
  <2>4. pc' \in Messages \cup {"return"}
    BY <1>8 DEF Returning
  <2> QED BY <1>1, <1>2, <2>1, <2>2, <2>3, <2>4 DEF TypeOK, Own
<1>10. OneHolder'
  <2>1. \A m \in Messages : messages'[m] # {} => pc' \in Before[m]
    BY <1>1, <1>3, <1>4 DEF OneHolder, Before, Messages
  <2> QED BY <1>1, <1>2, <1>3, <1>6, <1>7, <1>8, <2>1 DEF OneHolder
<1>11. Allocated'
  <2>1. \A b \in Released(OutResult) : b \in heap'
    <3>1. \A b \in Released(OutResult) : b.what \in Structs /\ b \in heap
      <4>1. OutResult.shape = shape
        BY DEF OutResult
      <4> QED BY <1>1, <1>8, <4>1, OutTyped, ReleasedBlocks, OwnStruct DEF Allocated, Own
    <3> QED BY <1>2, <1>5, <3>1
  <2>2. \A m \in Messages : \A b \in messages'[m] : b \in heap'
    <3>1. ASSUME NEW m \in Messages, NEW b \in messages'[m]
          PROVE  b.what = m /\ b \in heap /\ m # pc
      BY <1>1, <1>4, <3>1, MessageOfItsOwn DEF Allocated
    <3> QED BY <1>2, <1>5, <3>1
  <2>3. \A b \in Released(kept) : b \in heap'
    <3>1. \A b \in Released(kept) : b.what \in Structs /\ b \in heap
      BY <1>1, KeptBlocks, OwnStruct DEF Allocated
    <3> QED BY <1>2, <1>5, <3>1
  <2> QED BY <1>6, <1>7, <2>1, <2>2, <2>3 DEF Allocated
<1>12. OwnCall'
  BY <1>1, <1>2, <1>6, <1>7, <1>8 DEF OwnCall
<1>13. Counted'
  BY <1>1, <1>2, <1>3, <1>8 DEF Counted
<1>14. FailureKnown'
  BY <1>1, <1>2, <1>3, <1>4 DEF FailureKnown, Messages
<1>15. AllHeld'
  <2>1. StrayArrays' = StrayArrays
    BY <1>2 DEF StrayArrays, Own
  <2>2. SUFFICES ASSUME NEW b \in heap' \ StrayArrays
                 PROVE  \/ \E m \in Messages : b \in messages'[m]
                        \/ b \in Released(OutResult')
                        \/ b \in Released(kept')
    BY <2>1 DEF AllHeld
  <2>3. \A s \in Structs : FieldHolds(s) = {}
    BY <1>1, <1>3, NoFieldHolds
  <2>4. Released(result) = {}
    BY <1>1, <1>3, NoResultHolds
  <2>5. b \in heap \ StrayArrays /\ b \notin messages[pc]
    BY <1>2, <2>2
  <2>6. (\E m \in Messages : b \in messages[m]) \/ b \in Released(OutResult) \/ b \in Released(kept)
    BY <1>1, <2>3, <2>4, <2>5 DEF AllHeld
  <2> QED BY <1>4, <1>6, <2>5, <2>6
<1>16. NoMisuse'
  BY <1>1, <1>2, <1>5 DEF NoMisuse
<1> QED BY <1>9, <1>10, <1>11, <1>12, <1>13, <1>14, <1>15, <1>16 DEF DInv

\* A copy that throws frees nothing twice; what it leaks is excluded by name.
LEMMA CopyFailsStep ==
  ASSUME DInv, CopyFails
  PROVE  DInv'
<1>1. /\ TypeOK /\ OneHolder /\ Allocated /\ OwnCall /\ NoMisuse /\ pc \in Messages
      /\ unwound' = TRUE /\ pc' = "thrown"
      /\ UNCHANGED <<shape, unified, heap, calls, fields, count, messages, out, err, result, kept,
                     misuse, failed>>
  BY DEF DInv, CopyFails
<1>2. pc \notin {"select", "check", "idle", "destroyed"}
  BY <1>1 DEF Messages
<1>3. \A s \in Structs : FieldHolds(s)' = {}
  BY <1>1, <1>2 DEF OneHolder, FieldHolds, ArraysOf
<1>4. TypeOK'
  BY <1>1 DEF TypeOK, Own
<1>5. OneHolder'
  BY <1>1, <1>2 DEF OneHolder
<1>6. pc' \notin Returning \cup {"driver", "select", "check"}
  BY <1>1 DEF Returning, Messages
<1>7. Allocated'
  BY <1>1, <1>3, <1>6 DEF Allocated
<1>8. OwnCall'
  BY <1>1, <1>6 DEF OwnCall
<1>9. Counted' /\ FailureKnown'
  BY <1>1 DEF Counted, FailureKnown, Returning, Messages
<1>10. AllHeld' /\ NoMisuse'
  BY <1>1 DEF AllHeld, NoMisuse
<1> QED BY <1>4, <1>5, <1>7, <1>8, <1>9, <1>10 DEF DInv

\* The output's rows move to RunDriver's result.
LEMMA TakeOutputStep ==
  ASSUME DInv, TakeOutput
  PROVE  DInv'
<1>1. /\ TypeOK /\ OneHolder /\ Allocated /\ OwnCall /\ Counted /\ FailureKnown /\ AllHeld /\ NoMisuse
      /\ pc = "return" /\ pc' = "check" /\ ~unwound
      /\ result' = [shape |-> shape, rows |-> out.rows, count |-> out.count]
      /\ out' = NoOutput
      /\ UNCHANGED <<shape, unified, heap, calls, fields, count, messages, err, kept, misuse,
                     unwound, failed>>
  BY DEF DInv, TakeOutput, OneHolder
<1>2. /\ result' = OutResult /\ result'.rows = out.rows /\ result'.count = out.count
      /\ Released(kept') = Released(kept) /\ pc \in Returning
  BY <1>1 DEF OutResult, Returning
<1>3. out'.rows = {} /\ Released(OutResult') = {}
  BY <1>1, NothingReleased DEF NoOutput, OutResult
<1>4. \A s \in Structs : fields'[s] = {} /\ FieldHolds(s)' = {} /\ FieldHolds(s) = {}
  BY <1>1 DEF OneHolder, FieldHolds, ArraysOf
<1>5. \A m \in Messages : messages'[m] = {} /\ messages[m] = {}
  BY <1>1, NoMessageHolds DEF Messages
<1>6. TypeOK'
  <2>1. IsResult(result')
    BY <1>1, <1>2, OutTyped
  <2>2. DOMAIN out' = {"rows", "count"} /\ out'.rows \in Pointer(Own) /\ out'.count \in 0 .. MaxRows
    BY <1>1, Bounds DEF NoOutput, Pointer
  <2> QED BY <1>1, <2>1, <2>2 DEF TypeOK, Own
<1>7. OneHolder'
  BY <1>1, <1>3, <1>4, <1>5 DEF OneHolder
<1>8. pc' \notin Returning
  BY <1>1 DEF Returning, Messages
<1>9. Allocated'
  BY <1>1, <1>2, <1>4, <1>5, <1>8 DEF Allocated
<1>10. OwnCall'
  BY <1>1, <1>2, <1>3, <1>4 DEF OwnCall
<1>11. Counted' /\ FailureKnown'
  BY <1>1, <1>2, <1>8 DEF Counted, FailureKnown, Messages
<1>12. AllHeld'
  <2>1. Released(result) = {}
    BY <1>1, NoResultHolds
  <2>2. StrayArrays' = StrayArrays
    BY <1>1 DEF StrayArrays, Own
  <2> QED BY <1>1, <1>2, <1>4, <1>5, <2>1, <2>2 DEF AllHeld
<1>13. NoMisuse'
  BY <1>1 DEF NoMisuse
<1> QED BY <1>6, <1>7, <1>9, <1>10, <1>11, <1>12, <1>13 DEF DInv

\* A result with an error is freed where RunDriver throws.
LEMMA DropStep ==
  ASSUME DInv, DropResult
  PROVE  DInv'
<1>1. /\ TypeOK /\ OneHolder /\ Allocated /\ OwnCall /\ AllHeld /\ NoMisuse
      /\ pc = "check" /\ pc' = "thrown" /\ ~unwound
      /\ heap' = heap \ Released(result)
      /\ misuse' = \/ misuse
                   \/ ~(Released(result) \subseteq heap)
                   \/ \E b \in Released(result) : b.what # StructOf[result.shape]
      /\ result' = EmptyResult("PATH")
      /\ UNCHANGED <<shape, unified, calls, fields, count, messages, out, err, kept, unwound,
                     failed>>
  BY DEF DInv, DropResult, Free, OneHolder
<1>2. IsResult(result) /\ IsResult(kept)
  BY <1>1 DEF TypeOK
<1>3. result'.rows = {} /\ Released(result') = {} /\ Released(kept') = Released(kept)
  BY <1>1, NothingReleased DEF EmptyResult
<1>4. \A b \in Released(result) : b.call = calls /\ b.what = StructOf[result.shape]
  BY <1>1, <1>2, ReleasedBlocks DEF OwnCall
<1>5. \A b \in Released(kept) : b.call \in Nat /\ b.call < calls
  <2>1. \A a \in kept.rows : a.call < calls
    BY <1>1 DEF OwnCall
  <2> QED BY <1>1, <2>1, KeptBlocks
<1>6. pc \notin Returning /\ pc' \notin Returning \cup {"driver", "select", "check"}
      /\ pc \notin Messages /\ pc' \notin Messages
  BY <1>1 DEF Returning, Messages
<1>7. /\ \A s \in Structs : FieldHolds(s)' = {} /\ FieldHolds(s) = {}
      /\ \A m \in Messages : messages'[m] = {} /\ messages[m] = {}
      /\ Released(OutResult) = {}
  <2>1. \A s \in Structs : fields[s] = {}
    BY <1>1 DEF OneHolder
  <2>2. \A m \in Messages : messages[m] = {}
    BY <1>1, <1>6, NoMessageHolds
  <2>3. Released(OutResult) = {}
    BY <1>1, <1>6, NoOutHolds
  <2> QED BY <1>1, <2>1, <2>2, <2>3 DEF FieldHolds, ArraysOf
<1>8. TypeOK'
  <2>1. heap' \subseteq Block /\ misuse' \in BOOLEAN
    BY <1>1 DEF TypeOK
  <2>2. IsResult(result')
    BY <1>1, Bounds DEF EmptyResult, IsResult, Pointer
  <2> QED BY <1>1, <2>1, <2>2 DEF TypeOK, Own
<1>9. OneHolder'
  BY <1>1, <1>3, <1>6, <1>7 DEF OneHolder
<1>10. Allocated'
  <2>1. \A b \in Released(kept) : b \in heap'
    <3>1. \A b \in Released(kept) : b \in heap /\ b \notin Released(result)
      <4>1. \A b \in Released(kept) : b.call # calls
        <5>1. calls \in Nat
          BY <1>1, CallCount
        <5> QED BY <1>5, <5>1
      <4> QED BY <1>1, <1>4, <4>1 DEF Allocated
    <3> QED BY <1>1, <3>1
  <2> QED BY <1>3, <1>6, <1>7, <2>1 DEF Allocated
<1>11. OwnCall'
  BY <1>1, <1>3, <1>6 DEF OwnCall
<1>12. Counted' /\ FailureKnown'
  BY <1>1, <1>6 DEF Counted, FailureKnown
<1>13. AllHeld'
  <2>1. StrayArrays' = StrayArrays
    BY <1>1 DEF StrayArrays, Own
  <2> QED BY <1>1, <1>3, <1>7, <2>1 DEF AllHeld
<1>14. NoMisuse'
  <2>1. Released(result) \subseteq heap
    BY <1>1 DEF Allocated
  <2> QED BY <1>1, <1>4, <2>1 DEF NoMisuse
<1> QED BY <1>8, <1>9, <1>10, <1>11, <1>12, <1>13, <1>14 DEF DInv

\* The ExecState frees the rows of the earlier call and keeps those of this one,
\* which has no error.
LEMMA KeepStep ==
  ASSUME DInv, KeepResult
  PROVE  DInv'
<1>1. /\ TypeOK /\ OneHolder /\ Allocated /\ OwnCall /\ Counted /\ FailureKnown /\ AllHeld /\ NoMisuse
      /\ pc = "check" /\ pc' = "rows" /\ err = "none" /\ ~unwound
      /\ heap' = heap \ Released(kept)
      /\ misuse' = \/ misuse
                   \/ ~(Released(kept) \subseteq heap)
                   \/ \E b \in Released(kept) : b.what # StructOf[kept.shape]
      /\ kept' = result
      /\ result' = EmptyResult(result.shape)
      /\ UNCHANGED <<shape, unified, calls, fields, count, messages, out, err, unwound, failed>>
  BY DEF DInv, KeepResult, Free, OneHolder, MovedFrom
<1>2. IsResult(result) /\ IsResult(kept) /\ calls \in Nat
  BY <1>1, CallCount DEF TypeOK
<1>3. result'.rows = {} /\ Released(result') = {} /\ Released(kept') = Released(result)
  BY <1>1, NothingReleased DEF EmptyResult
<1>4. \A b \in Released(result) : b.call = calls
  BY <1>1, <1>2, ReleasedBlocks DEF OwnCall
<1>5. \A b \in Released(kept) : b.call \in Nat /\ b.call < calls /\ b.what = StructOf[kept.shape]
  <2>1. \A a \in kept.rows : a.call < calls
    BY <1>1 DEF OwnCall
  <2> QED BY <1>1, <1>2, <2>1, KeptBlocks, ReleasedBlocks
<1>6. pc \notin Returning /\ pc' \notin Returning \cup {"driver", "select", "check"}
      /\ pc \notin Messages /\ pc' \notin Messages
  BY <1>1 DEF Returning, Messages
<1>7. /\ \A s \in Structs : FieldHolds(s)' = {} /\ FieldHolds(s) = {}
      /\ \A m \in Messages : messages'[m] = {} /\ messages[m] = {}
      /\ Released(OutResult) = {} /\ out.rows = {}
  <2>1. \A s \in Structs : fields[s] = {}
    BY <1>1 DEF OneHolder
  <2>2. \A m \in Messages : messages[m] = {}
    BY <1>1, <1>6, NoMessageHolds
  <2>3. Released(OutResult) = {} /\ out.rows = {}
    BY <1>1, <1>6, NoOutHolds
  <2> QED BY <1>1, <2>1, <2>2, <2>3 DEF FieldHolds, ArraysOf
<1>8. TypeOK'
  <2>1. heap' \subseteq Block /\ misuse' \in BOOLEAN
    BY <1>1 DEF TypeOK
  <2>2. IsResult(result')
    BY <1>1, <1>2, Bounds DEF EmptyResult, IsResult, Pointer
  <2> QED BY <1>1, <2>1, <2>2 DEF TypeOK, Own
<1>9. OneHolder'
  BY <1>1, <1>3, <1>6, <1>7 DEF OneHolder
<1>10. Allocated'
  <2>1. \A b \in Released(result) : b \in heap'
    <3>1. \A b \in Released(result) : b \in heap /\ b \notin Released(kept)
      BY <1>1, <1>2, <1>4, <1>5 DEF Allocated
    <3> QED BY <1>1, <3>1
  <2> QED BY <1>3, <1>6, <1>7, <2>1 DEF Allocated
<1>11. OwnCall'
  <2>1. \A b \in kept'.rows : b.call = calls
    BY <1>1 DEF OwnCall
  <2> QED BY <1>1, <1>2, <1>3, <1>6, <1>7, <2>1 DEF OwnCall
<1>12. Counted' /\ FailureKnown'
  BY <1>1, <1>6 DEF Counted, FailureKnown
<1>13. AllHeld'
  <2>1. StrayArrays' = StrayArrays
    BY <1>1 DEF StrayArrays, Own
  <2> QED BY <1>1, <1>3, <1>7, <2>1 DEF AllHeld
<1>14. NoMisuse'
  <2>1. Released(kept) \subseteq heap
    BY <1>1 DEF Allocated
  <2> QED BY <1>1, <1>5, <2>1 DEF NoMisuse
<1> QED BY <1>8, <1>9, <1>10, <1>11, <1>12, <1>13, <1>14 DEF DInv

\* The rows read are there and of the shape's struct; the moved result frees
\* nothing.
LEMMA EmitStep ==
  ASSUME DInv, EmitRows
  PROVE  DInv'
<1>1. /\ TypeOK /\ OneHolder /\ Allocated /\ OwnCall /\ Counted /\ FailureKnown /\ AllHeld /\ NoMisuse
      /\ pc = "rows" /\ pc' \in {"idle", "thrown"} /\ ~unwound
      /\ heap' = heap \ Released(result)
      /\ misuse' = \/ misuse
                   \/ ~(Released(result) \subseteq heap)
                   \/ kept.count > 0 /\ kept.rows = {}
                   \/ \E b \in Released(kept) : b \notin heap' \/ b.what # Own
      /\ result' = EmptyResult("PATH")
      /\ UNCHANGED <<shape, unified, calls, fields, count, messages, out, err, kept, unwound,
                     failed>>
  BY DEF DInv, EmitRows, OneHolder
<1>2. result'.rows = {} /\ Released(result') = {} /\ Released(kept') = Released(kept)
  BY <1>1, NothingReleased DEF EmptyResult
<1>3. Released(result) = {} /\ heap' = heap
  BY <1>1, NoResultHolds
<1>4. pc \notin Returning \cup Messages
      /\ pc' \notin Returning \cup Messages \cup {"driver", "select", "check", "rows"}
  BY <1>1 DEF Returning, Messages
<1>5. /\ \A s \in Structs : FieldHolds(s)' = {}
      /\ \A m \in Messages : messages'[m] = {}
  <2>1. \A s \in Structs : fields[s] = {}
    BY <1>1 DEF OneHolder
  <2>2. \A m \in Messages : messages[m] = {}
    BY <1>1, <1>4, NoMessageHolds
  <2> QED BY <1>1, <2>1, <2>2 DEF FieldHolds, ArraysOf
<1>6. TypeOK'
  <2>1. misuse' \in BOOLEAN
    BY <1>1
  <2>2. IsResult(result')
    BY <1>1, Bounds DEF EmptyResult, IsResult, Pointer
  <2>3. pc' \in {"idle", "driver", "select", "return", "check", "rows", "thrown", "destroyed"}
                \cup Messages
    BY <1>1
  <2> QED BY <1>1, <1>3, <2>1, <2>2, <2>3 DEF TypeOK, Own
<1>7. OneHolder'
  <2>1. calls # 0
    BY <1>1 DEF OneHolder
  <2>2. out.rows = {}
    BY <1>1, <1>4, NoOutHolds
  <2>3. kept.rows # {} => kept.shape = shape
    BY <1>1 DEF OneHolder
  <2>4. unified => shape = "PATH"
    BY <1>1 DEF OneHolder
  <2> QED BY <1>1, <1>2, <1>5, <2>1, <2>2, <2>3, <2>4 DEF OneHolder
<1>8. Allocated'
  BY <1>1, <1>2, <1>3, <1>4, <1>5 DEF Allocated
<1>9. OwnCall'
  BY <1>1, <1>2, <1>4 DEF OwnCall
<1>10. Counted' /\ FailureKnown'
  BY <1>4 DEF Counted, FailureKnown, Returning
<1>11. AllHeld'
  <2>1. \A b \in heap \ StrayArrays : b \in Released(kept)
    BY <1>1, <1>4, OnlyKept
  <2>2. StrayArrays' = StrayArrays
    BY <1>1 DEF StrayArrays, Own
  <2> QED BY <1>2, <1>3, <2>1, <2>2 DEF AllHeld
<1>12. NoMisuse'
  <2>1. Released(result) \subseteq heap
    BY <1>1 DEF Allocated
  <2>2. \A b \in Released(kept) : b \in heap' /\ b.what = Own
    BY <1>1, <1>3, KeptBlocks DEF Allocated
  <2>3. ~(kept.count > 0 /\ kept.rows = {})
    BY <1>1 DEF Counted
  <2> QED BY <1>1, <2>1, <2>2, <2>3 DEF NoMisuse
<1> QED BY <1>6, <1>7, <1>8, <1>9, <1>10, <1>11, <1>12 DEF DInv

\* The destructor frees what is kept, whatever ended the function.
LEMMA DestroyStep ==
  ASSUME DInv, Destroy
  PROVE  DInv'
<1>1. /\ TypeOK /\ OneHolder /\ Allocated /\ OwnCall /\ AllHeld /\ NoMisuse
      /\ pc \in {"idle", "thrown"} /\ pc' = "destroyed"
      /\ heap' = heap \ Released(kept)
      /\ misuse' = \/ misuse
                   \/ ~(Released(kept) \subseteq heap)
                   \/ \E b \in Released(kept) : b.what # StructOf[kept.shape]
      /\ kept' = EmptyResult(kept.shape)
      /\ UNCHANGED <<shape, unified, calls, fields, count, messages, out, err, result, unwound,
                     failed>>
  BY DEF DInv, Destroy, Free
<1>2. IsResult(kept)
  BY <1>1 DEF TypeOK
<1>3. kept'.rows = {} /\ Released(kept') = {} /\ Released(result') = Released(result)
  BY <1>1, NothingReleased DEF EmptyResult
<1>4. pc \notin Returning \cup Messages \cup {"select", "check"}
      /\ pc' \notin Returning \cup Messages \cup {"driver", "select", "check", "rows"}
  BY <1>1 DEF Returning, Messages
<1>5. /\ \A s \in Structs : FieldHolds(s)' = {}
      /\ result.rows = {} /\ Released(result) = {}
  <2>1. \A s \in Structs : fields[s] = {}
    BY <1>1 DEF OneHolder
  <2> QED BY <1>1, <1>4, <2>1, NoResultHolds DEF FieldHolds, ArraysOf
<1>6. TypeOK'
  <2>1. heap' \subseteq Block /\ misuse' \in BOOLEAN
    BY <1>1 DEF TypeOK
  <2>2. IsResult(kept')
    BY <1>1, <1>2, Bounds DEF EmptyResult, IsResult, Pointer
  <2> QED BY <1>1, <2>1, <2>2 DEF TypeOK, Own
<1>7. OneHolder'
  <2>1. \A m \in Messages : messages[m] # {} => unwound
    BY <1>1, <1>4, NoMessageHolds
  <2>2. out.rows # {} => unwound
    BY <1>1, <1>4 DEF OneHolder
  <2> QED BY <1>1, <1>3, <1>4, <1>5, <2>1, <2>2 DEF OneHolder
<1>8. Allocated'
  <2>1. \A m \in Messages : \A b \in messages[m] : b \in heap'
    <3>1. \A m \in Messages : \A b \in messages[m] : b.what \notin Structs /\ b \in heap
      BY <1>1, MessageOfItsOwn DEF Allocated
    <3>2. \A b \in Released(kept) : b.what \in Structs
      BY <1>1, KeptBlocks, OwnStruct
    <3> QED BY <1>1, <3>1, <3>2
  <2> QED BY <1>1, <1>3, <1>4, <1>5, <2>1 DEF Allocated
<1>9. OwnCall'
  BY <1>1, <1>3, <1>4 DEF OwnCall
<1>10. Counted' /\ FailureKnown'
  BY <1>4 DEF Counted, FailureKnown, Returning
<1>11. AllHeld'
  <2>1. ~unwound => \A b \in heap \ StrayArrays : b \in Released(kept)
    BY <1>4, OnlyKept
  <2>2. StrayArrays' = StrayArrays
    BY <1>1 DEF StrayArrays, Own
  <2> QED BY <1>1, <2>1, <2>2 DEF AllHeld
<1>12. NoMisuse'
  <2>1. \A b \in Released(kept) : b \in heap /\ b.what = StructOf[kept.shape]
    BY <1>1, <1>2, ReleasedBlocks DEF Allocated
  <2> QED BY <1>1, <2>1 DEF NoMisuse
<1> QED BY <1>6, <1>7, <1>8, <1>9, <1>10, <1>11, <1>12 DEF DInv

\* A step that changes nothing keeps the invariant.
LEMMA StutterStep ==
  ASSUME DInv, UNCHANGED vars
  PROVE  DInv'
<1> USE DEF vars, DInv
<1>1. TypeOK' /\ NoMisuse'
  BY DEF TypeOK, Own, NoMisuse
<1>2. OneHolder' /\ OwnCall'
  BY DEF OneHolder, OwnCall
<1>3. Counted' /\ FailureKnown'
  BY DEF Counted, FailureKnown, WrongShape, DropWrongShapeRows, RowsOf, Own
<1>4. Allocated' /\ AllHeld'
  BY DEF Allocated, AllHeld, FieldHolds, OutResult, StrayArrays, Own
<1> QED BY <1>1, <1>2, <1>3, <1>4

\* Every step of the call keeps the invariant.
THEOREM DriverInvariance == Spec => []DInv
<1>1. ASSUME DInv, [Next]_vars
      PROVE  DInv'
  BY <1>1, RunOnceStep, ShortestPathStep, FamilyDriverStep, AdapterStep, UnwindStep, SelectStep, TakeStep,
     CopyFailsStep, TakeOutputStep, DropStep, KeepStep, EmitStep, DestroyStep, StutterStep DEF Next
<1> QED BY InitDriver, <1>1, PTL DEF Spec

-----------------------------------------------------------------------------
(* The properties. *)

\* Whatever a driver writes and however its call ends, every pointer of RunFamilyDriver, RunDriver
\* and ExecState points to a block of the struct it is taken for.
THEOREM DriverTypes == Spec => []TypeOK
<1>1. DInv => TypeOK
  BY DEF DInv
<1> QED BY DriverInvariance, <1>1, PTL

\* No block is freed twice, used after it was freed, or taken for another struct: neither when the
\* rows pass from the DriverCall to the ExecState nor when an exception cuts that short.
THEOREM DriverNeverMisuses == Spec => []NoMisuse
<1>1. DInv => NoMisuse
  BY DEF DInv
<1> QED BY DriverInvariance, <1>1, PTL

\* ~ExecState leaves nothing of its drivers behind but the arrays of stray rows.
THEOREM DriverNeverLeaks == Spec => []NothingLeaks
<1>1. ASSUME DInv PROVE NothingLeaks
  <2>1. SUFFICES ASSUME pc = "destroyed", ~unwound, NEW b \in heap
                 PROVE  b \in StrayArrays
    BY DEF NothingLeaks
  <2>2. pc \notin Returning \cup {"select", "check"}
    BY <2>1 DEF Returning, Messages
  <2>3. kept.rows = {}
    BY <1>1, <2>1 DEF DInv, OneHolder
  <2> QED BY <1>1, <2>1, <2>2, <2>3, OnlyKept, NothingReleased
<1> QED BY DriverInvariance, <1>1, PTL

\* Between two calls the ExecState's rows are all there is, and a driver that failed never has any.
THEOREM DriverAnswersOwnRows == Spec => []AnswersOwnRows
<1>1. ASSUME DInv PROVE AnswersOwnRows
  <2>1. OnlyKeptRows
    <3>1. SUFFICES ASSUME pc = "idle", NEW b \in heap
                   PROVE  b \in Released(kept) \cup StrayArrays
      BY DEF OnlyKeptRows
    <3>2. pc \notin Returning \cup {"select", "check"}
      BY <3>1 DEF Returning, Messages
    <3>3. ~unwound
      BY <1>1, <3>1 DEF DInv, OneHolder
    <3> QED BY <1>1, <3>1, <3>2, <3>3, OnlyKept
  <2>2. FailedNeverAnswers
    BY <1>1 DEF DInv, FailureKnown, FailedNeverAnswers
  <2> QED BY <2>1, <2>2 DEF AnswersOwnRows
<1> QED BY DriverInvariance, <1>1, PTL

=============================================================================
