----------------------------- MODULE EmitProofs -----------------------------
(***************************************************************************)
(* Proofs about Emit, for every vector size, every number of rows and      *)
(* results, and every width of INTEGER.                                    *)
(*                                                                         *)
(* The numbering properties speak of the rows already written; what makes  *)
(* them inductive is what EmitState says of the row that comes next        *)
(* (PathNumbers), and where the loop stands in the result (Place).         *)
(***************************************************************************)
EXTENDS Emit, FiniteSetTheorems, TLAPS

\* The rows written are those before the offset and those of this chunk.
Place ==
  /\ Len(out) = emit.offset + i
  /\ emit.offset + n <= Len(rows)
  /\ pc \in {"idle", "call"} => i = 0 /\ n = 0
  /\ pc = "idle" => emit.offset = Len(rows)

\* EmitState holds the numbers of the row that comes next.
PathNumbers ==
  /\ shape \in PathShapes => IsPathSeq(emit.next_path_seq, Len(out) + 1)
  /\ shape = "KSP" => emit.next_path_id = 1 + Cardinality(EndsBefore(Len(out) + 1))

EInv == TypeOK /\ Place /\ SeqCountsRows /\ PathSeqRestarts /\ PathIdCounts /\ PathNumbers

-----------------------------------------------------------------------------
(* Lemmas about the operators. *)

\* The edge of a row is an integer.
LEMMA EdgeIsId ==
  ASSUME TypeOK, NEW k \in DOMAIN rows
  PROVE  rows[k].edge \in Int
<1>1. rows[k] \in Row
  BY DEF TypeOK
<1> QED BY <1>1, EmitAssumption DEF Row

\* A value that fits keeps its bits.
LEMMA FittingCast ==
  ASSUME NEW k \in Nat, CastFits(k)
  PROVE  Int32(k) = k
<1>1. Int32Max \in Nat
  BY EmitAssumption
<1> DEFINE b == Int32Max + 1
<1>2. b \in Nat \ {0} /\ k + b \in Nat /\ 0 <= k + b /\ k + b < 2 * b /\ k + b >= b
  BY <1>1 DEF CastFits
<1>3. (k + b) % (2 * b) = k + b
  <2>1. \A a, m \in Nat : a < m => a % m = a
    OBVIOUS
  <2> QED BY <1>2, <2>1
<1> QED BY <1>1, <1>2, <1>3 DEF Int32

\* The ends of paths before a row are finitely many.
LEMMA EndsFinite ==
  ASSUME NEW k \in Nat
  PROVE  IsFiniteSet(EndsBefore(k)) /\ Cardinality(EndsBefore(k)) \in Nat
<1>1. EndsBefore(k) \subseteq 1 .. (k - 1)
  BY DEF EndsBefore
<1>2. IsFiniteSet(1 .. (k - 1))
  BY FS_Interval
<1> QED BY <1>1, <1>2, FS_Subset, FS_CardinalityType

\* One more row ends at most one more path.
LEMMA EndsGrow ==
  ASSUME NEW k \in Nat \ {0}
  PROVE  Cardinality(EndsBefore(k + 1)) =
           IF rows[k].edge = -1 THEN Cardinality(EndsBefore(k)) + 1
                                ELSE Cardinality(EndsBefore(k))
<1>1. k \notin EndsBefore(k)
  BY DEF EndsBefore
<1>2. CASE rows[k].edge = -1
  <2>1. EndsBefore(k + 1) = EndsBefore(k) \cup {k}
    BY <1>2 DEF EndsBefore
  <2> QED BY <1>1, <1>2, <2>1, EndsFinite, FS_AddElement
<1>3. CASE rows[k].edge # -1
  <2>1. EndsBefore(k + 1) = EndsBefore(k)
    BY <1>3 DEF EndsBefore
  <2> QED BY <1>3, <2>1
<1> QED BY <1>2, <1>3

\* The number of the next row follows from this one's.
LEMMA PathSeqFollows ==
  ASSUME NEW k \in Nat \ {0}, NEW s \in Nat, IsPathSeq(s, k),
         rows[k].edge \in Int
  PROVE  IsPathSeq(NextPathSeq(s, rows[k].edge), k + 1)
<1>1. CASE rows[k].edge < 0
  BY <1>1 DEF IsPathSeq, NextPathSeq
<1>2. CASE ~(rows[k].edge < 0)
  <2>1. NextPathSeq(s, rows[k].edge) = s + 1
    BY <1>2 DEF NextPathSeq
  <2>2. s + 1 \in 1 .. (k + 1) /\ (s + 1 = k + 1 \/ rows[k + 1 - (s + 1)].edge < 0)
    BY DEF IsPathSeq
  <2>3. ASSUME NEW j \in (k + 1 - (s + 1) + 1) .. (k + 1 - 1) PROVE rows[j].edge >= 0
    BY <1>2, <2>3 DEF IsPathSeq
  <2> QED BY <2>1, <2>2, <2>3 DEF IsPathSeq
<1> QED BY <1>1, <1>2

-----------------------------------------------------------------------------
(* The invariant. *)

\* EmitState starts before the first row.
LEMMA InitEmit == Init => EInv
<1> SUFFICES ASSUME Init PROVE EInv
  OBVIOUS
<1>1. TypeOK
  BY EmitAssumption DEF Init, TypeOK, NewEmitState
<1>2. Place
  BY DEF Init, Place, NewEmitState
<1>3. SeqCountsRows /\ PathSeqRestarts /\ PathIdCounts
  BY DEF Init, SeqCountsRows, PathSeqRestarts, PathIdCounts
<1>4. PathNumbers
  <2>1. IsPathSeq(1, 1)
    BY DEF IsPathSeq
  <2>2. EndsBefore(1) = {}
    BY DEF EndsBefore
  <2>3. Len(out) + 1 = 1 /\ emit.next_path_seq = 1 /\ emit.next_path_id = 1
    BY DEF Init, NewEmitState
  <2>4. Cardinality(EndsBefore(1)) = 0
    BY <2>2, FS_EmptySet
  <2> QED BY <2>1, <2>3, <2>4 DEF PathNumbers
<1> QED BY <1>1, <1>2, <1>3, <1>4 DEF EInv

\* The row at hand is one of the result's, and its own.
LEMMA RowAtHand ==
  ASSUME EInv, RowStep
  PROVE  /\ K = Len(out) + 1
         /\ K \in 1 .. Len(rows)
         /\ K \in Nat \ {0}
         /\ rows[K] \in Row
         /\ rows[K].edge \in Int
         /\ rows[K].own \in Nat
<1>1. TypeOK /\ Place
  BY DEF EInv
<1>2. K = Len(out) + 1 /\ K \in 1 .. Len(rows) /\ K \in Nat \ {0}
  BY <1>1 DEF TypeOK, Place, RowStep, K
<1>3. rows[K] \in Row
  BY <1>1, <1>2 DEF TypeOK
<1> QED BY <1>2, <1>3, EmitAssumption DEF Row

\* Writing one row, whatever its numbers, keeps what is not about them.
LEMMA RowWritten ==
  ASSUME EInv, RowStep, NEW ps \in Nat, NEW pid \in Nat, NEW first \in Nat, NEW length \in Nat,
         out' = Append(out, Written(ps, pid, first, length)),
         emit' \in [offset : Nat, next_path_seq : Nat, next_path_id : Nat],
         emit'.offset = emit.offset,
         size' \in Nat
  PROVE  /\ TypeOK' /\ Place' /\ SeqCountsRows'
         /\ Len(out') = Len(out) + 1
         /\ \A p \in 1 .. Len(out) : out'[p] = out[p]
         /\ out'[Len(out) + 1].path_seq = ps
         /\ out'[Len(out) + 1].path_id = pid
<1>0. TypeOK /\ Place /\ SeqCountsRows
  BY DEF EInv
<1>1. K = Len(out) + 1 /\ K \in Nat \ {0}
  BY RowAtHand
<1>2. Seq32Or64 \in Int /\ (shape \notin Unnumbered => Seq32Or64 = K)
  <2>1. shape \in Int32Numbered \cup Int64Numbered \cup Unnumbered
    BY <1>0, EmitAssumption DEF TypeOK
  <2>2. CASE shape \in Int32Numbered
    BY <1>1, <2>2, FittingCast DEF RowStep, Seq32Or64
  <2>3. CASE shape \notin Int32Numbered
    BY <1>1, <2>1, <2>3 DEF Seq32Or64
  <2> QED BY <2>2, <2>3
<1> DEFINE w == Written(ps, pid, first, length)
<1>3. /\ w \in OutRow
      /\ w.row = K /\ w.seq = Seq32Or64 /\ w.path_seq = ps /\ w.path_id = pid
  BY <1>0, <1>1, <1>2 DEF Written, OutRow, TypeOK
<1> HIDE DEF w
<1>4. out' = Append(out, w)
  BY DEF w
<1>5. /\ out' \in Seq(OutRow)
      /\ Len(out') = Len(out) + 1
      /\ \A p \in 1 .. Len(out) : out'[p] = out[p]
      /\ out'[Len(out) + 1] = w
  BY <1>0, <1>3, <1>4 DEF TypeOK
<1>6. TypeOK'
  BY <1>0, <1>5 DEF TypeOK, RowStep
<1>7. Place'
  <2>1. /\ Len(rows) \in Nat /\ emit.offset \in Nat /\ i \in Nat
        /\ i' = i + 1 /\ pc = "row" /\ UNCHANGED <<rows, n, pc>>
    BY <1>0 DEF TypeOK, RowStep
  <2>2. Len(out') = emit'.offset + i'
    <3>1. Len(out) = emit.offset + i
      BY <1>0 DEF Place
    <3>2. Len(out') = Len(out) + 1
      BY <1>5
    <3>3. Len(out') = emit.offset + i + 1
      BY <3>1, <3>2
    <3>4. emit.offset + (i + 1) = emit.offset + i + 1
      <4>1. \A x, y \in Nat : x + (y + 1) = x + y + 1
        OBVIOUS
      <4> QED BY <2>1, <4>1, Zenon
    <3>5. emit'.offset + i' = emit.offset + (i + 1)
      BY <2>1, Zenon
    <3> QED BY <3>3, <3>4, <3>5, Zenon
  <2>3. emit'.offset + n' <= Len(rows')
    BY <1>0, <2>1 DEF Place
  <2>4. pc' # "idle" /\ pc' # "call"
    BY <2>1
  <2> QED BY <2>2, <2>3, <2>4 DEF Place
<1>8. SeqCountsRows'
  <2>1. UNCHANGED shape
    BY DEF RowStep
  <2>2. DOMAIN out' = 1 .. (Len(out) + 1) /\ DOMAIN out = 1 .. Len(out)
    BY <1>0, <1>5 DEF TypeOK
  <2>3. ASSUME NEW p \in DOMAIN out'
        PROVE  out'[p].row = p /\ (shape \notin Unnumbered => out'[p].seq = p)
    <3>1. CASE p \in 1 .. Len(out)
      BY <1>0, <1>5, <2>2, <3>1 DEF SeqCountsRows
    <3>2. CASE p = Len(out) + 1
      BY <1>1, <1>2, <1>3, <1>5, <3>2
    <3>3. p \in 1 .. Len(out) \/ p = Len(out) + 1
      BY <1>0, <2>2 DEF TypeOK
    <3> QED BY <3>1, <3>2, <3>3
  <2> QED BY <2>1, <2>3 DEF SeqCountsRows
<1> QED BY <1>3, <1>5, <1>6, <1>7, <1>8

\* A row written moves sequence, path_seq and path_id on as EmitState says; a chunk
\* or a result that ends keeps or resets them.
THEOREM EmitStep == EInv /\ [Next]_vars => EInv'
<1> SUFFICES ASSUME EInv, [Next]_vars PROVE EInv'
  OBVIOUS
<1>0. TypeOK /\ Place /\ SeqCountsRows /\ PathSeqRestarts /\ PathIdCounts /\ PathNumbers
  BY DEF EInv
<1>1. CASE NewResult
  <2>1. /\ emit' = NewEmitState
        /\ out' = <<>>
        /\ results' \in 0 .. MaxResults
        /\ pc' = "call"
        /\ i = 0 /\ n = 0
        /\ UNCHANGED <<shape, n, i, size>>
    BY <1>0, <1>1, EmitAssumption DEF NewResult, StartState, TypeOK, Place
  <2>2. PICK m \in 0 .. MaxRows : rows' \in [1 .. m -> Row]
    BY <1>1 DEF NewResult
  <2>3. rows' \in Seq(Row) /\ Len(rows') \in Nat
    BY <2>2, EmitAssumption
  <2>4. TypeOK'
    BY <1>0, <2>1, <2>3 DEF TypeOK, NewEmitState
  <2>5. Place'
    BY <2>1, <2>3 DEF Place, NewEmitState
  <2>6. SeqCountsRows' /\ PathSeqRestarts' /\ PathIdCounts'
    BY <2>1 DEF SeqCountsRows, PathSeqRestarts, PathIdCounts
  <2>7. PathNumbers'
    <3>1. Len(out') + 1 = 1 /\ emit'.next_path_seq = 1 /\ emit'.next_path_id = 1
      BY <2>1 DEF NewEmitState
    <3>2. EndsBefore(Len(out) + 1)' = {}
      BY <3>1 DEF EndsBefore
    <3>3. Cardinality(EndsBefore(Len(out) + 1)') = 0
      BY <3>2, FS_EmptySet
    <3> QED BY <3>1, <3>3 DEF PathNumbers, IsPathSeq
  <2> QED BY <2>4, <2>5, <2>6, <2>7 DEF EInv
<1>2. CASE StartChunk
  <2>1. /\ n' \in Nat /\ emit.offset + n' <= Len(rows)
        /\ i = 0 /\ i' = 0 /\ size' = 0 /\ pc' = "row"
        /\ UNCHANGED <<shape, rows, emit, out, results>>
    BY <1>0, <1>2, EmitAssumption DEF StartChunk, TypeOK, Place
  <2>2. TypeOK' /\ Place'
    BY <1>0, <2>1 DEF TypeOK, Place
  <2>3. SeqCountsRows' /\ PathSeqRestarts' /\ PathIdCounts' /\ PathNumbers'
    BY <1>0, <2>1 DEF SeqCountsRows, PathSeqRestarts, PathIdCounts, PathNumbers, IsPathSeq,
       EndsBefore
  <2> QED BY <2>2, <2>3 DEF EInv
\* What the path columns have in common.
<1>3. ASSUME RowStep, NEW ps, NEW pid,
             /\ shape \in PathShapes =>
                  /\ ps = emit.next_path_seq
                  /\ emit'.next_path_seq = NextPathSeq(emit.next_path_seq, rows[K].edge)
             /\ shape = "KSP" =>
                  /\ pid = emit.next_path_id
                  /\ emit'.next_path_id = NextPathId(emit.next_path_id, rows[K].edge),
             /\ Len(out') = Len(out) + 1
             /\ \A p \in 1 .. Len(out) : out'[p] = out[p]
             /\ out'[Len(out) + 1].path_seq = ps
             /\ out'[Len(out) + 1].path_id = pid,
             TypeOK'
      PROVE  PathSeqRestarts' /\ PathIdCounts' /\ PathNumbers'
  <2>1. UNCHANGED <<shape, rows>>
    BY <1>3 DEF RowStep
  <2>2. /\ K = Len(out) + 1 /\ K \in Nat \ {0} /\ rows[K].edge \in Int
    BY <1>3, RowAtHand
  <2>3. DOMAIN out' = 1 .. (Len(out) + 1) /\ DOMAIN out = 1 .. Len(out) /\ Len(out) \in Nat
    BY <1>0, <1>3 DEF TypeOK
  <2>4. \A s, k : IsPathSeq(s, k)' <=> IsPathSeq(s, k)
    BY <2>1 DEF IsPathSeq
  <2>5. \A k : EndsBefore(k)' = EndsBefore(k)
    BY <2>1 DEF EndsBefore
  <2>6. PathSeqRestarts'
    <3> SUFFICES ASSUME shape \in PathShapes, NEW p \in 1 .. (Len(out) + 1)
                 PROVE  IsPathSeq(out'[p].path_seq, p)
      BY <2>1, <2>3 DEF PathSeqRestarts, IsPathSeq
    <3>1. CASE p \in 1 .. Len(out)
      BY <1>0, <1>3, <2>3, <3>1 DEF PathSeqRestarts
    <3>2. CASE p = Len(out) + 1
      BY <1>0, <1>3, <3>2 DEF PathNumbers
    <3> QED BY <2>3, <3>1, <3>2
  <2>7. PathIdCounts'
    <3> SUFFICES ASSUME shape = "KSP", NEW p \in 1 .. (Len(out) + 1)
                 PROVE  out'[p].path_id = 1 + Cardinality(EndsBefore(p))
      BY <2>1, <2>3 DEF PathIdCounts, EndsBefore
    <3>1. CASE p \in 1 .. Len(out)
      BY <1>0, <1>3, <2>3, <3>1 DEF PathIdCounts
    <3>2. CASE p = Len(out) + 1
      BY <1>0, <1>3, <3>2 DEF PathNumbers
    <3> QED BY <2>3, <3>1, <3>2
  <2>8. shape \in PathShapes => IsPathSeq(emit'.next_path_seq, K + 1)
    <3> SUFFICES ASSUME shape \in PathShapes PROVE IsPathSeq(emit'.next_path_seq, K + 1)
      OBVIOUS
    <3>1. IsPathSeq(emit.next_path_seq, K) /\ emit.next_path_seq \in Nat
      BY <1>0, <2>2 DEF PathNumbers, TypeOK
    <3> QED BY <1>3, <2>2, <3>1, PathSeqFollows
  <2>9. shape = "KSP" => emit'.next_path_id = 1 + Cardinality(EndsBefore(K + 1))
    <3> SUFFICES ASSUME shape = "KSP"
                 PROVE  emit'.next_path_id = 1 + Cardinality(EndsBefore(K + 1))
      OBVIOUS
    <3>1. emit.next_path_id = 1 + Cardinality(EndsBefore(K)) /\ Cardinality(EndsBefore(K)) \in Nat
      BY <1>0, <2>2, EndsFinite DEF PathNumbers
    <3>2. Cardinality(EndsBefore(K + 1)) =
            IF rows[K].edge = -1 THEN Cardinality(EndsBefore(K)) + 1
                                 ELSE Cardinality(EndsBefore(K))
      BY <2>2, EndsGrow
    <3>3. emit'.next_path_id = NextPathId(emit.next_path_id, rows[K].edge)
      BY <1>3
    <3> QED BY <3>1, <3>2, <3>3 DEF NextPathId
  <2>10. PathNumbers'
    BY <1>3, <2>1, <2>2, <2>8, <2>9 DEF PathNumbers, IsPathSeq, EndsBefore
  <2> QED BY <2>6, <2>7, <2>10
<1>4. CASE EmitPath
  <2>1. /\ RowStep /\ shape = "PATH"
        /\ out' = Append(out, Written(emit.next_path_seq, 0, 0, 0))
        /\ emit' = Numbers(NextPathSeq(emit.next_path_seq, rows[K].edge), emit.next_path_id)
        /\ size' = size
    BY <1>4 DEF EmitPath
  <2>2. /\ emit' \in [offset : Nat, next_path_seq : Nat, next_path_id : Nat]
        /\ emit'.offset = emit.offset
        /\ emit'.next_path_seq = NextPathSeq(emit.next_path_seq, rows[K].edge)
        /\ emit.next_path_seq \in Nat
    BY <1>0, <2>1 DEF TypeOK, Numbers, NextPathSeq
  <2>3. size' \in Nat
    BY <1>0, <2>1 DEF TypeOK
  <2>4. /\ TypeOK' /\ Place' /\ SeqCountsRows'
        /\ Len(out') = Len(out) + 1
        /\ \A p \in 1 .. Len(out) : out'[p] = out[p]
        /\ out'[Len(out) + 1].path_seq = emit.next_path_seq
        /\ out'[Len(out) + 1].path_id = 0
    BY <2>1, <2>2, <2>3, RowWritten
  <2>5. PathSeqRestarts' /\ PathIdCounts' /\ PathNumbers'
    BY <1>3, <2>1, <2>2, <2>4
  <2> QED BY <2>4, <2>5 DEF EInv
<1>5. CASE EmitKsp
  <2>1. /\ RowStep /\ shape = "KSP"
        /\ out' = Append(out, Written(emit.next_path_seq, emit.next_path_id, 0, 0))
        /\ emit' = Numbers(NextPathSeq(emit.next_path_seq, rows[K].edge),
                           NextPathId(emit.next_path_id, rows[K].edge))
        /\ size' = size
    BY <1>5 DEF EmitKsp
  <2>2. /\ emit' \in [offset : Nat, next_path_seq : Nat, next_path_id : Nat]
        /\ emit'.offset = emit.offset
        /\ emit'.next_path_seq = NextPathSeq(emit.next_path_seq, rows[K].edge)
        /\ emit'.next_path_id = NextPathId(emit.next_path_id, rows[K].edge)
        /\ emit.next_path_seq \in Nat /\ emit.next_path_id \in Nat
    BY <1>0, <2>1 DEF TypeOK, Numbers, NextPathSeq, NextPathId
  <2>3. size' \in Nat
    BY <1>0, <2>1 DEF TypeOK
  <2>4. /\ TypeOK' /\ Place' /\ SeqCountsRows'
        /\ Len(out') = Len(out) + 1
        /\ \A p \in 1 .. Len(out) : out'[p] = out[p]
        /\ out'[Len(out) + 1].path_seq = emit.next_path_seq
        /\ out'[Len(out) + 1].path_id = emit.next_path_id
    BY <2>1, <2>2, <2>3, RowWritten
  <2>5. PathSeqRestarts' /\ PathIdCounts' /\ PathNumbers'
    BY <1>3, <2>1, <2>2, <2>4
  <2> QED BY <2>4, <2>5 DEF EInv
<1>6. CASE EmitRoutes \/ EmitFlatRow \/ EmitListRow
  <2>1. PICK path_seq \in Nat, first \in Nat, length \in Nat :
          /\ RowStep /\ shape \notin PathShapes
          /\ out' = Append(out, Written(path_seq, 0, first, length))
          /\ emit' = emit
          /\ size' \in Nat
    <3>1. CASE EmitFlatRow
      BY <1>0, <3>1 DEF EmitFlatRow, TypeOK
    <3>2. CASE EmitListRow
      <4>1. rows[K].own \in Nat /\ size \in Nat
        BY <1>0, <3>2, RowAtHand DEF EmitListRow, TypeOK
      <4> QED BY <3>2, <4>1 DEF EmitListRow, ListStart, ListShapes, PathShapes
    <3>3. CASE EmitRoutes
      <4>1. rows[K].own + 1 \in Nat /\ size \in Nat
        BY <1>0, <3>3, RowAtHand DEF EmitRoutes, TypeOK
      <4> QED BY <3>3, <4>1 DEF EmitRoutes, PathShapes
    <3> QED BY <1>6, <3>1, <3>2, <3>3
  <2>2. /\ emit' \in [offset : Nat, next_path_seq : Nat, next_path_id : Nat]
        /\ emit'.offset = emit.offset
    BY <1>0, <2>1 DEF TypeOK
  <2>3. /\ TypeOK' /\ Place' /\ SeqCountsRows'
        /\ Len(out') = Len(out) + 1
        /\ \A p \in 1 .. Len(out) : out'[p] = out[p]
        /\ out'[Len(out) + 1].path_seq = path_seq
        /\ out'[Len(out) + 1].path_id = 0
    BY <2>1, <2>2, RowWritten
  <2>4. shape # "KSP"
    BY <2>1 DEF PathShapes
  <2>5. PathSeqRestarts' /\ PathIdCounts' /\ PathNumbers'
    BY <1>3, <2>1, <2>3, <2>4
  <2> QED BY <2>3, <2>5 DEF EInv
<1>7. CASE CastThrows
  <2>1. pc' = "failed" /\ UNCHANGED <<shape, rows, emit, n, i, size, out, results>>
    BY <1>7 DEF CastThrows
  <2>2. TypeOK'
    BY <1>0, <2>1 DEF TypeOK
  <2>3. Place'
    BY <1>0, <2>1 DEF Place
  <2>4. SeqCountsRows' /\ PathSeqRestarts' /\ PathIdCounts' /\ PathNumbers'
    BY <1>0, <2>1 DEF SeqCountsRows, PathSeqRestarts, PathIdCounts, PathNumbers, IsPathSeq,
       EndsBefore
  <2> QED BY <2>2, <2>3, <2>4 DEF EInv
<1>8. CASE EndChunk
  <2>1. /\ i = n /\ i' = 0 /\ n' = 0
        /\ emit' = [offset |-> emit.offset + n, next_path_seq |-> emit.next_path_seq,
                    next_path_id |-> emit.next_path_id]
        /\ pc' = IF emit.offset + n < Len(rows) THEN "call" ELSE "idle"
        /\ UNCHANGED <<shape, rows, size, out, results>>
    BY <1>8 DEF EndChunk, MoreOutput
  <2>2. TypeOK'
    BY <1>0, <2>1 DEF TypeOK
  <2>3. Len(rows) \in Nat /\ emit.offset \in Nat /\ n \in Nat
    BY <1>0 DEF TypeOK
  <2>4. Place'
    BY <1>0, <2>1, <2>3 DEF Place
  <2>5. emit'.next_path_seq = emit.next_path_seq /\ emit'.next_path_id = emit.next_path_id
    BY <2>1
  <2>6. SeqCountsRows' /\ PathSeqRestarts' /\ PathIdCounts' /\ PathNumbers'
    BY <1>0, <2>1, <2>5 DEF SeqCountsRows, PathSeqRestarts, PathIdCounts, PathNumbers, IsPathSeq,
       EndsBefore
  <2> QED BY <2>2, <2>4, <2>6 DEF EInv
<1>9. CASE UNCHANGED vars
  <2>1. UNCHANGED <<shape, rows, emit, n, i, size, out, results, pc>>
    BY <1>9 DEF vars
  <2>2. TypeOK' /\ Place'
    BY <1>0, <2>1 DEF TypeOK, Place
  <2>3. SeqCountsRows' /\ PathSeqRestarts' /\ PathIdCounts' /\ PathNumbers'
    BY <1>0, <2>1 DEF SeqCountsRows, PathSeqRestarts, PathIdCounts, PathNumbers, IsPathSeq,
       EndsBefore
  <2> QED BY <2>2, <2>3 DEF EInv
<1> QED BY <1>1, <1>2, <1>4, <1>5, <1>6, <1>7, <1>8, <1>9 DEF Next

-----------------------------------------------------------------------------
(* The theorems. *)

\* EInv holds of every chunk of every result.
LEMMA EmitInvariance == Spec => []EInv
BY InitEmit, EmitStep, PTL DEF Spec

\* The columns have the types ShapeColumns gives them.
THEOREM EmitTypeCorrect == Spec => []TypeOK
<1>1. EInv => TypeOK
  BY DEF EInv
<1> QED BY EmitInvariance, <1>1, PTL

\* Rows leave once, in order, and numbered across chunks; no seq wraps.
THEOREM RowsAreCounted == Spec => []SeqCountsRows
<1>1. EInv => SeqCountsRows
  BY DEF EInv
<1> QED BY EmitInvariance, <1>1, PTL

\* path_seq is the place of a row in its path, wherever chunks are cut.
THEOREM PathsAreNumbered == Spec => []PathSeqRestarts
<1>1. EInv => PathSeqRestarts
  BY DEF EInv
<1> QED BY EmitInvariance, <1>1, PTL

\* path_id is one more than the number of paths that ended before the row.
THEOREM PathsAreCounted == Spec => []PathIdCounts
<1>1. EInv => PathIdCounts
  BY DEF EInv
<1> QED BY EmitInvariance, <1>1, PTL

\* A row's numbers are those of its place in the answer and in its path.
THEOREM RowsAreNumbered == Spec => []RowsNumbered
<1>1. EInv => RowsNumbered
  BY DEF EInv, RowsNumbered
<1> QED BY EmitInvariance, <1>1, PTL

\* An answer is complete when ExecFunction asks for the next input.
THEOREM AnswersAreComplete == Spec => []NothingLeftBehind
<1>1. EInv => NothingLeftBehind
  BY DEF EInv, TypeOK, Place, NothingLeftBehind
<1> QED BY EmitInvariance, <1>1, PTL

\* (path_id, path_seq) is a key of a K shortest paths answer.
THEOREM PathKeysGrow == Spec => []KeysGrow
<1>1. EInv => KeysGrow
  <2> SUFFICES ASSUME EInv, shape = "KSP", \A k \in DOMAIN rows : rows[k].edge >= -1,
                      NEW p \in DOMAIN out, NEW q \in DOMAIN out, p < q,
                      ~(out[p].path_id < out[q].path_id)
               PROVE  /\ out[p].path_id = out[q].path_id
                      /\ out[p].path_seq < out[q].path_seq
    BY DEF KeysGrow
  <2>1. TypeOK /\ Place /\ PathSeqRestarts /\ PathIdCounts
    BY DEF EInv
  <2>2. p \in Nat /\ q \in Nat /\ 1 <= p /\ q <= Len(rows) /\ Len(rows) \in Nat
    BY <2>1 DEF TypeOK, Place
  <2>3. /\ IsFiniteSet(EndsBefore(q))
        /\ Cardinality(EndsBefore(p)) \in Nat /\ Cardinality(EndsBefore(q)) \in Nat
    BY <2>2, EndsFinite
  <2>4. EndsBefore(p) \subseteq EndsBefore(q)
    BY <2>2 DEF EndsBefore
  <2>5. /\ out[p].path_id = 1 + Cardinality(EndsBefore(p))
        /\ out[q].path_id = 1 + Cardinality(EndsBefore(q))
    BY <2>1 DEF PathIdCounts
  <2>6. /\ Cardinality(EndsBefore(p)) <= Cardinality(EndsBefore(q))
        /\ Cardinality(EndsBefore(p)) = Cardinality(EndsBefore(q)) =>
             EndsBefore(p) = EndsBefore(q)
    BY <2>3, <2>4, FS_Subset
  <2>7. /\ Cardinality(EndsBefore(p)) = Cardinality(EndsBefore(q))
        /\ out[p].path_id = out[q].path_id
    BY <2>3, <2>5, <2>6
  <2>8. ASSUME NEW j \in p .. (q - 1) PROVE rows[j].edge >= 0
    <3>1. j \in DOMAIN rows /\ j \in 1 .. (q - 1)
      BY <2>1, <2>2 DEF TypeOK
    <3>2. j \notin EndsBefore(p)
      BY <2>2 DEF EndsBefore
    <3>3. rows[j].edge # -1
      BY <2>6, <2>7, <3>1, <3>2 DEF EndsBefore
    <3>4. rows[j].edge \in Int
      BY <2>1, <3>1, EdgeIsId
    <3> QED BY <3>1, <3>3, <3>4
  <2> DEFINE sp == out[p].path_seq
             sq == out[q].path_seq
  <2>9. IsPathSeq(sp, p) /\ IsPathSeq(sq, q)
    BY <2>1 DEF PathSeqRestarts, PathShapes
  <2> HIDE DEF sp, sq
  <2>10. sp < sq
    <3> SUFFICES ASSUME ~(sp < sq) PROVE FALSE
      OBVIOUS
    <3>1. sp \in 1 .. p /\ sq \in 1 .. q /\ sq <= sp
      BY <2>2, <2>9 DEF IsPathSeq
    <3>2. rows[q - sq].edge < 0
      BY <2>2, <2>9, <3>1 DEF IsPathSeq
    <3>3. q - sq \in p .. (q - 1) \/ q - sq \in (p - sp + 1) .. (p - 1)
      BY <2>2, <3>1
    <3>4. rows[q - sq].edge >= 0
      BY <2>8, <2>9, <3>3 DEF IsPathSeq
    <3>5. q - sq \in DOMAIN rows
      BY <2>1, <2>2, <3>1, <3>3 DEF TypeOK
    <3>6. rows[q - sq].edge \in Int
      BY <2>1, <3>5, EdgeIsId
    <3> QED BY <3>2, <3>4, <3>6
  <2> QED BY <2>7, <2>10 DEF sp, sq
<1> QED BY EmitInvariance, <1>1, PTL

-----------------------------------------------------------------------------
(* The lists. *)

\* The list a row written refers to is given by natural numbers.
LEMMA OutIsRow ==
  ASSUME TypeOK, NEW p \in DOMAIN out
  PROVE  out[p].first \in Nat /\ out[p].length \in Nat /\ out[p].chunk_offset \in Nat
<1>1. out[p] \in OutRow
  BY DEF TypeOK
<1> QED BY <1>1 DEF OutRow

\* Rows after the offset are this chunk's, and their lists lie before size.
Lists ==
  /\ \A p \in DOMAIN out :
       IF p > emit.offset THEN out[p].chunk_offset = emit.offset
                          ELSE out[p].chunk_offset < emit.offset
  /\ shape \in ListShapes =>
       \A p \in DOMAIN out : p > emit.offset => out[p].first + out[p].length <= size
  /\ ListsDisjoint

\* No two lists of a chunk share a position of its child vector.
THEOREM ListsStayApart == Spec => []ListsDisjoint
<1>1. Init => Lists
  BY DEF Init, Lists, ListsDisjoint
<1>2. EInv /\ Lists /\ [Next]_vars => Lists'
  <2> SUFFICES ASSUME EInv, Lists, [Next]_vars PROVE Lists'
    OBVIOUS
  <2>0. TypeOK /\ Place
    BY DEF EInv
  <2>1. CASE NewResult
    <3>1. out' = <<>>
      BY <2>1 DEF NewResult
    <3> QED BY <3>1 DEF Lists, ListsDisjoint
  <2>2. CASE StartChunk
    <3>1. Len(out) = emit.offset
      BY <2>0, <2>2 DEF Place, StartChunk, TypeOK
    <3>2. \A p \in DOMAIN out : ~(p > emit.offset)
      BY <2>0, <3>1 DEF TypeOK
    <3> QED BY <2>2, <3>2 DEF Lists, ListsDisjoint, StartChunk
  <2>3. CASE EndChunk
    <3>1. /\ emit'.offset = emit.offset + n
          /\ emit.offset \in Nat /\ n \in Nat
          /\ Len(out) = emit.offset + n
          /\ UNCHANGED <<shape, out, size>>
      BY <2>0, <2>3 DEF EndChunk, MoreOutput, TypeOK, Place
    <3>2. ASSUME NEW p \in DOMAIN out
          PROVE  ~(p > emit'.offset) /\ out[p].chunk_offset < emit'.offset
      <4>1. p \in Nat /\ p <= emit.offset + n
        BY <2>0, <3>1 DEF TypeOK
      <4>3. out[p].chunk_offset \in Nat
        BY <2>0, OutIsRow
      <4>2. IF p > emit.offset THEN out[p].chunk_offset = emit.offset
                               ELSE out[p].chunk_offset < emit.offset
        BY DEF Lists
      <4> QED BY <3>1, <4>1, <4>2, <4>3
    <3> QED BY <3>1, <3>2 DEF Lists, ListsDisjoint
  <2>4. ASSUME RowStep, NEW first \in Nat, NEW length \in Nat, NEW ps, NEW pid,
               out' = Append(out, Written(ps, pid, first, length)),
               emit'.offset = emit.offset,
               shape \in ListShapes => first = size /\ size' = size + length
        PROVE  Lists'
    <3>1. K = Len(out) + 1 /\ K \in Nat \ {0}
      BY <2>4, RowAtHand
    <3> DEFINE w == Written(ps, pid, first, length)
    <3>2. w.chunk_offset = emit.offset /\ w.first = first /\ w.length = length
      BY DEF Written
    <3> HIDE DEF w
    <3>3. out' = Append(out, w)
      BY <2>4 DEF w
    <3>4. /\ DOMAIN out' = 1 .. (Len(out) + 1) /\ DOMAIN out = 1 .. Len(out)
          /\ Len(out) \in Nat
          /\ \A p \in 1 .. Len(out) : out'[p] = out[p]
          /\ out'[Len(out) + 1] = w
      BY <2>0, <3>3 DEF TypeOK
    <3>5. Len(out) + 1 > emit.offset
      BY <2>0 DEF Place, TypeOK
    <3>6. shape' = shape
      BY <2>4 DEF RowStep
    <3>7. \A p \in 1 .. Len(out) :
            out[p].first \in Nat /\ out[p].length \in Nat /\ out[p].chunk_offset \in Nat
      BY <2>0, <3>4, OutIsRow
    <3>8. size \in Nat
      BY <2>0 DEF TypeOK
    <3>9. ASSUME NEW p \in DOMAIN out'
          PROVE  IF p > emit'.offset THEN out'[p].chunk_offset = emit'.offset
                                     ELSE out'[p].chunk_offset < emit'.offset
      <4>1. CASE p \in 1 .. Len(out)
        BY <2>4, <3>4, <4>1 DEF Lists
      <4>2. CASE p = Len(out) + 1
        BY <2>4, <3>2, <3>4, <3>5, <4>2
      <4> QED BY <3>4, <4>1, <4>2
    <3>10. ASSUME shape \in ListShapes, NEW p \in DOMAIN out', p > emit'.offset
           PROVE  out'[p].first + out'[p].length <= size'
      <4>1. CASE p \in 1 .. Len(out)
        <5>1. out[p].first + out[p].length <= size
          BY <2>4, <3>4, <3>10, <4>1 DEF Lists
        <5>2. out'[p] = out[p] /\ size' = size + length
          BY <2>4, <3>4, <3>10, <4>1
        <5>3. out[p].first + out[p].length \in Nat /\ length \in Nat
          BY <2>4, <3>7, <4>1
        <5>4. \A a, b, c \in Nat : a <= b => a <= b + c
          OBVIOUS
        <5>5. out[p].first + out[p].length <= size + length
          BY <3>8, <5>1, <5>3, <5>4, Zenon
        <5> QED BY <5>2, <5>5
      <4>2. CASE p = Len(out) + 1
        BY <2>4, <3>2, <3>4, <3>8, <3>10, <4>2
      <4> QED BY <3>4, <4>1, <4>2
    <3>11. ASSUME shape \in ListShapes, NEW p \in DOMAIN out', NEW q \in DOMAIN out', p < q,
                  out'[p].chunk_offset = out'[q].chunk_offset
           PROVE  out'[p].first + out'[p].length <= out'[q].first
      <4>1. p \in 1 .. Len(out)
        BY <3>4, <3>11
      <4>2. CASE q \in 1 .. Len(out)
        BY <3>4, <3>11, <4>1, <4>2 DEF Lists, ListsDisjoint
      <4>3. CASE q = Len(out) + 1
        <5>1. out[p].chunk_offset = emit.offset
          BY <3>2, <3>4, <3>11, <4>1, <4>3
        <5>2. p > emit.offset
          BY <2>0, <3>4, <3>7, <4>1, <5>1 DEF Lists, TypeOK
        <5>3. out[p].first + out[p].length <= size
          BY <3>4, <3>11, <4>1, <5>2 DEF Lists
        <5> QED BY <2>4, <3>2, <3>4, <3>11, <4>1, <4>3, <5>3
      <4> QED BY <3>4, <4>2, <4>3
    <3> QED BY <3>6, <3>9, <3>10, <3>11 DEF Lists, ListsDisjoint
  <2>5. CASE EmitPath
    BY <2>4, <2>5 DEF EmitPath, Numbers, ListShapes
  <2>6. CASE EmitKsp
    BY <2>4, <2>6 DEF EmitKsp, Numbers, ListShapes
  <2>7. CASE EmitFlatRow
    BY <2>4, <2>7 DEF EmitFlatRow
  <2>10. CASE EmitRoutes
    <3>1. shape \notin ListShapes
      BY <2>10 DEF EmitRoutes, ListShapes
    <3> QED BY <2>4, <2>10, <3>1 DEF EmitRoutes
  <2>8. CASE EmitListRow
    <3>1. rows[K].own \in Nat /\ size \in Nat
      BY <2>0, <2>8, RowAtHand DEF EmitListRow, TypeOK
    <3> QED BY <2>4, <2>8, <3>1 DEF EmitListRow, ListStart
  <2>9. CASE CastThrows \/ UNCHANGED vars
    <3>1. UNCHANGED <<shape, emit, size, out>>
      BY <2>9 DEF CastThrows, vars
    <3> QED BY <3>1 DEF Lists, ListsDisjoint
  <2> QED BY <2>1, <2>2, <2>3, <2>5, <2>6, <2>7, <2>8, <2>9, <2>10 DEF Next
<1>3. Lists => ListsDisjoint
  BY DEF Lists
<1> QED BY EmitInvariance, <1>1, <1>2, <1>3, PTL DEF Spec

=============================================================================
