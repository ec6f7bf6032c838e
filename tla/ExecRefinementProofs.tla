------------------------ MODULE ExecRefinementProofs ------------------------
(***************************************************************************)
(* Exec implements RoutingCall, for any number of threads, calls, contexts *)
(* and inputs: what a caller of _pgr_exec may rely on follows from the     *)
(* steps of exec_function.cpp and exec_common.cpp, nested drivers included.*)
(*                                                                         *)
(* The inductive invariant of ExecProofs says what a driver can reach; the *)
(* refinement also needs to know where the rows of the present answer are  *)
(* between two calls of ExecFunction.  Answers says it.                    *)
(***************************************************************************)
EXTENDS ExecProofs, SequenceTheorems

\* ran says whether the present input is answered or being answered; rows that
\* are held are those of the present chunk, and some are left while the call is
\* to be called again.
AnswerOf(c) ==
  /\ pc[c] # "gone" => outcome[c] = "none"
  /\ pc[c] = "idle" => ~ran[c]
  /\ pc[c] \in Active => ran[c]
  /\ driver[c].rows <= MaxRows
  /\ result[c].count <= MaxRows
  /\ ran[c] /\ pc[c] \in {"emit", "fed"} => emit[c] < result[c].count \/ result[c].count = 0
  /\ ran[c] /\ result[c].count > 0 => result[c].from = chunk[c]

Answers == \A c \in Calls : AnswerOf(c)

RInv == IInv /\ Answers

-----------------------------------------------------------------------------
(* The invariant. *)

\* A call that was not fed has no rows to give.
LEMMA InitAnswers == Init => Answers
BY ExecAssumption DEF Init, Answers, AnswerOf, Active, InScope, NoDriver, NoResult

\* A step that concerns one call leaves what Answers says of the others.
LEMMA OthersAnswers ==
  ASSUME Answers, NEW c \in Calls,
         \A d \in Calls : d # c =>
           /\ pc'[d] = pc[d] /\ outcome'[d] = outcome[d] /\ ran'[d] = ran[d]
           /\ driver'[d] = driver[d] /\ result'[d] = result[d] /\ emit'[d] = emit[d]
           /\ chunk'[d] = chunk[d],
         AnswerOf(c)'
  PROVE  Answers'
<1> SUFFICES ASSUME NEW d \in Calls, d # c PROVE AnswerOf(d)'
  BY DEF Answers
<1> QED BY DEF Answers, AnswerOf

\* An exception leaves nothing to be given.
LEMMA ThrowAnswers ==
  ASSUME TypeOK, Answers, NEW t \in Threads, NEW c \in Calls, NEW why, Throw(t, c, why),
         chunk' = chunk, driver' = driver \/ driver' = [driver EXCEPT ![c] = NoDriver]
  PROVE  Answers'
<1>1. /\ pc' = [pc EXCEPT ![c] = "gone"]
      /\ outcome' = [outcome EXCEPT ![c] = why]
      /\ ran' = [ran EXCEPT ![c] = FALSE]
      /\ result' = [result EXCEPT ![c] = NoResult]
      /\ emit' = [emit EXCEPT ![c] = 0]
  BY DEF Throw, Goto
<1>2. AnswerOf(c)'
  BY <1>1, ExecAssumption DEF TypeOK, Answers, AnswerOf, Active, InScope, NoDriver, NoResult
<1> QED BY <1>1, <1>2, OthersAnswers DEF TypeOK

\* A step inside ExecFunction that leaves the rows and the offset alone.
LEMMA MoveAnswers ==
  ASSUME TypeOK, Answers, NEW c \in Calls, pc[c] \in Active,
         NEW label \in Active, Goto(c, label),
         UNCHANGED <<outcome, ran, driver, result, emit, chunk>>,
         label = "emit" => result[c].count = 0
  PROVE  Answers'
<1>1. pc' = [pc EXCEPT ![c] = label]
  BY DEF Goto
<1>2. AnswerOf(c)'
  BY <1>1 DEF TypeOK, Answers, AnswerOf, Active, InScope
<1> QED BY <1>1, <1>2, OthersAnswers DEF TypeOK

\* Every step of Exec keeps the place of the present answer's rows.
LEMMA AnswersStep == RInv /\ [Next]_vars => Answers'
<1> SUFFICES ASSUME RInv, [Next]_vars PROVE Answers'
  OBVIOUS
<1>0. TypeOK /\ Answers /\ Emission
  BY DEF RInv, IInv
<1>a. {"run", "materialize", "install", "driver", "leave", "report", "emit"} \subseteq Active
  BY DEF Active, InScope
<1>1. ASSUME NEW c \in Calls, FeedInput(c) PROVE Answers'
  <2>1. /\ pc[c] = "idle" /\ pc' = [pc EXCEPT ![c] = "fed"]
        /\ chunk' = [chunk EXCEPT ![c] = @ + 1]
        /\ UNCHANGED <<outcome, ran, driver, result, emit>>
    BY <1>1 DEF FeedInput, Goto, state, history
  <2>2. AnswerOf(c)'
    BY <1>0, <2>1 DEF TypeOK, Answers, AnswerOf, Active, InScope
  <2> QED BY <1>0, <2>1, <2>2, OthersAnswers DEF TypeOK
<1>2. ASSUME NEW c \in Calls, DestroyState(c) PROVE Answers'
  <2>1. /\ pc' = [pc EXCEPT ![c] = "gone"]
        /\ outcome' = [outcome EXCEPT ![c] = "closed"]
        /\ ran' = [ran EXCEPT ![c] = FALSE]
        /\ result' = [result EXCEPT ![c] = NoResult]
        /\ emit' = [emit EXCEPT ![c] = 0]
        /\ UNCHANGED <<driver, chunk>>
    BY <1>2 DEF DestroyState, Goto, executor
  <2>2. AnswerOf(c)'
    BY <1>0, <2>1, ExecAssumption DEF TypeOK, Answers, AnswerOf, Active, InScope, NoResult
  <2> QED BY <1>0, <2>1, <2>2, OthersAnswers DEF TypeOK
<1>3. ASSUME NEW x \in Contexts, Interrupt(x) PROVE Answers'
  BY <1>0, <1>3 DEF Interrupt, state, history, Answers, AnswerOf
<1>4. ASSUME NEW t \in Threads, NEW c \in Calls, StartExec(t, c) PROVE Answers'
  <2>1. /\ pc[c] = "fed" /\ pc' = [pc EXCEPT ![c] = "run"]
        /\ ran' = [ran EXCEPT ![c] = TRUE]
        /\ result' = [result EXCEPT ![c] = NoResult]
        /\ emit' = [emit EXCEPT ![c] = 0]
        /\ UNCHANGED <<outcome, driver, chunk>>
    BY <1>4 DEF StartExec, Push, StartOffset, Goto, history
  <2>2. AnswerOf(c)'
    BY <1>0, <2>1, ExecAssumption DEF TypeOK, Answers, AnswerOf, Active, InScope, NoResult
  <2> QED BY <1>0, <2>1, <2>2, OthersAnswers DEF TypeOK
<1>5. ASSUME NEW t \in Threads, NEW c \in Calls, ResumeExec(t, c) PROVE Answers'
  <2>1. /\ pc[c] = "fed" /\ pc' = [pc EXCEPT ![c] = "emit"] /\ ran[c]
        /\ UNCHANGED <<outcome, ran, result, emit, driver, chunk>>
    BY <1>5 DEF ResumeExec, Push, Goto, state, history
  <2>2. AnswerOf(c)'
    BY <1>0, <2>1 DEF TypeOK, Answers, AnswerOf, Active, InScope
  <2> QED BY <1>0, <2>1, <2>2, OthersAnswers DEF TypeOK
<1>6. ASSUME NEW t \in Threads, NEW c \in Calls, running[t] = c, RunOnce(t, c) PROVE Answers'
  <2>1. pc[c] = "run" /\ UNCHANGED <<chunk, driver>>
    BY <1>6 DEF RunOnce
  <2>2. CASE Throw(t, c, "invalid_input")
    BY <1>0, <2>1, <2>2, ThrowAnswers
  <2>3. CASE Goto(c, "emit") /\ UNCHANGED <<state, outcome>>
    <3>1. result[c].count = 0
      BY <1>0, <2>1 DEF Emission, Active, NoResult
    <3> QED BY <1>0, <1>a, <2>1, <2>3, <3>1, MoveAnswers DEF state
  <2>4. CASE Goto(c, "materialize") /\ UNCHANGED <<state, outcome>>
    BY <1>0, <1>a, <2>1, <2>4, MoveAnswers DEF state
  <2> QED BY <1>6, <2>2, <2>3, <2>4 DEF RunOnce
<1>7. ASSUME NEW t \in Threads, NEW c \in Calls, running[t] = c, MaterializeInputSlots(t, c)
      PROVE  Answers'
  <2>1. pc[c] = "materialize" /\ UNCHANGED <<chunk, driver>>
    BY <1>7 DEF MaterializeInputSlots
  <2>2. CASE Throw(t, c, "invalid_input")
    BY <1>0, <2>1, <2>2, ThrowAnswers
  <2>3. CASE Goto(c, "install") /\ UNCHANGED <<ran, result, emit, outcome>>
    BY <1>0, <1>a, <2>1, <2>3, MoveAnswers
  <2> QED BY <1>7, <2>2, <2>3 DEF MaterializeInputSlots
<1>8. ASSUME NEW t \in Threads, NEW c \in Calls, InstallScope(t, c) PROVE Answers'
  <2>1. pc[c] = "install" /\ Goto(c, "driver")
        /\ UNCHANGED <<outcome, ran, driver, result, emit, chunk>>
    BY <1>8 DEF InstallScope, executor, state, history
  <2> QED BY <1>0, <1>a, <2>1, MoveAnswers
<1>9. ASSUME NEW t \in Threads, NEW c \in Calls, LookupInput(t, c) \/ CheckForInterrupts(t, c)
      PROVE  Answers'
  <2>1. UNCHANGED <<pc, outcome, ran, driver, result, emit, chunk>>
    BY <1>9 DEF LookupInput, CheckForInterrupts, executor, state
  <2> QED BY <1>0, <2>1 DEF Answers, AnswerOf
<1>10. ASSUME NEW t \in Threads, NEW c \in Calls, DriverReturns(t, c) PROVE Answers'
  <2>1. PICK n \in 0 .. MaxRows, e \in DriverErrors :
          driver' = [driver EXCEPT ![c] = [rows |-> n, err |-> e]]
    BY <1>10 DEF DriverReturns
  <2>2. /\ pc[c] = "driver" /\ pc' = [pc EXCEPT ![c] = "leave"]
        /\ UNCHANGED <<outcome, ran, result, emit, chunk>>
    BY <1>10 DEF DriverReturns, Goto, executor, state, history
  <2>3. AnswerOf(c)'
    BY <1>0, <2>1, <2>2, ExecAssumption DEF TypeOK, Answers, AnswerOf, Active, InScope
  <2> QED BY <1>0, <2>1, <2>2, <2>3, OthersAnswers DEF TypeOK
<1>11. ASSUME NEW t \in Threads, NEW c \in Calls, LeaveScope(t, c) PROVE Answers'
  <2>1. pc[c] = "leave" /\ UNCHANGED chunk
    BY <1>11 DEF LeaveScope
  <2>2. CASE /\ Throw(t, c, "interrupted") \/ Throw(t, c, "bad_alloc")
             /\ driver' = [driver EXCEPT ![c] = NoDriver]
    BY <1>0, <2>1, <2>2, ThrowAnswers
  <2>3. CASE Goto(c, "report") /\ UNCHANGED <<state, outcome, driver>>
    BY <1>0, <1>a, <2>1, <2>3, MoveAnswers DEF state
  <2> QED BY <1>11, <2>2, <2>3 DEF LeaveScope
<1>12. ASSUME NEW t \in Threads, NEW c \in Calls, ReportDriver(t, c) PROVE Answers'
  <2>1. pc[c] = "report" /\ UNCHANGED chunk /\ driver' = [driver EXCEPT ![c] = NoDriver]
    BY <1>12 DEF ReportDriver
  <2>2. CASE Throw(t, c, ExceptionFor(driver[c].err))
    BY <1>0, <2>1, <2>2, ThrowAnswers
  <2>3. CASE /\ result' = [result EXCEPT ![c] = [from |-> chunk[c], count |-> driver[c].rows]]
             /\ Goto(c, "emit")
             /\ UNCHANGED <<ran, emit, outcome>>
    <3>1. emit[c] = 0 /\ driver[c].rows \in Nat /\ ran[c]
      BY <1>0, <2>1 DEF Emission, Active, TypeOK, Answers, AnswerOf
    <3>2. AnswerOf(c)'
      BY <1>0, <2>1, <2>3, <3>1, ExecAssumption
      DEF TypeOK, Answers, AnswerOf, Active, InScope, NoDriver, Goto
    <3> QED BY <1>0, <2>1, <2>3, <3>2, OthersAnswers DEF TypeOK, Goto
  <2> QED BY <1>12, <2>2, <2>3 DEF ReportDriver
<1>13. ASSUME NEW t \in Threads, NEW c \in Calls, EmitRows(t, c) PROVE Answers'
  <2> DEFINE n == Min2(VectorSize, result[c].count - emit[c])
  <2>1. /\ pc[c] = "emit"
        /\ emit' = [emit EXCEPT ![c] = emit[c] + n]
        /\ UNCHANGED <<chunk, result, driver, outcome>>
    BY <1>13 DEF EmitRows
  <2>2. \/ /\ emit[c] + n < result[c].count
           /\ pc' = [pc EXCEPT ![c] = "fed"]
           /\ ran' = ran
        \/ /\ pc' = [pc EXCEPT ![c] = "idle"]
           /\ ran' = [ran EXCEPT ![c] = FALSE]
    BY <1>13 DEF EmitRows, Goto
  <2> HIDE DEF n
  <2>3. AnswerOf(c)'
    <3>1. CASE /\ emit[c] + n < result[c].count
               /\ pc' = [pc EXCEPT ![c] = "fed"]
               /\ ran' = ran
      BY <1>0, <2>1, <3>1 DEF TypeOK, Answers, AnswerOf, Active, InScope
    <3>2. CASE /\ pc' = [pc EXCEPT ![c] = "idle"]
               /\ ran' = [ran EXCEPT ![c] = FALSE]
      BY <1>0, <2>1, <3>2 DEF TypeOK, Answers, AnswerOf, Active, InScope
    <3> QED BY <2>2, <3>1, <3>2
  <2> QED BY <1>0, <2>1, <2>2, <2>3, OthersAnswers DEF TypeOK
<1>14. CASE UNCHANGED vars
  BY <1>0, <1>14 DEF vars, Answers, AnswerOf
<1> QED
  BY <1>1, <1>2, <1>3, <1>4, <1>5, <1>6, <1>7, <1>8, <1>9, <1>10, <1>11, <1>12, <1>13, <1>14
  DEF Next, ExecStep, DriverStep

\* Where the rows of a call's present answer are, at every moment.
THEOREM AnswersInvariance == Spec => []RInv
<1>1. Init => RInv
  BY InitInvariant, InitAnswers DEF RInv
<1>2. RInv /\ [Next]_vars => RInv'
  BY TypeStep, StacksStep, FramesStep, InputsStep, InterruptsStep, AnswersStep DEF RInv, IInv
<1> QED BY <1>1, <1>2, PTL DEF Spec

-----------------------------------------------------------------------------
(* The initial states and the steps, mapped. *)

\* Initially no input is owed an answer and no row was handed out.
LEMMA InitIsAbstract == Init => Abstract!Init
<1> SUFFICES ASSUME Init PROVE Abstract!Init
  OBVIOUS
<1>1. Answered = [c \in Calls |-> TRUE]
  BY DEF Init, Answered
<1>2. Owed = [c \in Calls |-> 0] /\ Handed = [c \in Calls |-> 0]
  BY DEF Init, Owed, Handed
<1> QED BY <1>1, <1>2 DEF Init, Abstract!Init

\* A step that changes neither what a call has answered nor what it still owes.
LEMMA SameAnswer ==
  ASSUME TypeOK, NEW c \in Calls,
         \A d \in Calls : d # c =>
           pc'[d] = pc[d] /\ ran'[d] = ran[d] /\ result'[d] = result[d] /\ emit'[d] = emit[d]
  PROVE  /\ (Answered[c]' <=> Answered[c]) => Answered' = Answered
         /\ Owed'[c] = Owed[c] => Owed' = Owed
         /\ Handed'[c] = Handed[c] => Handed' = Handed
<1>1. \A d \in Calls : d # c => (Answered[d]' <=> Answered[d])
  BY DEF Answered
<1>2. \A d \in Calls : d # c => Owed'[d] = Owed[d] /\ Handed'[d] = Handed[d]
  BY DEF Owed, Handed
<1>3. ASSUME Answered[c]' <=> Answered[c] PROVE Answered' = Answered
  BY <1>1, <1>3 DEF Answered
<1>4. ASSUME Owed'[c] = Owed[c] PROVE Owed' = Owed
  BY <1>2, <1>4 DEF Owed
<1>5. ASSUME Handed'[c] = Handed[c] PROVE Handed' = Handed
  BY <1>2, <1>5 DEF Handed
<1> QED BY <1>3, <1>4, <1>5

\* An exception is the failure of the present input.
LEMMA ThrowIsFail ==
  ASSUME RInv, NEW t \in Threads, NEW c \in Calls, pc[c] \in Active \ {"emit"},
         NEW why \in Abstract!Failures, Throw(t, c, why),
         why = "interrupted" => interrupted[CtxOf[c]],
         UNCHANGED <<chunk, out, interrupted>>
  PROVE  Abstract!Fail(c, why)
<1>0. TypeOK /\ Emission /\ Answers
  BY DEF RInv, IInv
<1>1. /\ pc' = [pc EXCEPT ![c] = "gone"]
      /\ outcome' = [outcome EXCEPT ![c] = why]
      /\ ran' = [ran EXCEPT ![c] = FALSE]
      /\ result' = [result EXCEPT ![c] = NoResult]
      /\ emit' = [emit EXCEPT ![c] = 0]
  BY DEF Throw, Goto
<1>2. ~Answered[c] /\ outcome[c] = "none"
  BY <1>0 DEF Answered, Answers, AnswerOf, Active, InScope
<1>3. Answered' = [Answered EXCEPT ![c] = TRUE]
  BY <1>0, <1>1 DEF TypeOK, Answered
<1>4. Owed' = Owed /\ Handed' = Handed
  <2>1. Owed[c] = 0 /\ Handed[c] = 0
    BY <1>0 DEF Owed, Handed, Emission, NoResult
  <2>2. Owed'[c] = 0 /\ Handed'[c] = 0
    BY <1>0, <1>1 DEF TypeOK, Owed, Handed
  <2> QED BY <1>0, <1>1, <2>1, <2>2, SameAnswer DEF TypeOK
<1> QED BY <1>1, <1>2, <1>3, <1>4 DEF Abstract!Fail

\* A step inside ExecFunction before the rows are in is not the caller's business.
LEMMA MoveIsStutter ==
  ASSUME RInv, NEW c \in Calls, pc[c] \in Active \ {"emit"},
         NEW label \in Active \ {"emit"}, Goto(c, label),
         UNCHANGED <<chunk, interrupted, ran, result, emit, out, outcome>>
  PROVE  UNCHANGED Abstract!vars
<1>0. TypeOK
  BY DEF RInv, IInv
<1>1. pc' = [pc EXCEPT ![c] = label]
  BY DEF Goto
<1>2. Answered[c]' <=> Answered[c]
  BY <1>0, <1>1 DEF TypeOK, Answered, Active, InScope
<1>3. Owed' = Owed /\ Handed' = Handed
  BY DEF Owed, Handed
<1>4. Answered' = Answered
  BY <1>0, <1>1, <1>2, SameAnswer DEF TypeOK
<1> QED BY <1>3, <1>4 DEF Abstract!vars

\* The rows of the present input are in, all of them still to be given.
LEMMA RowsAreAnswer ==
  ASSUME RInv, NEW c \in Calls, pc[c] \in Active \ {"emit"}, Goto(c, "emit"),
         NEW n \in Nat, result'[c].count = n,
         \A d \in Calls : d # c => result'[d] = result[d],
         UNCHANGED <<chunk, interrupted, ran, emit, out, outcome>>
  PROVE  Abstract!Answer(c, n)
<1>0. TypeOK /\ Emission /\ Answers
  BY DEF RInv, IInv
<1>1. pc' = [pc EXCEPT ![c] = "emit"]
  BY DEF Goto
<1>2. ~Answered[c] /\ outcome[c] = "none" /\ ran[c]
  BY <1>0 DEF Answered, Answers, AnswerOf, Active, InScope
<1>3. Answered' = [Answered EXCEPT ![c] = TRUE]
  BY <1>0, <1>1 DEF TypeOK, Answered
<1>4. Owed' = [Owed EXCEPT ![c] = n]
  BY <1>0, <1>2 DEF Owed
<1>5. Handed' = Handed
  BY DEF Handed
<1> QED BY <1>2, <1>3, <1>4, <1>5 DEF Abstract!Answer

\* One output chunk gives the next rows of the answer; a chunk of no row ends the
\* answer that has none.
LEMMA EmitIsGive ==
  ASSUME RInv, NEW t \in Threads, NEW c \in Calls, EmitRows(t, c)
  PROVE  \/ \E m \in 1 .. MaxRows : Abstract!Give(c, m)
         \/ UNCHANGED Abstract!vars
<1>0. TypeOK /\ Emission /\ Answers
  BY DEF RInv, IInv
<1> DEFINE n == Min2(VectorSize, result[c].count - emit[c])
           more == [i \in 1 .. n |-> <<result[c].from, emit[c] + i>>]
<1>1. /\ pc[c] = "emit"
      /\ out' = [out EXCEPT ![c] = out[c] \o more]
      /\ emit' = [emit EXCEPT ![c] = emit[c] + n]
      /\ UNCHANGED <<chunk, result, outcome, interrupted>>
  BY DEF EmitRows
<1>2. \/ /\ emit[c] + n < result[c].count
         /\ pc' = [pc EXCEPT ![c] = "fed"]
         /\ ran' = ran
      \/ /\ emit[c] + n >= result[c].count
         /\ pc' = [pc EXCEPT ![c] = "idle"]
         /\ ran' = [ran EXCEPT ![c] = FALSE]
  BY DEF EmitRows, Goto
<1>3. /\ result[c].count \in Nat /\ emit[c] \in Nat /\ emit[c] <= result[c].count
      /\ result[c].count <= MaxRows
      /\ ran[c] /\ outcome[c] = "none"
      /\ emit[c] < result[c].count \/ result[c].count = 0
      /\ result[c].count > 0 => result[c].from = chunk[c]
  BY <1>0, <1>1 DEF TypeOK, Results, Emission, Answers, AnswerOf, Active
<1>4. /\ n \in Nat /\ emit[c] + n <= result[c].count
      /\ result[c].count > 0 => n > 0
  <2>1. result[c].count - emit[c] \in Nat
    BY <1>3
  <2>2. n \in Nat /\ n <= result[c].count - emit[c]
    BY <2>1, Min2Bounds, ExecAssumption
  <2>3. result[c].count > 0 => n > 0
    BY <1>3, ExecAssumption DEF Min2
  <2> QED BY <1>3, <2>2, <2>3
<1>5. /\ Owed[c] = result[c].count /\ Handed[c] = emit[c]
      /\ Answered[c]
  BY <1>1, <1>3 DEF Owed, Handed, Answered
<1>6. Answered' = Answered
  <2>1. Answered[c]'
    BY <1>0, <1>2, <1>3 DEF TypeOK, Answered
  <2>2. Answered[c]' <=> Answered[c]
    BY <1>5, <2>1
  <2> QED BY <1>0, <1>1, <1>2, <2>2, SameAnswer DEF TypeOK
<1>7. CASE n = 0
  <2>1. result[c].count = 0 /\ emit[c] = 0
    BY <1>3, <1>4, <1>7
  <2>2. out' = out
    <3>1. more = <<>>
      BY <1>7
    <3>2. out[c] \o <<>> = out[c]
      BY <1>0, ConcatEmptySeq DEF TypeOK
    <3> HIDE DEF more
    <3>3. out' = [out EXCEPT ![c] = out[c]]
      BY <1>1, <3>1, <3>2
    <3> QED BY <1>0, <3>3 DEF TypeOK
  <2>3. Owed'[c] = 0 /\ Handed'[c] = 0
    BY <1>0, <1>1, <1>7, <2>1 DEF TypeOK, Owed, Handed
  <2>4. Owed' = Owed /\ Handed' = Handed
    BY <1>0, <1>1, <1>2, <1>5, <2>1, <2>3, SameAnswer DEF TypeOK
  <2> QED BY <1>1, <1>6, <2>2, <2>4 DEF Abstract!vars
<1>8. CASE n > 0
  <2>1. n \in 1 .. MaxRows
    BY <1>3, <1>4, <1>8, ExecAssumption
  <2>2. more = [i \in 1 .. n |-> <<chunk[c], Handed[c] + i>>]
    BY <1>3, <1>4, <1>5, <1>8
  <2> DEFINE all == Handed[c] + n = Owed[c]
  <2>3. out' = [out EXCEPT ![c] = @ \o [i \in 1 .. n |-> <<chunk[c], Handed[c] + i>>]]
    BY <1>1, <2>2
  <2> HIDE DEF more, n
  <2>4. /\ all => ran' = [ran EXCEPT ![c] = FALSE]
        /\ ~all => ran' = ran
    BY <1>2, <1>3, <1>4, <1>5
  <2>5. Handed' = [Handed EXCEPT ![c] = IF all THEN 0 ELSE @ + n]
    BY <1>0, <1>1, <1>3, <1>5, <2>4 DEF TypeOK, Handed
  <2>6. Owed' = [Owed EXCEPT ![c] = IF all THEN 0 ELSE @]
    BY <1>0, <1>1, <1>3, <1>5, <2>4 DEF TypeOK, Owed
  <2>7. Handed[c] + n <= Owed[c]
    BY <1>4, <1>5
  <2>8. Abstract!Give(c, n)
    BY <1>1, <1>3, <1>6, <2>3, <2>5, <2>6, <2>7 DEF Abstract!Give
  <2> QED BY <2>1, <2>8
<1> QED BY <1>4, <1>7, <1>8

\* Every step of Exec is a step of RoutingCall or none at all.
THEOREM StepIsAbstract ==
  RInv /\ RInv' /\ [Next]_vars => [Abstract!Next]_(Abstract!vars)
<1> SUFFICES ASSUME RInv, RInv', [Next]_vars PROVE Abstract!Next \/ UNCHANGED Abstract!vars
  OBVIOUS
<1>0. TypeOK /\ Emission /\ Answers
  BY DEF RInv, IInv
<1>a. {"run", "materialize", "install", "driver", "leave", "report"} \subseteq Active \ {"emit"}
  BY DEF Active, InScope
<1>b. {"interrupted", "internal", "out_of_memory", "invalid_input", "bad_alloc"} = Abstract!Failures
  BY DEF Abstract!Failures
<1>c. ASSUME NEW c \in Calls, NEW why \in Abstract!Failures, Abstract!Fail(c, why)
      PROVE  Abstract!Next
  BY <1>c DEF Abstract!Next
<1>d. ASSUME NEW c \in Calls, NEW n \in 0 .. MaxRows, Abstract!Answer(c, n)
      PROVE  Abstract!Next
  BY <1>d DEF Abstract!Next
<1>1. ASSUME NEW c \in Calls, FeedInput(c) PROVE Abstract!Next
  <2>1. /\ pc[c] = "idle" /\ pc' = [pc EXCEPT ![c] = "fed"]
        /\ chunk' = [chunk EXCEPT ![c] = @ + 1]
        /\ UNCHANGED <<ran, result, emit, out, outcome, interrupted>>
    BY <1>1 DEF FeedInput, Goto, state, history
  <2>2. ~ran[c] /\ outcome[c] = "none"
    BY <1>0, <2>1 DEF Answers, AnswerOf
  <2>3. Answered[c] /\ Owed[c] = 0
    BY <2>1, <2>2 DEF Answered, Owed
  <2>4. Answered' = [Answered EXCEPT ![c] = FALSE]
    BY <1>0, <2>1, <2>2 DEF TypeOK, Answered
  <2>5. Owed' = Owed /\ Handed' = Handed
    BY <2>1 DEF Owed, Handed
  <2>6. Abstract!TakeInput(c)
    BY <2>1, <2>2, <2>3, <2>4, <2>5 DEF Abstract!TakeInput
  <2> QED BY <2>6 DEF Abstract!Next
<1>2. ASSUME NEW c \in Calls, DestroyState(c) PROVE Abstract!Next
  <2>1. /\ pc[c] # "gone" /\ pc' = [pc EXCEPT ![c] = "gone"]
        /\ outcome' = [outcome EXCEPT ![c] = "closed"]
        /\ ran' = [ran EXCEPT ![c] = FALSE]
        /\ result' = [result EXCEPT ![c] = NoResult]
        /\ emit' = [emit EXCEPT ![c] = 0]
        /\ UNCHANGED <<chunk, out, interrupted>>
    BY <1>2 DEF DestroyState, Goto, executor
  <2>2. outcome[c] = "none"
    BY <1>0, <2>1 DEF Answers, AnswerOf
  <2>3. Answered' = [Answered EXCEPT ![c] = TRUE]
    BY <1>0, <2>1 DEF TypeOK, Answered
  <2>4. Owed' = [Owed EXCEPT ![c] = 0] /\ Handed' = [Handed EXCEPT ![c] = 0]
    BY <1>0, <2>1 DEF TypeOK, Owed, Handed
  <2>5. Abstract!Close(c)
    BY <2>1, <2>2, <2>3, <2>4 DEF Abstract!Close
  <2> QED BY <2>5 DEF Abstract!Next
<1>3. ASSUME NEW x \in Contexts, Interrupt(x) PROVE Abstract!Next
  <2>1. /\ interrupted' = [interrupted EXCEPT ![x] = TRUE]
        /\ UNCHANGED <<pc, chunk, ran, result, emit, out, outcome>>
    BY <1>3 DEF Interrupt, state, history
  <2>2. UNCHANGED <<Answered, Owed, Handed>>
    BY <2>1 DEF Answered, Owed, Handed
  <2>3. Abstract!Stop(x)
    BY <2>1, <2>2 DEF Abstract!Stop
  <2> QED BY <2>3 DEF Abstract!Next
<1>4. ASSUME NEW t \in Threads, NEW c \in Calls, StartExec(t, c) PROVE UNCHANGED Abstract!vars
  <2>1. /\ pc[c] = "fed" /\ ~ran[c] /\ pc' = [pc EXCEPT ![c] = "run"]
        /\ ran' = [ran EXCEPT ![c] = TRUE]
        /\ result' = [result EXCEPT ![c] = NoResult]
        /\ emit' = [emit EXCEPT ![c] = 0]
        /\ UNCHANGED <<chunk, interrupted, out, outcome>>
    BY <1>4 DEF StartExec, Push, StartOffset, Goto, history
  <2>2. /\ Owed'[c] = Owed[c] /\ Handed'[c] = Handed[c]
        /\ Answered[c]' <=> Answered[c]
    BY <1>0, <2>1 DEF TypeOK, Owed, Handed, Answered, NoResult
  <2> QED BY <1>0, <2>1, <2>2, SameAnswer DEF TypeOK, Abstract!vars
<1>5. ASSUME NEW t \in Threads, NEW c \in Calls, ResumeExec(t, c) PROVE UNCHANGED Abstract!vars
  <2>1. /\ pc[c] = "fed" /\ ran[c] /\ pc' = [pc EXCEPT ![c] = "emit"]
        /\ UNCHANGED <<chunk, interrupted, ran, result, emit, out, outcome>>
    BY <1>5 DEF ResumeExec, Push, Goto, state, history
  <2>2. /\ Owed'[c] = Owed[c] /\ Handed'[c] = Handed[c]
        /\ Answered[c]' <=> Answered[c]
    BY <1>0, <2>1 DEF TypeOK, Owed, Handed, Answered
  <2> QED BY <1>0, <2>1, <2>2, SameAnswer DEF TypeOK, Abstract!vars
<1>6. ASSUME NEW t \in Threads, NEW c \in Calls, running[t] = c, RunOnce(t, c)
      PROVE  Abstract!Next \/ UNCHANGED Abstract!vars
  <2>1. pc[c] = "run" /\ UNCHANGED <<chunk, interrupted, out>>
    BY <1>6 DEF RunOnce
  <2>2. CASE Throw(t, c, "invalid_input")
    BY <1>a, <1>b, <1>c, <2>1, <2>2, ThrowIsFail
  <2>3. CASE Goto(c, "emit") /\ UNCHANGED <<state, outcome>>
    <3>1. result'[c].count = 0
      BY <1>0, <2>1, <2>3 DEF Emission, Active, NoResult, state
    <3>2. Abstract!Answer(c, 0)
      BY <1>a, <2>1, <2>3, <3>1, RowsAreAnswer DEF state
    <3> QED BY <1>d, <3>2, ExecAssumption
  <2>4. CASE Goto(c, "materialize") /\ UNCHANGED <<state, outcome>>
    BY <1>a, <2>1, <2>4, MoveIsStutter DEF state
  <2> QED BY <1>6, <2>2, <2>3, <2>4 DEF RunOnce
<1>7. ASSUME NEW t \in Threads, NEW c \in Calls, running[t] = c, MaterializeInputSlots(t, c)
      PROVE  Abstract!Next \/ UNCHANGED Abstract!vars
  <2>1. pc[c] = "materialize" /\ UNCHANGED <<chunk, interrupted, out>>
    BY <1>7 DEF MaterializeInputSlots
  <2>2. CASE Throw(t, c, "invalid_input")
    BY <1>a, <1>b, <1>c, <2>1, <2>2, ThrowIsFail
  <2>3. CASE Goto(c, "install") /\ UNCHANGED <<ran, result, emit, outcome>>
    BY <1>a, <2>1, <2>3, MoveIsStutter
  <2> QED BY <1>7, <2>2, <2>3 DEF MaterializeInputSlots
<1>8. ASSUME NEW t \in Threads, NEW c \in Calls, InstallScope(t, c) \/ DriverReturns(t, c)
      PROVE  UNCHANGED Abstract!vars
  <2>1. CASE InstallScope(t, c)
    BY <1>a, <2>1, MoveIsStutter DEF InstallScope, executor, state, history
  <2>2. CASE DriverReturns(t, c)
    BY <1>a, <2>2, MoveIsStutter DEF DriverReturns, executor, state, history
  <2> QED BY <1>8, <2>1, <2>2
<1>9. ASSUME NEW t \in Threads, NEW c \in Calls, LookupInput(t, c) \/ CheckForInterrupts(t, c)
      PROVE  UNCHANGED Abstract!vars
  <2>1. UNCHANGED <<pc, chunk, interrupted, ran, result, emit, out, outcome>>
    BY <1>9 DEF LookupInput, CheckForInterrupts, executor, state
  <2> QED BY <2>1 DEF Abstract!vars, Answered, Owed, Handed
\* The flag is one the query's own interrupt has set, or the failure is of no query's making.
<1>10. ASSUME NEW t \in Threads, NEW c \in Calls, running[t] = c, LeaveScope(t, c)
       PROVE  Abstract!Next \/ UNCHANGED Abstract!vars
  <2>1. pc[c] = "leave" /\ UNCHANGED <<chunk, interrupted, out>>
    BY <1>10 DEF LeaveScope
  <2>2. CASE Throw(t, c, "interrupted")
    <3>1. outcome'[c] = "interrupted"
      BY <1>0, <2>2 DEF TypeOK, Throw
    <3>2. interrupted[CtxOf[c]]
      BY <2>1, <3>1 DEF RInv, IInv, Interrupts, InterruptedOnlyByOwnQuery
    <3> QED BY <1>a, <1>b, <1>c, <2>1, <2>2, <3>2, ThrowIsFail
  <2>3. CASE Throw(t, c, "bad_alloc")
    BY <1>a, <1>b, <1>c, <2>1, <2>3, ThrowIsFail
  <2>4. CASE Goto(c, "report") /\ UNCHANGED <<state, outcome>>
    BY <1>a, <2>1, <2>4, MoveIsStutter DEF state
  <2> QED BY <1>10, <2>2, <2>3, <2>4 DEF LeaveScope
<1>11. ASSUME NEW t \in Threads, NEW c \in Calls, running[t] = c, ReportDriver(t, c)
       PROVE  Abstract!Next
  <2>1. pc[c] = "report" /\ UNCHANGED <<chunk, interrupted, out>>
    BY <1>11 DEF ReportDriver
  <2>2. CASE driver[c].err # "none"
    <3>1. driver[c].err \in DriverErrors \ {"none"}
      BY <1>0, <2>2 DEF TypeOK
    <3>2. ExceptionFor(driver[c].err) \in {"internal", "out_of_memory", "invalid_input"}
      BY <3>1, ExceptionTypes
    <3>3. Throw(t, c, ExceptionFor(driver[c].err))
      BY <1>11, <2>2 DEF ReportDriver
    <3>4. /\ ExceptionFor(driver[c].err) \in Abstract!Failures
          /\ ExceptionFor(driver[c].err) # "interrupted"
      BY <1>b, <3>2
    <3> QED BY <1>a, <1>c, <2>1, <3>3, <3>4, ThrowIsFail
  <2>3. CASE /\ result' = [result EXCEPT ![c] = [from |-> chunk[c], count |-> driver[c].rows]]
             /\ Goto(c, "emit")
             /\ UNCHANGED <<ran, emit, outcome>>
    <3> DEFINE n == driver[c].rows
    <3>1. n \in Nat /\ n <= MaxRows
      BY <1>0 DEF TypeOK, Answers, AnswerOf
    <3>2. result'[c].count = n /\ \A d \in Calls : d # c => result'[d] = result[d]
      BY <1>0, <2>3 DEF TypeOK
    <3> HIDE DEF n
    <3>3. Abstract!Answer(c, n)
      BY <1>a, <2>1, <2>3, <3>1, <3>2, RowsAreAnswer
    <3> QED BY <1>d, <3>1, <3>3, ExecAssumption
  <2> QED BY <1>11, <2>2, <2>3 DEF ReportDriver
<1>12. ASSUME NEW t \in Threads, NEW c \in Calls, EmitRows(t, c)
       PROVE  Abstract!Next \/ UNCHANGED Abstract!vars
  BY <1>12, EmitIsGive DEF Abstract!Next
<1>13. CASE UNCHANGED vars
  BY <1>13 DEF vars, Abstract!vars, Answered, Owed, Handed
<1> QED
  BY <1>1, <1>2, <1>3, <1>4, <1>5, <1>6, <1>7, <1>8, <1>9, <1>10, <1>11, <1>12, <1>13
  DEF Next, ExecStep, DriverStep

\* What a caller of _pgr_exec may rely on holds of every behaviour of the executor,
\* the registry, the scopes and the drivers, however they interleave: every input is
\* answered once, its rows are given once and in order, an input that failed gives
\* none, and a call ends as interrupted only when its own query was.
THEOREM ExecImplementsRoutingCall == Spec => RoutingCallSpec
<1>1. Init => Abstract!Init
  BY InitIsAbstract
<1>2. RInv /\ RInv' /\ [Next]_vars => [Abstract!Next]_(Abstract!vars)
  BY StepIsAbstract
<1> QED BY <1>1, <1>2, AnswersInvariance, PTL DEF Spec, RoutingCallSpec, Abstract!Spec

=============================================================================
