----------------------------- MODULE ExecProofs -----------------------------
(***************************************************************************)
(* Proofs about Exec, for any number of threads, calls, contexts and       *)
(* inputs, nested drivers included.                                        *)
(*                                                                         *)
(* None of the safety properties is inductive: each rests on what every    *)
(* thread_local holds at every moment.  IInv says it: the ThreadState of a *)
(* thread is the frame of the innermost driver on its stack, and every     *)
(* scope remembers the frame of the driver around it (Frames), because a   *)
(* call is on at most one stack, once (Stacks).                            *)
(***************************************************************************)
EXTENDS Exec, TLAPS

\* What ThreadState holds while the driver of c is innermost on its thread.
Frame(c) == [context |-> CtxOf[c], registry |-> c, interrupted |-> sawInterrupt[c]]

\* What it holds while c is innermost and not inside its scope.
Enclosing(c) == IF caller[c] = Null THEN NoThreadState ELSE Frame(caller[c])

\* A call is on top of one thread's stack, or below one other call, inside its
\* driver; only such a call is executing.
Stacks ==
  /\ \A t \in Threads : running[t] # Null => pc[running[t]] \in Active
  /\ \A t, u \in Threads : running[t] # Null /\ running[t] = running[u] => t = u
  /\ \A c \in Calls : caller[c] # Null => pc[c] \in Active /\ pc[caller[c]] = "driver"
  /\ \A c, d \in Calls : caller[c] # Null /\ caller[c] = caller[d] => c = d
  /\ \A t \in Threads, c \in Calls : running[t] # Null => caller[c] # running[t]

\* What it holds while c, a call or nothing, is on top of the thread's stack.
Held(c) == IF c = Null THEN NoThreadState
           ELSE IF pc[c] \in InScope THEN Frame(c)
           ELSE Enclosing(c)

Frames ==
  /\ \A t \in Threads : tls[t] = Held(running[t])
  /\ \A c \in Calls : pc[c] \in InScope => saved[c] = Enclosing(c)

\* The registry a driver can reach is filled from the chunk its call holds.
Inputs ==
  /\ \A c \in Calls : pc[c] \in InScope \cup {"install"} => registry[c] = chunk[c]
  /\ \A c \in Calls : lookups[c] \subseteq {<<c, chunk[c]>>}
  /\ \A c \in Calls : pc[c] \notin InScope => lookups[c] = {}

Interrupts ==
  /\ \A c \in Calls : sawInterrupt[c] => interrupted[CtxOf[c]]
  /\ InterruptNeverSwallowed
  /\ InterruptedOnlyByOwnQuery

\* Nothing has been emitted before the driver's rows are in, and never more
\* than there are.
Emission ==
  \A c \in Calls :
    /\ emit[c] <= result[c].count
    /\ pc[c] \in Active \ {"emit"} => emit[c] = 0 /\ result[c] = NoResult

IInv == TypeOK /\ Emission /\ Stacks /\ Frames /\ Inputs /\ Interrupts

-----------------------------------------------------------------------------
(* Type correctness. *)

\* min(a, b) as EmitRows uses it: rows left are taken in whole vectors.
LEMMA Min2Bounds ==
  ASSUME NEW a \in Nat, NEW b \in Nat
  PROVE  Min2(a, b) \in Nat /\ Min2(a, b) <= a /\ Min2(a, b) <= b
BY DEF Min2

\* No call has run and no thread has a frame.
LEMMA InitTypes == Init => TypeOK /\ Emission
BY ExecAssumption DEF Init, TypeOK, Emission, Active, InScope, ThreadState, NoThreadState,
   NoResult, Results, NoDriver, DriverErrors

\* What an exception does to the call's own variables keeps their types.
LEMMA ThrowTypes ==
  ASSUME TypeOK, Emission, NEW t \in Threads, NEW c \in Calls, running[t] = c,
         NEW why \in {"interrupted", "internal", "out_of_memory", "invalid_input", "bad_alloc"},
         Throw(t, c, why)
  PROVE  /\ running' \in [Threads -> Calls \cup {Null}]
         /\ caller' \in [Calls -> Calls \cup {Null}]
         /\ pc' \in [Calls -> {"idle", "fed", "gone"} \cup Active]
         /\ ran' \in [Calls -> BOOLEAN]
         /\ registry' \in [Calls -> Nat]
         /\ result' \in [Calls -> Results]
         /\ emit' \in [Calls -> Nat]
         /\ outcome' \in [Calls -> {"none", "closed", "interrupted", "internal",
                                    "out_of_memory", "invalid_input", "bad_alloc"}]
         /\ Emission'
BY DEF TypeOK, Emission, Throw, Pop, Goto, NoResult, Results, Active, InScope

\* An error of a driver is thrown as one of three exceptions.
LEMMA ExceptionTypes ==
  ASSUME NEW e \in DriverErrors \ {"none"}
  PROVE  ExceptionFor(e) \in {"internal", "out_of_memory", "invalid_input"}
BY DEF ExceptionFor, DriverErrors

\* Types, and that the offset never passes the rows of the result, one case per step
\* of ExecFunction.
THEOREM TypeStep == IInv /\ [Next]_vars => TypeOK' /\ Emission'
<1> SUFFICES ASSUME IInv, [Next]_vars PROVE TypeOK' /\ Emission'
  OBVIOUS
<1> USE DEF IInv
<1>1. ASSUME NEW c \in Calls, FeedInput(c) PROVE TypeOK' /\ Emission'
  <2>1. /\ pc' = [pc EXCEPT ![c] = "fed"]
        /\ UNCHANGED <<running, caller, interrupted, tls, saved, ran, registry, result, emit,
                       driver, lookups, sawInterrupt, out, outcome>>
    BY <1>1 DEF FeedInput, Goto, scope, state, history
  <2>2. chunk' \in [Calls -> Nat] /\ single' \in [Calls -> BOOLEAN]
    BY <1>1 DEF FeedInput, TypeOK
  <2>3. TypeOK'
    BY <2>1, <2>2 DEF TypeOK
  <2>4. Emission'
    BY <2>1 DEF TypeOK, Emission, Active, InScope
  <2> QED BY <2>3, <2>4
<1>2. ASSUME NEW c \in Calls, DestroyState(c) PROVE TypeOK' /\ Emission'
  BY <1>2, SMTT(20) DEF DestroyState, Goto, TypeOK, Emission, Active, InScope, NoResult, Results,
     executor, scope
<1>3. ASSUME NEW x \in Contexts, Interrupt(x) PROVE TypeOK' /\ Emission'
  BY <1>3 DEF Interrupt, TypeOK, Emission, scope, state, history
<1>4. ASSUME NEW t \in Threads, NEW c \in Calls, StartExec(t, c) PROVE TypeOK' /\ Emission'
  <2>1. /\ running' = [running EXCEPT ![t] = c]
        /\ caller' = [caller EXCEPT ![c] = running[t]]
        /\ pc' = [pc EXCEPT ![c] = "run"]
        /\ ran' = [ran EXCEPT ![c] = TRUE]
        /\ result' = [result EXCEPT ![c] = NoResult]
        /\ emit' = [emit EXCEPT ![c] = 0]
        /\ UNCHANGED <<chunk, single, interrupted, tls, saved, registry, driver, lookups,
                       sawInterrupt, out, outcome>>
    BY <1>4 DEF StartExec, Push, StartOffset, Goto, scope, history
  <2>2. TypeOK'
    BY <2>1 DEF TypeOK, Active, NoResult, Results
  <2>3. Emission'
    BY <2>1 DEF TypeOK, Emission, Active, InScope, NoResult
  <2> QED BY <2>2, <2>3
<1>5. ASSUME NEW t \in Threads, NEW c \in Calls, ResumeExec(t, c) PROVE TypeOK' /\ Emission'
  BY <1>5 DEF ResumeExec, Push, Goto, TypeOK, Emission, Active, InScope, scope, state, history
<1>6. ASSUME NEW t \in Threads, NEW c \in Calls, running[t] = c, RunOnce(t, c)
      PROVE  TypeOK' /\ Emission'
  <2>1. CASE Throw(t, c, "invalid_input")
    BY <1>6, <2>1, ThrowTypes DEF RunOnce, TypeOK, scope
  <2>2. CASE /\ Goto(c, "emit") \/ Goto(c, "materialize")
             /\ UNCHANGED <<running, caller, state, outcome>>
    <3>1. /\ pc' = [pc EXCEPT ![c] = "emit"] \/ pc' = [pc EXCEPT ![c] = "materialize"]
          /\ pc[c] = "run"
          /\ UNCHANGED <<running, caller, chunk, single, interrupted, tls, saved, ran, registry,
                         result, emit, driver, lookups, sawInterrupt, out, outcome>>
      BY <1>6, <2>2 DEF RunOnce, Goto, scope, state
    <3>2. TypeOK'
      BY <3>1 DEF TypeOK, Active
    <3>3. Emission'
      BY <3>1 DEF TypeOK, Emission, Active
    <3> QED BY <3>2, <3>3
  <2> QED BY <1>6, <2>1, <2>2 DEF RunOnce
<1>7. ASSUME NEW t \in Threads, NEW c \in Calls, running[t] = c, MaterializeInputSlots(t, c)
      PROVE  TypeOK' /\ Emission'
  <2>1. CASE Throw(t, c, "invalid_input")
    BY <1>7, <2>1, ThrowTypes DEF MaterializeInputSlots, TypeOK, scope
  <2>2. CASE /\ registry' = [registry EXCEPT ![c] = InputsFor(c)]
             /\ Goto(c, "install")
             /\ UNCHANGED <<running, caller, ran, result, emit, outcome>>
    <3>1. /\ pc' = [pc EXCEPT ![c] = "install"]
          /\ pc[c] = "materialize"
          /\ registry' = [registry EXCEPT ![c] = chunk[c]]
          /\ UNCHANGED <<running, caller, chunk, single, interrupted, tls, saved, ran, result,
                         emit, driver, lookups, sawInterrupt, out, outcome>>
      BY <1>7, <2>2 DEF MaterializeInputSlots, InputsFor, Goto, scope
    <3>2. TypeOK'
      BY <3>1 DEF TypeOK, Active
    <3>3. Emission'
      BY <3>1 DEF TypeOK, Emission, Active
    <3> QED BY <3>2, <3>3
  <2> QED BY <1>7, <2>1, <2>2 DEF MaterializeInputSlots
<1>8. ASSUME NEW t \in Threads, NEW c \in Calls, running[t] = c, InstallScope(t, c)
      PROVE  TypeOK' /\ Emission'
  BY <1>8, ExecAssumption DEF InstallScope, ScopeFor, Goto, TypeOK, Emission, Active, InScope,
     ThreadState, executor, state, history
<1>9. ASSUME NEW t \in Threads, NEW c \in Calls, running[t] = c, LookupInput(t, c)
      PROVE  TypeOK' /\ Emission'
  <2>1. tls[t].registry \in Calls /\ registry[tls[t].registry] \in Nat
    BY <1>9 DEF LookupInput, TypeOK, ThreadState
  <2>2. <<tls[t].registry, registry[tls[t].registry]>> \in Calls \X Nat
    BY <2>1
  <2>3. lookups' \in [Calls -> SUBSET (Calls \X Nat)]
    BY <1>9, <2>2 DEF LookupInput, TypeOK
  <2> QED BY <1>9, <2>3 DEF LookupInput, TypeOK, Emission, executor, scope, state
<1>10. ASSUME NEW t \in Threads, NEW c \in Calls, running[t] = c, CheckForInterrupts(t, c)
       PROVE  TypeOK' /\ Emission'
  <2>1. tls' \in [Threads -> ThreadState]
    <3>1. tls' = [tls EXCEPT ![t] = Flagged(tls[t])]
      BY <1>10 DEF CheckForInterrupts
    <3>2. Flagged(tls[t]) \in ThreadState
      BY DEF TypeOK, ThreadState, Flagged
    <3> QED BY <3>1, <3>2 DEF TypeOK
  <2>2. sawInterrupt' \in [Calls -> BOOLEAN]
    BY <1>10 DEF CheckForInterrupts, TypeOK
  <2> QED BY <1>10, <2>1, <2>2 DEF CheckForInterrupts, TypeOK, Emission, executor, state
<1>11. ASSUME NEW t \in Threads, NEW c \in Calls, running[t] = c, DriverReturns(t, c)
       PROVE  TypeOK' /\ Emission'
  <2>1. PICK n \in 0 .. MaxRows, e \in DriverErrors :
          driver' = [driver EXCEPT ![c] = [rows |-> n, err |-> e]]
    BY <1>11 DEF DriverReturns
  <2>2. n \in Nat
    BY ExecAssumption
  <2> QED BY <1>11, <2>1, <2>2 DEF DriverReturns, Goto, TypeOK, Emission, Active, InScope,
         executor, scope, state, history
<1>12. ASSUME NEW t \in Threads, NEW c \in Calls, running[t] = c, LeaveScope(t, c)
       PROVE  TypeOK' /\ Emission'
  <2>1. /\ tls' \in [Threads -> ThreadState]
        /\ saved' \in [Calls -> ThreadState]
        /\ lookups' \in [Calls -> SUBSET (Calls \X Nat)]
        /\ driver' \in [Calls -> [rows : Nat, err : DriverErrors]]
    <3>1. NoThreadState \in ThreadState /\ NoDriver \in [rows : Nat, err : DriverErrors]
      BY DEF NoThreadState, ThreadState, NoDriver, DriverErrors
    <3>2. /\ tls' = [tls EXCEPT ![t] = saved[c]]
          /\ saved' = [saved EXCEPT ![c] = NoThreadState]
          /\ lookups' = [lookups EXCEPT ![c] = {}]
          /\ driver' = [driver EXCEPT ![c] = NoDriver] \/ driver' = driver
      BY <1>12 DEF LeaveScope, Restored
    <3>3. saved[c] \in ThreadState
      BY DEF TypeOK
    <3>4. tls' \in [Threads -> ThreadState] /\ saved' \in [Calls -> ThreadState]
      BY <3>1, <3>2, <3>3 DEF TypeOK
    <3>5. lookups' \in [Calls -> SUBSET (Calls \X Nat)]
      BY <3>2 DEF TypeOK
    <3>6. driver' \in [Calls -> [rows : Nat, err : DriverErrors]]
      <4>1. driver \in [Calls -> [rows : Nat, err : DriverErrors]]
        BY DEF TypeOK
      <4> QED BY <3>1, <3>2, <4>1
    <3> QED BY <3>4, <3>5, <3>6
  <2>2. CASE Throw(t, c, "interrupted") \/ Throw(t, c, "bad_alloc")
    BY <1>12, <2>1, <2>2, ThrowTypes DEF LeaveScope, TypeOK
  <2>3. CASE ~(Throw(t, c, "interrupted") \/ Throw(t, c, "bad_alloc"))
    <3>1. /\ pc[c] = "leave" /\ pc' = [pc EXCEPT ![c] = "report"]
          /\ UNCHANGED <<running, caller, chunk, single, interrupted, ran, registry, result,
                         emit, sawInterrupt, out, outcome>>
      BY <1>12, <2>3 DEF LeaveScope, Goto, state
    <3>2. TypeOK'
      BY <2>1, <3>1 DEF TypeOK, Active
    <3>3. Emission'
      BY <3>1 DEF TypeOK, Emission, Active, InScope
    <3> QED BY <3>2, <3>3
  <2> QED BY <2>2, <2>3
<1>13. ASSUME NEW t \in Threads, NEW c \in Calls, running[t] = c, ReportDriver(t, c)
       PROVE  TypeOK' /\ Emission'
  <2>1. driver' \in [Calls -> [rows : Nat, err : DriverErrors]]
    BY <1>13 DEF ReportDriver, TypeOK, NoDriver, DriverErrors
  <2>2. CASE driver[c].err # "none"
    <3>1. ExceptionFor(driver[c].err) \in {"internal", "out_of_memory", "invalid_input"}
      BY <2>2, ExceptionTypes DEF TypeOK
    <3>2. Throw(t, c, ExceptionFor(driver[c].err))
      BY <1>13, <2>2 DEF ReportDriver
    <3>3. UNCHANGED <<chunk, single, interrupted, tls, saved, lookups, sawInterrupt, out>>
      BY <1>13 DEF ReportDriver, scope
    <3> HIDE DEF IInv
    <3>4. TypeOK /\ Emission
      BY DEF IInv
    <3>5. /\ running' \in [Threads -> Calls \cup {Null}]
          /\ caller' \in [Calls -> Calls \cup {Null}]
          /\ pc' \in [Calls -> {"idle", "fed", "gone"} \cup Active]
          /\ ran' \in [Calls -> BOOLEAN]
          /\ registry' \in [Calls -> Nat]
          /\ result' \in [Calls -> Results]
          /\ emit' \in [Calls -> Nat]
          /\ outcome' \in [Calls -> {"none", "closed", "interrupted", "internal",
                                     "out_of_memory", "invalid_input", "bad_alloc"}]
          /\ Emission'
      <4> DEFINE why == ExceptionFor(driver[c].err)
      <4>1. why \in {"interrupted", "internal", "out_of_memory", "invalid_input"} /\ Throw(t, c, why)
        BY <3>1, <3>2
      <4> HIDE DEF why
      <4> QED BY <1>13, <3>4, <4>1, ThrowTypes
    <3> QED BY <2>1, <3>3, <3>4, <3>5 DEF TypeOK
  <2>3. CASE driver[c].err = "none"
    <3>1. /\ pc[c] = "report"
          /\ pc' = [pc EXCEPT ![c] = "emit"]
          /\ result' = [result EXCEPT ![c] = [from |-> chunk[c], count |-> driver[c].rows]]
          /\ UNCHANGED <<running, caller, chunk, single, interrupted, tls, saved, ran, registry,
                         emit, lookups, sawInterrupt, out, outcome>>
      BY <1>13, <2>3 DEF ReportDriver, Goto, scope
    <3>2. driver[c].rows \in Nat /\ chunk[c] \in Nat
      BY DEF TypeOK
    <3>3. TypeOK'
      BY <2>1, <3>1, <3>2 DEF TypeOK, Active, Results
    <3>4. emit[c] = 0
      BY <3>1 DEF Emission, Active
    <3>5. Emission'
      BY <3>1, <3>2, <3>4 DEF TypeOK, Emission, Active
    <3> QED BY <3>3, <3>5
  <2> QED BY <2>2, <2>3
<1>14. ASSUME NEW t \in Threads, NEW c \in Calls, running[t] = c, EmitRows(t, c)
       PROVE  TypeOK' /\ Emission'
  <2> DEFINE n == Min2(VectorSize, result[c].count - emit[c])
  <2>1. n \in Nat /\ n <= result[c].count - emit[c]
    <3>1. result[c].count \in Nat /\ emit[c] \in Nat /\ emit[c] <= result[c].count
      BY DEF TypeOK, Results, Emission
    <3>2. result[c].count - emit[c] \in Nat
      BY <3>1
    <3> QED BY <3>2, Min2Bounds, ExecAssumption
  <2>2. out' \in [Calls -> Seq(Nat \X Nat)]
    <3> DEFINE more == [i \in 1 .. n |-> <<result[c].from, emit[c] + i>>]
    <3>1. more \in Seq(Nat \X Nat)
      <4>1. result[c].from \in Nat /\ emit[c] \in Nat
        BY DEF TypeOK, Results
      <4> HIDE DEF n
      <4>2. \A i \in 1 .. n : <<result[c].from, emit[c] + i>> \in Nat \X Nat
        BY <2>1, <4>1
      <4>3. more \in [1 .. n -> Nat \X Nat]
        BY <4>2
      <4> QED BY <2>1, <4>3
    <3>2. out[c] \o more \in Seq(Nat \X Nat)
      BY <3>1 DEF TypeOK
    <3> HIDE DEF more
    <3>3. out' = [out EXCEPT ![c] = out[c] \o more]
      BY <1>14 DEF EmitRows, more
    <3> QED BY <3>2, <3>3 DEF TypeOK
  <2> HIDE DEF n
  <2>3. emit' = [emit EXCEPT ![c] = emit[c] + n]
    BY <1>14 DEF EmitRows, n
  <2>4. pc[c] = "emit" /\ Pop(t, c)
    BY <1>14 DEF EmitRows
  <2>5. UNCHANGED <<chunk, single, interrupted, scope, registry, result, driver, lookups,
                    sawInterrupt, outcome>>
    BY <1>14 DEF EmitRows
  <2>6. \/ Goto(c, "fed") /\ UNCHANGED ran
        \/ Goto(c, "idle") /\ ran' = [ran EXCEPT ![c] = FALSE]
    BY <1>14 DEF EmitRows
  <2>7. TypeOK'
    <3>1. /\ running' \in [Threads -> Calls \cup {Null}]
          /\ caller' \in [Calls -> Calls \cup {Null}]
      BY <2>4 DEF Pop, TypeOK
    <3>2. pc' \in [Calls -> {"idle", "fed", "gone"} \cup Active] /\ ran' \in [Calls -> BOOLEAN]
      BY <2>6 DEF Goto, TypeOK
    <3>3. emit' \in [Calls -> Nat]
      BY <2>1, <2>3 DEF TypeOK
    <3> QED BY <2>2, <2>5, <3>1, <3>2, <3>3 DEF TypeOK, scope
  <2>8. Emission'
    <3>1. /\ \A d \in Calls : d # c => pc'[d] = pc[d] /\ emit'[d] = emit[d]
          /\ pc'[c] \notin Active
          /\ emit'[c] = emit[c] + n
      BY <2>3, <2>6 DEF TypeOK, Goto, Active, InScope
    <3>2. emit[c] + n <= result[c].count
      BY <2>1 DEF TypeOK, Results
    <3> QED BY <2>5, <3>1, <3>2 DEF Emission
  <2> QED BY <2>7, <2>8
<1>15. CASE UNCHANGED vars
  BY <1>15 DEF vars, TypeOK, Emission
<1> QED
  BY <1>1, <1>2, <1>3, <1>4, <1>5, <1>6, <1>7, <1>8, <1>9, <1>10, <1>11, <1>12, <1>13, <1>14,
     <1>15 DEF Next, ExecStep, DriverStep

-----------------------------------------------------------------------------
(* Stacks.  Three lemmas for the three things a step does to a stack. *)

\* A step inside ExecFunction of the call on top of a stack.
LEMMA StayStacks ==
  ASSUME TypeOK, Stacks, NEW t \in Threads, NEW c \in Calls, running[t] = c,
         NEW label \in Active, pc' = [pc EXCEPT ![c] = label],
         UNCHANGED <<running, caller>>
  PROVE  Stacks'
BY DEF TypeOK, Stacks

\* ExecFunction of the top call ends.
LEMMA PopStacks ==
  ASSUME TypeOK, Stacks, NEW t \in Threads, NEW c \in Calls, running[t] = c,
         NEW label, pc' = [pc EXCEPT ![c] = label], Pop(t, c)
  PROVE  Stacks'
<1>1. caller[c] # c /\ \A d \in Calls : caller[d] # c
  BY ExecAssumption DEF TypeOK, Stacks
<1>2. running' = [running EXCEPT ![t] = caller[c]] /\ caller' = [caller EXCEPT ![c] = Null]
  BY DEF Pop
<1>3. c # Null
  BY ExecAssumption
<1>4. \A u \in Threads : running'[u] # Null => pc'[running'[u]] \in Active
  BY <1>1, <1>2, <1>3, SMTT(20) DEF TypeOK, Stacks, Active, InScope
<1>5. \A u, v \in Threads : running'[u] # Null /\ running'[u] = running'[v] => u = v
  BY <1>1, <1>2, <1>3 DEF TypeOK, Stacks
<1>6. ASSUME NEW d \in Calls, caller'[d] # Null
      PROVE  pc'[d] \in Active /\ pc'[caller'[d]] = "driver"
  <2>1. CASE d = c
    <3>1. caller'[c] = running[t] /\ running[t] # Null /\ running[t] \in Calls
      BY <1>2, <1>6, <2>1 DEF TypeOK
    <3> QED BY <1>1, <1>2, <2>1, <3>1 DEF TypeOK
  <2>2. CASE d # c
    <3>1. caller'[d] = caller[d] /\ caller[d] # Null /\ caller[d] \in Calls
      BY <1>2, <1>6, <2>2 DEF TypeOK
    <3>2. pc[d] \in Active /\ pc[caller[d]] = "driver"
      BY <3>1 DEF Stacks
    <3> QED BY <1>1, <2>2, <3>1, <3>2 DEF TypeOK
  <2> QED BY <2>1, <2>2
<1>7. \A d, e \in Calls : caller'[d] # Null /\ caller'[d] = caller'[e] => d = e
  BY <1>1, <1>2, <1>3 DEF TypeOK, Stacks
<1>8. \A u \in Threads, d \in Calls : running'[u] # Null => caller'[d] # running'[u]
  BY <1>1, <1>2, <1>3 DEF TypeOK, Stacks
<1> QED BY <1>4, <1>5, <1>6, <1>7, <1>8 DEF Stacks

\* ExecFunction of a call that was on no stack begins.
LEMMA PushStacks ==
  ASSUME TypeOK, Stacks, NEW t \in Threads, NEW c \in Calls, Push(t, c),
         NEW label \in Active, pc' = [pc EXCEPT ![c] = label]
  PROVE  Stacks'
<1>1. /\ \A u \in Threads : running[u] # c
      /\ caller[c] = Null
      /\ \A d \in Calls : caller[d] # c
  <2>1. c # Null /\ pc[c] = "fed"
    BY ExecAssumption DEF Push
  <2>2. pc[c] \notin Active /\ pc[c] # "driver"
    BY <2>1 DEF Active, InScope
  <2> QED BY <2>1, <2>2 DEF TypeOK, Stacks
<1>2. /\ running' = [running EXCEPT ![t] = c]
      /\ caller' = [caller EXCEPT ![c] = running[t]]
      /\ running[t] # Null => pc[running[t]] = "driver"
  BY DEF Push, CanCall
<1>3. c # Null
  BY ExecAssumption
<1>4. \A u \in Threads : running'[u] # Null => pc'[running'[u]] \in Active
  BY <1>1, <1>2, <1>3 DEF TypeOK, Stacks
<1>5. \A u, v \in Threads : running'[u] # Null /\ running'[u] = running'[v] => u = v
  BY <1>1, <1>2, <1>3 DEF TypeOK, Stacks
<1>6. \A d \in Calls : caller'[d] # Null => pc'[d] \in Active /\ pc'[caller'[d]] = "driver"
  BY <1>1, <1>2, <1>3 DEF TypeOK, Stacks
<1>7. \A d, e \in Calls : caller'[d] # Null /\ caller'[d] = caller'[e] => d = e
  BY <1>1, <1>2, <1>3 DEF TypeOK, Stacks
<1>8. \A u \in Threads, d \in Calls : running'[u] # Null => caller'[d] # running'[u]
  BY <1>1, <1>2, <1>3 DEF TypeOK, Stacks
<1> QED BY <1>4, <1>5, <1>6, <1>7, <1>8 DEF Stacks

\* A step of the executor on a call that is on no stack.
LEMMA IdleStacks ==
  ASSUME TypeOK, Stacks, NEW c \in Calls, pc[c] \in {"idle", "fed"},
         NEW label, pc' = [pc EXCEPT ![c] = label], UNCHANGED <<running, caller>>
  PROVE  Stacks'
<1>1. /\ \A u \in Threads : running[u] # c
      /\ caller[c] = Null
      /\ \A d \in Calls : caller[d] # c
  <2>1. c # Null
    BY ExecAssumption
  <2>2. pc[c] \notin Active /\ pc[c] # "driver"
    BY DEF Active, InScope
  <2> QED BY <2>1, <2>2 DEF TypeOK, Stacks
<1> QED BY <1>1 DEF TypeOK, Stacks

\* A thread enters and leaves calls at the top of its stack, so a call stays on at
\* most one, once.
THEOREM StacksStep == IInv /\ [Next]_vars => Stacks'
<1> SUFFICES ASSUME IInv, [Next]_vars PROVE Stacks'
  OBVIOUS
<1>0. TypeOK /\ Stacks
  BY DEF IInv
<1>1. ASSUME NEW c \in Calls, FeedInput(c) \/ DestroyState(c) PROVE Stacks'
  BY <1>0, <1>1, IdleStacks DEF FeedInput, DestroyState, Goto, executor
<1>2. ASSUME NEW x \in Contexts, Interrupt(x) PROVE Stacks'
  BY <1>0, <1>2 DEF Interrupt, Stacks
<1>3. ASSUME NEW t \in Threads, NEW c \in Calls, StartExec(t, c) \/ ResumeExec(t, c)
      PROVE  Stacks'
  <2>1. {"run", "emit"} \subseteq Active
    BY DEF Active
  <2>2. CASE StartExec(t, c)
    BY <1>0, <2>1, <2>2, PushStacks DEF StartExec, Goto
  <2>3. CASE ResumeExec(t, c)
    BY <1>0, <2>1, <2>3, PushStacks DEF ResumeExec, Goto
  <2> QED BY <1>3, <2>2, <2>3
<1>4. ASSUME NEW t \in Threads, NEW c \in Calls, running[t] = c, NEW why, Throw(t, c, why)
      PROVE  Stacks'
  BY <1>0, <1>4, PopStacks DEF Throw, Goto
<1>5. ASSUME NEW t \in Threads, NEW c \in Calls, running[t] = c, EmitRows(t, c) PROVE Stacks'
  BY <1>0, <1>5, PopStacks DEF EmitRows, Goto
<1>6. ASSUME NEW t \in Threads, NEW c \in Calls, running[t] = c, NEW label \in Active,
             Goto(c, label), UNCHANGED <<running, caller>>
      PROVE  Stacks'
  BY <1>0, <1>6, StayStacks DEF Goto
<1>7. {"materialize", "install", "driver", "leave", "report", "emit"} \subseteq Active
  BY DEF Active, InScope
<1>8. ASSUME NEW t \in Threads, NEW c \in Calls, running[t] = c, ExecStep(t, c) PROVE Stacks'
  <2>1. CASE RunOnce(t, c)
    BY <1>4, <1>6, <1>7, <1>8, <2>1 DEF RunOnce
  <2>2. CASE MaterializeInputSlots(t, c)
    BY <1>4, <1>6, <1>7, <1>8, <2>2 DEF MaterializeInputSlots
  <2>3. CASE InstallScope(t, c)
    BY <1>6, <1>7, <1>8, <2>3 DEF InstallScope, executor
  <2>4. CASE LeaveScope(t, c)
    BY <1>4, <1>6, <1>7, <1>8, <2>4 DEF LeaveScope
  <2>5. CASE ReportDriver(t, c)
    BY <1>4, <1>6, <1>7, <1>8, <2>5 DEF ReportDriver
  <2>6. CASE EmitRows(t, c)
    BY <1>5, <1>8, <2>6
  <2> QED BY <1>8, <2>1, <2>2, <2>3, <2>4, <2>5, <2>6 DEF ExecStep
<1>9. ASSUME NEW t \in Threads, NEW c \in Calls, running[t] = c, DriverStep(t, c) PROVE Stacks'
  <2>1. CASE UNCHANGED <<executor, pc>>
    <3>1. UNCHANGED <<running, caller, pc>>
      BY <2>1 DEF executor
    <3> QED BY <1>0, <3>1 DEF Stacks
  <2>2. CASE DriverReturns(t, c)
    BY <1>6, <1>7, <1>9, <2>2 DEF DriverReturns, executor
  <2> QED BY <1>9, <2>1, <2>2 DEF DriverStep, LookupInput, CheckForInterrupts
<1>10. CASE UNCHANGED vars
  BY <1>0, <1>10 DEF vars, Stacks
<1> QED BY <1>1, <1>2, <1>3, <1>8, <1>9, <1>10 DEF Next

-----------------------------------------------------------------------------
(* Frames: what every thread_local holds.                                  *)

\* Where a call on top of a stack stands to the others.
LEMMA TopOfStack ==
  ASSUME TypeOK, Stacks, NEW t \in Threads, NEW c \in Calls, running[t] = c
  PROVE  /\ c # Null
         /\ \A d \in Calls : caller[d] # c
         /\ \A u \in Threads : u # t => running[u] # c
BY ExecAssumption DEF TypeOK, Stacks

\* A step that enters or leaves no scope and moves no call.
LEMMA StayFrames ==
  ASSUME TypeOK, Frames, NEW c \in Calls, NEW label, pc' = [pc EXCEPT ![c] = label],
         label \in InScope <=> pc[c] \in InScope,
         UNCHANGED <<running, caller, tls, saved, sawInterrupt>>
  PROVE  Frames'
<1>1. \A d \in Calls : pc'[d] \in InScope <=> pc[d] \in InScope
  BY DEF TypeOK
<1>2. ASSUME NEW u \in Threads PROVE tls'[u] = Held(running[u])'
  <2>1. running[u] \in Calls \cup {Null} /\ tls[u] = Held(running[u])
    BY DEF TypeOK, Frames
  <2> QED BY <1>1, <2>1 DEF Held, Frame, Enclosing
<1>3. ASSUME NEW d \in Calls, pc'[d] \in InScope PROVE saved'[d] = Enclosing(d)'
  BY <1>1, <1>3 DEF Frames, Frame, Enclosing
<1> QED BY <1>2, <1>3 DEF Frames

\* A call outside its scope leaves the stack, or leaves its scope and the stack
\* at once: the frame around it is installed, as the next call expects.
LEMMA PopFrames ==
  ASSUME TypeOK, Stacks, Frames, NEW t \in Threads, NEW c \in Calls, running[t] = c,
         NEW label, label \notin InScope, pc' = [pc EXCEPT ![c] = label], Pop(t, c),
         tls' = [tls EXCEPT ![t] = Enclosing(c)],
         \A d \in Calls : d # c => saved'[d] = saved[d],
         UNCHANGED sawInterrupt
  PROVE  Frames'
<1>1. /\ c # Null
      /\ \A d \in Calls : caller[d] # c
      /\ \A u \in Threads : u # t => running[u] # c
  BY TopOfStack
<1>2. running' = [running EXCEPT ![t] = caller[c]] /\ caller' = [caller EXCEPT ![c] = Null]
  BY DEF Pop
<1>3. ASSUME NEW d \in Calls, d # c
      PROVE  pc'[d] = pc[d] /\ caller'[d] = caller[d] /\ saved'[d] = saved[d]
  BY <1>2, <1>3 DEF TypeOK
<1>4. ASSUME NEW u \in Threads, u # t PROVE tls'[u] = Held(running[u])'
  <2>1. tls'[u] = tls[u] /\ running'[u] = running[u]
    BY <1>2, <1>4 DEF TypeOK
  <2>2. tls[u] = Held(running[u]) /\ running[u] \in Calls \cup {Null} /\ running[u] # c
    BY <1>1, <1>4 DEF TypeOK, Frames
  <2> QED BY <1>3, <2>1, <2>2 DEF Held, Frame, Enclosing
<1>5. tls'[t] = Held(running[t])'
  <2>1. tls'[t] = Enclosing(c) /\ running'[t] = caller[c]
    BY <1>2 DEF TypeOK
  <2>2. CASE caller[c] = Null
    BY <2>1, <2>2 DEF Enclosing, Held
  <2>3. CASE caller[c] # Null
    <3>1. caller[c] \in Calls /\ caller[c] # c /\ pc[caller[c]] = "driver"
      BY <1>1, <2>3 DEF TypeOK, Stacks
    <3>2. pc'[caller[c]] \in InScope
      BY <1>3, <3>1 DEF InScope
    <3> QED BY <2>1, <2>3, <3>1, <3>2 DEF Held, Frame, Enclosing
  <2> QED BY <2>2, <2>3
<1>6. ASSUME NEW d \in Calls, pc'[d] \in InScope PROVE saved'[d] = Enclosing(d)'
  <2>1. d # c
    BY <1>6 DEF TypeOK
  <2> QED BY <1>3, <1>6, <2>1 DEF Frames, Enclosing, Frame
<1> QED BY <1>4, <1>5, <1>6 DEF Frames

\* A call that was on no stack begins, outside its scope: what the thread holds
\* is the frame of the driver it was called from.
LEMMA PushFrames ==
  ASSUME TypeOK, Stacks, Frames, NEW t \in Threads, NEW c \in Calls, Push(t, c),
         NEW label, label \notin InScope, pc' = [pc EXCEPT ![c] = label],
         UNCHANGED <<tls, saved, sawInterrupt>>
  PROVE  Frames'
<1>1. /\ c # Null
      /\ \A u \in Threads : running[u] # c
      /\ \A d \in Calls : caller[d] # c
  <2>1. c # Null /\ pc[c] = "fed"
    BY ExecAssumption DEF Push
  <2>2. pc[c] \notin Active /\ pc[c] # "driver"
    BY <2>1 DEF Active, InScope
  <2> QED BY <2>1, <2>2 DEF TypeOK, Stacks
<1>2. /\ running' = [running EXCEPT ![t] = c]
      /\ caller' = [caller EXCEPT ![c] = running[t]]
      /\ running[t] # Null => pc[running[t]] = "driver"
  BY DEF Push, CanCall
<1>3. ASSUME NEW d \in Calls, d # c PROVE pc'[d] = pc[d] /\ caller'[d] = caller[d]
  BY <1>2, <1>3 DEF TypeOK
<1>4. ASSUME NEW u \in Threads, u # t PROVE tls'[u] = Held(running[u])'
  <2>1. running'[u] = running[u]
    BY <1>2, <1>4 DEF TypeOK
  <2>2. tls[u] = Held(running[u]) /\ running[u] \in Calls \cup {Null} /\ running[u] # c
    BY <1>1 DEF TypeOK, Frames
  <2> QED BY <1>3, <2>1, <2>2 DEF Held, Frame, Enclosing
<1>5. tls'[t] = Held(running[t])'
  <2>1. running'[t] = c /\ caller'[c] = running[t] /\ pc'[c] \notin InScope
    BY <1>2 DEF TypeOK
  <2>2. tls[t] = Held(running[t])
    BY DEF Frames
  <2>3. running[t] # Null => pc[running[t]] \in InScope
    BY <1>2 DEF InScope
  <2> QED BY <1>1, <2>1, <2>2, <2>3 DEF Held, Frame, Enclosing
<1>6. ASSUME NEW d \in Calls, pc'[d] \in InScope PROVE saved'[d] = Enclosing(d)'
  <2>1. d # c
    BY <1>6 DEF TypeOK
  <2> QED BY <1>3, <1>6, <2>1 DEF Frames, Enclosing, Frame
<1> QED BY <1>4, <1>5, <1>6 DEF Frames

\* The frame on top changes, and only it.
LEMMA SwitchFrames ==
  ASSUME TypeOK, Stacks, Frames, NEW t \in Threads, NEW c \in Calls, running[t] = c,
         \A d \in Calls : d # c => /\ pc'[d] = pc[d]
                                  /\ saved'[d] = saved[d]
                                  /\ sawInterrupt'[d] = sawInterrupt[d],
         UNCHANGED <<running, caller>>,
         tls' = [tls EXCEPT ![t] = Held(c)'],
         pc'[c] \in InScope => saved'[c] = Enclosing(c)
  PROVE  Frames'
<1>1. /\ c # Null
      /\ \A d \in Calls : caller[d] # c
      /\ \A u \in Threads : u # t => running[u] # c
  BY TopOfStack
<1>2. \A d \in Calls : caller[d] \in Calls \cup {Null}
  BY DEF TypeOK
<1>3. ASSUME NEW u \in Threads, u # t PROVE tls'[u] = Held(running[u])'
  <2>1. tls'[u] = tls[u]
    BY <1>3 DEF TypeOK
  <2>2. tls[u] = Held(running[u]) /\ running[u] \in Calls \cup {Null} /\ running[u] # c
    BY <1>1, <1>3 DEF TypeOK, Frames
  <2> QED BY <1>1, <1>2, <2>1, <2>2 DEF Held, Frame, Enclosing
<1>4. tls'[t] = Held(running[t])'
  <2>1. tls'[t] = Held(c)'
    BY DEF TypeOK
  <2> QED BY <2>1 DEF Held, Frame, Enclosing
<1>5. ASSUME NEW d \in Calls, pc'[d] \in InScope PROVE saved'[d] = Enclosing(d)'
  <2>1. Enclosing(d)' = Enclosing(d)
    BY <1>1, <1>2 DEF Enclosing, Frame
  <2>2. CASE d = c
    BY <1>5, <2>1, <2>2
  <2>3. CASE d # c
    BY <1>5, <2>1, <2>3 DEF Frames
  <2> QED BY <2>2, <2>3
<1> QED BY <1>3, <1>4, <1>5 DEF Frames

\* ScopedRoutingContext keeps a thread's frame that of its innermost driver, nested
\* drivers included.
THEOREM FramesStep == IInv /\ [Next]_vars => Frames'
<1> SUFFICES ASSUME IInv, [Next]_vars PROVE Frames'
  OBVIOUS
<1>0. TypeOK /\ Stacks /\ Frames /\ Interrupts
  BY DEF IInv
<1>1. ASSUME NEW c \in Calls, FeedInput(c) \/ DestroyState(c) PROVE Frames'
  <2>1. PICK label \in {"fed", "gone"} : pc' = [pc EXCEPT ![c] = label]
    BY <1>1 DEF FeedInput, DestroyState, Goto
  <2>2. pc[c] \notin InScope /\ label \notin InScope
    BY <1>1, <2>1 DEF FeedInput, DestroyState, InScope
  <2>3. UNCHANGED <<running, caller, tls, saved, sawInterrupt>>
    BY <1>1 DEF FeedInput, DestroyState, executor, scope, history
  <2> QED BY <1>0, <2>1, <2>2, <2>3, StayFrames
<1>2. ASSUME NEW x \in Contexts, Interrupt(x) PROVE Frames'
  <2>1. UNCHANGED <<running, caller, pc, tls, saved, sawInterrupt>>
    BY <1>2 DEF Interrupt, scope, history
  <2> QED BY <1>0, <2>1 DEF Frames, Held, Frame, Enclosing
<1>3. ASSUME NEW t \in Threads, NEW c \in Calls, StartExec(t, c) \/ ResumeExec(t, c)
      PROVE  Frames'
  <2>1. PICK label \in {"run", "emit"} : pc' = [pc EXCEPT ![c] = label]
    BY <1>3 DEF StartExec, ResumeExec, Goto
  <2>2. label \notin InScope
    BY DEF InScope
  <2>3. Push(t, c) /\ UNCHANGED <<tls, saved, sawInterrupt>>
    BY <1>3 DEF StartExec, ResumeExec, scope, history
  <2> QED BY <1>0, <2>1, <2>2, <2>3, PushFrames
\* An exception, or the end of a chunk, outside the scope.
<1>4. ASSUME NEW t \in Threads, NEW c \in Calls, running[t] = c, pc[c] \notin InScope,
             NEW label \in {"gone", "fed", "idle"}, Goto(c, label), Pop(t, c),
             UNCHANGED <<tls, saved, sawInterrupt>>
      PROVE  Frames'
  <2>1. label \notin InScope
    BY DEF InScope
  <2>2. tls[t] = Enclosing(c)
    BY <1>0, <1>4, ExecAssumption DEF Frames, Held
  <2>3. tls' = [tls EXCEPT ![t] = Enclosing(c)]
    BY <1>0, <1>4, <2>2 DEF TypeOK
  <2>4. pc' = [pc EXCEPT ![c] = label]
    BY <1>4 DEF Goto
  <2> QED BY <1>0, <1>4, <2>1, <2>3, <2>4, PopFrames
\* A step of ExecFunction outside the scope.
<1>5. ASSUME NEW c \in Calls, pc[c] \notin InScope, NEW label \in {"materialize", "install", "emit"},
             Goto(c, label), UNCHANGED <<running, caller, tls, saved, sawInterrupt>>
      PROVE  Frames'
  BY <1>0, <1>5, StayFrames DEF Goto, InScope
<1>6. ASSUME NEW t \in Threads, NEW c \in Calls, running[t] = c, RunOnce(t, c) PROVE Frames'
  <2>1. pc[c] \notin InScope /\ UNCHANGED <<tls, saved, sawInterrupt>>
    BY <1>6 DEF RunOnce, InScope, scope
  <2>2. CASE Throw(t, c, "invalid_input")
    BY <1>4, <1>6, <2>1, <2>2 DEF Throw
  <2>3. CASE UNCHANGED <<running, caller>> /\ (Goto(c, "emit") \/ Goto(c, "materialize"))
    BY <1>5, <2>1, <2>3
  <2> QED BY <1>6, <2>2, <2>3 DEF RunOnce
<1>7. ASSUME NEW t \in Threads, NEW c \in Calls, running[t] = c, MaterializeInputSlots(t, c)
      PROVE  Frames'
  <2>1. pc[c] \notin InScope /\ UNCHANGED <<tls, saved, sawInterrupt>>
    BY <1>7 DEF MaterializeInputSlots, InScope, scope
  <2>2. CASE Throw(t, c, "invalid_input")
    BY <1>4, <1>7, <2>1, <2>2 DEF Throw
  <2>3. CASE UNCHANGED <<running, caller>> /\ Goto(c, "install")
    BY <1>5, <2>1, <2>3
  <2> QED BY <1>7, <2>2, <2>3 DEF MaterializeInputSlots
<1>8. ASSUME NEW t \in Threads, NEW c \in Calls, running[t] = c, InstallScope(t, c) PROVE Frames'
  <2>1. /\ pc[c] = "install"
        /\ pc' = [pc EXCEPT ![c] = "driver"]
        /\ saved' = [saved EXCEPT ![c] = tls[t]]
        /\ tls' = [tls EXCEPT ![t] = [context |-> CtxOf[c], registry |-> c, interrupted |-> FALSE]]
        /\ UNCHANGED <<running, caller, sawInterrupt>>
    BY <1>8 DEF InstallScope, ScopeFor, Goto, executor, history
  <2>2. sawInterrupt[c] = FALSE
    <3>1. pc[c] # "gone" /\ pc[c] \notin InScope
      BY <2>1 DEF InScope
    <3>2. ~sawInterrupt[c]
      BY <1>0, <3>1 DEF Interrupts, InterruptNeverSwallowed
    <3>3. sawInterrupt[c] \in BOOLEAN
      BY <1>0 DEF TypeOK
    <3> QED BY <3>2, <3>3
  <2>3. c # Null /\ pc'[c] \in InScope
    BY <1>0, <2>1, ExecAssumption DEF TypeOK, InScope
  <2>4. Held(c)' = [context |-> CtxOf[c], registry |-> c, interrupted |-> FALSE]
    BY <2>1, <2>2, <2>3 DEF Held, Frame
  <2>5. tls[t] = Enclosing(c)
    BY <1>0, <1>8, <2>1, <2>3 DEF Frames, Held, InScope
  <2>6. saved'[c] = Enclosing(c)
    BY <1>0, <2>1, <2>5 DEF TypeOK
  <2>7. tls' = [tls EXCEPT ![t] = Held(c)']
    BY <2>1, <2>4
  <2>8. \A d \in Calls : d # c => /\ pc'[d] = pc[d]
                                 /\ saved'[d] = saved[d]
                                 /\ sawInterrupt'[d] = sawInterrupt[d]
    BY <1>0, <2>1 DEF TypeOK
  <2>9. UNCHANGED <<running, caller>>
    BY <2>1
  <2> QED BY <1>0, <1>8, <2>6, <2>7, <2>8, <2>9, SwitchFrames
<1>9. ASSUME NEW t \in Threads, NEW c \in Calls, running[t] = c, LookupInput(t, c) PROVE Frames'
  <2>1. UNCHANGED <<running, caller, pc, tls, saved, sawInterrupt>>
    BY <1>9 DEF LookupInput, executor, scope
  <2> QED BY <1>0, <2>1 DEF Frames, Held, Frame, Enclosing
<1>10. ASSUME NEW t \in Threads, NEW c \in Calls, running[t] = c, CheckForInterrupts(t, c)
       PROVE  Frames'
  <2>1. /\ pc[c] = "driver"
        /\ tls' = [tls EXCEPT ![t] = Flagged(tls[t])]
        /\ sawInterrupt' = [sawInterrupt EXCEPT ![c] = TRUE]
        /\ UNCHANGED <<running, caller, pc, saved>>
    BY <1>10 DEF CheckForInterrupts, executor
  <2>2. c # Null /\ pc[c] \in InScope /\ sawInterrupt'[c] = TRUE
    BY <1>0, <2>1, ExecAssumption DEF TypeOK, InScope
  <2>3. tls[t] = Frame(c)
    BY <1>0, <1>10, <2>2 DEF Frames, Held
  <2>4. Flagged(tls[t]) = [context |-> CtxOf[c], registry |-> c, interrupted |-> TRUE]
    BY <2>3 DEF Flagged, Frame
  <2>5. Held(c)' = [context |-> CtxOf[c], registry |-> c, interrupted |-> TRUE]
    BY <2>1, <2>2 DEF Held, Frame
  <2>6. tls' = [tls EXCEPT ![t] = Held(c)']
    BY <2>1, <2>4, <2>5
  <2>7. \A d \in Calls : d # c => /\ pc'[d] = pc[d]
                                 /\ saved'[d] = saved[d]
                                 /\ sawInterrupt'[d] = sawInterrupt[d]
    BY <1>0, <2>1 DEF TypeOK
  <2>8. saved'[c] = Enclosing(c)
    BY <1>0, <2>1, <2>2 DEF Frames
  <2> QED BY <1>0, <1>10, <2>1, <2>6, <2>7, <2>8, SwitchFrames
<1>11. ASSUME NEW t \in Threads, NEW c \in Calls, running[t] = c, DriverReturns(t, c) PROVE Frames'
  <2>1. pc[c] \in InScope /\ pc' = [pc EXCEPT ![c] = "leave"] /\ "leave" \in InScope
    BY <1>11 DEF DriverReturns, Goto, InScope
  <2>2. UNCHANGED <<running, caller, tls, saved, sawInterrupt>>
    BY <1>11 DEF DriverReturns, executor, scope, history
  <2> QED BY <1>0, <2>1, <2>2, StayFrames
<1>12. ASSUME NEW t \in Threads, NEW c \in Calls, running[t] = c, LeaveScope(t, c) PROVE Frames'
  <2>1. /\ pc[c] \in InScope
        /\ tls' = [tls EXCEPT ![t] = saved[c]]
        /\ saved' = [saved EXCEPT ![c] = NoThreadState]
        /\ UNCHANGED sawInterrupt
    BY <1>12 DEF LeaveScope, Restored, InScope
  <2>2. saved[c] = Enclosing(c)
    BY <1>0, <2>1 DEF Frames
  <2>3. \A d \in Calls : d # c => saved'[d] = saved[d]
    BY <1>0, <2>1 DEF TypeOK
  <2>4. CASE Throw(t, c, "interrupted") \/ Throw(t, c, "bad_alloc")
    <3>1. pc' = [pc EXCEPT ![c] = "gone"] /\ Pop(t, c) /\ "gone" \notin InScope
      BY <2>4 DEF Throw, Goto, InScope
    <3> QED BY <1>0, <1>12, <2>1, <2>2, <2>3, <3>1, PopFrames
  <2>5. CASE Goto(c, "report") /\ UNCHANGED <<running, caller>>
    <3>1. pc' = [pc EXCEPT ![c] = "report"] /\ pc'[c] \notin InScope /\ c # Null
      BY <1>0, <2>5, ExecAssumption DEF Goto, InScope, TypeOK
    <3>2. Held(c)' = Enclosing(c)
      BY <2>1, <2>5, <3>1 DEF Held, Enclosing, Frame
    <3>3. tls' = [tls EXCEPT ![t] = Held(c)']
      BY <2>1, <2>2, <3>2
    <3>4. \A d \in Calls : d # c => /\ pc'[d] = pc[d]
                                   /\ saved'[d] = saved[d]
                                   /\ sawInterrupt'[d] = sawInterrupt[d]
      BY <1>0, <2>1, <2>3, <3>1 DEF TypeOK
    <3> QED BY <1>0, <1>12, <2>5, <3>1, <3>3, <3>4, SwitchFrames
  <2> QED BY <1>12, <2>4, <2>5 DEF LeaveScope
<1>13. ASSUME NEW t \in Threads, NEW c \in Calls, running[t] = c, ReportDriver(t, c) PROVE Frames'
  <2>1. pc[c] \notin InScope /\ UNCHANGED <<tls, saved, sawInterrupt>>
    BY <1>13 DEF ReportDriver, InScope, scope
  <2>2. CASE Throw(t, c, ExceptionFor(driver[c].err))
    BY <1>4, <1>13, <2>1, <2>2 DEF Throw
  <2>3. CASE UNCHANGED <<running, caller>> /\ Goto(c, "emit")
    BY <1>5, <2>1, <2>3
  <2> QED BY <1>13, <2>2, <2>3 DEF ReportDriver
<1>14. ASSUME NEW t \in Threads, NEW c \in Calls, running[t] = c, EmitRows(t, c) PROVE Frames'
  <2>1. pc[c] \notin InScope /\ UNCHANGED <<tls, saved, sawInterrupt>> /\ Pop(t, c)
    BY <1>14 DEF EmitRows, InScope, scope
  <2>2. Goto(c, "fed") \/ Goto(c, "idle")
    BY <1>14 DEF EmitRows
  <2> QED BY <1>4, <1>14, <2>1, <2>2
<1>15. CASE UNCHANGED vars
  <2>1. UNCHANGED <<running, caller, pc, tls, saved, sawInterrupt>>
    BY <1>15 DEF vars
  <2> QED BY <1>0, <2>1 DEF Frames, Held, Frame, Enclosing
<1> QED
  BY <1>1, <1>2, <1>3, <1>6, <1>7, <1>8, <1>9, <1>10, <1>11, <1>12, <1>13, <1>14, <1>15
  DEF Next, ExecStep, DriverStep

-----------------------------------------------------------------------------
(* Inputs: what a driver can read. *)

\* A step that leaves the registry and the lookups alone.
LEMMA StayInputs ==
  ASSUME TypeOK, Inputs, NEW c \in Calls, NEW label, pc' = [pc EXCEPT ![c] = label],
         label \in InScope => pc[c] \in InScope \cup {"install"},
         pc[c] \in InScope => label \in InScope,
         label # "install",
         UNCHANGED <<chunk, registry, lookups>>
  PROVE  Inputs'
<1>1. \A d \in Calls : pc'[d] \in InScope => pc[d] \in InScope \cup {"install"}
  BY DEF TypeOK
<1>2. \A d \in Calls : /\ pc'[d] = "install" => pc[d] = "install"
                      /\ pc[d] \in InScope => pc'[d] \in InScope
  BY DEF TypeOK
<1>3. \A d \in Calls : lookups[d] # {} => pc[d] \in InScope
  BY DEF Inputs
<1> QED BY <1>1, <1>2, <1>3 DEF TypeOK, Inputs

\* A step that drops the inputs of a call which is not, or no longer, in its scope.
LEMMA DropInputs ==
  ASSUME TypeOK, Inputs, NEW c \in Calls, NEW label, pc' = [pc EXCEPT ![c] = label],
         label \notin InScope \cup {"install"},
         lookups'[c] = {},
         \A d \in Calls : d # c => registry'[d] = registry[d] /\ lookups'[d] = lookups[d],
         UNCHANGED chunk
  PROVE  Inputs'
<1>1. \A d \in Calls : pc'[d] \in InScope \cup {"install"} => d # c
  BY DEF TypeOK
<1>2. \A d \in Calls : d # c => pc'[d] = pc[d]
  BY DEF TypeOK
<1> QED BY <1>1, <1>2 DEF Inputs

\* What a frame's registry refers to is the present chunk of the call it belongs
\* to.
THEOREM InputsStep == IInv /\ [Next]_vars => Inputs'
<1> SUFFICES ASSUME IInv, [Next]_vars PROVE Inputs'
  OBVIOUS
<1>0. TypeOK /\ Stacks /\ Frames /\ Inputs
  BY DEF IInv
<1>1. ASSUME NEW c \in Calls, FeedInput(c) PROVE Inputs'
  <2>1. /\ pc[c] = "idle"
        /\ pc' = [pc EXCEPT ![c] = "fed"]
        /\ chunk' = [chunk EXCEPT ![c] = chunk[c] + 1]
        /\ UNCHANGED <<registry, lookups>>
    BY <1>1 DEF FeedInput, Goto, state, history
  <2>2. lookups[c] = {}
    BY <1>0, <2>1 DEF Inputs, InScope
  <2>3. \A d \in Calls : pc'[d] \in InScope \cup {"install"} => d # c
    BY <1>0, <2>1 DEF TypeOK, InScope
  <2>4. \A d \in Calls : d # c => pc'[d] = pc[d] /\ chunk'[d] = chunk[d]
    BY <1>0, <2>1 DEF TypeOK
  <2> QED BY <1>0, <2>1, <2>2, <2>3, <2>4 DEF Inputs
<1>2. ASSUME NEW c \in Calls, DestroyState(c) PROVE Inputs'
  <2>1. /\ pc[c] \notin InScope
        /\ pc' = [pc EXCEPT ![c] = "gone"]
        /\ registry' = [registry EXCEPT ![c] = 0]
        /\ UNCHANGED <<chunk, lookups>>
    BY <1>2 DEF DestroyState, Goto, InScope, executor
  <2>2. lookups'[c] = {} /\ "gone" \notin InScope \cup {"install"}
    BY <1>0, <2>1 DEF Inputs, InScope
  <2>3. \A d \in Calls : d # c => registry'[d] = registry[d] /\ lookups'[d] = lookups[d]
    BY <1>0, <2>1 DEF TypeOK
  <2> QED BY <1>0, <2>1, <2>2, <2>3, DropInputs
<1>3. ASSUME NEW x \in Contexts, Interrupt(x) PROVE Inputs'
  BY <1>0, <1>3 DEF Interrupt, Inputs, state, history
<1>4. ASSUME NEW t \in Threads, NEW c \in Calls, StartExec(t, c) \/ ResumeExec(t, c)
      PROVE  Inputs'
  <2>1. PICK label \in {"run", "emit"} : pc' = [pc EXCEPT ![c] = label]
    BY <1>4 DEF StartExec, ResumeExec, Goto
  <2>2. label \notin InScope /\ label # "install" /\ pc[c] \notin InScope
    BY <1>4 DEF StartExec, ResumeExec, Push, InScope
  <2>3. UNCHANGED <<chunk, registry, lookups>>
    BY <1>4 DEF StartExec, ResumeExec, state, history
  <2> QED BY <1>0, <2>1, <2>2, <2>3, StayInputs
\* An exception outside the scope.
<1>5. ASSUME NEW t \in Threads, NEW c \in Calls, pc[c] \notin InScope, NEW why,
             Throw(t, c, why), UNCHANGED <<chunk, lookups>>
      PROVE  Inputs'
  <2>1. /\ pc' = [pc EXCEPT ![c] = "gone"]
        /\ registry' = [registry EXCEPT ![c] = 0]
        /\ "gone" \notin InScope \cup {"install"}
    BY <1>5 DEF Throw, Goto, InScope
  <2>2. lookups'[c] = {}
    BY <1>0, <1>5 DEF Inputs
  <2>3. \A d \in Calls : d # c => registry'[d] = registry[d] /\ lookups'[d] = lookups[d]
    BY <1>0, <1>5, <2>1 DEF TypeOK
  <2> QED BY <1>0, <1>5, <2>1, <2>2, <2>3, DropInputs
<1>6. ASSUME NEW t \in Threads, NEW c \in Calls, running[t] = c, RunOnce(t, c) PROVE Inputs'
  <2>1. pc[c] \notin InScope /\ UNCHANGED <<chunk, lookups>>
    BY <1>6 DEF RunOnce, InScope
  <2>2. CASE Throw(t, c, "invalid_input")
    BY <1>5, <2>1, <2>2
  <2>3. CASE UNCHANGED state /\ (Goto(c, "emit") \/ Goto(c, "materialize"))
    <3>1. UNCHANGED registry
      BY <2>3 DEF state
    <3>2. PICK label \in {"emit", "materialize"} : pc' = [pc EXCEPT ![c] = label]
      BY <2>3 DEF Goto
    <3>3. label \notin InScope /\ label # "install"
      BY DEF InScope
    <3> QED BY <1>0, <2>1, <3>1, <3>2, <3>3, StayInputs
  <2> QED BY <1>6, <2>2, <2>3 DEF RunOnce
<1>7. ASSUME NEW t \in Threads, NEW c \in Calls, running[t] = c, MaterializeInputSlots(t, c)
      PROVE  Inputs'
  <2>1. pc[c] \notin InScope /\ UNCHANGED <<chunk, lookups>>
    BY <1>7 DEF MaterializeInputSlots, InScope
  <2>2. CASE Throw(t, c, "invalid_input")
    BY <1>5, <2>1, <2>2
  <2>3. CASE registry' = [registry EXCEPT ![c] = InputsFor(c)] /\ Goto(c, "install")
    <3>1. /\ registry' = [registry EXCEPT ![c] = chunk[c]]
          /\ pc' = [pc EXCEPT ![c] = "install"]
      BY <2>3 DEF InputsFor, Goto
    <3>2. lookups[c] = {} /\ registry'[c] = chunk[c]
      BY <1>0, <2>1, <3>1 DEF Inputs, TypeOK
    <3>3. \A d \in Calls : d # c => pc'[d] = pc[d] /\ registry'[d] = registry[d]
      BY <1>0, <3>1 DEF TypeOK
    <3> QED BY <1>0, <2>1, <3>2, <3>3 DEF Inputs
  <2> QED BY <1>7, <2>2, <2>3 DEF MaterializeInputSlots
<1>8. ASSUME NEW c \in Calls, NEW t \in Threads, InstallScope(t, c) \/ DriverReturns(t, c)
      PROVE  Inputs'
  <2>1. PICK label \in InScope : pc' = [pc EXCEPT ![c] = label]
    BY <1>8 DEF InstallScope, DriverReturns, Goto, InScope
  <2>2. pc[c] \in InScope \cup {"install"} /\ label # "install"
    BY <1>8 DEF InstallScope, DriverReturns, InScope
  <2>3. UNCHANGED <<chunk, registry, lookups>>
    BY <1>8 DEF InstallScope, DriverReturns, executor, state, history
  <2> QED BY <1>0, <2>1, <2>2, <2>3, StayInputs
\* The driver reads the registry of its own call, filled from its chunk.
<1>9. ASSUME NEW t \in Threads, NEW c \in Calls, running[t] = c, LookupInput(t, c) PROVE Inputs'
  <2>1. pc[c] \in InScope /\ c # Null
    BY <1>9, ExecAssumption DEF LookupInput, InScope
  <2>2. tls[t].registry = c
    <3>1. tls[t] = Frame(c)
      BY <1>0, <1>9, <2>1 DEF Frames, Held
    <3> QED BY <3>1 DEF Frame
  <2>3. registry[c] = chunk[c]
    BY <1>0, <2>1 DEF Inputs
  <2>4. /\ lookups' = [lookups EXCEPT ![c] = lookups[c] \cup {<<c, chunk[c]>>}]
        /\ UNCHANGED <<pc, chunk, registry>>
    BY <1>9, <2>2, <2>3 DEF LookupInput, executor, state
  <2>5. lookups'[c] \subseteq {<<c, chunk[c]>>}
    BY <1>0, <2>4 DEF Inputs, TypeOK
  <2>6. \A d \in Calls : d # c => lookups'[d] = lookups[d]
    BY <1>0, <2>4 DEF TypeOK
  <2> QED BY <1>0, <2>1, <2>4, <2>5, <2>6 DEF Inputs
<1>10. ASSUME NEW t \in Threads, NEW c \in Calls, CheckForInterrupts(t, c) PROVE Inputs'
  BY <1>0, <1>10 DEF CheckForInterrupts, Inputs, executor, state
<1>11. ASSUME NEW t \in Threads, NEW c \in Calls, LeaveScope(t, c) PROVE Inputs'
  <2>1. lookups' = [lookups EXCEPT ![c] = {}] /\ UNCHANGED chunk
    BY <1>11 DEF LeaveScope
  <2>2. lookups'[c] = {} /\ \A d \in Calls : d # c => lookups'[d] = lookups[d]
    BY <1>0, <2>1 DEF TypeOK
  <2>3. PICK label \in {"gone", "report"} : pc' = [pc EXCEPT ![c] = label]
    BY <1>11 DEF LeaveScope, Throw, Goto
  <2>4. label \notin InScope \cup {"install"}
    BY DEF InScope
  <2>5. registry' = [registry EXCEPT ![c] = 0] \/ UNCHANGED registry
    BY <1>11 DEF LeaveScope, Throw, state, Goto, Pop
  <2>6. \A d \in Calls : d # c => registry'[d] = registry[d]
    BY <1>0, <2>5 DEF TypeOK
  <2> QED BY <1>0, <2>1, <2>2, <2>3, <2>4, <2>6, DropInputs
<1>12. ASSUME NEW t \in Threads, NEW c \in Calls, ReportDriver(t, c) PROVE Inputs'
  <2>1. pc[c] \notin InScope /\ UNCHANGED <<chunk, lookups>>
    BY <1>12 DEF ReportDriver, InScope
  <2>2. CASE Throw(t, c, ExceptionFor(driver[c].err))
    BY <1>5, <2>1, <2>2
  <2>3. CASE Goto(c, "emit") /\ UNCHANGED registry
    BY <1>0, <2>1, <2>3, StayInputs DEF Goto, InScope
  <2> QED BY <1>12, <2>2, <2>3 DEF ReportDriver
<1>13. ASSUME NEW t \in Threads, NEW c \in Calls, EmitRows(t, c) PROVE Inputs'
  <2>1. UNCHANGED <<chunk, registry, lookups>>
    BY <1>13 DEF EmitRows
  <2>2. PICK label \in {"fed", "idle"} : pc' = [pc EXCEPT ![c] = label]
    BY <1>13 DEF EmitRows, Goto
  <2>3. label \notin InScope /\ label # "install" /\ pc[c] \notin InScope
    BY <1>13 DEF EmitRows, InScope
  <2> QED BY <1>0, <2>1, <2>2, <2>3, StayInputs
<1>14. CASE UNCHANGED vars
  BY <1>0, <1>14 DEF vars, Inputs
<1> QED
  BY <1>1, <1>2, <1>3, <1>4, <1>6, <1>7, <1>8, <1>9, <1>10, <1>11, <1>12, <1>13, <1>14
  DEF Next, ExecStep, DriverStep

-----------------------------------------------------------------------------
(* Interrupts: what becomes of one. *)

\* A step that interrupts nothing more and ends no call as interrupted.
LEMMA StayInterrupts ==
  ASSUME TypeOK, Interrupts, NEW c \in Calls, NEW label, pc' = [pc EXCEPT ![c] = label],
         pc[c] \in InScope => label \in InScope,
         pc[c] # "gone",
         UNCHANGED <<interrupted, sawInterrupt>>,
         \A d \in Calls : outcome'[d] = outcome[d] \/ (d = c /\ outcome'[d] # "interrupted")
  PROVE  Interrupts'
<1>1. \A d \in Calls : sawInterrupt'[d] => interrupted'[CtxOf[d]]
  BY DEF Interrupts
<1>2. ASSUME NEW d \in Calls, sawInterrupt'[d]
      PROVE  pc'[d] \in InScope \/ (pc'[d] = "gone" /\ outcome'[d] \in {"interrupted", "bad_alloc"})
  <2>1. pc[d] \in InScope \/ (pc[d] = "gone" /\ outcome[d] \in {"interrupted", "bad_alloc"})
    BY <1>2 DEF Interrupts, InterruptNeverSwallowed
  <2>2. CASE d = c
    BY <2>1, <2>2 DEF TypeOK
  <2>3. CASE d # c
    BY <2>1, <2>3 DEF TypeOK
  <2> QED BY <2>2, <2>3
<1>3. \A d \in Calls : outcome'[d] = "interrupted" => interrupted'[CtxOf[d]]
  BY DEF Interrupts, InterruptedOnlyByOwnQuery
<1> QED BY <1>1, <1>2, <1>3 DEF Interrupts, InterruptNeverSwallowed, InterruptedOnlyByOwnQuery

\* The interrupted flag follows the frames: raised by a poll in a query that was
\* interrupted, read by the same call.
THEOREM InterruptsStep == IInv /\ [Next]_vars => Interrupts'
<1> SUFFICES ASSUME IInv, [Next]_vars PROVE Interrupts'
  OBVIOUS
<1>0. TypeOK /\ Frames /\ Interrupts
  BY DEF IInv
<1>1. ASSUME NEW c \in Calls, FeedInput(c) \/ DestroyState(c) PROVE Interrupts'
  <2>1. pc[c] # "gone" /\ pc[c] \notin InScope
    BY <1>1 DEF FeedInput, DestroyState, InScope
  <2>2. PICK label : pc' = [pc EXCEPT ![c] = label]
    BY <1>1 DEF FeedInput, DestroyState, Goto
  <2>3. UNCHANGED <<interrupted, sawInterrupt>>
    BY <1>1 DEF FeedInput, DestroyState, executor, history
  <2>4. outcome' = outcome \/ outcome' = [outcome EXCEPT ![c] = "closed"]
    BY <1>1 DEF FeedInput, DestroyState, history
  <2>5. \A d \in Calls : outcome'[d] = outcome[d] \/ (d = c /\ outcome'[d] # "interrupted")
    BY <1>0, <2>4 DEF TypeOK
  <2> QED BY <1>0, <2>1, <2>2, <2>3, <2>5, StayInterrupts
<1>2. ASSUME NEW x \in Contexts, Interrupt(x) PROVE Interrupts'
  <2>1. /\ interrupted' = [interrupted EXCEPT ![x] = TRUE]
        /\ UNCHANGED <<pc, sawInterrupt, outcome>>
    BY <1>2 DEF Interrupt, history
  <2>2. \A c \in Calls : interrupted[CtxOf[c]] => interrupted'[CtxOf[c]]
    BY <1>0, <2>1, ExecAssumption DEF TypeOK
  <2> QED BY <1>0, <2>1, <2>2 DEF Interrupts, InterruptNeverSwallowed, InterruptedOnlyByOwnQuery
\* An exception outside the scope is not an InterruptException.
<1>3. ASSUME NEW t \in Threads, NEW c \in Calls, pc[c] \notin InScope, pc[c] # "gone",
             NEW why, why # "interrupted", Throw(t, c, why),
             UNCHANGED <<interrupted, sawInterrupt>>
      PROVE  Interrupts'
  <2>1. pc' = [pc EXCEPT ![c] = "gone"] /\ outcome' = [outcome EXCEPT ![c] = why]
    BY <1>3 DEF Throw, Goto
  <2>2. \A d \in Calls : outcome'[d] = outcome[d] \/ (d = c /\ outcome'[d] # "interrupted")
    BY <1>0, <1>3, <2>1 DEF TypeOK
  <2> QED BY <1>0, <1>3, <2>1, <2>2, StayInterrupts
\* A step of ExecFunction or of the driver that throws nothing.
<1>4. ASSUME NEW c \in Calls, pc[c] # "gone", NEW label, Goto(c, label),
             pc[c] \in InScope => label \in InScope,
             UNCHANGED <<interrupted, sawInterrupt, outcome>>
      PROVE  Interrupts'
  BY <1>0, <1>4, StayInterrupts DEF Goto
<1>5. ASSUME NEW t \in Threads, NEW c \in Calls, StartExec(t, c) \/ ResumeExec(t, c)
      PROVE  Interrupts'
  <2>1. pc[c] # "gone" /\ pc[c] \notin InScope
    BY <1>5 DEF StartExec, ResumeExec, Push, InScope
  <2>2. UNCHANGED <<interrupted, sawInterrupt, outcome>>
    BY <1>5 DEF StartExec, ResumeExec, history
  <2>3. Goto(c, "run") \/ Goto(c, "emit")
    BY <1>5 DEF StartExec, ResumeExec
  <2> QED BY <1>4, <2>1, <2>2, <2>3
<1>6. ASSUME NEW t \in Threads, NEW c \in Calls, RunOnce(t, c) PROVE Interrupts'
  <2>1. pc[c] # "gone" /\ pc[c] \notin InScope /\ UNCHANGED <<interrupted, sawInterrupt>>
    BY <1>6 DEF RunOnce, InScope
  <2>2. CASE Throw(t, c, "invalid_input")
    BY <1>3, <2>1, <2>2
  <2>3. CASE UNCHANGED outcome /\ (Goto(c, "emit") \/ Goto(c, "materialize"))
    BY <1>4, <2>1, <2>3
  <2> QED BY <1>6, <2>2, <2>3 DEF RunOnce
<1>7. ASSUME NEW t \in Threads, NEW c \in Calls, MaterializeInputSlots(t, c) PROVE Interrupts'
  <2>1. pc[c] # "gone" /\ pc[c] \notin InScope /\ UNCHANGED <<interrupted, sawInterrupt>>
    BY <1>7 DEF MaterializeInputSlots, InScope
  <2>2. CASE Throw(t, c, "invalid_input")
    BY <1>3, <2>1, <2>2
  <2>3. CASE UNCHANGED outcome /\ Goto(c, "install")
    BY <1>4, <2>1, <2>3
  <2> QED BY <1>7, <2>2, <2>3 DEF MaterializeInputSlots
<1>8. ASSUME NEW t \in Threads, NEW c \in Calls, InstallScope(t, c) \/ DriverReturns(t, c)
      PROVE  Interrupts'
  <2>1. pc[c] # "gone" /\ UNCHANGED <<interrupted, sawInterrupt, outcome>>
    BY <1>8 DEF InstallScope, DriverReturns, executor, history
  <2>2. PICK label \in InScope : Goto(c, label)
    BY <1>8 DEF InstallScope, DriverReturns, InScope
  <2> QED BY <1>4, <2>1, <2>2
<1>9. ASSUME NEW t \in Threads, NEW c \in Calls, LookupInput(t, c) PROVE Interrupts'
  <2>1. UNCHANGED <<pc, interrupted, sawInterrupt, outcome>>
    BY <1>9 DEF LookupInput, executor
  <2> QED BY <1>0, <2>1 DEF Interrupts, InterruptNeverSwallowed, InterruptedOnlyByOwnQuery
\* The context a driver polls is its own query's.
<1>10. ASSUME NEW t \in Threads, NEW c \in Calls, running[t] = c, CheckForInterrupts(t, c)
       PROVE  Interrupts'
  <2>1. /\ pc[c] \in InScope
        /\ interrupted[tls[t].context]
        /\ sawInterrupt' = [sawInterrupt EXCEPT ![c] = TRUE]
        /\ UNCHANGED <<pc, interrupted, outcome>>
    BY <1>10 DEF CheckForInterrupts, InScope, executor
  <2>2. tls[t] = Frame(c)
    BY <1>0, <1>10, <2>1, ExecAssumption DEF Frames, Held
  <2>3. interrupted[CtxOf[c]]
    BY <2>1, <2>2 DEF Frame
  <2>4. \A d \in Calls : d # c => sawInterrupt'[d] = sawInterrupt[d]
    BY <1>0, <2>1 DEF TypeOK
  <2> QED BY <1>0, <2>1, <2>3, <2>4
      DEF Interrupts, InterruptNeverSwallowed, InterruptedOnlyByOwnQuery
\* The flag RunDriver reads is the one its own driver set.
<1>11. ASSUME NEW t \in Threads, NEW c \in Calls, running[t] = c, LeaveScope(t, c)
       PROVE  Interrupts'
  <2>1. pc[c] \in InScope /\ UNCHANGED <<interrupted, sawInterrupt>>
    BY <1>11 DEF LeaveScope, InScope
  <2>2. tls[t] = Frame(c)
    BY <1>0, <1>11, <2>1, ExecAssumption DEF Frames, Held
  <2>3. WasInterrupted(t) <=> sawInterrupt[c]
    BY <2>2 DEF WasInterrupted, Frame
  <2>4. ASSUME NEW why \in {"interrupted", "bad_alloc"}, Throw(t, c, why),
               why = "interrupted" => WasInterrupted(t)
        PROVE  Interrupts'
    <3>1. pc' = [pc EXCEPT ![c] = "gone"] /\ outcome' = [outcome EXCEPT ![c] = why]
      BY <2>4 DEF Throw, Goto
    <3>2. pc'[c] = "gone" /\ outcome'[c] = why
      BY <1>0, <3>1 DEF TypeOK
    <3>3. \A d \in Calls : d # c => pc'[d] = pc[d] /\ outcome'[d] = outcome[d]
      BY <1>0, <3>1 DEF TypeOK
    <3>4. why = "interrupted" => interrupted[CtxOf[c]]
      BY <1>0, <2>3, <2>4 DEF Interrupts
    <3> QED BY <1>0, <2>1, <2>4, <3>2, <3>3, <3>4
        DEF Interrupts, InterruptNeverSwallowed, InterruptedOnlyByOwnQuery
  <2>5. CASE ~WasInterrupted(t) /\ Goto(c, "report") /\ UNCHANGED outcome
    <3>1. \A d \in Calls : d # c => pc'[d] = pc[d]
      BY <1>0, <2>5 DEF TypeOK, Goto
    <3>2. ~sawInterrupt[c]
      BY <2>3, <2>5
    <3> QED BY <1>0, <2>1, <2>5, <3>1, <3>2
        DEF Interrupts, InterruptNeverSwallowed, InterruptedOnlyByOwnQuery
  <2> QED BY <1>11, <2>4, <2>5 DEF LeaveScope
<1>12. ASSUME NEW t \in Threads, NEW c \in Calls, ReportDriver(t, c) PROVE Interrupts'
  <2>1. pc[c] # "gone" /\ pc[c] \notin InScope /\ UNCHANGED <<interrupted, sawInterrupt>>
    BY <1>12 DEF ReportDriver, InScope
  <2>2. CASE driver[c].err # "none"
    <3>1. driver[c].err \in DriverErrors \ {"none"}
      BY <1>0, <2>2 DEF TypeOK
    <3>2. ExceptionFor(driver[c].err) # "interrupted"
      BY <3>1, ExceptionTypes
    <3>3. Throw(t, c, ExceptionFor(driver[c].err))
      BY <1>12, <2>2 DEF ReportDriver
    <3> QED BY <1>3, <2>1, <3>2, <3>3
  <2>3. CASE Goto(c, "emit") /\ UNCHANGED outcome
    BY <1>4, <2>1, <2>3
  <2> QED BY <1>12, <2>2, <2>3 DEF ReportDriver
<1>13. ASSUME NEW t \in Threads, NEW c \in Calls, EmitRows(t, c) PROVE Interrupts'
  <2>1. /\ pc[c] # "gone" /\ pc[c] \notin InScope
        /\ UNCHANGED <<interrupted, sawInterrupt, outcome>>
        /\ Goto(c, "fed") \/ Goto(c, "idle")
    BY <1>13 DEF EmitRows, InScope
  <2> QED BY <1>4, <2>1
<1>14. CASE UNCHANGED vars
  BY <1>0, <1>14 DEF vars, Interrupts, InterruptNeverSwallowed, InterruptedOnlyByOwnQuery
<1> QED
  BY <1>1, <1>2, <1>5, <1>6, <1>7, <1>8, <1>9, <1>10, <1>11, <1>12, <1>13, <1>14
  DEF Next, ExecStep, DriverStep

-----------------------------------------------------------------------------
(* The theorems. *)

\* The initial states satisfy each part of IInv.
LEMMA InitInvariant == Init => IInv
<1> SUFFICES ASSUME Init PROVE IInv
  OBVIOUS
<1>1. TypeOK /\ Emission
  BY InitTypes
<1>2. Stacks
  BY DEF Init, Stacks
<1>3. Frames
  BY DEF Init, Frames, Held, InScope
<1>4. Inputs
  BY DEF Init, Inputs, InScope
<1>5. Interrupts
  BY DEF Init, Interrupts, InterruptNeverSwallowed, InterruptedOnlyByOwnQuery
<1> QED BY <1>1, <1>2, <1>3, <1>4, <1>5 DEF IInv

\* Every thread_local is at all times the frame its thread's stack calls for.
THEOREM Invariance == Spec => []IInv
<1>1. IInv /\ [Next]_vars => IInv'
  BY TypeStep, StacksStep, FramesStep, InputsStep, InterruptsStep DEF IInv
<1> QED BY InitInvariant, <1>1, PTL DEF Spec

\* The variables have the types the C++ declares.
THEOREM TypeCorrect == Spec => []TypeOK
<1>1. IInv => TypeOK
  BY DEF IInv
<1> QED BY Invariance, <1>1, PTL

\* A driver only ever reads its own call's inputs, of the chunk at hand, nested
\* drivers or not: what the save and restore of ScopedRoutingContext is for.
THEOREM InputsAreOwn == Spec => []OwnInputs
<1>1. IInv => OwnInputs
  BY DEF IInv, Inputs, OwnInputs
<1> QED BY Invariance, <1>1, PTL

\* No thread_local points to a registry whose call has left its driver, or to
\* one filled from a chunk that is gone.
THEOREM RegistryIsAlive == Spec => []NoDanglingRegistry
<1>1. IInv => NoDanglingRegistry
  <2> SUFFICES ASSUME IInv, NEW t \in Threads, tls[t].registry # Null
               PROVE  /\ pc[tls[t].registry] \in InScope
                      /\ registry[tls[t].registry] = chunk[tls[t].registry]
    BY DEF NoDanglingRegistry
  <2>0. TypeOK /\ Stacks /\ Frames /\ Inputs
    BY DEF IInv
  <2> DEFINE c == running[t]
  <2>1. tls[t] = Held(c)
    BY <2>0 DEF Frames
  <2>2. c \in Calls /\ c # Null
    BY <2>0, <2>1 DEF Held, NoThreadState, TypeOK
  <2>3. CASE pc[c] \in InScope
    <3>1. tls[t].registry = c
      BY <2>1, <2>2, <2>3 DEF Held, Frame
    <3> QED BY <2>0, <2>2, <2>3, <3>1 DEF Inputs
  <2>4. CASE pc[c] \notin InScope
    <3>1. tls[t] = Enclosing(c)
      BY <2>1, <2>2, <2>4 DEF Held
    <3>2. caller[c] # Null /\ tls[t].registry = caller[c]
      BY <3>1 DEF Enclosing, NoThreadState, Frame
    <3>3. caller[c] \in Calls /\ pc[caller[c]] \in InScope
      BY <2>0, <2>2, <3>2 DEF TypeOK, Stacks, InScope
    <3> QED BY <2>0, <3>2, <3>3 DEF Inputs
  <2> QED BY <2>3, <2>4
<1> QED BY Invariance, <1>1, PTL

\* A driver reads its own inputs only and reaches none that are gone.
THEOREM InputsAreOwnAndAlive == Spec => []OwnLiveInputs
<1> QED BY InputsAreOwn, RegistryIsAlive, PTL DEF OwnLiveInputs

\* An interrupt that stopped a driver always becomes the InterruptException.
THEOREM InterruptsSurface == Spec => []InterruptNeverSwallowed
<1>1. IInv => InterruptNeverSwallowed
  BY DEF IInv, Interrupts
<1> QED BY Invariance, <1>1, PTL

\* No call ends as interrupted unless its own query was.
THEOREM InterruptsDoNotLeak == Spec => []InterruptedOnlyByOwnQuery
<1>1. IInv => InterruptedOnlyByOwnQuery
  BY DEF IInv, Interrupts
<1> QED BY Invariance, <1>1, PTL

\* An interrupted run, and no other, ends its call as interrupted, for any number of
\* threads, calls and queries.
THEOREM InterruptsExact == Spec => []InterruptsAreExact
<1>1. IInv => InterruptsAreExact
  BY DEF IInv, Interrupts, InterruptsAreExact
<1> QED BY Invariance, <1>1, PTL

=============================================================================
