-------------------------------- MODULE Exec --------------------------------
(***************************************************************************)
(* _pgr_exec at run time: threads of the DuckDB executor drive table       *)
(* in-out calls (exec_function.cpp), each call runs a pgRouting driver     *)
(* once per input chunk (exec_common.cpp), and the driver reaches its      *)
(* inputs and the interrupt flag of its query only through the thread's    *)
(* ThreadState (input_registry.cpp).                                       *)
(*                                                                         *)
(* A "call" is one ExecState: the local state of one _pgr_exec operator.   *)
(* Several calls may belong to one ClientContext (two pgr_* functions in   *)
(* one statement).  The executor, the client that interrupts a query and   *)
(* the driver itself are not in src/: they appear as the environment       *)
(* actions marked (external).                                              *)
(***************************************************************************)
EXTENDS Naturals, Sequences

CONSTANTS
  Threads,    \* threads of the executor
  Calls,      \* ExecState objects
  Contexts,   \* ClientContext objects
  CtxOf,      \* the context a call runs in
  NoRows,     \* calls whose bind data say no_rows
  Polling,    \* calls whose driver has interrupt checks in its loops: not
              \* every pgRouting algorithm has them (docs/BACKLOG.md)
  Null,       \* nullptr
  VectorSize, \* STANDARD_VECTOR_SIZE, 2048 in DuckDB
  MaxInputs,  \* bound: input chunks the executor feeds to one call
  MaxRows,    \* bound: rows a driver returns for one input
  Nesting     \* may a driver re-enter the executor on its own thread?
              \* FALSE today; input_registry.hpp says what TRUE must not break

ASSUME ExecAssumption ==
  /\ CtxOf \in [Calls -> Contexts]
  /\ NoRows \subseteq Calls
  /\ Polling \subseteq Calls
  /\ Null \notin Calls \cup Contexts
  /\ VectorSize \in Nat \ {0}
  /\ MaxInputs \in Nat
  /\ MaxRows \in Nat
  /\ Nesting \in BOOLEAN

VARIABLES
  \* the executor
  running,     \* thread -> the call whose ExecFunction is on top of its stack
  caller,      \* call -> the call below it on that stack
  pc,          \* call -> where its ExecFunction is
  chunk,       \* call -> number of the input chunk it was last given
  single,      \* call -> does that chunk have exactly one row?
  interrupted, \* context -> has the client interrupted the query?
  \* ThreadState and ScopedRoutingContext
  tls,         \* thread -> the thread_local ThreadState
  saved,       \* call -> what its ScopedRoutingContext will restore
  \* ExecState
  ran,
  registry,    \* call -> the chunk its registered inputs point into (0: none)
  result,      \* call -> the driver rows it holds: how many, for which chunk
  emit,        \* call -> EmitState.offset
  \* RunDriver's own variables
  driver,      \* call -> rows and err as the driver left them
  \* history
  lookups,     \* call -> <<registry, chunk>> pairs its present driver has read
  sawInterrupt,\* call -> has an interrupt check thrown in it?
  out,         \* call -> <<chunk, row>> pairs emitted so far
  outcome      \* call -> how it ended

executor == <<running, caller, chunk, single, interrupted>>
scope    == <<tls, saved>>
state    == <<ran, registry, result, emit>>
history  == <<lookups, sawInterrupt, out, outcome>>
vars     == <<running, caller, pc, chunk, single, interrupted, tls, saved, ran,
              registry, result, emit, driver, lookups, sawInterrupt, out, outcome>>

ThreadState == [context : Contexts \cup {Null}, registry : Calls \cup {Null},
                interrupted : BOOLEAN]
NoThreadState == [context |-> Null, registry |-> Null, interrupted |-> FALSE]

NoResult == [from |-> 0, count |-> 0]
NoDriver == [rows |-> 0, err |-> "none"]

\* What RunDriver tells apart in the text a driver left in err.
DriverErrors == {"none", "assertion", "allocation", "other"}

\* Mutant of ExceptionFor: the text reaches the caller unclassified.
RawError(err) == err

\* The exception RunDriver raises for a driver's error text.
ExceptionFor(err) ==
  [assertion |-> "internal", allocation |-> "out_of_memory", other |-> "invalid_input"][err]

InScope == {"driver", "leave"}
Active  == {"run", "materialize", "install", "report", "emit"} \cup InScope

Min2(a, b) == IF a < b THEN a ELSE b

Init ==
  /\ running = [t \in Threads |-> Null]
  /\ caller = [c \in Calls |-> Null]
  /\ pc = [c \in Calls |-> "idle"]
  /\ chunk = [c \in Calls |-> 0]
  /\ single = [c \in Calls |-> TRUE]
  /\ interrupted = [x \in Contexts |-> FALSE]
  /\ tls = [t \in Threads |-> NoThreadState]
  /\ saved = [c \in Calls |-> NoThreadState]
  /\ ran = [c \in Calls |-> FALSE]
  /\ registry = [c \in Calls |-> 0]
  /\ result = [c \in Calls |-> NoResult]
  /\ emit = [c \in Calls |-> 0]
  /\ driver = [c \in Calls |-> NoDriver]
  /\ lookups = [c \in Calls |-> {}]
  /\ sawInterrupt = [c \in Calls |-> FALSE]
  /\ out = [c \in Calls |-> <<>>]
  /\ outcome = [c \in Calls |-> "none"]

Goto(c, label) == pc' = [pc EXCEPT ![c] = label]

\* ExecFunction of c returns or unwinds: the frame below it is on top again.
Pop(t, c) ==
  /\ running' = [running EXCEPT ![t] = caller[c]]
  /\ caller' = [caller EXCEPT ![c] = Null]

\* An exception leaves ExecFunction; the executor destroys the ExecState.
Throw(t, c, exception) ==
  /\ Pop(t, c)
  /\ Goto(c, "gone")
  /\ outcome' = [outcome EXCEPT ![c] = exception]
  /\ ran' = [ran EXCEPT ![c] = FALSE]
  /\ registry' = [registry EXCEPT ![c] = 0]
  /\ result' = [result EXCEPT ![c] = NoResult]
  /\ emit' = [emit EXCEPT ![c] = 0]

-----------------------------------------------------------------------------
(* The executor and the client (external). *)

\* The executor has an input chunk for the call, usually of one row.
FeedInput(c) ==
  /\ pc[c] = "idle"
  /\ chunk[c] < MaxInputs
  /\ chunk' = [chunk EXCEPT ![c] = @ + 1]
  /\ \E one \in BOOLEAN : single' = [single EXCEPT ![c] = one]
  /\ Goto(c, "fed")
  /\ UNCHANGED <<running, caller, interrupted, scope, state, driver, history>>

\* No more input, or no more rows wanted (LIMIT, an error elsewhere in the
\* query): the executor destroys the ExecState between two calls.
DestroyState(c) ==
  /\ pc[c] \in {"idle", "fed"}
  /\ Goto(c, "gone")
  /\ outcome' = [outcome EXCEPT ![c] = "closed"]
  /\ ran' = [ran EXCEPT ![c] = FALSE]
  /\ registry' = [registry EXCEPT ![c] = 0]
  /\ result' = [result EXCEPT ![c] = NoResult]
  /\ emit' = [emit EXCEPT ![c] = 0]
  /\ UNCHANGED <<executor, scope, driver, lookups, sawInterrupt, out>>

Interrupt(x) ==
  /\ ~interrupted[x]
  /\ interrupted' = [interrupted EXCEPT ![x] = TRUE]
  /\ UNCHANGED <<running, caller, pc, chunk, single, scope, state, driver, history>>

\* A thread calls ExecFunction when it is free or, were nesting possible,
\* from inside the driver on top of its stack.
CanCall(t) == running[t] # Null => Nesting /\ pc[running[t]] = "driver"

Push(t, c) ==
  /\ pc[c] = "fed"
  /\ CanCall(t)
  /\ running' = [running EXCEPT ![t] = c]
  /\ caller' = [caller EXCEPT ![c] = running[t]]

-----------------------------------------------------------------------------
(* ExecFunction and RunOnce (exec_function.cpp). *)

\* Mutant of StartOffset: the offset survives from the previous chunk.
OffsetKept(c) == emit[c]

\* emit = EmitState()
StartOffset(c) == 0

\* First call for this chunk: what the previous chunk left is dropped.
StartExec(t, c) ==
  /\ Push(t, c)
  /\ ~ran[c]
  /\ ran' = [ran EXCEPT ![c] = TRUE]
  /\ result' = [result EXCEPT ![c] = NoResult]
  /\ emit' = [emit EXCEPT ![c] = StartOffset(c)]
  /\ Goto(c, "run")
  /\ UNCHANGED <<chunk, single, interrupted, scope, registry, driver, history>>

\* Called again after HAVE_MORE_OUTPUT, possibly on another thread.
ResumeExec(t, c) ==
  /\ Push(t, c)
  /\ ran[c]
  /\ Goto(c, "emit")
  /\ UNCHANGED <<chunk, single, interrupted, scope, state, driver, history>>

RunOnce(t, c) ==
  /\ pc[c] = "run"
  /\ \/ /\ ~single[c]
        /\ Throw(t, c, "invalid_input")
     \/ /\ single[c]
        /\ c \in NoRows
        /\ Goto(c, "emit")
        /\ UNCHANGED <<running, caller, state, outcome>>
     \/ /\ single[c]
        /\ c \notin NoRows
        /\ Goto(c, "materialize")
        /\ UNCHANGED <<running, caller, state, outcome>>
  /\ UNCHANGED <<chunk, single, interrupted, scope, driver, lookups, sawInterrupt, out>>

\* Mutant of InputsFor: a registry that is not empty is not filled again.
InputsOnce(c) == IF registry[c] = 0 THEN chunk[c] ELSE registry[c]

\* The chunk a fresh registry is filled from.
InputsFor(c) == chunk[c]

\* Empties the registry and registers the slots of the current chunk, or
\* refuses one of its cells (a NULL id, an input registered twice).
MaterializeInputSlots(t, c) ==
  /\ pc[c] = "materialize"
  /\ \/ /\ registry' = [registry EXCEPT ![c] = InputsFor(c)]
        /\ Goto(c, "install")
        /\ UNCHANGED <<running, caller, ran, result, emit, outcome>>
     \/ Throw(t, c, "invalid_input")
  /\ UNCHANGED <<chunk, single, interrupted, scope, driver, lookups, sawInterrupt, out>>

-----------------------------------------------------------------------------
(* RunDriver (exec_common.cpp) and the pg_compat access layer.             *)

\* Mutants of ScopeFor: the flag is not cleared; the context is not installed.
ScopeKeepsFlag(t, c) ==
  [context |-> CtxOf[c], registry |-> c, interrupted |-> tls[t].interrupted]
ScopeWithoutContext(t, c) ==
  [context |-> tls[t].context, registry |-> c, interrupted |-> FALSE]

\* What the scope of c installs on its thread.
ScopeFor(t, c) == [context |-> CtxOf[c], registry |-> c, interrupted |-> FALSE]

\* The constructor of ScopedRoutingContext.
InstallScope(t, c) ==
  /\ pc[c] = "install"
  /\ saved' = [saved EXCEPT ![c] = tls[t]]
  /\ tls' = [tls EXCEPT ![t] = ScopeFor(t, c)]
  /\ Goto(c, "driver")
  /\ UNCHANGED <<executor, state, driver, history>>

\* The driver fetches an input.  Without a registry LookupInput throws, which
\* the driver turns into an error text (DriverReturns).
LookupInput(t, c) ==
  /\ pc[c] = "driver"
  /\ tls[t].registry # Null
  /\ lookups' = [lookups EXCEPT ![c] = @ \cup {<<tls[t].registry, registry[tls[t].registry]>>}]
  /\ UNCHANGED <<executor, pc, scope, state, driver, sawInterrupt, out, outcome>>

\* state.interrupted = true
Flagged(s) == [context |-> s.context, registry |-> s.registry, interrupted |-> TRUE]

\* A poll that finds the query interrupted throws through the driver, which
\* catches it; a poll that does not changes nothing.
CheckForInterrupts(t, c) ==
  /\ pc[c] = "driver"
  /\ c \in Polling
  /\ tls[t].context # Null
  /\ interrupted[tls[t].context]
  /\ tls' = [tls EXCEPT ![t] = Flagged(@)]
  /\ sawInterrupt' = [sawInterrupt EXCEPT ![c] = TRUE]
  /\ UNCHANGED <<executor, pc, saved, state, driver, lookups, out, outcome>>

\* (external) The driver returns.  It has caught whatever was thrown inside
\* it, an interrupt included, so any rows and any error text may come back.
DriverReturns(t, c) ==
  /\ pc[c] = "driver"
  /\ \E n \in 0 .. MaxRows, e \in DriverErrors :
       driver' = [driver EXCEPT ![c] = [rows |-> n, err |-> e]]
  /\ Goto(c, "leave")
  /\ UNCHANGED <<executor, scope, state, history>>

\* Mutant of WasInterrupted: RunDriver does not look at the flag.
NeverInterrupted(t) == FALSE

WasInterrupted(t) == tls[t].interrupted

\* Mutant of Restored: the destructor leaves the scope installed.
NothingRestored(t, c) == tls[t]

Restored(t, c) == saved[c]

\* WasInterrupted, and the destructor of ScopedRoutingContext on every path: also that
\* of a std::bad_alloc thrown inside the scope once the driver is back, while its
\* messages are copied (TakeMessage, log.str()); the flag is then not looked at.
LeaveScope(t, c) ==
  /\ pc[c] = "leave"
  /\ tls' = [tls EXCEPT ![t] = Restored(t, c)]
  /\ saved' = [saved EXCEPT ![c] = NoThreadState]
  /\ lookups' = [lookups EXCEPT ![c] = {}]
  /\ \/ /\ WasInterrupted(t)
        /\ Throw(t, c, "interrupted")
        /\ driver' = [driver EXCEPT ![c] = NoDriver]
     \/ /\ Throw(t, c, "bad_alloc")
        /\ driver' = [driver EXCEPT ![c] = NoDriver]
     \/ /\ ~WasInterrupted(t)
        /\ Goto(c, "report")
        /\ UNCHANGED <<running, caller, state, outcome, driver>>
  /\ UNCHANGED <<chunk, single, interrupted, sawInterrupt, out>>

\* An error text drops the rows and becomes an exception; without one the
\* rows move into ExecState.
ReportDriver(t, c) ==
  /\ pc[c] = "report"
  /\ driver' = [driver EXCEPT ![c] = NoDriver]
  /\ \/ /\ driver[c].err # "none"
        /\ Throw(t, c, ExceptionFor(driver[c].err))
     \/ /\ driver[c].err = "none"
        /\ result' = [result EXCEPT ![c] = [from |-> chunk[c], count |-> driver[c].rows]]
        /\ Goto(c, "emit")
        /\ UNCHANGED <<running, caller, ran, registry, emit, outcome>>
  /\ UNCHANGED <<chunk, single, interrupted, scope, lookups, sawInterrupt, out>>

-----------------------------------------------------------------------------
(* The tail of ExecFunction: one output chunk. *)

EmitRows(t, c) ==
  LET n == Min2(VectorSize, result[c].count - emit[c]) IN
  /\ pc[c] = "emit"
  /\ out' = [out EXCEPT ![c] = @ \o [i \in 1 .. n |-> <<result[c].from, emit[c] + i>>]]
  /\ emit' = [emit EXCEPT ![c] = @ + n]
  /\ Pop(t, c)
  /\ \/ /\ emit[c] + n < result[c].count       \* HAVE_MORE_OUTPUT
        /\ Goto(c, "fed")
        /\ UNCHANGED ran
     \/ /\ emit[c] + n >= result[c].count      \* NEED_MORE_INPUT
        /\ ran' = [ran EXCEPT ![c] = FALSE]
        /\ Goto(c, "idle")
  /\ UNCHANGED <<chunk, single, interrupted, scope, registry, result, driver, lookups,
                 sawInterrupt, outcome>>

\* One step of the extension's own code on thread t.
ExecStep(t, c) ==
  \/ RunOnce(t, c)
  \/ MaterializeInputSlots(t, c)
  \/ InstallScope(t, c)
  \/ LeaveScope(t, c)
  \/ ReportDriver(t, c)
  \/ EmitRows(t, c)

\* One step of the driver running in call c.
DriverStep(t, c) ==
  \/ LookupInput(t, c)
  \/ CheckForInterrupts(t, c)
  \/ DriverReturns(t, c)

Next ==
  \/ \E c \in Calls : FeedInput(c) \/ DestroyState(c)
  \/ \E x \in Contexts : Interrupt(x)
  \/ \E t \in Threads, c \in Calls : StartExec(t, c) \/ ResumeExec(t, c)
  \/ \E t \in Threads, c \in Calls : running[t] = c /\ ExecStep(t, c)
  \/ \E t \in Threads, c \in Calls : running[t] = c /\ DriverStep(t, c)

Spec == Init /\ [][Next]_vars

\* Weak fairness of the extension's own steps, which never wait; of the driver's
\* interrupt checks, which pgRouting makes in its loops; and of the unwinding
\* that follows one that threw.  Nothing says that a driver left alone returns,
\* that a client interrupts, or that the executor calls again.
Fairness ==
  \A t \in Threads :
    /\ WF_vars(\E c \in Calls : running[t] = c /\ ExecStep(t, c))
    /\ WF_vars(\E c \in Calls : running[t] = c /\ CheckForInterrupts(t, c))
    /\ WF_vars(\E c \in Calls : running[t] = c /\ sawInterrupt[c] /\ DriverReturns(t, c))

FairSpec == Spec /\ Fairness

-----------------------------------------------------------------------------
(* Properties. *)

Results == [from : Nat, count : Nat]

\* The types of the variables, as exec_function.cpp and input_registry.cpp
\* declare them.
TypeOK ==
  /\ running \in [Threads -> Calls \cup {Null}]
  /\ caller \in [Calls -> Calls \cup {Null}]
  /\ pc \in [Calls -> {"idle", "fed", "gone"} \cup Active]
  /\ chunk \in [Calls -> Nat]
  /\ single \in [Calls -> BOOLEAN]
  /\ interrupted \in [Contexts -> BOOLEAN]
  /\ tls \in [Threads -> ThreadState]
  /\ saved \in [Calls -> ThreadState]
  /\ ran \in [Calls -> BOOLEAN]
  /\ registry \in [Calls -> Nat]
  /\ result \in [Calls -> Results]
  /\ emit \in [Calls -> Nat]
  /\ driver \in [Calls -> [rows : Nat, err : DriverErrors]]
  /\ lookups \in [Calls -> SUBSET (Calls \X Nat)]
  /\ sawInterrupt \in [Calls -> BOOLEAN]
  /\ out \in [Calls -> Seq(Nat \X Nat)]
  /\ outcome \in [Calls -> {"none", "closed", "interrupted", "internal",
                            "out_of_memory", "invalid_input", "bad_alloc"}]

\* A driver only ever reads the inputs of its own call, and those of the chunk
\* that call is working on: never another query's through a thread_local left
\* over or overwritten, never an earlier chunk's (exec_function.cpp:165).
OwnInputs == \A c \in Calls : lookups[c] \subseteq {<<c, chunk[c]>>}

\* No thread keeps a way to inputs that are no longer alive: a registry some
\* thread_local points to belongs to a call that is inside its driver scope,
\* and points into the chunk that call still holds.
NoDanglingRegistry ==
  \A t \in Threads : LET c == tls[t].registry IN
    c # Null => pc[c] \in InScope /\ registry[c] = chunk[c]

\* What a driver reads is its own, and what it could reach is alive.
OwnLiveInputs == OwnInputs /\ NoDanglingRegistry

\* An interrupt that stopped a driver reaches the caller, whatever the driver
\* did with the exception: the call reports no error of the driver and emits no
\* row of that run (exec_common.cpp:153-157).  Only memory running out before
\* RunDriver looks comes first.
InterruptNeverSwallowed ==
  \A c \in Calls : sawInterrupt[c] =>
    \/ pc[c] \in InScope
    \/ pc[c] = "gone" /\ outcome[c] \in {"interrupted", "bad_alloc"}

\* A call ends as interrupted only if its own query was interrupted: the flag of
\* another query, or of an earlier run on this thread, does not leak into it.
InterruptedOnlyByOwnQuery ==
  \A c \in Calls : outcome[c] = "interrupted" => interrupted[CtxOf[c]]

\* An interrupted run, and no other, ends its call as interrupted.
InterruptsAreExact == InterruptNeverSwallowed /\ InterruptedOnlyByOwnQuery

\* Once the query is interrupted, a running call leaves ExecFunction even if
\* its driver would never have returned by itself, provided the driver polls.
InterruptStopsCall ==
  \A c \in Polling :
    (pc[c] \in Active /\ interrupted[CtxOf[c]]) ~> pc[c] \notin Active

-----------------------------------------------------------------------------
(* Refinement. *)

Answered == [c \in Calls |-> \/ pc[c] \in {"idle", "emit", "gone"}
                             \/ pc[c] = "fed" /\ ran[c]]

\* Rows of the last answer, and how many of them have been given.
Owed == [c \in Calls |-> IF ran[c] THEN result[c].count ELSE 0]
Handed == [c \in Calls |-> IF ran[c] THEN emit[c] ELSE 0]

Abstract == INSTANCE RoutingCall WITH
  input    <- chunk,
  answered <- Answered,
  rows     <- Owed,
  given    <- Handed,
  sent     <- out,
  end      <- outcome,
  stopped  <- interrupted

\* ExecFunction implements RoutingCall: every input answered once, every row
\* given once and in order, nothing given for an input that failed.
RoutingCallSpec == Abstract!Spec

=============================================================================
