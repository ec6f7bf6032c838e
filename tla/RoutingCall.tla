----------------------------- MODULE RoutingCall -----------------------------
(***************************************************************************)
(* What a caller of _pgr_exec may rely on, with no thread, no registry and *)
(* no driver: each input is answered once, the rows of an answer are given *)
(* in order and once, an input whose call fails gives no row at all, and a *)
(* call ends as interrupted only when its own query was interrupted.       *)
(***************************************************************************)
EXTENDS Naturals, Sequences

CONSTANTS Calls, Contexts, CtxOf, MaxRows

VARIABLES
  input,    \* call -> number of inputs taken
  answered, \* call -> is the last input answered?
  rows,     \* call -> rows of that answer, 0 once all are given
  given,    \* call -> how many of them have been given
  sent,     \* call -> every <<input, row>> given so far
  end,      \* call -> how it ended, "none" while open
  stopped   \* context -> has the client interrupted the query?

vars == <<input, answered, rows, given, sent, end, stopped>>

Failures == {"invalid_input", "internal", "out_of_memory", "interrupted", "bad_alloc"}

Init ==
  /\ input = [c \in Calls |-> 0]
  /\ answered = [c \in Calls |-> TRUE]
  /\ rows = [c \in Calls |-> 0]
  /\ given = [c \in Calls |-> 0]
  /\ sent = [c \in Calls |-> <<>>]
  /\ end = [c \in Calls |-> "none"]
  /\ stopped = [x \in Contexts |-> FALSE]

TakeInput(c) ==
  /\ end[c] = "none"
  /\ answered[c]
  /\ rows[c] = 0
  /\ input' = [input EXCEPT ![c] = @ + 1]
  /\ answered' = [answered EXCEPT ![c] = FALSE]
  /\ UNCHANGED <<rows, given, sent, end, stopped>>

Answer(c, n) ==
  /\ end[c] = "none"
  /\ ~answered[c]
  /\ answered' = [answered EXCEPT ![c] = TRUE]
  /\ rows' = [rows EXCEPT ![c] = n]
  /\ UNCHANGED <<input, given, sent, end, stopped>>

\* The next m rows of the answer; nothing is owed once the last one is given.
Give(c, m) ==
  LET all == given[c] + m = rows[c] IN
  /\ end[c] = "none"
  /\ given[c] + m <= rows[c]
  /\ sent' = [sent EXCEPT ![c] = @ \o [i \in 1 .. m |-> <<input[c], given[c] + i>>]]
  /\ given' = [given EXCEPT ![c] = IF all THEN 0 ELSE @ + m]
  /\ rows' = [rows EXCEPT ![c] = IF all THEN 0 ELSE @]
  /\ UNCHANGED <<input, answered, end, stopped>>

Fail(c, why) ==
  /\ end[c] = "none"
  /\ ~answered[c]
  /\ why = "interrupted" => stopped[CtxOf[c]]
  /\ end' = [end EXCEPT ![c] = why]
  /\ answered' = [answered EXCEPT ![c] = TRUE]
  /\ UNCHANGED <<input, rows, given, sent, stopped>>

\* The reader wants no more rows, or there is no more input.
Close(c) ==
  /\ end[c] = "none"
  /\ end' = [end EXCEPT ![c] = "closed"]
  /\ answered' = [answered EXCEPT ![c] = TRUE]
  /\ rows' = [rows EXCEPT ![c] = 0]
  /\ given' = [given EXCEPT ![c] = 0]
  /\ UNCHANGED <<input, sent, stopped>>

Stop(x) ==
  /\ stopped' = [stopped EXCEPT ![x] = TRUE]
  /\ UNCHANGED <<input, answered, rows, given, sent, end>>

Next ==
  \/ \E c \in Calls : TakeInput(c) \/ Close(c)
  \/ \E c \in Calls, n \in 0 .. MaxRows : Answer(c, n)
  \/ \E c \in Calls, m \in 1 .. MaxRows : Give(c, m)
  \/ \E c \in Calls, why \in Failures : Fail(c, why)
  \/ \E x \in Contexts : Stop(x)

Spec == Init /\ [][Next]_vars

=============================================================================
