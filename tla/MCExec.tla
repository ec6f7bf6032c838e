------------------------------- MODULE MCExec -------------------------------
(* Instances of Exec for model checking. *)
EXTENDS Exec, TLC

CONSTANTS c1, c2, c3, q1, q2

\* c1 and c2 in one statement and c3 in another; or one call per query.
TwoCallsInOneQuery == [c \in {c1, c2, c3} |-> IF c = c3 THEN q2 ELSE q1]
TwoQueries == [c \in {c1, c2} |-> IF c = c1 THEN q1 ELSE q2]

Symmetry == Permutations(Threads)

=============================================================================
