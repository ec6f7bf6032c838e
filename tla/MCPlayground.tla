----------------------------- MODULE MCPlayground -----------------------------
(* An instance of Playground for model checking. *)
EXTENDS Playground

Restless == [edits |-> TRUE, picks |-> TRUE, partial |-> TRUE]
Calm     == [edits |-> FALSE, picks |-> FALSE, partial |-> FALSE]
Picker   == [Calm EXCEPT !.picks = TRUE]
Editor   == [Calm EXCEPT !.edits = TRUE]

AllReaders == {Calm, Restless}
Pickers    == {Picker}
Editors    == {Editor}

=============================================================================
