------------------------------- MODULE MCEmit -------------------------------
(* An instance of Emit for model checking. *)
EXTENDS Emit

\* An edge id, the end of a path, and the end of a route.
SomeEdges == {7, -1, -2}

\* One shape per way of writing a row.
SomeShapes == {"PATH", "KSP", "ROUTES", "MST", "FLOW", "TRANSITIVE_CLOSURE", "CONTRACTED"}

=============================================================================
