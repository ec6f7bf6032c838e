---------------------------- MODULE MCFamilyDriver ----------------------------
(* An instance of FamilyDriver for model checking. *)
EXTENDS FamilyDriver

\* Two shapes of one struct, and flat and list shapes of structs of their own.
SomeShapes == {"PATH", "KSP", "MST", "TRANSITIVE_CLOSURE", "CONTRACTION_HIERARCHIES"}

=============================================================================
