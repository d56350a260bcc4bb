----------------------------- MODULE MCLibrary -----------------------------
(* Instance of Library for TLC: identifiers are interchangeable.           *)
EXTENDS Library, TLC

Symmetry == Permutations(Assets) \cup Permutations(Idents) \cup Permutations(Bundles)
            \cup Permutations(Convs) \cup Permutations(Items) \cup Permutations(Jobs)
=============================================================================
