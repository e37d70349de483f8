------------------------------ MODULE MCGuards ------------------------------
(***************************************************************************)
(* A small instance of Guards for TLC: the keys are interchangeable.       *)
(***************************************************************************)
EXTENDS GuardsInvariant

Symmetry == Permutations(Callers) \cup Permutations(Nonces)
=============================================================================
