----------------------------- MODULE MCContextCache -----------------------------
(* An instance of ContextCache: interchangeable turns.                       *)
EXTENDS ContextCache, TLC

Symmetry == Permutations(Turns)
=================================================================================
