------------------------------ MODULE MCRouter ------------------------------
(* Values and symmetry for model-checking Router.                          *)
EXTENDS RouterRefinement, TLC

CONSTANTS self, a, b, c, d

Symmetric == Permutations({b, c})     \* the neighbours that others speak of, too
SymmetricFar == Permutations({c, d})  \* the nodes that are no neighbours
=============================================================================
