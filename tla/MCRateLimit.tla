---------------------------- MODULE MCRateLimit ----------------------------
(* RateLimit with one task more than a window and one sleep take up.        *)
EXTENDS RateLimit

Symmetry == Permutations(Users)
=============================================================================
