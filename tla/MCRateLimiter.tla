--------------------------- MODULE MCRateLimiter ---------------------------
(***************************************************************************)
(* RateLimiter on small sets of keys and goroutines.  Nothing in it tells  *)
(* two keys or two goroutines apart, so the states are explored up to      *)
(* their permutations.                                                     *)
(***************************************************************************)
EXTENDS RateLimiter, TLC

Symmetry == Permutations(Keys) \cup Permutations(Callers)
=============================================================================
