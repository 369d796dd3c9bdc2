---------------------------- MODULE MCTokenCache ----------------------------
(***************************************************************************)
(* A small instance of TokenCache; threads and keys are interchangeable.   *)
(***************************************************************************)
EXTENDS TokenCache, TLC

Symmetry == Permutations(Threads) \cup Permutations(Keys)
=============================================================================
