----------------------------- MODULE MCListing -----------------------------
(***************************************************************************)
(* A small instance of Listing; shifts are interchangeable.                *)
(***************************************************************************)
EXTENDS Listing, TLC

Symmetry == Permutations(Shifts)
=============================================================================
