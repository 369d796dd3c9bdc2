------------------------------ MODULE MCRoster ------------------------------
(***************************************************************************)
(* Small instances of Roster: every two shifts clash.                      *)
(***************************************************************************)
EXTENDS Roster, TLC

Symmetry == Permutations(Requests) \cup Permutations(Shifts)

AllClash == {<<s, t>> \in Shifts \X Shifts : s # t}
=============================================================================
