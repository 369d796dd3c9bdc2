------------------------------- MODULE MCRules -------------------------------
(***************************************************************************)
(* Rules on a week of six hours with shifts of at most three: the starts   *)
(* reach into the second week, so that shifts touch, overlap, lie a rest   *)
(* apart and straddle the boundary of the week.                            *)
(***************************************************************************)
EXTENDS Rules

SmallPolicies == {[max |-> 3, rest |-> 0], [max |-> 4, rest |-> 2]}

OneOffset == {1}
==============================================================================
