-------------------------- MODULE MCRosterConsumer --------------------------
(***************************************************************************)
(* The small instance of RosterConsumer.  Its constants are model values   *)
(* named in the configuration; no symmetry, because it checks liveness.    *)
(***************************************************************************)
EXTENDS RosterConsumer
=============================================================================
