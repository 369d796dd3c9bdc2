---------------------------- MODULE MCWebConsole ----------------------------
(***************************************************************************)
(* A small instance of WebConsole: two sites, and all shifts at one.       *)
(***************************************************************************)
EXTENDS WebConsole

CONSTANT Home

AllAtHome == [s \in Shifts |-> Home]
=============================================================================
