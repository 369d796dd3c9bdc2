------------------------------ MODULE MCApiPod ------------------------------
(***************************************************************************)
(* A small instance of ApiPod.                                             *)
(***************************************************************************)
EXTENDS ApiPod, TLC
=============================================================================
