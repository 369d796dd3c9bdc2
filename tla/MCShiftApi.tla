----------------------------- MODULE MCShiftApi -----------------------------
(***************************************************************************)
(* Small instances of ShiftApi.  Requests, pods and workers are            *)
(* interchangeable; TLC's symmetry sets are unsound for liveness, so the   *)
(* run that checks both picks one initial state of each class itself: the  *)
(* requests are numbers, ordered by what they ask for, the first is made   *)
(* of the first pod, and the first claim is the first worker's.            *)
(***************************************************************************)
EXTENDS ShiftApi

Weight(a) ==
  CASE a.op = "create" -> IF a.known THEN 0 ELSE 1
    [] a.op = "claim"  -> 2 * a.expected + (IF a.known THEN 0 ELSE 1)
    [] a.op = "cancel" -> 2 * MaxVersion + 2

CanonicalInit ==
  /\ Init
  /\ \A r, q \in Requests : r < q => Weight(arg[r]) <= Weight(arg[q])
  /\ arg[1].pod = CHOOSE p \in Pods : TRUE
  /\ \A r \in Requests :
       arg[r].op = "claim" /\ (\A q \in 1 .. r - 1 : arg[q].op # "claim") =>
         arg[r].worker = CHOOSE w \in Workers : TRUE

\* FairSpec from these states.
CanonicalSpec ==
  CanonicalInit /\ [][Next]_vars /\ \A r \in Requests : WF_vars(Serve(r))
=============================================================================
