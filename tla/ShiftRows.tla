------------------------------ MODULE ShiftRows ------------------------------
(***************************************************************************)
(* The rows of the shifts table, as far as the claim protocol can tell     *)
(* them apart: the status, the assigned worker and the version.  Site,     *)
(* role and times are written once by create_shift and never updated.      *)
(***************************************************************************)
EXTENDS Naturals

CONSTANTS
  Workers,    \* ids of the rows of the workers table
  NoWorker    \* assigned_worker_id IS NULL

ASSUME NoWorkerAssumption == NoWorker \notin Workers

\* CONFIRMED is declared by ShiftStatus and written by no code.  "absent" is
\* the state of an id that has no row yet.
Status == {"absent", "open", "claimed", "cancelled"}

Row == [status: Status, worker: Workers \cup {NoWorker}, version: Nat]

Absent == [status |-> "absent", worker |-> NoWorker, version |-> 0]

Opened == [status |-> "open", worker |-> NoWorker, version |-> 1]

\* A row no claim and no cancellation may leave for an earlier state.
Taken(x) == x.status \in {"claimed", "cancelled"}
==============================================================================
