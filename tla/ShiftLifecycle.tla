--------------------------- MODULE ShiftLifecycle ---------------------------
(***************************************************************************)
(* What the write path of shift-api promises: every shift is a register    *)
(* whose operations are atomic.  A claim takes an open shift and nothing   *)
(* else, a cancellation ends it, and the version counts the writes.        *)
(*                                                                         *)
(* Spec is the promise.  LossySpec is the weaker contract of a claim whose *)
(* check and whose write are two statements: a writer that read the row    *)
(* before another writer committed replaces a taken row from its old copy. *)
(***************************************************************************)
EXTENDS ShiftRows

CONSTANT Shifts

VARIABLE row

Init == row \in [Shifts -> {Absent, Opened}]

Create(s) ==
  /\ row[s] = Absent
  /\ row' = [row EXCEPT ![s] = Opened]

Claim(s, w) ==
  /\ row[s].status = "open"
  /\ row' = [row EXCEPT ![s] =
               [status |-> "claimed", worker |-> w, version |-> row[s].version + 1]]

\* The assignee is left in the row.
Cancel(s) ==
  /\ row[s].status \in {"open", "claimed"}
  /\ row' = [row EXCEPT ![s] =
               [status |-> "cancelled", worker |-> row[s].worker,
                version |-> row[s].version + 1]]

Next == \E s \in Shifts : Create(s) \/ Cancel(s) \/ \E w \in Workers : Claim(s, w)

Spec == Init /\ [][Next]_row

\* A claim decided on an open row takes a shift that is no longer open; open
\* rows are at version 1, so it always writes version 2.
StaleClaim(s, w) ==
  /\ Taken(row[s])
  /\ row' = [row EXCEPT ![s] = [status |-> "claimed", worker |-> w, version |-> 2]]

\* A cancellation decided on an older row: it may set the version back.
StaleCancel(s) ==
  /\ Taken(row[s])
  /\ row'[s].version >= 2
  /\ row' = [row EXCEPT ![s] =
               [status |-> "cancelled", worker |-> row[s].worker,
                version |-> row'[s].version]]

LossyNext ==
  \/ Next
  \/ \E s \in Shifts : StaleCancel(s) \/ \E w \in Workers : StaleClaim(s, w)

LossySpec == Init /\ [][LossyNext]_row
=============================================================================
