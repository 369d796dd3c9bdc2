--------------------------- MODULE MCConflictScan ---------------------------
(***************************************************************************)
(* Small instances of ConflictScan on rosters that do not change: every    *)
(* assignment of the shifts and of the events' subjects.                   *)
(***************************************************************************)
EXTENDS ConflictScan

AllClash == {<<s, t>> \in Shifts \X Shifts : s # t}
=============================================================================
