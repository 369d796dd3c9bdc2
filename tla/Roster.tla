------------------------------- MODULE Roster -------------------------------
(***************************************************************************)
(* shift-api and roster-worker together: the requests of ShiftApi write    *)
(* the shifts and publish the events that the replicas of ConflictScan     *)
(* turn into findings.  A request is its event's id.                       *)
(*                                                                         *)
(* The queue delivers an event as soon as publish() has sent it, which is  *)
(* before get_db commits; delivery counts and settlement are the subject   *)
(* of RosterConsumer.                                                      *)
(*                                                                         *)
(* The response of a request is rendered from its session, findings        *)
(* included, after the handler and before get_db commits.                  *)
(***************************************************************************)
EXTENDS ShiftApi

CONSTANTS
  Consumers,  \* replicas of roster-worker
  NoEvent,    \* what an idle replica handles
  Clash       \* pairs of shifts one worker may not have both

ASSUME RosterAssumption ==
  /\ NoEvent \notin Requests
  /\ Clash \subseteq Shifts \X Shifts
  /\ \A s, t \in Shifts : <<s, t>> \in Clash => <<t, s>> \in Clash /\ s # t

VARIABLES
  conflict, ledger, settled,                              \* see ConflictScan
  step, event, subject, removed, found, inserted, seen,
  rendered,  \* requests about to commit whose response has been rendered
  early      \* history: events whose shift was read before their write was committed

\* An uncommitted write of shift-api holds the row's lock.
Locked == {arg[r].shift : r \in {q \in Requests : HoldsLock(q)}}

About == [r \in Requests |-> arg[r].shift]

Scan == INSTANCE ConflictScan WITH Events <- Requests, about <- About, locked <- Locked

scan == <<conflict, ledger, settled, step, event, subject, removed, found, inserted, seen>>
rosterVars == <<vars, scan, rendered, early>>

\* The behaviours of interest start with open shifts and claims a client may
\* make; what the checks refuse is the subject of ShiftApi.
RosterInit ==
  /\ Init /\ Scan!ScanInit
  /\ row = [s \in Shifts |-> Opened]
  /\ \A r \in Requests : arg[r].op = "claim" => arg[r].known /\ arg[r].expected = 1
  /\ rendered = {} /\ early = {}

Flagged(s) == {k \in conflict : k.shift = s}

\* The names of ConflictKind: what the Enum of the column accepts from a row.
KindNames == {"OVERLAP", "INSUFFICIENT_REST", "WEEKLY_HOURS_EXCEEDED"}

\* What roster-worker writes in that column of a finding about two shifts: the
\* value of the kind.
StoredKinds == {"overlap", "insufficient_rest"}

\* The findings of s can be loaded: the Enum raises for a row it cannot name.
Readable(s) == Flagged(s) = {} \/ StoredKinds \subseteq KindNames

\* The response is built, loading the findings; if that raises, get_db rolls
\* back, which is among the failures of Fail.
Render(r) ==
  /\ pc[r] = "commit" /\ r \notin rendered /\ Readable(arg[r].shift)
  /\ rendered' = rendered \cup {r}
  /\ UNCHANGED <<vars, scan, early>>

\* Nothing is committed, or answered from a cancelled shift, unrendered.
RenderFirst(r) ==
  /\ r \in committed' \ committed => r \in rendered
  /\ pc[r] = "begin" /\ code'[r] = 200 => Readable(arg[r].shift)

ApiStep ==
  /\ \/ \E r \in Requests : (Arrive(r) \/ Serve(r) \/ Fail(r)) /\ RenderFirst(r)
     \/ \E p \in Pods : Crash(p)
  /\ rendered' = {r \in rendered : pc'[r] = "commit"}
  /\ UNCHANGED <<scan, early>>

ScanStep(c) ==
  /\ UNCHANGED <<vars, rendered>>
  /\ Scan!Handle(c) \/ Scan!Fail(c)
  /\ early' = IF step[c] = "read" /\ step'[c] # "idle" /\ event[c] \notin committed
              THEN early \cup {event[c]} ELSE early

\* Every request is answered, every event settled, every replica waits.
Quiescent ==
  /\ \A r \in Requests : pc[r] = "done"
  /\ settled = sent
  /\ \A c \in Consumers : step[c] = "idle"

RosterRest == Quiescent /\ UNCHANGED rosterVars

RosterNext ==
  \/ ApiStep
  \/ \E r \in Requests : Render(r)
  \/ \E c \in Consumers : ScanStep(c)
  \/ RosterRest

RosterSpec == RosterInit /\ [][RosterNext]_rosterVars
-----------------------------------------------------------------------------
Clashing(s, t) ==
  /\ <<s, t>> \in Clash
  /\ row[s].status = "claimed" /\ row[t].status = "claimed"
  /\ row[s].worker = row[t].worker

\* The event of r was lost, or was handled before the write it announces.
Missed(r) == r \in committed /\ (r \notin sent \/ r \in early)

MissedOn(s, ops) == \E r \in Requests : arg[r].shift = s /\ arg[r].op \in ops /\ Missed(r)

\* models.py of shift-api: conflicts are written only by roster-worker, and the
\* API reads them.  It cannot: see the run unreadable_finding.
ApiReadsFindings ==
  \A r \in Requests : pc[r] = "commit" /\ r \notin rendered => Readable(arg[r].shift)

\* With one replica the only clashes that stay unreported are those of a claim
\* whose event was lost or was handled before the claim was committed.
UnflaggedClashesWereMissed ==
  Quiescent => \A s, t \in Shifts : Clashing(s, t) =>
    \/ \E k \in conflict : <<k.shift, k.other>> \in {<<s, t>>, <<t, s>>}
    \/ MissedOn(s, {"claim"}) \/ MissedOn(t, {"claim"})

\* With one replica a cancelled shift keeps findings only if the event of its
\* cancellation was missed.
CancelledShiftsAreClean ==
  Quiescent => \A s \in Shifts : row[s].status = "cancelled" =>
    Flagged(s) = {} \/ MissedOn(s, {"cancel"})

\* A shift its worker has lost: cancelled, or claimed by a session that had been
\* overtaken.
Withdrawn(t) == row[t].status = "cancelled" \/ CommittedClaims(t) \cap overtaken # {}

\* A scan replaces the findings of its own shift and of no other, so a finding
\* may outlive its clash.  With one replica and nothing left to do, such a
\* finding names a shift that was withdrawn since, by a cancellation or by an
\* overtaken claim, or its own shift's event was missed; no other stale finding
\* exists.
StaleFindingsNameAWithdrawnShift ==
  Quiescent => \A k \in conflict :
    \/ Clashing(k.shift, k.other)
    \/ Withdrawn(k.other)
    \/ MissedOn(k.shift, {"claim", "cancel"})
=============================================================================
