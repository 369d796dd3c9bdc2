---------------------------- MODULE ConflictScan ----------------------------
(***************************************************************************)
(* handle_event of roster-worker as its replicas run it: the statements of *)
(* the transaction that rescans the shift of one event, interleaved with   *)
(* those of the other replicas over one database.                          *)
(*                                                                         *)
(* SELECTs see committed rows and never wait.  A DELETE or INSERT locks    *)
(* the rows it touches until its transaction ends: the DELETE of a second  *)
(* scan waits for rows a first scan has deleted or inserted, and finds     *)
(* nothing to wait for when the first has done neither yet.                *)
(*                                                                         *)
(* The shifts table and the queue are not written here: row, locked, about *)
(* and sent belong to the environment.                                     *)
(***************************************************************************)
EXTENDS ShiftRows, FiniteSets

CONSTANTS
  Consumers,  \* replicas of roster-worker
  Events,     \* event ids
  NoEvent,    \* what an idle replica handles
  Shifts,
  Clash       \* pairs of shifts one worker may not have both; Rules shows it symmetric

ASSUME NoEventAssumption == NoEvent \notin Events

ASSUME ClashAssumption ==
  /\ Clash \subseteq Shifts \X Shifts
  /\ \A s, t \in Shifts : <<s, t>> \in Clash => <<t, s>> \in Clash /\ s # t

VARIABLES
  row,       \* environment: the committed shifts table
  locked,    \* environment: shifts with an uncommitted write of shift-api
  about,     \* environment: the shift of each event
  sent,      \* environment: events the queue has accepted
  conflict,  \* the committed conflicts table: the shift, the shift it clashes
             \* with, and the replica and the event that inserted the row
  ledger,    \* the processed_events table
  settled,   \* events completed in the queue
  step,      \* the next statement of each replica
  event,     \* the event each replica handles
  subject,   \* the copy of the shift in each replica's session
  removed,   \* rows the transaction has deleted
  found,     \* shifts the rules report
  inserted,  \* the findings are flushed
  seen       \* merge found the ledger row

env == <<row, locked, about, sent>>
tables == <<conflict, ledger, settled>>
session == <<step, event, subject, removed, found, inserted, seen>>
vars == <<env, tables, session>>

Finding == [shift: Shifts, other: Shifts, by: Consumers \X Events]

\* Type invariant of the scan's tables and sessions; between two events a
\* session holds nothing.
TypeOK ==
  /\ conflict \subseteq Finding
  /\ ledger \subseteq Events /\ settled \subseteq Events
  /\ step \in [Consumers -> {"idle", "read", "delete", "others", "mark", "commit"}]
  /\ event \in [Consumers -> Events \cup {NoEvent}]
  /\ subject \in [Consumers -> Row]
  /\ removed \in [Consumers -> SUBSET Finding]
  /\ found \in [Consumers -> SUBSET Shifts]
  /\ inserted \in [Consumers -> BOOLEAN]
  /\ seen \in [Consumers -> BOOLEAN]
  /\ \A c \in Consumers :
       /\ step[c] = "idle" <=> event[c] = NoEvent
       /\ step[c] = "idle" =>
            removed[c] = {} /\ found[c] = {} /\ ~inserted[c] /\ ~seen[c]

ScanInit ==
  /\ conflict = {} /\ ledger = {} /\ settled = {}
  /\ step = [c \in Consumers |-> "idle"]
  /\ event = [c \in Consumers |-> NoEvent]
  /\ subject = [c \in Consumers |-> Absent]
  /\ removed = [c \in Consumers |-> {}]
  /\ found = [c \in Consumers |-> {}]
  /\ inserted = [c \in Consumers |-> FALSE]
  /\ seen = [c \in Consumers |-> FALSE]
-----------------------------------------------------------------------------
ShiftOf(c) == about[event[c]]

\* Mutation of Others: cancelled shifts of the worker count.
OthersOfAnyStatus(s, worker) == {t \in Shifts \ {s} : row[t].worker = worker}

\* The SELECT of the worker's other assigned shifts.
Others(s, worker) ==
  {t \in Shifts \ {s} : row[t].worker = worker /\ row[t].status = "claimed"}

\* evaluate, for the findings that name another shift.
Evaluate(s, others) == {t \in others : <<s, t>> \in Clash}

\* Mutation of NeedsNoScan: a cancelled shift is scanned like any other.
NeedsNoScanIfOpen(x) == x.worker = NoWorker

NeedsNoScan(x) == x.status = "cancelled" \/ x.worker = NoWorker

\* The session ends: everything it had not committed is gone.
EndSession(c) ==
  /\ step' = [step EXCEPT ![c] = "idle"]
  /\ event' = [event EXCEPT ![c] = NoEvent]
  /\ subject' = [subject EXCEPT ![c] = Absent]
  /\ removed' = [removed EXCEPT ![c] = {}]
  /\ found' = [found EXCEPT ![c] = {}]
  /\ inserted' = [inserted EXCEPT ![c] = FALSE]
  /\ seen' = [seen EXCEPT ![c] = FALSE]

\* Mutation of Duplicate: the handler returns early and nothing is settled.
DuplicateUnsettled(c, e) ==
  /\ step[c] = "idle" /\ e \in sent \ settled /\ e \in ledger
  /\ UNCHANGED vars

\* A delivery of e that finds the ledger row is completed as a duplicate.
Duplicate(c, e) ==
  /\ step[c] = "idle" /\ e \in sent \ settled /\ e \in ledger
  /\ settled' = settled \cup {e}
  /\ UNCHANGED <<env, conflict, ledger, session>>

\* A delivery of e that does not.  Another replica may hold an earlier delivery
\* whose lock ran out.
Begin(c, e) ==
  /\ step[c] = "idle" /\ e \in sent \ settled /\ e \notin ledger
  /\ step' = [step EXCEPT ![c] = "read"]
  /\ event' = [event EXCEPT ![c] = e]
  /\ UNCHANGED <<env, tables, subject, removed, found, inserted, seen>>

\* session.get(Shift, shift_id); a missing shift leaves nothing to do.
ReadShift(c) ==
  LET x == row[ShiftOf(c)] IN
  /\ step[c] = "read"
  /\ subject' = [subject EXCEPT ![c] = x]
  /\ step' = [step EXCEPT ![c] = IF x = Absent THEN "mark" ELSE "delete"]
  /\ UNCHANGED <<env, tables, event, removed, found, inserted, seen>>

\* Mutation of Delete: the DELETE is committed on its own.
DeleteCommitted(c) ==
  /\ step[c] = "delete"
  /\ conflict' = {k \in conflict : k.shift # ShiftOf(c)}
  /\ step' = [step EXCEPT ![c] = IF NeedsNoScan(subject[c]) THEN "mark" ELSE "others"]
  /\ UNCHANGED <<env, ledger, settled, event, subject, removed, found, inserted, seen>>

\* DELETE FROM conflicts WHERE shift_id = ...
Delete(c) ==
  /\ step[c] = "delete"
  /\ \A d \in Consumers \ {c} :
       removed[d] # {} \/ (inserted[d] /\ found[d] # {}) => ShiftOf(d) # ShiftOf(c)
  /\ removed' = [removed EXCEPT ![c] = {k \in conflict : k.shift = ShiftOf(c)}]
  /\ step' = [step EXCEPT ![c] = IF NeedsNoScan(subject[c]) THEN "mark" ELSE "others"]
  /\ UNCHANGED <<env, tables, event, subject, found, inserted, seen>>

\* The worker's other shifts are read and the rules run.
ReadOthers(c) ==
  /\ step[c] = "others"
  /\ found' = [found EXCEPT ![c] =
                 Evaluate(ShiftOf(c), Others(ShiftOf(c), subject[c].worker))]
  /\ step' = [step EXCEPT ![c] = "mark"]
  /\ UNCHANGED <<env, tables, event, subject, removed, inserted, seen>>

\* mark_processed: session.merge flushes the findings, whose foreign key waits
\* for a write of the shift that is not committed, and reads the ledger.
Mark(c) ==
  /\ step[c] = "mark"
  /\ found[c] # {} => ShiftOf(c) \notin locked
  /\ inserted' = [inserted EXCEPT ![c] = TRUE]
  /\ seen' = [seen EXCEPT ![c] = event[c] \in ledger]
  /\ step' = [step EXCEPT ![c] = "commit"]
  /\ UNCHANGED <<env, tables, event, subject, removed, found>>

\* Mutation of Replaced: findings are appended.
Appended(c) == conflict \cup {[shift |-> ShiftOf(c), other |-> t, by |-> <<c, event[c]>>] : t \in found[c]}

\* Mutation of Replaced: the old findings go, the new ones are forgotten.
RemovedOnly(c) == conflict \ removed[c]

\* Findings are replaced, never appended.
Replaced(c) ==
  (conflict \ removed[c])
    \cup {[shift |-> ShiftOf(c), other |-> t, by |-> <<c, event[c]>>] : t \in found[c]}

\* The commit, then the completion of the message.  merge turns into an UPDATE
\* when it saw the ledger row; an INSERT that meets one raises, and the message
\* is abandoned.
Commit(c) ==
  /\ step[c] = "commit"
  /\ \/ /\ seen[c] \/ event[c] \notin ledger
        /\ conflict' = Replaced(c)
        /\ ledger' = ledger \cup {event[c]}
        /\ settled' = settled \cup {event[c]}
     \/ /\ ~seen[c] /\ event[c] \in ledger
        /\ UNCHANGED tables
  /\ EndSession(c)
  /\ UNCHANGED env

\* The process or the database fails before the commit, or after it and before
\* the completion: the event stays in the queue.
Fail(c) ==
  /\ step[c] # "idle"
  /\ \/ UNCHANGED tables
     \/ /\ step[c] = "commit" /\ (seen[c] \/ event[c] \notin ledger)
        /\ conflict' = Replaced(c)
        /\ ledger' = ledger \cup {event[c]}
        /\ UNCHANGED settled
  /\ EndSession(c)
  /\ UNCHANGED env

Handle(c) ==
  \/ ReadShift(c) \/ Delete(c) \/ ReadOthers(c) \/ Mark(c) \/ Commit(c)
  \/ \E e \in Events : Duplicate(c, e) \/ Begin(c, e)

\* Every event sent is settled: the replicas wait for another.
Rest ==
  /\ settled = sent
  /\ \A c \in Consumers : step[c] = "idle"
  /\ UNCHANGED vars

Next == Rest \/ \E c \in Consumers : Handle(c) \/ Fail(c)

\* On a roster that does not change.
Rosters ==
  {Absent, Opened}
    \cup [status: {"claimed"}, worker: Workers, version: {2}]
    \cup [status: {"cancelled"}, worker: Workers \cup {NoWorker}, version: {2}]

Init ==
  /\ ScanInit
  /\ row \in [Shifts -> Rosters] /\ locked = {}
  /\ about \in [Events -> Shifts] /\ sent = Events

Spec == Init /\ [][Next]_vars

FairSpec == Spec /\ \A c \in Consumers : WF_vars(Handle(c))
-----------------------------------------------------------------------------
Flagged == {<<k.shift, k.other>> : k \in conflict}

\* The shifts that clash with s on the committed roster.
Expected(s) ==
  {t \in Shifts : /\ <<s, t>> \in Clash
                  /\ row[s].status = "claimed" /\ row[t].status = "claimed"
                  /\ row[s].worker = row[t].worker}

\* Once an event is in the ledger the findings of its shift are those of the
\* roster, however its scan interleaved with others and whatever failed.
LedgerMeansScanned ==
  \A e \in ledger : {t \in Shifts : <<about[e], t>> \in Flagged} = Expected(about[e])

\* handler.py calls the scan idempotent because findings are replaced.  Two scans
\* that both delete before either inserts leave both sets; what the DELETE does
\* guarantee is that the scans of one replica leave a finding once,
\* whatever was redelivered or scanned again.
NoDuplicatesOfOneReplica ==
  \A k, l \in conflict : k.shift = l.shift /\ k.other = l.other /\ k.by[1] = l.by[1] => k = l

\* The API never reads the gap between the DELETE and the INSERT of a scan: on
\* a roster that does not change no finding disappears, not for an instant.
FindingsNeverFlicker == [][Flagged \subseteq Flagged']_vars

\* The waits between scans, and for the ledger, leave no event unhandled as
\* long as the failures do not go on for ever.
EventsAreSettled == (<>[][\A c \in Consumers : ~Fail(c)]_vars) => <>(settled = sent)
=============================================================================
