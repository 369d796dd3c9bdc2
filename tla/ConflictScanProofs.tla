------------------------- MODULE ConflictScanProofs -------------------------
(***************************************************************************)
(* What ConflictScan promises on a roster that does not change, for any    *)
(* number of replicas, events and shifts and any symmetric clash relation. *)
(*                                                                         *)
(* The argument: a scan that has read the worker's shifts holds exactly    *)
(* the clashes of its shift, so a commit adds true findings and removes    *)
(* only pairs it adds again; and between a replica's DELETE and its commit *)
(* only other replicas add findings.                                       *)
(***************************************************************************)
EXTENDS ConflictScan, TLAPS

\* The roster is one the API can leave, and every finding on it is true.
FindingsAreTrue ==
  /\ row \in [Shifts -> Rosters] /\ about \in [Events -> Shifts]
  /\ \A k \in conflict : k.other \in Expected(k.shift)

\* What the session of c knows at each statement.
SessionsAreTrue ==
  \A c \in Consumers :
    /\ step[c] \in {"idle", "read", "delete", "others"} => found[c] = {}
    /\ step[c] \in {"delete", "others"} => subject[c] = row[ShiftOf(c)]
    /\ step[c] = "others" => ~NeedsNoScan(subject[c])
    /\ step[c] \in {"mark", "commit"} => found[c] = Expected(ShiftOf(c))
    /\ step[c] \in {"idle", "read", "delete"} => removed[c] = {}
    /\ \A k \in removed[c] : k.shift = ShiftOf(c)

\* What c is about to insert again, it has deleted.
OwnFindingsRemoved ==
  \A c \in Consumers :
    step[c] = "others" \/ found[c] # {} =>
      \A k \in conflict : k.shift = ShiftOf(c) /\ k.by[1] = c => k \in removed[c]

IInv ==
  /\ TypeOK /\ FindingsAreTrue /\ SessionsAreTrue /\ OwnFindingsRemoved
  /\ LedgerMeansScanned /\ NoDuplicatesOfOneReplica

\* No finding, no session.
LEMMA InitEstablishes == Init => IInv
<1> SUFFICES ASSUME Init PROVE IInv
  OBVIOUS
<1> USE DEF Init, ScanInit
<1>1. TypeOK
  <2>1. Absent \in Row
    BY DEF Absent, Row, Status
  <2> QED BY <2>1, NoEventAssumption DEF TypeOK
<1>2. FindingsAreTrue /\ NoDuplicatesOfOneReplica /\ LedgerMeansScanned
  BY DEF FindingsAreTrue, NoDuplicatesOfOneReplica, LedgerMeansScanned
<1>3. SessionsAreTrue /\ OwnFindingsRemoved
  BY DEF SessionsAreTrue, OwnFindingsRemoved
<1> QED BY <1>1, <1>2, <1>3 DEF IInv

\* The rules report exactly the clashes of the shift.
LEMMA EvaluateFindsClashes ==
  ASSUME IInv, NEW s \in Shifts, ~NeedsNoScan(row[s])
  PROVE  Evaluate(s, Others(s, row[s].worker)) = Expected(s)
<1>1. row[s].status = "claimed"
  BY DEF IInv, FindingsAreTrue, Rosters, NeedsNoScan, Absent, Opened
<1> QED BY <1>1, ClashAssumption DEF Evaluate, Others, Expected

\* A shift that needs no scan clashes with none.
LEMMA NothingToFind ==
  ASSUME IInv, NEW s \in Shifts, NeedsNoScan(row[s]) \/ row[s] = Absent
  PROVE  Expected(s) = {}
<1>1. row[s].status # "claimed"
  BY NoWorkerAssumption DEF IInv, FindingsAreTrue, Rosters, NeedsNoScan, Absent, Opened
<1> QED BY <1>1 DEF Expected

\* Every step keeps the type invariant.
LEMMA StepKeepsTypes == IInv /\ [Next]_vars => TypeOK'
<1> SUFFICES ASSUME IInv, [Next]_vars PROVE TypeOK'
  OBVIOUS
<1> USE NoEventAssumption, ClashAssumption DEF IInv, TypeOK, env, tables, session
<1>1. CASE Rest \/ UNCHANGED vars
  <2>1. UNCHANGED vars
    BY <1>1 DEF Rest
  <2> QED BY <2>1 DEF vars
<1>2. ASSUME NEW c \in Consumers, NEW e \in Events, Duplicate(c, e) \/ Begin(c, e) PROVE TypeOK'
  BY <1>2 DEF Duplicate, Begin
<1>3. ASSUME NEW c \in Consumers, ReadShift(c) PROVE TypeOK'
  <2>1. row[ShiftOf(c)] \in Row
    BY <1>3 DEF ReadShift, ShiftOf, FindingsAreTrue, Rosters, Row, Status, Absent, Opened
  <2> QED BY <1>3, <2>1 DEF ReadShift
<1>4. ASSUME NEW c \in Consumers, Delete(c) PROVE TypeOK'
  BY <1>4 DEF Delete
<1>5. ASSUME NEW c \in Consumers, ReadOthers(c) PROVE TypeOK'
  BY <1>5 DEF ReadOthers, Evaluate, Others
<1>6. ASSUME NEW c \in Consumers, Mark(c) PROVE TypeOK'
  BY <1>6 DEF Mark
<1>7. ASSUME NEW c \in Consumers, Commit(c) \/ Fail(c) PROVE TypeOK'
  <2>1. step[c] # "idle" /\ event[c] \in Events /\ ShiftOf(c) \in Shifts
    BY <1>7 DEF Commit, Fail, ShiftOf, FindingsAreTrue
  <2>2. Replaced(c) \subseteq Finding
    BY <2>1 DEF Replaced, Finding
  <2>3. conflict' \subseteq Finding /\ ledger' \subseteq Events /\ settled' \subseteq Events
    BY <1>7, <2>1, <2>2 DEF Commit, Fail
  <2>4. EndSession(c)
    BY <1>7 DEF Commit, Fail
  <2>5. Absent \in Row
    BY DEF Absent, Row, Status
  <2> QED BY <2>3, <2>4, <2>5 DEF EndSession
<1> QED BY <1>1, <1>2, <1>3, <1>4, <1>5, <1>6, <1>7 DEF Next, Handle

\* A step that writes no table, changes the session of c alone and leaves it
\* knowing what it must keeps the invariant.
LEMMA SessionKeepsIInv ==
  ASSUME IInv, TypeOK', NEW c \in Consumers, UNCHANGED <<row, about, conflict, ledger>>,
         \A d \in Consumers \ {c} :
           /\ step'[d] = step[d] /\ event'[d] = event[d] /\ subject'[d] = subject[d]
           /\ removed'[d] = removed[d] /\ found'[d] = found[d],
         /\ step'[c] \in {"idle", "read", "delete", "others"} => found'[c] = {}
         /\ step'[c] \in {"delete", "others"} => subject'[c] = row[ShiftOf(c)']
         /\ step'[c] = "others" => ~NeedsNoScan(subject'[c])
         /\ step'[c] \in {"mark", "commit"} => found'[c] = Expected(ShiftOf(c)')
         /\ step'[c] \in {"idle", "read", "delete"} => removed'[c] = {}
         /\ \A k \in removed'[c] : k.shift = ShiftOf(c)',
         step'[c] = "others" \/ found'[c] # {} =>
           \A k \in conflict : k.shift = ShiftOf(c)' /\ k.by[1] = c => k \in removed'[c]
  PROVE  IInv'
<1>1. \A s : Expected(s)' = Expected(s)
  BY DEF Expected
<1>2. \A d \in Consumers \ {c} : ShiftOf(d)' = ShiftOf(d)
  BY DEF ShiftOf
<1>3. SessionsAreTrue'
  BY <1>1, <1>2 DEF IInv, SessionsAreTrue
<1>4. OwnFindingsRemoved'
  BY <1>2 DEF IInv, OwnFindingsRemoved
<1>5. FindingsAreTrue' /\ LedgerMeansScanned' /\ NoDuplicatesOfOneReplica'
  BY <1>1 DEF IInv, FindingsAreTrue, LedgerMeansScanned, NoDuplicatesOfOneReplica, Flagged
<1> QED BY <1>3, <1>4, <1>5 DEF IInv

\* The committed findings of a scan: true, complete for its shift, and as many
\* pairs as before.
LEMMA ReplacedFindings ==
  ASSUME IInv, NEW c \in Consumers, step[c] = "commit"
  PROVE  /\ event[c] \in Events /\ ShiftOf(c) = about[event[c]] /\ ShiftOf(c) \in Shifts
         /\ \A k \in Replaced(c) : k.other \in Expected(k.shift)
         /\ \A k \in conflict : \E l \in Replaced(c) : l.shift = k.shift /\ l.other = k.other
         /\ \A t \in Expected(ShiftOf(c)) : \E l \in Replaced(c) : l.shift = ShiftOf(c) /\ l.other = t
         /\ \A k \in Replaced(c) :
              k \in conflict \/ (k.by = <<c, event[c]>> /\ k.shift = ShiftOf(c) /\ found[c] # {})
<1>1. event[c] \in Events /\ ShiftOf(c) = about[event[c]] /\ ShiftOf(c) \in Shifts
  BY DEF IInv, TypeOK, ShiftOf, FindingsAreTrue
<1>2. found[c] = Expected(ShiftOf(c)) /\ \A k \in removed[c] : k.shift = ShiftOf(c)
  BY DEF IInv, SessionsAreTrue
<1>3. ASSUME NEW t \in found[c] PROVE \E l \in Replaced(c) : l.shift = ShiftOf(c) /\ l.other = t
  <2> DEFINE l == [shift |-> ShiftOf(c), other |-> t, by |-> <<c, event[c]>>]
  <2>1. l \in Replaced(c)
    BY DEF Replaced
  <2>2. l.shift = ShiftOf(c) /\ l.other = t
    OBVIOUS
  <2> QED BY <2>1, <2>2
<1>4. ASSUME NEW k \in conflict PROVE \E l \in Replaced(c) : l.shift = k.shift /\ l.other = k.other
  <2>1. CASE k \in removed[c]
    <3>1. k.shift = ShiftOf(c) /\ k.other \in found[c]
      BY <1>2, <2>1 DEF IInv, FindingsAreTrue
    <3> QED BY <1>3, <3>1
  <2>2. CASE k \notin removed[c]
    BY <2>2 DEF Replaced
  <2> QED BY <2>1, <2>2
<1>5. \A k \in Replaced(c) : k.other \in Expected(k.shift)
  BY <1>2 DEF Replaced, IInv, FindingsAreTrue
<1>6. \A k \in Replaced(c) : k \in conflict \/ (k.by = <<c, event[c]>> /\ k.shift = ShiftOf(c) /\ found[c] # {})
  BY DEF Replaced
<1>7. \A t \in Expected(ShiftOf(c)) : \E l \in Replaced(c) : l.shift = ShiftOf(c) /\ l.other = t
  BY <1>2, <1>3
<1> QED BY <1>1, <1>4, <1>5, <1>6, <1>7

\* A replica takes an event and reads its shift: nothing is found or removed yet.
LEMMA ReadKeepsIInv ==
  ASSUME IInv, TypeOK', NEW c \in Consumers,
         (\E e \in Events : Duplicate(c, e) \/ Begin(c, e)) \/ ReadShift(c)
  PROVE  IInv'
<1>1. ASSUME NEW e \in Events, Duplicate(c, e) PROVE IInv'
  BY <1>1 DEF Duplicate, env, session, IInv, FindingsAreTrue, SessionsAreTrue, OwnFindingsRemoved,
     LedgerMeansScanned, NoDuplicatesOfOneReplica, Flagged, Expected, ShiftOf
<1>2. ASSUME NEW e \in Events, Begin(c, e) PROVE IInv'
  <2>1. step'[c] = "read" /\ removed'[c] = {} /\ found'[c] = {}
    BY <1>2 DEF Begin, IInv, TypeOK, SessionsAreTrue
  <2>2. \A d \in Consumers \ {c} :
          step'[d] = step[d] /\ event'[d] = event[d] /\ subject'[d] = subject[d]
          /\ removed'[d] = removed[d] /\ found'[d] = found[d]
    BY <1>2 DEF Begin, IInv, TypeOK
  <2>3. UNCHANGED <<row, about, conflict, ledger>>
    BY <1>2 DEF Begin, env, tables
  <2> QED BY <2>1, <2>2, <2>3, SessionKeepsIInv
<1>3. CASE ReadShift(c)
  <2>1. event[c] \in Events /\ ShiftOf(c) \in Shifts /\ ShiftOf(c)' = ShiftOf(c)
    BY <1>3 DEF ReadShift, env, IInv, TypeOK, FindingsAreTrue, ShiftOf
  <2>2. /\ step'[c] = IF row[ShiftOf(c)] = Absent THEN "mark" ELSE "delete"
        /\ subject'[c] = row[ShiftOf(c)] /\ removed'[c] = {} /\ found'[c] = {}
    BY <1>3 DEF ReadShift, IInv, TypeOK, SessionsAreTrue
  <2>3. step'[c] = "mark" => Expected(ShiftOf(c)) = {}
    BY <2>1, <2>2, NothingToFind
  <2>4. \A d \in Consumers \ {c} :
          step'[d] = step[d] /\ event'[d] = event[d] /\ subject'[d] = subject[d]
          /\ removed'[d] = removed[d] /\ found'[d] = found[d]
    BY <1>3 DEF ReadShift, IInv, TypeOK
  <2>5. UNCHANGED <<row, about, conflict, ledger>>
    BY <1>3 DEF ReadShift, env, tables
  <2> QED BY <2>1, <2>2, <2>3, <2>4, <2>5, SessionKeepsIInv
<1> QED BY <1>1, <1>2, <1>3

\* The statements of the scan and the reading of the ledger.
LEMMA ScanKeepsIInv ==
  ASSUME IInv, TypeOK', NEW c \in Consumers, Delete(c) \/ ReadOthers(c) \/ Mark(c)
  PROVE  IInv'
<1>1. event[c] \in Events /\ ShiftOf(c) \in Shifts /\ ShiftOf(c)' = ShiftOf(c)
  BY DEF Delete, ReadOthers, Mark, env, IInv, TypeOK, FindingsAreTrue, ShiftOf
<1>2. UNCHANGED <<row, about, conflict, ledger>> /\ UNCHANGED <<event, subject>>
  BY DEF Delete, ReadOthers, Mark, env, tables
<1>3. \A d \in Consumers \ {c} :
        step'[d] = step[d] /\ removed'[d] = removed[d] /\ found'[d] = found[d]
  BY DEF Delete, ReadOthers, Mark, IInv, TypeOK
<1>4. CASE Delete(c)
  <2>1. /\ step'[c] = IF NeedsNoScan(subject[c]) THEN "mark" ELSE "others"
        /\ removed'[c] = {k \in conflict : k.shift = ShiftOf(c)} /\ found'[c] = {}
        /\ subject[c] = row[ShiftOf(c)]
    BY <1>4 DEF Delete, IInv, TypeOK, SessionsAreTrue
  <2>2. step'[c] = "mark" => Expected(ShiftOf(c)) = {}
    BY <1>1, <2>1, NothingToFind
  <2> QED BY <1>1, <1>2, <1>3, <2>1, <2>2, SessionKeepsIInv
<1>5. CASE ReadOthers(c)
  <2>1. /\ step'[c] = "mark" /\ removed'[c] = removed[c] /\ subject[c] = row[ShiftOf(c)]
        /\ ~NeedsNoScan(subject[c])
        /\ found'[c] = Evaluate(ShiftOf(c), Others(ShiftOf(c), subject[c].worker))
    BY <1>5 DEF ReadOthers, IInv, TypeOK, SessionsAreTrue
  <2>2. found'[c] = Expected(ShiftOf(c))
    BY <1>1, <2>1, EvaluateFindsClashes
  <2>3. /\ \A k \in removed[c] : k.shift = ShiftOf(c)
        /\ \A k \in conflict : k.shift = ShiftOf(c) /\ k.by[1] = c => k \in removed[c]
    BY <1>5 DEF ReadOthers, IInv, SessionsAreTrue, OwnFindingsRemoved
  <2> QED BY <1>1, <1>2, <1>3, <2>1, <2>2, <2>3, SessionKeepsIInv
<1>6. CASE Mark(c)
  <2>1. /\ step'[c] = "commit" /\ removed'[c] = removed[c] /\ found'[c] = found[c]
        /\ found[c] = Expected(ShiftOf(c)) /\ \A k \in removed[c] : k.shift = ShiftOf(c)
    BY <1>6 DEF Mark, IInv, TypeOK, SessionsAreTrue
  <2>2. found[c] # {} => \A k \in conflict : k.shift = ShiftOf(c) /\ k.by[1] = c => k \in removed[c]
    BY DEF IInv, OwnFindingsRemoved
  <2> QED BY <1>1, <1>2, <1>3, <2>1, <2>2, SessionKeepsIInv
<1> QED BY <1>4, <1>5, <1>6

\* The end of a transaction: nothing of it, or all of it and the ledger row.
LEMMA EndKeepsIInv ==
  ASSUME IInv, TypeOK', NEW c \in Consumers, EndSession(c), UNCHANGED env,
         \/ UNCHANGED <<conflict, ledger>>
         \/ step[c] = "commit" /\ conflict' = Replaced(c) /\ ledger' = ledger \cup {event[c]}
  PROVE  IInv'
<1>1. step'[c] = "idle" /\ removed'[c] = {} /\ found'[c] = {}
  BY DEF EndSession, IInv, TypeOK
<1>2. \A d \in Consumers \ {c} :
        /\ step'[d] = step[d] /\ event'[d] = event[d] /\ subject'[d] = subject[d]
        /\ removed'[d] = removed[d] /\ found'[d] = found[d]
  BY DEF EndSession, IInv, TypeOK
<1>3. UNCHANGED <<row, about>>
  BY DEF env
<1>4. CASE UNCHANGED <<conflict, ledger>>
  BY <1>1, <1>2, <1>3, <1>4, SessionKeepsIInv
<1>5. CASE step[c] = "commit" /\ conflict' = Replaced(c) /\ ledger' = ledger \cup {event[c]}
  <2>1. \A s : Expected(s)' = Expected(s)
    BY <1>3 DEF Expected
  <2>2. \A d \in Consumers \ {c} : ShiftOf(d)' = ShiftOf(d)
    BY <1>2, <1>3 DEF ShiftOf
  <2>3. FindingsAreTrue'
    BY <1>3, <1>5, <2>1, ReplacedFindings DEF IInv, FindingsAreTrue
  <2>4. SessionsAreTrue'
    BY <1>1, <1>2, <1>3, <2>1, <2>2 DEF IInv, SessionsAreTrue
  <2>5. OwnFindingsRemoved'
    <3>1. \A k \in conflict' : k \in conflict \/ k.by[1] = c
      BY <1>5, ReplacedFindings
    <3> QED BY <1>1, <1>2, <2>2, <3>1 DEF IInv, OwnFindingsRemoved
  <2>6. LedgerMeansScanned'
    <3>1. ASSUME NEW e \in ledger', NEW t \in Expected(about[e])
          PROVE  \E l \in conflict' : l.shift = about[e] /\ l.other = t
      <4>1. CASE e \in ledger
        <5>1. PICK k \in conflict : <<k.shift, k.other>> = <<about[e], t>>
          BY <4>1 DEF IInv, LedgerMeansScanned, Flagged, Expected
        <5> QED BY <1>5, <5>1, ReplacedFindings
      <4>2. CASE e = event[c]
        BY <1>5, <4>2, ReplacedFindings
      <4> QED BY <1>5, <4>1, <4>2
    <3>2. ASSUME NEW e \in ledger', NEW t \in Expected(about[e]) PROVE <<about[e], t>> \in Flagged'
      BY <3>1 DEF Flagged
    <3>3. \A e \in ledger', t \in Shifts : <<about[e], t>> \in Flagged' => t \in Expected(about[e])
      BY <2>1, <2>3 DEF FindingsAreTrue, Flagged
    <3> QED BY <1>3, <2>1, <3>2, <3>3 DEF LedgerMeansScanned, Expected
  <2>7. NoDuplicatesOfOneReplica'
    <3> DEFINE New(t) == [shift |-> ShiftOf(c), other |-> t, by |-> <<c, event[c]>>]
    <3>1. \A k \in conflict' : k \in conflict \ removed[c] \/ \E t \in found[c] : k = New(t)
      BY <1>5 DEF Replaced
    <3>2. \A k \in conflict \ removed[c], t \in found[c] : ~(k.shift = New(t).shift /\ k.by[1] = New(t).by[1])
      BY DEF IInv, OwnFindingsRemoved
    <3>3. \A t, u : New(t).other = New(u).other => New(t) = New(u)
      OBVIOUS
    <3> HIDE DEF New
    <3> QED BY <3>1, <3>2, <3>3 DEF IInv, NoDuplicatesOfOneReplica
  <2> QED BY <2>3, <2>4, <2>5, <2>6, <2>7 DEF IInv
<1> QED BY <1>4, <1>5

\* The invariant is inductive.
LEMMA StepKeepsIInv == IInv /\ [Next]_vars => IInv'
<1> SUFFICES ASSUME IInv, [Next]_vars PROVE IInv'
  OBVIOUS
<1>1. TypeOK'
  BY StepKeepsTypes
<1>2. CASE Rest \/ UNCHANGED vars
  <2>1. UNCHANGED vars
    BY <1>2 DEF Rest
  <2> QED BY <2>1 DEF vars, env, tables, session, IInv, TypeOK, FindingsAreTrue, SessionsAreTrue,
        OwnFindingsRemoved, LedgerMeansScanned, NoDuplicatesOfOneReplica, Flagged, Expected, ShiftOf
<1>3. ASSUME NEW c \in Consumers, Commit(c) \/ Fail(c) PROVE IInv'
  <2>1. /\ EndSession(c) /\ UNCHANGED env
        /\ \/ UNCHANGED <<conflict, ledger>>
           \/ step[c] = "commit" /\ conflict' = Replaced(c) /\ ledger' = ledger \cup {event[c]}
    BY <1>3 DEF Commit, Fail, tables
  <2> QED BY <1>1, <2>1, EndKeepsIInv
<1> QED BY <1>1, <1>2, <1>3, ReadKeepsIInv, ScanKeepsIInv DEF Next, Handle

LEMMA Invariance == Spec => []IInv
<1> QED BY InitEstablishes, StepKeepsIInv, PTL DEF Spec

\* Every state a replica of handle_event and its tables reach has its type.
THEOREM TypeCorrect == Spec => []TypeOK
<1>1. IInv => TypeOK
  BY DEF IInv
<1> QED BY <1>1, Invariance, PTL

\* process_message, mark_processed: a row of the ledger means that the findings
\* of the shift of its event are exactly its clashes, whatever interleaved,
\* failed or was redelivered.
THEOREM LedgerScanned == Spec => []LedgerMeansScanned
<1>1. IInv => LedgerMeansScanned
  BY DEF IInv
<1> QED BY <1>1, Invariance, PTL

\* handle_event: the DELETE before the INSERT keeps one replica from storing a
\* finding twice.
THEOREM NoDuplicates == Spec => []NoDuplicatesOfOneReplica
<1>1. IInv => NoDuplicatesOfOneReplica
  BY DEF IInv
<1> QED BY <1>1, Invariance, PTL

\* session_scope: the DELETE and the INSERT are committed at once, and a scan
\* never commits fewer clashes than it deleted.
THEOREM NoFlicker == Spec => FindingsNeverFlicker
<1>1. ASSUME IInv, [Next]_vars PROVE Flagged \subseteq Flagged'
  <2>1. CASE UNCHANGED conflict
    BY <2>1 DEF Flagged
  <2>2. ASSUME NEW c \in Consumers, step[c] = "commit", conflict' = Replaced(c)
        PROVE  Flagged \subseteq Flagged'
    <3>1. \A k \in conflict : \E l \in conflict' : l.shift = k.shift /\ l.other = k.other
      BY <1>1, <2>2, ReplacedFindings
    <3> QED BY <3>1 DEF Flagged
  <2>3. UNCHANGED conflict \/ \E c \in Consumers : step[c] = "commit" /\ conflict' = Replaced(c)
    BY <1>1 DEF Next, Handle, Rest, vars, tables, Duplicate, Begin, ReadShift, Delete, ReadOthers,
       Mark, Commit, Fail
  <2> QED BY <2>1, <2>2, <2>3
<1> QED BY <1>1, Invariance, PTL DEF Spec, FindingsNeverFlicker
=============================================================================
