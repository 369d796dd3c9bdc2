--------------------------- MODULE ShiftApiProofs ---------------------------
(***************************************************************************)
(* Theorems about ShiftApi, for every set of requests, pods, shifts and    *)
(* workers, and about Roster, where the requests of ShiftApi feed one      *)
(* replica of roster-worker.                                               *)
(*                                                                         *)
(* ShiftApi.  Rows are only ever fresh or taken, a session writes only     *)
(* from a copy its checks allow, and a copy is the committed row until     *)
(* another commit overtakes it.                                            *)
(*                                                                         *)
(* Roster.  Whatever the findings of a shift do not say yet, a committed   *)
(* write owes: its event is lost, was handled too early, or still has to   *)
(* be handled.  A write takes the debt on, the end of a scan pays it.      *)
(***************************************************************************)
EXTENDS Roster, TLAPS

\* What a request carries has the type its operation needs.
LEMMA ArgFacts ==
  ASSUME TypeOK, NEW r \in Requests
  PROVE  /\ arg[r].op \in {"create", "claim", "cancel"}
         /\ arg[r].shift \in Shifts
         /\ arg[r].op = "claim" => arg[r].worker \in Workers
  BY DEF TypeOK, Args

\* The row a flush computes is a row of the table.
LEMMA WrittenType ==
  ASSUME TypeOK, NEW r \in Requests
  PROVE  Written(r) \in Row
<1> USE ArgFacts
<1>1. CASE arg[r].op = "create"
  BY <1>1 DEF Written, Opened, Row, Status
<1>2. CASE arg[r].op = "claim"
  <2>1. read[r].version + 1 \in Nat
    BY DEF TypeOK, Row
  <2>2. Written(r) = [status |-> "claimed", worker |-> arg[r].worker,
                      version |-> read[r].version + 1]
    BY <1>2 DEF Written
  <2> QED BY <1>2, <2>1, <2>2 DEF Row, Status
<1>3. CASE arg[r].op = "cancel"
  <2>1. /\ read[r].version + 1 \in Nat
        /\ row[arg[r].shift].worker \in Workers \cup {NoWorker}
    BY DEF TypeOK, Row
  <2>2. Written(r) = [status |-> "cancelled", worker |-> row[arg[r].shift].worker,
                      version |-> read[r].version + 1]
    BY <1>3 DEF Written
  <2> QED BY <2>1, <2>2 DEF Row, Status
<1> QED BY <1>1, <1>2, <1>3

\* The handlers answer with one of the codes the type invariant names.
LEMMA VerdictType ==
  ASSUME TypeOK, NEW r \in Requests, NEW x
  PROVE  Verdict(r, x) \in {0, 200, 404, 409, 500}
BY ArgFacts DEF Verdict

LEMMA TypeStep == TypeOK /\ [Next]_vars => TypeOK'
<1> SUFFICES ASSUME TypeOK, [Next]_vars PROVE TypeOK'
  OBVIOUS
<1> USE DEF TypeOK, PCs
<1>1. ASSUME NEW r \in Requests, Arrive(r) PROVE TypeOK'
  BY <1>1 DEF Arrive
<1>2. ASSUME NEW r \in Requests, Read(r) PROVE TypeOK'
  <2>1. row[arg[r].shift] \in Row
    BY ArgFacts
  <2>2. Verdict(r, row[arg[r].shift]) \in {0, 200, 404, 409, 500}
    BY VerdictType
  <2> QED BY <1>2, <2>1, <2>2 DEF Read
<1>3. ASSUME NEW r \in Requests, PoolTimeout(r) PROVE TypeOK'
  BY <1>3 DEF PoolTimeout
<1>4. ASSUME NEW r \in Requests, Flush(r) PROVE TypeOK'
  BY <1>4 DEF Flush
<1>5. ASSUME NEW r \in Requests, Publish(r) PROVE TypeOK'
  BY <1>5 DEF Publish
<1>6. ASSUME NEW r \in Requests, Commit(r) PROVE TypeOK'
  <2>1. Written(r) \in Row /\ arg[r].shift \in Shifts
    BY WrittenType, ArgFacts
  <2>2. Overtakes(r) \subseteq Requests
    BY DEF Overtakes
  <2> QED BY <1>6, <2>1, <2>2 DEF Commit
<1>7. ASSUME NEW r \in Requests, Respond(r) PROVE TypeOK'
  BY <1>7 DEF Respond
<1>8. ASSUME NEW r \in Requests, Fail(r) PROVE TypeOK'
  BY <1>8 DEF Fail
<1>9. ASSUME NEW p \in Pods, Crash(p) PROVE TypeOK'
  BY <1>9 DEF Crash
<1>10. CASE UNCHANGED vars
  BY <1>10 DEF vars
<1> QED
  BY <1>1, <1>2, <1>3, <1>4, <1>5, <1>6, <1>7, <1>8, <1>9, <1>10 DEF Next, Serve, Finished

\* Type correctness of the write path: every step of every handler keeps rows,
\* session copies and answers within their types.
THEOREM TypeCorrect == Spec => []TypeOK
<1>1. Init => TypeOK
  BY DEF Init, TypeOK, PCs, Row, Status, Absent, Opened
<1> QED BY <1>1, TypeStep, PTL DEF Spec
-----------------------------------------------------------------------------
LEMMA InitConsistent == Init => Consistent
<1> SUFFICES ASSUME Init PROVE Consistent
  OBVIOUS
<1> USE DEF Init
<1>1. RowsWellFormed
  BY DEF RowsWellFormed, Absent, Opened, Taken
<1>2. CreatesAreFresh
  BY DEF CreatesAreFresh
<1>3. CopiesAllowWrite /\ CopiesFreshOrOvertaken
  BY DEF CopiesAllowWrite, CopiesFreshOrOvertaken, Writing
<1>4. CommitsLeaveTheirMark /\ OneUndisturbedWinner
  BY DEF CommitsLeaveTheirMark, OneUndisturbedWinner, CommittedClaims
<1> QED BY <1>1, <1>2, <1>3, <1>4 DEF Consistent

\* A step that writes no row, ends or keeps every session and touches no
\* history keeps the invariant.
LEMMA QuietStep ==
  ASSUME TypeOK, Consistent,
         UNCHANGED <<row, arg, read, committed, overtaken>>,
         \A r \in Requests : Writing(r)' => Writing(r),
         \A r \in Requests : pc[r] \in {"respond", "done"} => pc'[r] \in {"respond", "done"}
  PROVE  Consistent'
<1>1. RowsWellFormed'
  BY DEF Consistent, RowsWellFormed
<1>2. CreatesAreFresh'
  BY DEF Consistent, CreatesAreFresh
<1>3. CopiesAllowWrite'
  BY DEF Consistent, CopiesAllowWrite
<1>4. CopiesFreshOrOvertaken'
  BY DEF Consistent, CopiesFreshOrOvertaken
<1>5. CommitsLeaveTheirMark'
  BY DEF Consistent, CommitsLeaveTheirMark, TypeOK
<1>6. OneUndisturbedWinner'
  BY DEF Consistent, OneUndisturbedWinner, CommittedClaims
<1> QED BY <1>1, <1>2, <1>3, <1>4, <1>5, <1>6 DEF Consistent

\* The checks of a handler let only the copies through it may write from.
LEMMA ReadStep ==
  ASSUME TypeOK, Consistent, NEW r \in Requests, Read(r)
  PROVE  Consistent'
<1> DEFINE x == row[arg[r].shift]
<1>0. /\ arg[r].op \in {"create", "claim", "cancel"} /\ arg[r].shift \in Shifts
      /\ pc[r] = "begin" /\ x \in Row /\ x.version \in Nat
      /\ UNCHANGED <<row, arg, committed, overtaken>>
      /\ read' = [read EXCEPT ![r] = x]
      /\ pc' = [pc EXCEPT ![r] = IF Verdict(r, x) = 0 THEN "write" ELSE "done"]
  BY ArgFacts DEF Read, TypeOK, Row
<1>1. RowsWellFormed'
  BY <1>0 DEF Consistent, RowsWellFormed
<1>2. CreatesAreFresh'
  BY <1>0 DEF Consistent, CreatesAreFresh
<1>3. r \notin committed
  BY <1>0 DEF Consistent, CommitsLeaveTheirMark
<1>4. ASSUME pc'[r] = "write"
      PROVE  /\ arg[r].op = "create" => x = Absent
             /\ arg[r].op = "claim" => x = Opened
             /\ arg[r].op = "cancel" => x.status \in {"open", "claimed"} /\ x.version >= 1
  <2>0. Verdict(r, x) = 0
    BY <1>0, <1>4 DEF TypeOK
  <2>1. CASE arg[r].op = "create"
    BY <1>0, <1>3, <2>1 DEF Consistent, CreatesAreFresh
  <2>2. CASE arg[r].op = "claim"
    <3>1. IsOpen(x)
      BY <2>0, <2>2 DEF Verdict
    <3> QED BY <1>0, <2>2, <3>1 DEF IsOpen, Consistent, RowsWellFormed
  <2>3. CASE arg[r].op = "cancel"
    <3>1. x # Absent /\ x.status # "cancelled"
      BY <2>0, <2>3 DEF Verdict
    <3>2. x.status \in Status
      BY <1>0 DEF Row
    <3>3. CASE x.status = "open"
      BY <1>0, <2>3, <3>3 DEF Consistent, RowsWellFormed, Opened
    <3>4. CASE x.status = "claimed"
      BY <1>0, <2>3, <3>4 DEF Consistent, RowsWellFormed, Taken
    <3> QED BY <1>0, <3>1, <3>2, <3>3, <3>4 DEF Status, Consistent, RowsWellFormed
  <2> QED BY <1>0, <2>1, <2>2, <2>3
<1>5. CopiesAllowWrite'
  <2> SUFFICES ASSUME NEW q \in Requests, Writing(q)'
               PROVE  /\ q \notin committed
                      /\ arg[q].op = "create" => read'[q] = Absent
                      /\ arg[q].op = "claim"  => read'[q] = Opened
                      /\ arg[q].op = "cancel" => read'[q].status \in {"open", "claimed"}
                                                 /\ read'[q].version >= 1
    BY <1>0 DEF CopiesAllowWrite
  <2>1. CASE q = r
    BY <1>0, <1>3, <1>4, <2>1 DEF Writing, TypeOK
  <2>2. CASE q # r
    BY <1>0, <2>2 DEF Writing, TypeOK, Consistent, CopiesAllowWrite
  <2> QED BY <2>1, <2>2
<1>6. CopiesFreshOrOvertaken'
  BY <1>0 DEF Writing, TypeOK, Consistent, CopiesFreshOrOvertaken
<1>7. CommitsLeaveTheirMark'
  BY <1>0, <1>3 DEF Consistent, CommitsLeaveTheirMark, TypeOK
<1>8. OneUndisturbedWinner'
  BY <1>0 DEF Consistent, OneUndisturbedWinner, CommittedClaims
<1> QED BY <1>1, <1>2, <1>5, <1>6, <1>7, <1>8 DEF Consistent

\* What a session that reaches its commit is about to do: insert a fresh row,
\* claim an open shift, cancel a shift as it is, or, overtaken, rewrite a shift
\* that was taken in the meantime.
LEMMA CommitCases ==
  ASSUME TypeOK, Consistent, NEW r \in Requests, Commit(r)
  PROVE  LET s == arg[r].shift IN
         \/ /\ arg[r].op = "create" /\ row[s] = Absent /\ Written(r) = Opened
         \/ /\ arg[r].op = "claim" /\ r \notin overtaken /\ row[s] = Opened
            /\ Written(r) = [status |-> "claimed", worker |-> arg[r].worker, version |-> 2]
         \/ /\ arg[r].op = "claim" /\ r \in overtaken /\ Taken(row[s])
            /\ Written(r) = [status |-> "claimed", worker |-> arg[r].worker, version |-> 2]
         \/ /\ arg[r].op = "cancel" /\ r \notin overtaken
            /\ row[s].status \in {"open", "claimed"} /\ row[s].version >= 1
            /\ Written(r) = [status |-> "cancelled", worker |-> row[s].worker,
                             version |-> row[s].version + 1]
         \/ /\ arg[r].op = "cancel" /\ r \in overtaken /\ Taken(row[s])
            /\ Written(r).version >= 2
            /\ Written(r) = [status |-> "cancelled", worker |-> row[s].worker,
                             version |-> Written(r).version]
<1> DEFINE s == arg[r].shift
<1>0. /\ pc[r] = "commit" /\ s \in Shifts /\ Writing(r) /\ r \notin committed
      /\ arg[r].op \in {"create", "claim", "cancel"}
      /\ read[r] \in Row /\ read[r].version \in Nat
  BY ArgFacts DEF Commit, Writing, Consistent, CopiesAllowWrite, TypeOK, Row
<1>1. CASE arg[r].op = "create"
  BY <1>0, <1>1 DEF Consistent, CreatesAreFresh, Written
<1>2. CASE arg[r].op = "claim"
  <2>1. read[r] = Opened
    BY <1>0, <1>2 DEF Consistent, CopiesAllowWrite
  <2>2. Written(r) = [status |-> "claimed", worker |-> arg[r].worker, version |-> 2]
    BY <1>2, <2>1 DEF Written, Opened
  <2> QED BY <1>0, <1>2, <2>1, <2>2 DEF Consistent, CopiesFreshOrOvertaken
<1>3. CASE arg[r].op = "cancel"
  <2>1. read[r].status \in {"open", "claimed"} /\ read[r].version >= 1
    BY <1>0, <1>3 DEF Consistent, CopiesAllowWrite
  <2>2. Written(r) = [status |-> "cancelled", worker |-> row[s].worker,
                      version |-> read[r].version + 1]
    BY <1>3 DEF Written
  <2>3. Written(r).version = read[r].version + 1 /\ Written(r).version >= 2
    BY <1>0, <2>1, <2>2
  <2> QED BY <1>0, <1>3, <2>1, <2>2, <2>3 DEF Consistent, CopiesFreshOrOvertaken
<1> QED BY <1>0, <1>1, <1>2, <1>3

\* A commit keeps the invariant: it is clean, or it rewrites a taken row.
LEMMA CommitStep ==
  ASSUME TypeOK, Consistent, NEW r \in Requests, Commit(r)
  PROVE  Consistent'
<1> DEFINE s == arg[r].shift
<1>0. /\ s \in Shifts /\ r \notin committed /\ Writing(r)
      /\ pc[r] = "commit" /\ UNCHANGED <<arg, read>>
      /\ row' = [row EXCEPT ![s] = Written(r)]
      /\ pc' = [pc EXCEPT ![r] = "respond"]
      /\ committed' = committed \cup {r}
      /\ overtaken' = overtaken \cup Overtakes(r)
  BY ArgFacts DEF Commit, Writing, Consistent, CopiesAllowWrite
<1>1. row'[s] = Written(r) /\ \A t \in Shifts \ {s} : row'[t] = row[t]
  BY <1>0 DEF TypeOK
<1>2. pc'[r] = "respond" /\ \A q \in Requests \ {r} : pc'[q] = pc[q]
  BY <1>0 DEF TypeOK
<1>3. /\ Taken(row[s]) => Taken(Written(r))
      /\ arg[r].op # "create" => Taken(Written(r)) /\ row[s] # Absent
  BY CommitCases DEF Taken, Opened, Absent
<1>4. RowsWellFormed'
  <2>1. /\ Written(r).status = "absent" => Written(r) = Absent
        /\ Written(r).status = "open" => Written(r) = Opened
        /\ Taken(Written(r)) => Written(r).version >= 2
    BY <1>0, CommitCases DEF Taken, Opened, Absent, TypeOK, Row
  <2> QED BY <1>1, <2>1 DEF Consistent, RowsWellFormed
<1>5. CreatesAreFresh'
  <2> SUFFICES ASSUME NEW q \in Requests, arg[q].op = "create"
               PROVE  /\ q \notin committed' => row'[arg[q].shift] = Absent
                      /\ \A u \in Requests \ {q} :
                           arg[u].op = "create" => arg[u].shift # arg[q].shift
    BY <1>0 DEF CreatesAreFresh
  <2>1. ASSUME q \notin committed' PROVE row'[arg[q].shift] = Absent
    <3>1. q # r /\ q \notin committed /\ arg[q].shift \in Shifts
      BY <1>0, <2>1, ArgFacts
    <3>2. row[arg[q].shift] = Absent
      BY <3>1 DEF Consistent, CreatesAreFresh
    <3>3. arg[q].shift # s
      <4>1. CASE arg[r].op = "create"
        BY <3>1, <4>1 DEF Consistent, CreatesAreFresh
      <4>2. CASE arg[r].op # "create"
        BY <1>3, <3>2, <4>2
      <4> QED BY <4>1, <4>2
    <3> QED BY <1>1, <3>1, <3>2, <3>3
  <2> QED BY <2>1 DEF Consistent, CreatesAreFresh
<1>6. CopiesAllowWrite'
  BY <1>0, <1>2 DEF Writing, Consistent, CopiesAllowWrite
<1>7. CopiesFreshOrOvertaken'
  <2> SUFFICES ASSUME NEW q \in Requests
               PROVE  /\ Writing(q)' /\ q \notin overtaken' => row'[arg[q].shift] = read[q]
                      /\ q \in overtaken' => Taken(row'[arg[q].shift])
    BY <1>0 DEF CopiesFreshOrOvertaken, Writing, Taken
  <2>0. arg[q].shift \in Shifts
    BY ArgFacts
  <2>1. CASE arg[q].shift # s
    <3>1. row'[arg[q].shift] = row[arg[q].shift]
      BY <1>1, <2>0, <2>1
    <3>2. q \notin Overtakes(r)
      BY <2>1 DEF Overtakes
    <3> QED BY <1>0, <1>2, <3>1, <3>2 DEF Writing, Consistent, CopiesFreshOrOvertaken
  <2>2. CASE arg[q].shift = s /\ q = r
    <3>1. q \notin Overtakes(r)
      BY <2>2 DEF Overtakes
    <3> QED BY <1>0, <1>1, <1>2, <1>3, <2>2, <3>1 DEF Writing, Consistent, CopiesFreshOrOvertaken
  <2>3. CASE arg[q].shift = s /\ q # r
    <3>1. ASSUME Writing(q) PROVE Taken(Written(r))
      <4>1. CASE arg[r].op = "create"
        <5>1. row[s] = Absent
          BY <4>1, CommitCases
        <5>2. arg[q].op # "create"
          BY <2>3, <4>1 DEF Consistent, CreatesAreFresh
        <5>3. arg[q].op \in {"claim", "cancel"}
          BY <5>2, ArgFacts
        <5>4. q \notin overtaken
          BY <2>3, <5>1 DEF Consistent, CopiesFreshOrOvertaken, Taken, Absent
        <5>5. read[q] = Absent
          BY <2>3, <3>1, <5>1, <5>4 DEF Consistent, CopiesFreshOrOvertaken
        <5> QED BY <3>1, <5>3, <5>5 DEF Consistent, CopiesAllowWrite, Absent, Opened
      <4>2. CASE arg[r].op # "create"
        BY <1>3, <4>2
      <4> QED BY <4>1, <4>2
    <3>2. Writing(q) => q \in overtaken'
      BY <1>0, <2>3 DEF Overtakes
    <3>3. Writing(q)' => Writing(q)
      BY <1>2, <2>3 DEF Writing
    <3>4. q \in overtaken' => Taken(Written(r))
      BY <1>0, <1>3, <2>3, <3>1 DEF Overtakes, Consistent, CopiesFreshOrOvertaken
    <3> QED BY <1>1, <2>3, <3>2, <3>3, <3>4
  <2> QED BY <2>1, <2>2, <2>3
<1>8. CommitsLeaveTheirMark'
  <2> SUFFICES ASSUME NEW q \in committed'
               PROVE  /\ pc'[q] \in {"respond", "done"}
                      /\ arg[q].op = "claim" => Taken(row'[arg[q].shift])
    BY <1>0 DEF CommitsLeaveTheirMark, Taken
  <2>0. q \in Requests /\ arg[q].shift \in Shifts
    BY <1>0, ArgFacts DEF TypeOK
  <2>1. CASE q = r
    BY <1>1, <1>2, <1>3, <2>1
  <2>2. CASE q # r
    <3>1. q \in committed
      BY <1>0, <2>2
    <3> QED BY <1>1, <1>2, <1>3, <2>0, <2>2, <3>1 DEF Consistent, CommitsLeaveTheirMark
  <2> QED BY <2>1, <2>2
<1>9. OneUndisturbedWinner'
  <2>1. ASSUME arg[r].op = "claim", r \notin overtaken PROVE CommittedClaims(s) = {}
    <3>1. row[s] = Opened
      BY <2>1, CommitCases
    <3> QED BY <3>1 DEF Consistent, CommitsLeaveTheirMark, CommittedClaims, Taken, Opened
  <2>2. r \notin Overtakes(r)
    BY DEF Overtakes
  <2>3. \A t \in Shifts : CommittedClaims(t)' =
          CommittedClaims(t) \cup {q \in {r} : arg[r].op = "claim" /\ s = t}
    BY <1>0 DEF CommittedClaims
  <2> QED BY <1>0, <2>1, <2>2, <2>3 DEF Consistent, OneUndisturbedWinner
<1> QED BY <1>4, <1>5, <1>6, <1>7, <1>8, <1>9 DEF Consistent

LEMMA ConsistentStep == TypeOK /\ Consistent /\ [Next]_vars => Consistent'
<1> SUFFICES ASSUME TypeOK, Consistent, [Next]_vars PROVE Consistent'
  OBVIOUS
<1>1. ASSUME NEW r \in Requests, Arrive(r) PROVE Consistent'
  BY <1>1, QuietStep DEF Arrive, Writing, TypeOK
<1>2. ASSUME NEW r \in Requests, Read(r) PROVE Consistent'
  BY <1>2, ReadStep
<1>3. ASSUME NEW r \in Requests, PoolTimeout(r) PROVE Consistent'
  BY <1>3, QuietStep DEF PoolTimeout, Writing, TypeOK
<1>4. ASSUME NEW r \in Requests, Flush(r) PROVE Consistent'
  BY <1>4, QuietStep DEF Flush, Writing, TypeOK
<1>5. ASSUME NEW r \in Requests, Publish(r) PROVE Consistent'
  BY <1>5, QuietStep DEF Publish, Writing, TypeOK
<1>6. ASSUME NEW r \in Requests, Commit(r) PROVE Consistent'
  BY <1>6, CommitStep
<1>7. ASSUME NEW r \in Requests, Respond(r) PROVE Consistent'
  BY <1>7, QuietStep DEF Respond, Writing, TypeOK
<1>8. ASSUME NEW r \in Requests, Fail(r) PROVE Consistent'
  BY <1>8, QuietStep DEF Fail, Writing, TypeOK
<1>9. ASSUME NEW p \in Pods, Crash(p) PROVE Consistent'
  BY <1>9, QuietStep DEF Crash, Writing, TypeOK, InFlight
<1>10. CASE UNCHANGED vars
  BY <1>10, QuietStep DEF vars, Writing
<1> QED
  BY <1>1, <1>2, <1>3, <1>4, <1>5, <1>6, <1>7, <1>8, <1>9, <1>10 DEF Next, Serve, Finished

LEMMA Invariance == Spec => [](TypeOK /\ Consistent)
<1>1. Init => TypeOK /\ Consistent
  <2>1. Init => TypeOK
    BY DEF Init, TypeOK, PCs, Row, Status, Absent, Opened
  <2> QED BY <2>1, InitConsistent
<1>2. TypeOK /\ Consistent /\ [Next]_vars => TypeOK' /\ Consistent'
  BY TypeStep, ConsistentStep
<1> QED BY <1>1, <1>2, PTL DEF Spec

\* Rows, session copies and history agree in every reachable state.
THEOREM AlwaysConsistent == Spec => []Consistent
BY Invariance, PTL

\* However many requests race, of the claims of one shift that no other writer
\* overtook at most one is ever committed.
THEOREM UndisturbedWinner == Spec => []OneUndisturbedWinner
<1>1. Consistent => OneUndisturbedWinner
  BY DEF Consistent
<1> QED BY <1>1, Invariance, PTL

\* A shift that is open has never been claimed.
THEOREM OpenIsUntouched == Spec => []OpenMeansUntouched
<1>1. Consistent => OpenMeansUntouched
  BY DEF Consistent, OpenMeansUntouched, RowsWellFormed, CommitsLeaveTheirMark,
         CommittedClaims, Taken
<1> QED BY <1>1, Invariance, PTL
-----------------------------------------------------------------------------
\* Only a commit changes a row, and it changes only its own.
LEMMA RowChanges ==
  ASSUME TypeOK, [Next]_vars, NEW s \in Shifts, row'[s] # row[s]
  PROVE  \E r \in Requests : Commit(r) /\ arg[r].shift = s
<1>1. PICK r \in Requests : Commit(r)
  <2>1. CASE \E q \in Requests : Serve(q) \/ Fail(q) \/ Arrive(q)
    BY <2>1 DEF Serve, Fail, Arrive, Read, PoolTimeout, Flush, Publish, Respond
  <2>2. CASE \E p \in Pods : Crash(p)
    BY <2>2 DEF Crash
  <2>3. CASE UNCHANGED vars
    BY <2>3 DEF vars
  <2> QED BY <2>1, <2>2, <2>3 DEF Next, Finished
<1>2. arg[r].shift = s
  BY <1>1 DEF Commit, TypeOK
<1> QED BY <1>1, <1>2

\* A cancelled shift is brought back only by a claim that was overtaken.
THEOREM CancelledStaysCancelled == Spec => CancelledIsFinal
<1>1. ASSUME TypeOK, Consistent, [Next]_vars, NEW s \in Shifts,
             row[s].status = "cancelled", row'[s].status # "cancelled"
      PROVE  \E r \in overtaken : arg[r].op = "claim" /\ r \in committed' \ committed
  <2>1. PICK r \in Requests : Commit(r) /\ arg[r].shift = s
    BY <1>1, RowChanges
  <2>2. row'[s] = Written(r) /\ r \in committed'
    BY <1>1, <2>1 DEF Commit, TypeOK
  <2>3. r \notin committed
    BY <1>1, <2>1 DEF Commit, Writing, Consistent, CopiesAllowWrite
  <2>4. arg[r].op = "claim" /\ r \in overtaken
    BY <1>1, <2>1, <2>2, CommitCases DEF Absent, Opened
  <2> QED BY <2>2, <2>3, <2>4
<1>2. TypeOK /\ Consistent /\ [Next]_vars =>
        [\A s \in Shifts : row[s].status = "cancelled" /\ row'[s].status # "cancelled" =>
           \E r \in overtaken : arg[r].op = "claim" /\ r \in committed' \ committed]_vars
  BY <1>1
<1> QED BY <1>2, Invariance, PTL DEF Spec, CancelledIsFinal

\* The version counts the writes of a shift but for those of overtaken writers.
THEOREM VersionsCountWrites == Spec => VersionCountsWrites
<1>1. ASSUME TypeOK, Consistent, [Next]_vars, NEW s \in Shifts, row'[s] # row[s]
      PROVE  \/ row'[s].version = row[s].version + 1
             \/ \E r \in overtaken : r \in committed' \ committed
  <2>1. PICK r \in Requests : Commit(r) /\ arg[r].shift = s
    BY <1>1, RowChanges
  <2>2. row'[s] = Written(r) /\ r \in committed'
    BY <1>1, <2>1 DEF Commit, TypeOK
  <2>3. r \notin committed
    BY <1>1, <2>1 DEF Commit, Writing, Consistent, CopiesAllowWrite
  <2>4. r \in overtaken \/ Written(r).version = row[s].version + 1
    BY <1>1, <2>1, CommitCases DEF Absent, Opened
  <2> QED BY <2>2, <2>3, <2>4
<1>2. TypeOK /\ Consistent /\ [Next]_vars =>
        [\A s \in Shifts : row'[s] # row[s] =>
           \/ row'[s].version = row[s].version + 1
           \/ \E r \in overtaken : r \in committed' \ committed]_vars
  BY <1>1
<1> QED BY <1>2, Invariance, PTL DEF Spec, VersionCountsWrites

\* A commit is one operation of the register: an atomic one, or, when the
\* writer was overtaken, the rewrite of a taken shift from an old copy.
LEMMA CommitRefines ==
  ASSUME TypeOK, Consistent, NEW r \in Requests, Commit(r)
  PROVE  Lifecycle!LossyNext /\ (r \notin overtaken => Lifecycle!Next)
<1> DEFINE s == arg[r].shift
<1>0. s \in Shifts /\ (arg[r].op = "claim" => arg[r].worker \in Workers)
  BY ArgFacts
<1>1. row' = [row EXCEPT ![s] = Written(r)] /\ row'[s] = Written(r)
  BY <1>0 DEF Commit, TypeOK
<1>2. CASE arg[r].op = "create"
  <2>1. Lifecycle!Create(s)
    BY <1>1, <1>2, CommitCases DEF Lifecycle!Create, Lifecycle!Absent, Lifecycle!Opened,
           Absent, Opened
  <2> QED BY <1>0, <2>1 DEF Lifecycle!LossyNext, Lifecycle!Next
<1>3. CASE arg[r].op = "claim" /\ r \notin overtaken
  <2>1. Lifecycle!Claim(s, arg[r].worker)
    <3>1. row[s] = Opened
      BY <1>3, CommitCases
    <3>2. row[s].status = "open" /\ row[s].version + 1 = 2
      BY <3>1 DEF Opened
    <3>3. Written(r) = [status |-> "claimed", worker |-> arg[r].worker,
                        version |-> row[s].version + 1]
      BY <1>3, <3>2, CommitCases
    <3> QED BY <1>1, <3>2, <3>3 DEF Lifecycle!Claim
  <2> QED BY <1>0, <1>3, <2>1 DEF Lifecycle!LossyNext, Lifecycle!Next
<1>4. CASE arg[r].op = "claim" /\ r \in overtaken
  <2>1. Lifecycle!StaleClaim(s, arg[r].worker)
    BY <1>1, <1>4, CommitCases DEF Lifecycle!StaleClaim, Lifecycle!Taken, Taken
  <2> QED BY <1>0, <1>4, <2>1 DEF Lifecycle!LossyNext
<1>5. CASE arg[r].op = "cancel" /\ r \notin overtaken
  <2>1. Lifecycle!Cancel(s)
    BY <1>1, <1>5, CommitCases DEF Lifecycle!Cancel
  <2> QED BY <1>0, <2>1 DEF Lifecycle!LossyNext, Lifecycle!Next
<1>6. CASE arg[r].op = "cancel" /\ r \in overtaken
  <2>1. Lifecycle!StaleCancel(s)
    BY <1>1, <1>6, CommitCases DEF Lifecycle!StaleCancel, Lifecycle!Taken, Taken
  <2> QED BY <1>0, <1>6, <2>1 DEF Lifecycle!LossyNext
<1> QED BY <1>2, <1>3, <1>4, <1>5, <1>6, ArgFacts

\* A step is a commit or leaves the table alone.
LEMMA CommitOrQuiet ==
  ASSUME [Next]_vars
  PROVE  UNCHANGED row \/ \E r \in Requests : Commit(r)
<1>1. CASE \E r \in Requests : Serve(r) \/ Fail(r) \/ Arrive(r)
  BY <1>1 DEF Serve, Fail, Arrive, Read, PoolTimeout, Flush, Publish, Respond
<1>2. CASE \E p \in Pods : Crash(p)
  BY <1>2 DEF Crash
<1>3. CASE UNCHANGED vars
  BY <1>3 DEF vars
<1> QED BY <1>1, <1>2, <1>3 DEF Next, Finished

LEMMA InitRefines == Init => Lifecycle!Init
BY DEF Init, Lifecycle!Init, Lifecycle!Absent, Lifecycle!Opened, Absent, Opened

\* The write path implements the lossy register: every step is an atomic
\* create, claim or cancellation of one shift, a rewrite of a taken shift from
\* an old copy, or leaves the table alone.
THEOREM ImplementsLossyLifecycle == Spec => LossyLifecycle
<1>1. TypeOK /\ Consistent /\ [Next]_vars => [Lifecycle!LossyNext]_row
  BY CommitRefines, CommitOrQuiet
<1> QED BY <1>1, InitRefines, Invariance, PTL DEF Spec, LossyLifecycle, Lifecycle!LossySpec

\* The commit of a writer that nobody overtook is one atomic operation of the
\* register: the checks of the handlers suffice as long as no other request
\* writes the row between a handler's read and its commit.
THEOREM AtomicWhenUndisturbed == Spec => AtomicUnlessOvertaken
<1>1. TypeOK /\ Consistent /\ [Next]_vars =>
        [(committed' \ committed) \cap overtaken = {} => Lifecycle!Next]_row
  <2> SUFFICES ASSUME TypeOK, Consistent, [Next]_vars, row' # row,
                      (committed' \ committed) \cap overtaken = {}
               PROVE  Lifecycle!Next
    OBVIOUS
  <2>1. PICK r \in Requests : Commit(r)
    BY CommitOrQuiet
  <2>2. r \in committed' \ committed
    BY <2>1 DEF Commit, Writing, Consistent, CopiesAllowWrite
  <2> QED BY <2>1, <2>2, CommitRefines
<1> QED BY <1>1, InitRefines, Invariance, PTL DEF Spec, AtomicUnlessOvertaken
-----------------------------------------------------------------------------
\* A worker whose claim was accepted is displaced only by the commit of a claim
\* that had been overtaken: no cancellation and no undisturbed claim does it.
THEOREM ClaimsSurvive == Spec => []AcceptedClaimSurvives
<1>1. Init => AcceptedClaimSurvives
  BY DEF Init, AcceptedClaimSurvives
<1>2. ASSUME TypeOK, Consistent, AcceptedClaimSurvives, [Next]_vars
      PROVE  AcceptedClaimSurvives'
  <2>1. CASE \E r \in Requests : Commit(r)
    <3>1. PICK r \in Requests : Commit(r)
      BY <2>1
    <3> DEFINE s == arg[r].shift
    <3>2. /\ s \in Shifts /\ UNCHANGED arg /\ overtaken \subseteq overtaken'
          /\ committed' = committed \cup {r} /\ committed \subseteq Requests
          /\ row' = [row EXCEPT ![s] = Written(r)] /\ row'[s] = Written(r)
      BY <1>2, <3>1, ArgFacts DEF Commit, TypeOK
    <3> SUFFICES ASSUME NEW q \in committed', arg[q].op = "claim"
                 PROVE  \/ row'[arg[q].shift].worker = arg[q].worker
                        \/ \E u \in CommittedClaims(arg[q].shift)' : u \in overtaken'
      BY <3>2 DEF AcceptedClaimSurvives
    <3>3. q \in Requests /\ arg[q].shift \in Shifts
      BY <1>2, <3>2, ArgFacts
    <3>4. \A t \in Shifts : CommittedClaims(t) \subseteq CommittedClaims(t)'
      BY <3>2 DEF CommittedClaims
    <3>5. CASE q = r
      BY <3>1, <3>2, <3>5 DEF Written
    <3>6. CASE q # r /\ arg[q].shift # s
      <4>1. q \in committed /\ row'[arg[q].shift] = row[arg[q].shift]
        BY <3>2, <3>3, <3>6 DEF TypeOK
      <4> QED BY <1>2, <3>2, <3>3, <3>4, <4>1 DEF AcceptedClaimSurvives
    <3>7. CASE q # r /\ arg[q].shift = s
      <4>1. q \in committed /\ Taken(row[s])
        BY <1>2, <3>2, <3>7 DEF Consistent, CommitsLeaveTheirMark
      <4>2. arg[r].op = "claim" => r \in overtaken
        BY <1>2, <3>1, <4>1, CommitCases DEF Taken, Opened
      <4>3. CASE arg[r].op = "claim"
        <5>1. r \in CommittedClaims(s)' /\ r \in overtaken'
          BY <3>2, <4>2, <4>3 DEF CommittedClaims
        <5> QED BY <3>2, <3>7, <5>1 DEF CommittedClaims
      <4>4. CASE arg[r].op # "claim"
        <5>1. row'[s].worker = row[s].worker
          BY <1>2, <3>1, <3>2, <4>1, <4>4, CommitCases DEF Taken, Absent
        <5> QED BY <1>2, <3>2, <3>3, <3>4, <3>7, <4>1, <5>1 DEF AcceptedClaimSurvives
      <4> QED BY <4>3, <4>4
    <3> QED BY <3>5, <3>6, <3>7
  <2>2. CASE UNCHANGED <<row, arg, committed, overtaken>>
    BY <1>2, <2>2 DEF AcceptedClaimSurvives, CommittedClaims
  <2>3. CASE \E r \in Requests : (Serve(r) /\ ~Commit(r)) \/ Fail(r) \/ Arrive(r)
    BY <2>2, <2>3 DEF Serve, Fail, Arrive, Read, PoolTimeout, Flush, Publish, Respond
  <2>4. CASE (\E p \in Pods : Crash(p)) \/ UNCHANGED vars
    BY <2>2, <2>4 DEF Crash, vars
  <2> QED BY <1>2, <2>1, <2>3, <2>4 DEF Next, Finished
<1> QED BY <1>1, <1>2, Invariance, PTL DEF Spec

\* The strengthening of AnswersAreHonest: a client is answered when the request
\* ends and not before, and a response is prepared only after the commit.
AnsweredAtTheEnd ==
  \A r \in Requests :
    /\ pc[r] # "done" => code[r] = 0
    /\ pc[r] = "respond" => r \in committed

\* Verdict answers 200 to nothing but the cancellation of a cancelled shift.
LEMMA EarlyAnswers ==
  ASSUME TypeOK, NEW r \in Requests, NEW x
  PROVE  Verdict(r, x) = 200 => arg[r].op = "cancel"
BY ArgFacts DEF Verdict

LEMMA HonestStep ==
  ASSUME TypeOK, Consistent, AnswersAreHonest, AnsweredAtTheEnd, [Next]_vars
  PROVE  AnswersAreHonest' /\ AnsweredAtTheEnd'
<1> USE DEF AnswersAreHonest, AnsweredAtTheEnd
<1>1. ASSUME NEW r \in Requests, Arrive(r) PROVE AnswersAreHonest' /\ AnsweredAtTheEnd'
  BY <1>1 DEF Arrive, TypeOK
<1>2. ASSUME NEW r \in Requests, Read(r) PROVE AnswersAreHonest' /\ AnsweredAtTheEnd'
  <2> DEFINE answer == Verdict(r, row[arg[r].shift])
  <2>1. /\ pc[r] = "begin" /\ UNCHANGED <<arg, sent, committed>>
        /\ pc' = [pc EXCEPT ![r] = IF answer = 0 THEN "write" ELSE "done"]
        /\ code' = [code EXCEPT ![r] = answer]
    BY <1>2 DEF Read
  <2>2. r \notin committed /\ r \notin sent
    BY <2>1 DEF Consistent, CommitsLeaveTheirMark
  <2>3. answer = 200 => arg[r].op = "cancel"
    BY EarlyAnswers
  <2>4. pc \in [Requests -> PCs] /\ code \in [Requests -> {0, 200, 404, 409, 500}]
    BY DEF TypeOK
  <2> HIDE DEF answer
  <2> QED BY <2>1, <2>2, <2>3, <2>4
<1>3. ASSUME NEW r \in Requests, PoolTimeout(r) PROVE AnswersAreHonest' /\ AnsweredAtTheEnd'
  BY <1>3 DEF PoolTimeout, TypeOK
<1>4. ASSUME NEW r \in Requests, Flush(r) PROVE AnswersAreHonest' /\ AnsweredAtTheEnd'
  BY <1>4 DEF Flush, TypeOK
<1>5. ASSUME NEW r \in Requests, Publish(r) PROVE AnswersAreHonest' /\ AnsweredAtTheEnd'
  <2>1. code[r] = 0
    BY <1>5 DEF Publish
  <2> QED BY <1>5, <2>1 DEF Publish, TypeOK
<1>6. ASSUME NEW r \in Requests, Commit(r) PROVE AnswersAreHonest' /\ AnsweredAtTheEnd'
  <2>1. code[r] = 0
    BY <1>6 DEF Commit
  <2> QED BY <1>6, <2>1 DEF Commit, TypeOK
<1>7. ASSUME NEW r \in Requests, Respond(r) PROVE AnswersAreHonest' /\ AnsweredAtTheEnd'
  BY <1>7 DEF Respond, TypeOK
<1>8. ASSUME NEW r \in Requests, Fail(r) PROVE AnswersAreHonest' /\ AnsweredAtTheEnd'
  BY <1>8 DEF Fail, TypeOK
<1>9. ASSUME NEW p \in Pods, Crash(p) PROVE AnswersAreHonest' /\ AnsweredAtTheEnd'
  BY <1>9 DEF Crash, TypeOK, InFlight
<1>10. CASE UNCHANGED vars
  BY <1>10 DEF vars
<1> QED
  BY <1>1, <1>2, <1>3, <1>4, <1>5, <1>6, <1>7, <1>8, <1>9, <1>10 DEF Next, Serve, Finished

\* What a client is told of a write is true: a refusal wrote and announced
\* nothing, a success is in the table, and only a request answered with a 500
\* or cut off may have announced a write that was rolled back.
THEOREM HonestAnswers == Spec => []AnswersAreHonest
<1>1. Init => AnswersAreHonest /\ AnsweredAtTheEnd
  BY DEF Init, AnswersAreHonest, AnsweredAtTheEnd
<1> QED BY <1>1, HonestStep, Invariance, PTL DEF Spec
-----------------------------------------------------------------------------
\* The worker runs as one replica, the least KEDA scales it to.  Without this a
\* scan that read the shift before a cancellation may commit after the scan of the
\* cancellation, and its findings stay.
OneReplica == \A c, d \in Consumers : c = d

\* A committed write of s by one of these operations has not been accounted for
\* by the events in the ledger and those in `handled`, or was missed by them.
Owed(s, ops, handled) ==
  \E r \in committed : /\ arg[r].shift = s /\ arg[r].op \in ops
                       /\ Missed(r) \/ r \notin ledger \cup handled

\* The replica handles the event e, which is about the shift s.
Handles(c, e, s) == event[c] = e /\ arg[e].shift = s

PastRead(c) == step[c] \in {"delete", "others", "mark", "commit"}

\* Shifts exist from the start, so no request creates one, and who claims one is
\* its worker.
RosterRows ==
  /\ \A r \in Requests : arg[r].op \in {"claim", "cancel"}
  /\ \A s \in Shifts : /\ row[s].status # "absent"
                       /\ row[s].status = "claimed" => row[s].worker # NoWorker

\* An event is completed after it is in the ledger, and its scan read the shift
\* after the write unless `early` says otherwise.
LedgerAccount ==
  /\ settled \subseteq ledger /\ ledger \subseteq committed \cup early
  /\ \A c \in Consumers :
       /\ step[c] # "idle" => event[c] \in Requests \ ledger
       /\ PastRead(c) => event[c] \in committed \cup early

\* The copy of s in the session that handles e is the row, or another event owes
\* what the row has become.
SubjectFits(c, e, s) ==
  \/ subject[c] = row[s]
  \/ row[s].status = "claimed" /\ Owed(s, {"claim"}, {e})
  \/ row[s].status = "cancelled" /\ Owed(s, {"cancel"}, {e})

\* A session that has read the worker's other shifts reports t if it clashes
\* with s, but for what t owes or has been withdrawn.
FoundFits(c, s, t) ==
  LET theirs == row[t].status = "claimed" /\ row[t].worker = subject[c].worker IN
  /\ t \in found[c] => <<s, t>> \in Clash /\ (theirs \/ Withdrawn(t))
  /\ <<s, t>> \in Clash /\ ~Scan!NeedsNoScan(subject[c]) /\ theirs =>
       t \in found[c] \/ Owed(t, {"claim"}, {})

\* What a session holds is what the committed tables say, but for what is owed.
SessionAccount ==
  \A c \in Consumers, e \in Requests, s \in Shifts : Handles(c, e, s) =>
    /\ step[c] \in {"read", "delete", "others"} => found[c] = {}
    /\ step[c] \in {"others", "mark", "commit"} => removed[c] = Flagged(s)
    /\ step[c] = "others" \/ found[c] # {} => ~Scan!NeedsNoScan(subject[c])
    /\ PastRead(c) => SubjectFits(c, e, s)
    /\ step[c] \in {"mark", "commit"} => \A t \in Shifts : FoundFits(c, s, t)

\* The findings are those of the roster, but for what is owed and for findings
\* about shifts that were withdrawn.
FindingsAccount ==
  /\ \A s, t \in Shifts : Clashing(s, t) =>
       \/ \E k \in conflict : <<k.shift, k.other>> \in {<<s, t>>, <<t, s>>}
       \/ Owed(s, {"claim"}, {}) \/ Owed(t, {"claim"}, {})
  /\ \A s \in Shifts : row[s].status = "cancelled" =>
       Flagged(s) = {} \/ Owed(s, {"cancel"}, {})
  /\ \A k \in conflict :
       \/ Clashing(k.shift, k.other) \/ Withdrawn(k.other)
       \/ Owed(k.shift, {"claim", "cancel"}, {})

\* The inductive invariant of the two services together.
RosterConsistent ==
  /\ TypeOK /\ Consistent /\ Scan!TypeOK
  /\ RosterRows /\ LedgerAccount /\ SessionAccount /\ FindingsAccount

\* A step of the API is a step of ShiftApi; it leaves the worker alone, and a
\* request whose write is committed publishes no more.
LEMMA ApiStepFacts ==
  ASSUME TypeOK, Consistent, ApiStep
  PROVE  /\ [Next]_vars
         /\ UNCHANGED <<conflict, ledger, settled, step, event, subject, removed, found,
                       inserted, seen, early, arg>>
         /\ committed \subseteq committed' /\ overtaken \subseteq overtaken'
         /\ \A r \in committed : r \in sent' => r \in sent
<1>1. [Next]_vars
  BY DEF ApiStep, Next
<1>2. UNCHANGED <<conflict, ledger, settled, step, event, subject, removed, found,
                  inserted, seen, early>>
  BY DEF ApiStep, scan
<1>3. CASE \E r \in Requests : (Serve(r) /\ ~Publish(r)) \/ Arrive(r) \/ Fail(r)
  BY <1>1, <1>2, <1>3 DEF Serve, Arrive, Fail, Read, PoolTimeout, Flush, Commit, Respond
<1>4. CASE \E r \in Requests : Publish(r)
  BY <1>1, <1>2, <1>4 DEF Publish, Consistent, CommitsLeaveTheirMark
<1>5. CASE \E p \in Pods : Crash(p)
  BY <1>1, <1>2, <1>5 DEF Crash
<1> QED BY <1>3, <1>4, <1>5 DEF ApiStep

\* No step of the worker leaves the types of its tables and sessions.
LEMMA ScanTypes ==
  ASSUME TypeOK, Scan!TypeOK, NEW c \in Consumers, ScanStep(c)
  PROVE  Scan!TypeOK'
<1> USE RosterAssumption DEF Scan!TypeOK, Scan!ShiftOf
<1>1. ASSUME NEW e \in Requests, Scan!Duplicate(c, e) PROVE Scan!TypeOK'
  BY <1>1 DEF Scan!Duplicate, Scan!session
<1>2. ASSUME NEW e \in Requests, Scan!Begin(c, e) PROVE Scan!TypeOK'
  BY <1>2 DEF Scan!Begin, Scan!tables
<1>3. CASE Scan!ReadShift(c)
  <2>1. event[c] \in Requests
    BY <1>3 DEF Scan!ReadShift
  <2>2. row[About[event[c]]] \in Scan!Row
    BY <2>1, ArgFacts DEF TypeOK, About, Scan!Row, Scan!Status, Row, Status
  <2> QED BY <1>3, <2>2 DEF Scan!ReadShift, Scan!tables
<1>4. CASE Scan!Delete(c)
  BY <1>4 DEF Scan!Delete, Scan!tables
<1>5. CASE Scan!ReadOthers(c)
  BY <1>5 DEF Scan!ReadOthers, Scan!tables, Scan!Evaluate, Scan!Others
<1>6. CASE Scan!Mark(c)
  BY <1>6 DEF Scan!Mark, Scan!tables
<1>7. CASE Scan!Commit(c) \/ Scan!Fail(c)
  <2>1. step[c] # "idle"
    BY <1>7 DEF Scan!Commit, Scan!Fail
  <2>2. event[c] \in Requests /\ About[event[c]] \in Shifts
    BY <2>1, ArgFacts DEF About
  <2>3. Scan!Replaced(c) \subseteq Scan!Finding
    BY <2>2 DEF Scan!Replaced, Scan!Finding
  <2>4. /\ conflict' \in {conflict, Scan!Replaced(c)}
        /\ ledger' \in {ledger, ledger \cup {event[c]}}
        /\ settled' \in {settled, settled \cup {event[c]}}
    BY <1>7 DEF Scan!Commit, Scan!Fail, Scan!tables
  <2>5. Scan!EndSession(c)
    BY <1>7 DEF Scan!Commit, Scan!Fail
  <2>6. conflict' \subseteq Scan!Finding /\ ledger' \subseteq Requests /\ settled' \subseteq Requests
    BY <2>2, <2>3, <2>4
  <2>7. Scan!Absent \in Scan!Row
    BY DEF Scan!Absent, Scan!Row, Scan!Status
  <2> QED BY <2>5, <2>6, <2>7 DEF Scan!EndSession
<1> QED BY <1>1, <1>2, <1>3, <1>4, <1>5, <1>6, <1>7 DEF ScanStep, Scan!Handle

\* A debt of committed writes is not paid by anything the API does.
LEMMA OwedStays ==
  ASSUME TypeOK, Consistent, ApiStep, NEW s, NEW ops, NEW h, Owed(s, ops, h)
  PROVE  Owed(s, ops, h)'
BY ApiStepFacts DEF Owed, Missed

\* The commit of a write takes a debt on: its event is lost, or was read early,
\* or is not in the ledger.
LEMMA NewWriteOwes ==
  ASSUME RosterConsistent, ApiStep, NEW r \in Requests, Commit(r),
         NEW s, arg[r].shift = s, NEW ops, arg[r].op \in ops
  PROVE  /\ Owed(s, ops, {})'
         /\ \A c \in Consumers, e \in Requests : PastRead(c) /\ event[c] = e =>
              Owed(s, ops, {e})'
<1>1. r \in committed' /\ r \notin committed
  BY DEF RosterConsistent, Commit, Consistent, CopiesAllowWrite, Writing
<1>2. UNCHANGED <<arg, ledger, event, early>>
  BY ApiStepFacts DEF RosterConsistent
<1>3. r \in early \/ r \notin ledger
  BY <1>1 DEF RosterConsistent, LedgerAccount
<1>4. \A c \in Consumers : PastRead(c) => r \in early \/ r # event[c]
  BY <1>1 DEF RosterConsistent, LedgerAccount
<1> QED BY <1>1, <1>2, <1>3, <1>4 DEF Owed, Missed

\* A row the API changes is claimed or cancelled by the request that changes it,
\* and a row that was taken is then withdrawn from its worker.
LEMMA RowWritten ==
  ASSUME RosterConsistent, ApiStep, NEW s \in Shifts, row'[s] # row[s]
  PROVE  /\ \/ /\ row'[s].status = "claimed" /\ row'[s].worker # NoWorker
               /\ \E r \in Requests : Commit(r) /\ arg[r].shift = s /\ arg[r].op = "claim"
            \/ row'[s].status = "cancelled" /\ \E r \in Requests :
                 Commit(r) /\ arg[r].shift = s /\ arg[r].op = "cancel"
         /\ Taken(row[s]) => Withdrawn(s)'
<1>0. TypeOK /\ Consistent /\ [Next]_vars /\ UNCHANGED arg
  BY ApiStepFacts DEF RosterConsistent
<1>1. PICK r \in Requests : Commit(r) /\ arg[r].shift = s
  BY <1>0, RowChanges
<1>2. /\ row'[s] = Written(r) /\ committed' = committed \cup {r}
      /\ overtaken \subseteq overtaken'
  BY <1>0, <1>1 DEF Commit, TypeOK
<1>3. CASE arg[r].op = "claim"
  <2>0. Written(r).status = "claimed" /\ Written(r).worker # NoWorker
    BY <1>0, <1>1, <1>3, CommitCases, ArgFacts, NoWorkerAssumption
  <2>1. Taken(row[s]) => r \in overtaken
    BY <1>0, <1>1, <1>3, CommitCases DEF Taken, Opened
  <2>2. r \in CommittedClaims(s)'
    BY <1>0, <1>1, <1>2, <1>3 DEF CommittedClaims
  <2> QED BY <1>1, <1>2, <1>3, <2>0, <2>1, <2>2 DEF Withdrawn
<1>4. CASE arg[r].op = "cancel"
  <2>1. Written(r).status = "cancelled"
    BY <1>0, <1>1, <1>4, CommitCases
  <2> QED BY <1>1, <1>2, <1>4, <2>1 DEF Withdrawn
<1> QED BY <1>3, <1>4 DEF RosterConsistent, RosterRows

\* What is withdrawn stays withdrawn.
LEMMA WithdrawnStays ==
  ASSUME RosterConsistent, ApiStep, NEW t \in Shifts, Withdrawn(t)
  PROVE  Withdrawn(t)'
<1>1. UNCHANGED arg /\ committed \subseteq committed' /\ overtaken \subseteq overtaken'
  BY ApiStepFacts DEF RosterConsistent
<1>2. CASE row[t].status = "cancelled" /\ row'[t] # row[t]
  BY <1>2, RowWritten DEF Taken
<1> QED BY <1>1, <1>2 DEF Withdrawn, CommittedClaims

\* What ApiStep does to one row and to what is owed about it.
LEMMA ApiStepOn ==
  ASSUME RosterConsistent, ApiStep, NEW s \in Shifts
  PROVE  \/ row'[s] = row[s]
         \/ /\ Taken(row[s]) => Withdrawn(s)'
            /\ Owed(s, {"claim", "cancel"}, {})'
            /\ \/ /\ row'[s].status = "claimed" /\ Owed(s, {"claim"}, {})'
                  /\ \A c \in Consumers, e \in Requests : PastRead(c) /\ event[c] = e =>
                       Owed(s, {"claim"}, {e})'
               \/ /\ row'[s].status = "cancelled" /\ Owed(s, {"cancel"}, {})'
                  /\ \A c \in Consumers, e \in Requests : PastRead(c) /\ event[c] = e =>
                       Owed(s, {"cancel"}, {e})'
<1> SUFFICES ASSUME row'[s] # row[s]
             PROVE  /\ Owed(s, {"claim", "cancel"}, {})'
                    /\ \/ /\ row'[s].status = "claimed" /\ Owed(s, {"claim"}, {})'
                          /\ \A c \in Consumers, e \in Requests : PastRead(c) /\ event[c] = e =>
                               Owed(s, {"claim"}, {e})'
                       \/ /\ row'[s].status = "cancelled" /\ Owed(s, {"cancel"}, {})'
                          /\ \A c \in Consumers, e \in Requests : PastRead(c) /\ event[c] = e =>
                               Owed(s, {"cancel"}, {e})'
  BY RowWritten
<1>1. ASSUME NEW r \in Requests, Commit(r), arg[r].shift = s, NEW ops, arg[r].op \in ops
      PROVE  /\ Owed(s, ops, {})'
             /\ \A c \in Consumers, e \in Requests : PastRead(c) /\ event[c] = e =>
                  Owed(s, ops, {e})'
  BY <1>1, NewWriteOwes
<1>2. CASE \E r \in Requests : Commit(r) /\ arg[r].shift = s /\ arg[r].op = "claim"
  BY <1>1, <1>2, RowWritten
<1>3. CASE \E r \in Requests : Commit(r) /\ arg[r].shift = s /\ arg[r].op = "cancel"
  BY <1>1, <1>3, RowWritten
<1> QED BY <1>2, <1>3, RowWritten

\* The API keeps the books: what it writes, it owes.
LEMMA ApiKeepsAccounts ==
  ASSUME RosterConsistent, ApiStep
  PROVE  RosterRows' /\ LedgerAccount' /\ SessionAccount' /\ FindingsAccount'
<1>0. /\ TypeOK /\ Consistent
      /\ UNCHANGED <<conflict, ledger, settled, step, event, subject, removed, found, early, arg>>
      /\ committed \subseteq committed'
  BY ApiStepFacts DEF RosterConsistent
<1>1. \A s, ops, h : Owed(s, ops, h) => Owed(s, ops, h)'
  BY <1>0, OwedStays
<1>2. \A t \in Shifts : Withdrawn(t) => Withdrawn(t)'
  BY WithdrawnStays
<1>3. RosterRows'
  BY <1>0, RowWritten DEF RosterConsistent, RosterRows
<1>4. LedgerAccount'
  BY <1>0 DEF RosterConsistent, LedgerAccount, PastRead
<1>5. SessionAccount'
  <2>1. SessionAccount
    BY DEF RosterConsistent
  <2>2. ASSUME NEW c \in Consumers, NEW e \in Requests, NEW s \in Shifts,
               event[c] = e, PastRead(c), SubjectFits(c, e, s)
        PROVE  SubjectFits(c, e, s)'
    <3>1. CASE row'[s] = row[s]
      BY <1>0, <1>1, <2>2, <3>1 DEF SubjectFits
    <3>2. CASE row'[s] # row[s]
      BY <2>2, <3>2, ApiStepOn DEF SubjectFits
    <3> QED BY <3>1, <3>2
  <2>3. ASSUME NEW c \in Consumers, NEW s \in Shifts, NEW t \in Shifts, FoundFits(c, s, t)
        PROVE  FoundFits(c, s, t)'
    <3>1. CASE row'[t] = row[t]
      BY <1>0, <1>1, <1>2, <2>3, <3>1 DEF FoundFits, Scan!NeedsNoScan
    <3>2. CASE row'[t] # row[t]
      BY <1>0, <1>2, <2>3, <3>2, ApiStepOn DEF FoundFits, Taken, Scan!NeedsNoScan
    <3> QED BY <3>1, <3>2
  <2> QED BY <1>0, <2>1, <2>2, <2>3 DEF SessionAccount, Handles, PastRead, Flagged, Scan!NeedsNoScan
<1>6. FindingsAccount'
  <2>1. FindingsAccount
    BY DEF RosterConsistent
  <2>2. ASSUME NEW s \in Shifts, NEW t \in Shifts, Clashing(s, t)'
        PROVE  \/ \E k \in conflict : <<k.shift, k.other>> \in {<<s, t>>, <<t, s>>}
               \/ Owed(s, {"claim"}, {})' \/ Owed(t, {"claim"}, {})'
    <3>1. CASE row'[s] = row[s] /\ row'[t] = row[t]
      <4>1. Clashing(s, t)
        BY <2>2, <3>1 DEF Clashing
      <4> QED BY <1>1, <2>1, <4>1 DEF FindingsAccount
    <3>2. CASE row'[s] # row[s] \/ row'[t] # row[t]
      BY <2>2, <3>2, ApiStepOn DEF Clashing
    <3> QED BY <3>1, <3>2
  <2>3. ASSUME NEW s \in Shifts, row'[s].status = "cancelled"
        PROVE  Flagged(s) = {} \/ Owed(s, {"cancel"}, {})'
    <3>1. CASE row'[s] = row[s]
      BY <1>1, <2>1, <2>3, <3>1 DEF FindingsAccount
    <3>2. CASE row'[s] # row[s]
      BY <2>3, <3>2, ApiStepOn
    <3> QED BY <3>1, <3>2
  <2>4. ASSUME NEW s \in Shifts, NEW t \in Shifts,
               Clashing(s, t) \/ Withdrawn(t) \/ Owed(s, {"claim", "cancel"}, {})
        PROVE  Clashing(s, t)' \/ Withdrawn(t)' \/ Owed(s, {"claim", "cancel"}, {})'
    <3>1. CASE row'[s] # row[s]
      BY <3>1, ApiStepOn
    <3>2. CASE row'[s] = row[s] /\ row'[t] = row[t]
      <4>1. Clashing(s, t) => Clashing(s, t)'
        BY <3>2 DEF Clashing
      <4> QED BY <1>1, <1>2, <2>4, <4>1
    <3>3. CASE row'[t] # row[t]
      <4>1. Clashing(s, t) => Withdrawn(t)'
        BY <3>3, ApiStepOn DEF Clashing, Taken
      <4> QED BY <1>1, <1>2, <2>4, <4>1
    <3> QED BY <3>1, <3>2, <3>3
  <2>5. \A k \in conflict : k.shift \in Shifts /\ k.other \in Shifts
    BY DEF RosterConsistent, Scan!TypeOK, Scan!Finding
  <2>6. ASSUME NEW k \in conflict, NEW s \in Shifts, NEW t \in Shifts, k.shift = s, k.other = t
        PROVE  Clashing(s, t)' \/ Withdrawn(t)' \/ Owed(s, {"claim", "cancel"}, {})'
    BY <2>1, <2>4, <2>6 DEF FindingsAccount
  <2>7. conflict' = conflict
    BY <1>0
  <2>8. \A s \in Shifts : Flagged(s)' = Flagged(s)
    BY <1>0 DEF Flagged
  <2> HIDE DEF Flagged
  <2> QED BY <2>2, <2>3, <2>5, <2>6, <2>7, <2>8 DEF FindingsAccount
<1> QED BY <1>3, <1>4, <1>5, <1>6

\* A step of the worker leaves the API alone, and a debt stands until an event is
\* put into the ledger.
LEMMA ScanStepFacts ==
  ASSUME NEW c \in Consumers, ScanStep(c)
  PROVE  /\ UNCHANGED <<row, pc, arg, read, code, sent, committed, overtaken>>
         /\ early \subseteq early'
         /\ ledger' = ledger => \A s, ops, h : Owed(s, ops, h) => Owed(s, ops, h)'
         /\ \A t : Withdrawn(t)' <=> Withdrawn(t)
<1>1. UNCHANGED vars /\ early \subseteq early'
  BY DEF ScanStep
<1>2. UNCHANGED <<row, pc, arg, read, code, sent, committed, overtaken>>
  BY <1>1 DEF vars
<1>3. ledger' = ledger => \A s, ops, h : Owed(s, ops, h) => Owed(s, ops, h)'
  BY <1>1, <1>2 DEF Owed, Missed
<1>4. \A t : Withdrawn(t)' <=> Withdrawn(t)
  BY <1>2 DEF Withdrawn, CommittedClaims
<1> QED BY <1>1, <1>2, <1>3, <1>4

\* A step of the worker that commits nothing keeps what the findings account for.
LEMMA FindingsStand ==
  ASSUME RosterConsistent, NEW c \in Consumers, ScanStep(c), UNCHANGED <<conflict, ledger>>
  PROVE  FindingsAccount'
<1>1. \A s, ops, h : Owed(s, ops, h) => Owed(s, ops, h)'
  BY ScanStepFacts
<1>2. \A t : Withdrawn(t)' <=> Withdrawn(t)
  BY ScanStepFacts
<1>3. \A s, t : Clashing(s, t)' <=> Clashing(s, t)
  BY ScanStepFacts DEF Clashing
<1>4. \A s : Flagged(s)' = Flagged(s) /\ row'[s] = row[s]
  BY ScanStepFacts DEF Flagged
<1>5. FindingsAccount
  BY DEF RosterConsistent
<1>6. \A k \in conflict : Clashing(k.shift, k.other)' \/ Withdrawn(k.other)'
                          \/ Owed(k.shift, {"claim", "cancel"}, {})'
  <2>1. ASSUME NEW k \in conflict, NEW s, NEW t, s = k.shift, t = k.other
        PROVE  Clashing(s, t)' \/ Withdrawn(t)' \/ Owed(s, {"claim", "cancel"}, {})'
    BY <1>1, <1>2, <1>3, <1>5, <2>1 DEF FindingsAccount
  <2> QED BY <2>1
<1> HIDE DEF Flagged
<1> QED BY <1>1, <1>3, <1>4, <1>5, <1>6 DEF FindingsAccount

\* Taking an event from the queue, and dropping a duplicate.
LEMMA DeliveryKeepsAccounts ==
  ASSUME RosterConsistent, OneReplica, NEW c \in Consumers, ScanStep(c), NEW e \in Requests,
         Scan!Duplicate(c, e) \/ Scan!Begin(c, e)
  PROVE  LedgerAccount' /\ SessionAccount' /\ FindingsAccount'
<1>0. LedgerAccount /\ SessionAccount /\ Scan!TypeOK
  BY DEF RosterConsistent
<1>1. CASE Scan!Duplicate(c, e)
  <2>1. /\ settled' = settled \cup {e} /\ e \in ledger
        /\ UNCHANGED <<conflict, ledger, step, event, subject, removed, found, inserted, seen>>
    BY <1>1 DEF Scan!Duplicate, Scan!session
  <2>2. LedgerAccount'
    BY <1>0, <2>1, ScanStepFacts DEF LedgerAccount, PastRead
  <2>3. SessionAccount'
    <3>1. ASSUME NEW d \in Consumers, NEW f \in Requests, NEW s \in Shifts,
                 Handles(d, f, s), PastRead(d)
          PROVE  SubjectFits(d, f, s)'
      BY <1>0, <2>1, <3>1, ScanStepFacts DEF SessionAccount, SubjectFits
    <3>2. ASSUME NEW d \in Consumers, NEW f \in Requests, NEW s \in Shifts,
                 Handles(d, f, s), step[d] \in {"mark", "commit"}, NEW t \in Shifts
          PROVE  FoundFits(d, s, t)'
      BY <1>0, <2>1, <3>2, ScanStepFacts DEF SessionAccount, FoundFits, Scan!NeedsNoScan
    <3> QED BY <1>0, <2>1, <3>1, <3>2, ScanStepFacts
            DEF SessionAccount, Handles, PastRead, Flagged, Scan!NeedsNoScan
  <2> QED BY <2>1, <2>2, <2>3, FindingsStand
<1>2. CASE Scan!Begin(c, e)
  <2>1. /\ step[c] = "idle" /\ e \notin ledger
        /\ step' = [step EXCEPT ![c] = "read"] /\ event' = [event EXCEPT ![c] = e]
        /\ UNCHANGED <<conflict, ledger, settled, subject, removed, found, inserted, seen>>
    BY <1>2 DEF Scan!Begin, Scan!tables
  <2>2. step'[c] = "read" /\ event'[c] = e /\ found'[c] = {}
    BY <1>0, <2>1 DEF Scan!TypeOK
  <2>3. \A d \in Consumers : d = c
    BY DEF OneReplica
  <2>4. LedgerAccount'
    BY <1>0, <2>1, <2>2, <2>3, ScanStepFacts DEF LedgerAccount, PastRead
  <2>5. SessionAccount'
    BY <2>2, <2>3 DEF SessionAccount, PastRead
  <2> QED BY <2>1, <2>4, <2>5, FindingsStand
<1> QED BY <1>1, <1>2

\* The statements of a scan before its commit.
LEMMA ScanKeepsAccounts ==
  ASSUME RosterConsistent, OneReplica, NEW c \in Consumers, ScanStep(c),
         Scan!ReadShift(c) \/ Scan!Delete(c) \/ Scan!ReadOthers(c) \/ Scan!Mark(c)
  PROVE  LedgerAccount' /\ SessionAccount' /\ FindingsAccount'
<1>0. LedgerAccount /\ SessionAccount /\ Scan!TypeOK /\ RosterRows /\ TypeOK /\ Consistent
  BY DEF RosterConsistent
<1>1. step[c] # "idle" /\ UNCHANGED <<conflict, ledger, settled, event>>
  BY <1>0 DEF Scan!ReadShift, Scan!Delete, Scan!ReadOthers, Scan!Mark, Scan!tables
<1>2. PICK e \in Requests : event[c] = e /\ e \notin ledger
  BY <1>0, <1>1 DEF LedgerAccount
<1>3. PICK s \in Shifts : Handles(c, e, s)
  BY <1>0, <1>2, ArgFacts DEF Handles
<1>4. Scan!ShiftOf(c) = s
  BY <1>2, <1>3 DEF Scan!ShiftOf, About, Handles
<1>5. \A d \in Consumers : d = c
  BY DEF OneReplica
<1>6. /\ \A u, ops, h : Owed(u, ops, h) => Owed(u, ops, h)'
      /\ \A u : Withdrawn(u)' <=> Withdrawn(u)
      /\ \A u : Flagged(u)' = Flagged(u)
      /\ UNCHANGED <<row, arg, committed>> /\ early \subseteq early'
  BY <1>1, ScanStepFacts DEF Flagged
<1>7. \A f \in Requests, u \in Shifts : Handles(c, f, u)' => f = e /\ u = s
  BY <1>1, <1>2, <1>3, <1>6 DEF Handles
<1>8. CASE Scan!ReadShift(c)
  <2>1. /\ step[c] = "read"
        /\ subject'[c] = row[s] /\ UNCHANGED <<removed, found>>
        /\ step' = [step EXCEPT ![c] = IF row[s] = Scan!Absent THEN "mark" ELSE "delete"]
    BY <1>0, <1>4, <1>8 DEF Scan!ReadShift, Scan!TypeOK
  <2>2. row[s] # Scan!Absent
    <3>1. row[s].status # "absent"
      BY <1>0 DEF RosterRows
    <3> QED BY <3>1 DEF Scan!Absent
  <2>3. step'[c] = "delete"
    BY <1>0, <2>1, <2>2 DEF Scan!TypeOK
  <2>4. e \in committed \cup early'
    BY <1>2, <2>1, <2>3 DEF ScanStep
  <2>5. LedgerAccount'
    BY <1>0, <1>1, <1>2, <1>5, <1>6, <2>3, <2>4 DEF LedgerAccount
  <2>6. SubjectFits(c, e, s)' /\ found'[c] = {}
    BY <1>0, <1>3, <1>6, <2>1 DEF SubjectFits, SessionAccount
  <2>7. SessionAccount'
    BY <1>5, <1>7, <2>3, <2>6 DEF SessionAccount
  <2> QED BY <1>1, <2>5, <2>7, FindingsStand
<1>9. CASE Scan!Delete(c)
  <2>1. /\ step[c] = "delete" /\ UNCHANGED <<subject, found>>
        /\ removed'[c] = Flagged(s)
        /\ step'[c] = IF Scan!NeedsNoScan(subject[c]) THEN "mark" ELSE "others"
    BY <1>0, <1>4, <1>9 DEF Scan!Delete, Scan!TypeOK, Flagged
  <2>2. LedgerAccount'
    BY <1>0, <1>1, <1>2, <1>5, <1>6, <2>1 DEF LedgerAccount, PastRead
  <2>3. SubjectFits(c, e, s)' /\ found'[c] = {}
    BY <1>0, <1>3, <1>6, <2>1 DEF SubjectFits, SessionAccount, PastRead
  <2>4. step'[c] = "mark" => \A t \in Shifts : FoundFits(c, s, t)'
    BY <2>1, <2>3 DEF FoundFits, Scan!NeedsNoScan
  <2>5. step'[c] = "others" => ~Scan!NeedsNoScan(subject'[c])
    BY <2>1
  <2>6. SessionAccount'
    BY <1>5, <1>6, <1>7, <2>1, <2>3, <2>4, <2>5 DEF SessionAccount, Scan!NeedsNoScan
  <2> QED BY <1>1, <2>2, <2>6, FindingsStand
<1>10. CASE Scan!ReadOthers(c)
  <2>1. /\ step[c] = "others" /\ step'[c] = "mark" /\ UNCHANGED <<subject, removed>>
        /\ found'[c] = Scan!Evaluate(s, Scan!Others(s, subject[c].worker))
    BY <1>0, <1>4, <1>10 DEF Scan!ReadOthers, Scan!TypeOK
  <2>2. LedgerAccount'
    BY <1>0, <1>1, <1>2, <1>5, <1>6, <2>1 DEF LedgerAccount, PastRead
  <2>3. /\ SubjectFits(c, e, s)' /\ removed'[c] = Flagged(s)
        /\ ~Scan!NeedsNoScan(subject'[c])
    BY <1>0, <1>3, <1>6, <2>1 DEF SubjectFits, SessionAccount, PastRead
  <2>4. \A t \in Shifts : t \in found'[c] <=>
          /\ <<s, t>> \in Clash /\ row[t].worker = subject[c].worker
          /\ row[t].status = "claimed"
    BY <2>1, RosterAssumption DEF Scan!Evaluate, Scan!Others
  <2>5. \A t \in Shifts : FoundFits(c, s, t)'
    BY <1>6, <2>1, <2>4 DEF FoundFits
  <2>6. SessionAccount'
    BY <1>5, <1>6, <1>7, <2>1, <2>3, <2>5 DEF SessionAccount, Scan!NeedsNoScan
  <2> QED BY <1>1, <2>2, <2>6, FindingsStand
<1>11. CASE Scan!Mark(c)
  <2>1. /\ step[c] = "mark" /\ step'[c] = "commit" /\ UNCHANGED <<subject, removed, found>>
    BY <1>0, <1>11 DEF Scan!Mark, Scan!TypeOK
  <2>2. LedgerAccount'
    BY <1>0, <1>1, <1>2, <1>5, <1>6, <2>1 DEF LedgerAccount, PastRead
  <2>3. SubjectFits(c, e, s)' /\ removed'[c] = Flagged(s)
    BY <1>0, <1>3, <1>6, <2>1 DEF SubjectFits, SessionAccount, PastRead
  <2>4. \A t \in Shifts : FoundFits(c, s, t)'
    BY <1>0, <1>3, <1>6, <2>1 DEF FoundFits, SessionAccount, Scan!NeedsNoScan
  <2>5. found'[c] # {} => ~Scan!NeedsNoScan(subject'[c])
    BY <1>0, <1>3, <2>1 DEF SessionAccount
  <2>6. SessionAccount'
    BY <1>5, <1>6, <1>7, <2>1, <2>3, <2>4, <2>5 DEF SessionAccount, Scan!NeedsNoScan
  <2> QED BY <1>1, <2>2, <2>6, FindingsStand
<1> QED BY <1>8, <1>9, <1>10, <1>11

\* The commit of a scan replaces the findings of its shift, and what its event
\* owed is paid: the findings say it, or another event still owes it.
LEMMA ApplyKeepsFindings ==
  ASSUME RosterConsistent, NEW c \in Consumers, ScanStep(c), step[c] = "commit",
         NEW e \in Requests, NEW s \in Shifts, Handles(c, e, s),
         conflict' = Scan!Replaced(c), ledger' = ledger \cup {e}
  PROVE  FindingsAccount'
<1>0. /\ FindingsAccount /\ SessionAccount /\ Scan!TypeOK /\ Consistent
      /\ committed \subseteq Requests
  BY DEF RosterConsistent, TypeOK
<1>1. /\ UNCHANGED <<row, arg, sent, committed>> /\ early \subseteq early'
      /\ \A t : Withdrawn(t)' <=> Withdrawn(t)
  BY ScanStepFacts
<1>2. \A u, t : Clashing(u, t)' <=> Clashing(u, t)
  BY <1>1 DEF Clashing
<1>3. \A u, ops : Owed(u, ops, {e}) => Owed(u, ops, {})'
  BY <1>1 DEF Owed, Missed
<1>4. \A u, ops : u # s /\ Owed(u, ops, {}) => Owed(u, ops, {})'
  BY <1>1 DEF Owed, Missed, Handles
<1>5. /\ removed[c] = Flagged(s) /\ SubjectFits(c, e, s)
      /\ \A t \in Shifts : FoundFits(c, s, t)
      /\ found[c] # {} => ~Scan!NeedsNoScan(subject[c])
      /\ found[c] \subseteq Shifts
  BY <1>0 DEF SessionAccount, PastRead, Scan!TypeOK
<1>6. Scan!ShiftOf(c) = s
  BY DEF Scan!ShiftOf, About, Handles
<1>7. /\ \A k \in conflict : k.shift # s => k \in conflict'
      /\ \A t \in found[c] : \E k \in conflict' : k.shift = s /\ k.other = t
      /\ \A k \in conflict' : (k \in conflict /\ k.shift # s)
                               \/ (k.shift = s /\ k.other \in found[c])
  <2> DEFINE new == {[shift |-> s, other |-> t, by |-> <<c, e>>] : t \in found[c]}
  <2>1. conflict' = (conflict \ Flagged(s)) \cup new
    BY <1>5, <1>6 DEF Scan!Replaced, Handles
  <2>2. /\ \A t \in found[c] : \E k \in new : k.shift = s /\ k.other = t
        /\ \A k \in new : k.shift = s /\ k.other \in found[c]
    <3>1. ASSUME NEW t \in found[c] PROVE \E k \in new : k.shift = s /\ k.other = t
      <4> DEFINE k == [shift |-> s, other |-> t, by |-> <<c, e>>]
      <4>1. k \in new /\ k.shift = s /\ k.other = t
        OBVIOUS
      <4> QED BY <4>1
    <3>2. ASSUME NEW k \in new PROVE k.shift = s /\ k.other \in found[c]
      <4>1. PICK t \in found[c] : k = [shift |-> s, other |-> t, by |-> <<c, e>>]
        BY <3>2
      <4> QED BY <4>1
    <3> QED BY <3>1, <3>2
  <2> HIDE DEF new
  <2> QED BY <2>1, <2>2 DEF Flagged
<1>8. \A t \in Shifts : row[t].status = "open" => row[t].worker = NoWorker
  BY <1>0 DEF Consistent, RowsWellFormed, Opened
<1>9. ASSUME NEW u \in Shifts, NEW t \in Shifts, Clashing(u, t)
      PROVE  \/ \E k \in conflict' : <<k.shift, k.other>> \in {<<u, t>>, <<t, u>>}
             \/ Owed(u, {"claim"}, {})' \/ Owed(t, {"claim"}, {})'
  <2>1. u # t /\ Clashing(t, u)
    BY <1>9, RosterAssumption DEF Clashing
  <2>2. ASSUME NEW v \in Shifts, v # s, Clashing(s, v)
        PROVE  \/ \E k \in conflict' : k.shift = s /\ k.other = v
               \/ Owed(s, {"claim"}, {})' \/ Owed(v, {"claim"}, {})'
    <3>1. CASE subject[c] = row[s]
      <4>1. ~Scan!NeedsNoScan(subject[c])
        BY <2>2, <3>1 DEF Clashing, Scan!NeedsNoScan, RosterConsistent, RosterRows
      <4>2. v \in found[c] \/ Owed(v, {"claim"}, {})
        BY <1>5, <2>2, <3>1, <4>1 DEF FoundFits, Clashing
      <4> QED BY <1>4, <1>7, <2>2, <4>2
    <3>2. CASE subject[c] # row[s]
      BY <1>3, <1>5, <2>2, <3>2 DEF SubjectFits, Clashing
    <3> QED BY <3>1, <3>2
  <2>3. CASE u = s
    BY <1>9, <2>1, <2>2, <2>3
  <2>4. CASE t = s
    BY <2>1, <2>2, <2>4
  <2>5. CASE u # s /\ t # s
    BY <1>0, <1>4, <1>7, <1>9, <2>5 DEF FindingsAccount
  <2> QED BY <2>3, <2>4, <2>5
<1>10. ASSUME NEW u \in Shifts, row[u].status = "cancelled"
       PROVE  Flagged(u)' = {} \/ Owed(u, {"cancel"}, {})'
  <2>1. CASE u = s /\ subject[c] = row[s]
    <3>1. found[c] = {}
      BY <1>5, <1>10, <2>1 DEF Scan!NeedsNoScan
    <3> QED BY <1>7, <2>1, <3>1 DEF Flagged
  <2>2. CASE u = s /\ subject[c] # row[s]
    BY <1>3, <1>5, <1>10, <2>2 DEF SubjectFits
  <2>3. CASE u # s
    <3>1. Flagged(u) = {} => Flagged(u)' = {}
      BY <1>7, <2>3 DEF Flagged
    <3> QED BY <1>0, <1>4, <1>10, <2>3, <3>1 DEF FindingsAccount
  <2> QED BY <2>1, <2>2, <2>3
<1>11. ASSUME NEW k \in conflict', NEW u \in Shifts, NEW t \in Shifts, k.shift = u, k.other = t
       PROVE  Clashing(u, t) \/ Withdrawn(t) \/ Owed(u, {"claim", "cancel"}, {})'
  <2>1. CASE k \in conflict /\ u # s
    BY <1>0, <1>4, <1>11, <2>1 DEF FindingsAccount
  <2>2. CASE u = s /\ t \in found[c]
    <3>1. /\ <<s, t>> \in Clash /\ ~Scan!NeedsNoScan(subject[c])
          /\ (row[t].status = "claimed" /\ row[t].worker = subject[c].worker) \/ Withdrawn(t)
      BY <1>5, <2>2 DEF FoundFits
    <3>2. CASE subject[c] = row[s]
      <4>0. row[s].status \in Status /\ row[s].status # "absent"
        BY DEF RosterConsistent, RosterRows, TypeOK, Row
      <4>1. row[s].status = "claimed"
        BY <1>8, <3>1, <3>2, <4>0 DEF Scan!NeedsNoScan, Status
      <4> QED BY <2>2, <3>1, <3>2, <4>1 DEF Clashing
    <3>3. CASE subject[c] # row[s]
      <4>1. \A ops \in {{"claim"}, {"cancel"}} :
              Owed(s, ops, {e}) => Owed(s, {"claim", "cancel"}, {e})
        BY DEF Owed
      <4> QED BY <1>3, <1>5, <2>2, <3>3, <4>1 DEF SubjectFits
    <3> QED BY <3>2, <3>3
  <2> QED BY <1>7, <1>11, <2>1, <2>2
<1>12. \A k \in conflict' : k.shift \in Shifts /\ k.other \in Shifts
  BY <1>0, <1>5, <1>7 DEF Scan!TypeOK, Scan!Finding
<1>13. \A k \in conflict' : (Clashing(k.shift, k.other) \/ Withdrawn(k.other)
                             \/ Owed(k.shift, {"claim", "cancel"}, {}))'
  BY <1>1, <1>2, <1>11, <1>12
<1> QED BY <1>1, <1>2, <1>9, <1>10, <1>13 DEF FindingsAccount

\* The end of a session, which committed its scan or gave it up.
LEMMA EndKeepsAccounts ==
  ASSUME RosterConsistent, OneReplica, NEW c \in Consumers, ScanStep(c),
         Scan!Commit(c) \/ Scan!Fail(c)
  PROVE  LedgerAccount' /\ SessionAccount' /\ FindingsAccount'
<1>0. LedgerAccount /\ Scan!TypeOK /\ TypeOK
  BY DEF RosterConsistent
<1>1. step[c] # "idle" /\ Scan!EndSession(c)
  BY DEF Scan!Commit, Scan!Fail
<1>2. step'[c] = "idle" /\ event'[c] = NoEvent
  BY <1>0, <1>1 DEF Scan!EndSession, Scan!TypeOK
<1>3. \A d \in Consumers : d = c
  BY DEF OneReplica
<1>4. PICK e \in Requests : event[c] = e
  BY <1>0, <1>1 DEF LedgerAccount
<1>5. PICK s \in Shifts : Handles(c, e, s)
  BY <1>0, <1>4, ArgFacts DEF Handles
<1>6. SessionAccount'
  BY <1>2, <1>3, RosterAssumption DEF SessionAccount, Handles
<1>7. \/ UNCHANGED <<conflict, ledger, settled>>
      \/ /\ step[c] = "commit" /\ conflict' = Scan!Replaced(c)
         /\ ledger' = ledger \cup {e} /\ settled' \subseteq settled \cup {e}
  BY <1>4 DEF Scan!Commit, Scan!Fail, Scan!tables
<1>8. UNCHANGED committed /\ early \subseteq early'
  BY ScanStepFacts
<1>9. LedgerAccount'
  BY <1>0, <1>2, <1>3, <1>4, <1>7, <1>8 DEF LedgerAccount, PastRead
<1>10. FindingsAccount'
  BY <1>5, <1>7, FindingsStand, ApplyKeepsFindings
<1> QED BY <1>6, <1>9, <1>10

LEMMA RosterInitConsistent == RosterInit => RosterConsistent
<1> SUFFICES ASSUME RosterInit PROVE RosterConsistent
  OBVIOUS
<1>1. Init /\ Scan!ScanInit /\ row = [s \in Shifts |-> Opened]
  BY DEF RosterInit
<1>2. TypeOK
  BY <1>1 DEF Init, TypeOK, PCs, Row, Status, Absent, Opened
<1>3. Consistent
  BY <1>1, InitConsistent
<1>4. Scan!TypeOK
  BY <1>1 DEF Scan!ScanInit, Scan!TypeOK, Scan!Absent, Scan!Row, Scan!Status
<1>5. RosterRows
  <2>1. \A r \in Requests : arg[r].op # "create"
    BY <1>1, <1>2, ArgFacts DEF Init, Absent, Opened
  <2> QED BY <1>1, <1>2, <2>1, ArgFacts DEF RosterRows, Opened
<1>6. LedgerAccount /\ SessionAccount
  BY <1>1, RosterAssumption
     DEF Scan!ScanInit, LedgerAccount, SessionAccount, Handles, PastRead
<1>7. FindingsAccount
  BY <1>1 DEF Scan!ScanInit, FindingsAccount, Clashing, Opened
<1> QED BY <1>2, <1>3, <1>4, <1>5, <1>6, <1>7 DEF RosterConsistent

LEMMA RosterStep ==
  ASSUME OneReplica, RosterConsistent, [RosterNext]_rosterVars
  PROVE  RosterConsistent'
<1>1. CASE ApiStep
  <2>1. TypeOK' /\ Consistent'
    BY <1>1, ApiStepFacts, TypeStep, ConsistentStep DEF RosterConsistent
  <2>2. Scan!TypeOK'
    BY <1>1, ApiStepFacts DEF RosterConsistent, Scan!TypeOK
  <2> QED BY <1>1, <2>1, <2>2, ApiKeepsAccounts DEF RosterConsistent
<1>2. ASSUME NEW c \in Consumers, ScanStep(c) PROVE RosterConsistent'
  <2>1. TypeOK' /\ Consistent'
    <3>1. UNCHANGED vars
      BY <1>2 DEF ScanStep
    <3> QED BY <3>1, TypeStep, ConsistentStep DEF RosterConsistent
  <2>2. Scan!TypeOK'
    BY <1>2, ScanTypes DEF RosterConsistent
  <2>3. RosterRows'
    BY <1>2, ScanStepFacts DEF RosterConsistent, RosterRows
  <2>4. LedgerAccount' /\ SessionAccount' /\ FindingsAccount'
    BY <1>2, DeliveryKeepsAccounts, ScanKeepsAccounts, EndKeepsAccounts
       DEF ScanStep, Scan!Handle
  <2> QED BY <2>1, <2>2, <2>3, <2>4 DEF RosterConsistent
<1>3. CASE UNCHANGED <<vars, scan, early>>
  <2>1. TypeOK' /\ Consistent'
    BY <1>3, TypeStep, ConsistentStep DEF RosterConsistent
  <2>2. /\ Scan!TypeOK' /\ RosterRows' /\ LedgerAccount'
    BY <1>3 DEF RosterConsistent, vars, scan, Scan!TypeOK, RosterRows, LedgerAccount, PastRead
  <2>3. SessionAccount'
    BY <1>3 DEF RosterConsistent, vars, scan, SessionAccount, SubjectFits, FoundFits, Handles,
           PastRead, Flagged, Owed, Missed, Withdrawn, CommittedClaims, Scan!NeedsNoScan
  <2>4. FindingsAccount'
    BY <1>3 DEF RosterConsistent, vars, scan, FindingsAccount, Clashing, Flagged, Owed, Missed,
           Withdrawn, CommittedClaims
  <2> QED BY <2>1, <2>2, <2>3, <2>4 DEF RosterConsistent
<1> QED BY <1>1, <1>2, <1>3 DEF RosterNext, Render, RosterRest, rosterVars

\* The books of the two services balance in every state.
LEMMA RosterInvariance ==
  ASSUME OneReplica
  PROVE  RosterSpec => []RosterConsistent
<1>1. RosterConsistent /\ [RosterNext]_rosterVars => RosterConsistent'
  BY RosterStep
<1> QED BY <1>1, RosterInitConsistent, PTL DEF RosterSpec

\* At rest an owed write was missed: no event is left to account for it.
LEMMA OwedAtRest ==
  ASSUME RosterConsistent, Quiescent, NEW s, NEW ops, Owed(s, ops, {})
  PROVE  MissedOn(s, ops)
BY DEF RosterConsistent, Quiescent, LedgerAccount, Owed, MissedOn, Missed, TypeOK

\* One replica, whatever the requests and however they race: a clash between
\* claimed shifts stays unreported only if the event of a claim of one of them
\* was lost, or was handled before that claim was committed.
THEOREM OnlyMissedClashes ==
  ASSUME OneReplica
  PROVE  RosterSpec => []UnflaggedClashesWereMissed
<1>1. RosterConsistent => UnflaggedClashesWereMissed
  BY OwedAtRest DEF RosterConsistent, FindingsAccount, UnflaggedClashesWereMissed
<1> QED BY <1>1, RosterInvariance, PTL

\* A cancelled shift keeps findings only if the event of its cancellation was
\* lost, or was handled before the cancellation was committed.
THEOREM CancelledIsClean ==
  ASSUME OneReplica
  PROVE  RosterSpec => []CancelledShiftsAreClean
<1>1. RosterConsistent => CancelledShiftsAreClean
  BY OwedAtRest DEF RosterConsistent, FindingsAccount, CancelledShiftsAreClean
<1> QED BY <1>1, RosterInvariance, PTL

\* A finding outlives its clash only where the other shift was withdrawn after
\* the scan, or the event of its own shift was missed.
THEOREM StaleFindingsExplained ==
  ASSUME OneReplica
  PROVE  RosterSpec => []StaleFindingsNameAWithdrawnShift
<1>1. RosterConsistent => StaleFindingsNameAWithdrawnShift
  BY OwedAtRest DEF RosterConsistent, FindingsAccount, StaleFindingsNameAWithdrawnShift
<1> QED BY <1>1, RosterInvariance, PTL

\* Not only at rest but in every state: a clash that no finding reports, a finding
\* of a cancelled shift and a finding without its clash are each owed by a write
\* whose event is lost, was handled early or is still to be handled, or name a
\* shift withdrawn since.
THEOREM FindingsAlwaysAccounted ==
  ASSUME OneReplica
  PROVE  RosterSpec => []FindingsAccount
<1>1. RosterConsistent => FindingsAccount
  BY DEF RosterConsistent
<1> QED BY <1>1, RosterInvariance, PTL

\* However many replicas scan, they read the shifts and never write them, and the
\* rendering of responses only refuses commits: the requests of Roster behave as
\* ShiftApi says, so that every theorem about ShiftApi is one about Roster.
THEOREM RosterImplementsShiftApi == RosterSpec => Spec
<1>1. RosterInit => Init
  BY DEF RosterInit
<1>2. [RosterNext]_rosterVars => [Next]_vars
  <2>1. ApiStep => Next
    BY DEF ApiStep, Next
  <2>2. (\E r \in Requests : Render(r)) \/ (\E c \in Consumers : ScanStep(c)) => UNCHANGED vars
    BY DEF Render, ScanStep
  <2>3. RosterRest \/ UNCHANGED rosterVars => UNCHANGED vars
    BY DEF RosterRest, rosterVars
  <2> QED BY <2>1, <2>2, <2>3 DEF RosterNext
<1> QED BY <1>1, <1>2, PTL DEF RosterSpec, Spec
=============================================================================
