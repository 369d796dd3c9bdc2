------------------------------ MODULE ShiftApi ------------------------------
(***************************************************************************)
(* The write path of shift-api: create_shift, claim_shift and cancel_shift *)
(* as the pods run them, concurrently, over one database.                  *)
(*                                                                         *)
(* A request is one session.  Its steps are the statements another request *)
(* can come between: the SELECTs and the checks made in Python, the flush  *)
(* (an UPDATE or INSERT by primary key, which takes the row's exclusive    *)
(* lock until the transaction ends), the publish, the commit made by       *)
(* get_db after the handler returned, and the response, which is sent      *)
(* after the commit.  Reads see committed rows and never wait (read        *)
(* committed snapshot); there is no version in the UPDATE's WHERE clause.  *)
(***************************************************************************)
EXTENDS ShiftRows, FiniteSets

CONSTANTS
  Requests,     \* the requests of one behaviour; each is made once
  Pods,         \* replicas of the deployment
  Shifts,       \* ids a shift has or will get
  MaxVersion,   \* bound on the expected_version a client sends
  PoolSize,     \* connections one pod may open: pool_size + max_overflow
  MaxInFlight   \* requests served at one time, over all pods

ASSUME BoundsAssumption ==
  /\ MaxVersion \in Nat \ {0}
  /\ PoolSize \in Nat \ {0}
  /\ MaxInFlight \in Nat \ {0}

VARIABLES
  row,        \* the committed rows of the shifts table
  pc,         \* where each request is
  arg,        \* what each request asks for, and of which pod; fixed at the start
  read,       \* the copy of the row in each request's session
  code,       \* the answer each client got, 0 while there is none
  sent,       \* requests whose event the queue accepted
  committed,  \* history: requests whose write was committed
  overtaken   \* history: writers whose row was written by another after their read

vars == <<row, pc, arg, read, code, sent, committed, overtaken>>

\* What a request carries.  A create names the fresh id its shift will get and
\* no worker, a claim its worker and the version the client read; `known` says
\* whether the site of the create or the worker of the claim has a row.
Args ==
  [op: {"create"}, pod: Pods, shift: Shifts, known: BOOLEAN]
    \cup [op: {"claim"}, pod: Pods, shift: Shifts, worker: Workers, known: BOOLEAN,
          expected: 1 .. MaxVersion]
    \cup [op: {"cancel"}, pod: Pods, shift: Shifts]

PCs == {"idle", "begin", "write", "publish", "commit", "respond", "done"}

\* Type invariant: the state of every request and of every row of the table.
TypeOK ==
  /\ row \in [Shifts -> Row]
  /\ pc \in [Requests -> PCs]
  /\ arg \in [Requests -> Args]
  /\ read \in [Requests -> Row]
  /\ code \in [Requests -> {0, 200, 404, 409, 500}]
  /\ sent \subseteq Requests
  /\ committed \subseteq Requests
  /\ overtaken \subseteq Requests

Init ==
  /\ row \in [Shifts -> {Absent, Opened}]
  /\ arg \in [Requests -> Args]
  /\ \A r \in Requests : arg[r].op = "create" =>
       /\ row[arg[r].shift] = Absent
       /\ \A q \in Requests \ {r} : arg[q].op = "create" => arg[q].shift # arg[r].shift
  /\ pc = [r \in Requests |-> "idle"]
  /\ read = [r \in Requests |-> Absent]
  /\ code = [r \in Requests |-> 0]
  /\ sent = {} /\ committed = {} /\ overtaken = {}
------------------------------------------------------------------------------
\* A session that has read its row and has not ended.
Writing(r) == pc[r] \in {"write", "publish", "commit"}

\* Mutation of HoldsLock: a session that is never closed keeps its lock.
HoldsLockForEver(r) == pc[r] \in {"publish", "commit"} \/ r \in committed

\* The transaction holds the exclusive lock of the row it wrote.
HoldsLock(r) == pc[r] \in {"publish", "commit"}

InFlight == {r \in Requests : pc[r] \notin {"idle", "done"}}

Connections(p) == {r \in Requests : arg[r].pod = p /\ Writing(r)}

\* The version check of claim_shift, made on the session's copy of the row.
VersionMatches(r, x) == x.version = arg[r].expected

\* Mutation of IsOpen: claim_shift relies on the version check alone.
OpenUnchecked(x) == TRUE

IsOpen(x) == x.status = "open"

\* The early returns of the three handlers, and 0 when the handler goes on to
\* write.
Verdict(r, x) ==
  CASE arg[r].op = "create" -> IF arg[r].known THEN 0 ELSE 404
    [] arg[r].op = "claim"  -> IF x = Absent \/ ~arg[r].known THEN 404
                               ELSE IF VersionMatches(r, x) /\ IsOpen(x) THEN 0 ELSE 409
    [] arg[r].op = "cancel" -> IF x = Absent THEN 404
                               ELSE IF x.status = "cancelled" THEN 200 ELSE 0

\* Mutation of Written: cancel_shift gives the shift back, unassigned.
WrittenUnassigned(r) ==
  IF arg[r].op = "claim"
  THEN [status |-> "claimed", worker |-> arg[r].worker, version |-> read[r].version + 1]
  ELSE [status |-> IF arg[r].op = "create" THEN "open" ELSE "cancelled",
        worker |-> NoWorker, version |-> read[r].version + 1]

\* Mutation of Written: cancel_shift forgets the version.
WrittenSameVersion(r) ==
  CASE arg[r].op = "create" -> Opened
    [] arg[r].op = "claim"  -> [status |-> "claimed", worker |-> arg[r].worker,
                                version |-> read[r].version + 1]
    [] OTHER -> [row[arg[r].shift] EXCEPT !.status = "cancelled"]

\* The row a flush leaves: the columns the handler assigned, computed from the
\* copy in the session; a cancellation does not assign the worker.
Written(r) ==
  CASE arg[r].op = "create" -> Opened
    [] arg[r].op = "claim"  -> [status |-> "claimed", worker |-> arg[r].worker,
                                version |-> read[r].version + 1]
    [] OTHER -> [status |-> "cancelled", worker |-> row[arg[r].shift].worker,
                 version |-> read[r].version + 1]
------------------------------------------------------------------------------
\* A request reaches its pod.
Arrive(r) ==
  /\ pc[r] = "idle"
  /\ Cardinality(InFlight) < MaxInFlight
  /\ pc' = [pc EXCEPT ![r] = "begin"]
  /\ UNCHANGED <<row, arg, read, code, sent, committed, overtaken>>

\* The session takes a connection, reads the row and runs the checks.
Read(r) ==
  LET x == row[arg[r].shift]
      answer == Verdict(r, x) IN
  /\ pc[r] = "begin"
  /\ Cardinality(Connections(arg[r].pod)) < PoolSize
  /\ read' = [read EXCEPT ![r] = x]
  /\ pc' = [pc EXCEPT ![r] = IF answer = 0 THEN "write" ELSE "done"]
  /\ code' = [code EXCEPT ![r] = answer]
  /\ UNCHANGED <<row, arg, sent, committed, overtaken>>

\* No connection came free in time: QueuePool raises, the client sees a 500.
PoolTimeout(r) ==
  /\ pc[r] = "begin"
  /\ Cardinality(Connections(arg[r].pod)) >= PoolSize
  /\ pc' = [pc EXCEPT ![r] = "done"]
  /\ code' = [code EXCEPT ![r] = 500]
  /\ UNCHANGED <<row, arg, read, sent, committed, overtaken>>

\* db.flush(): waits for the row's lock, whoever holds it.
Flush(r) ==
  /\ pc[r] = "write"
  /\ \A q \in Requests : HoldsLock(q) => arg[q].shift # arg[r].shift
  /\ pc' = [pc EXCEPT ![r] = "publish"]
  /\ UNCHANGED <<row, arg, read, code, sent, committed, overtaken>>

\* Mutation of Publish: the response leaves before get_db commits.
PublishThenRespond(r) ==
  /\ pc[r] = "publish"
  /\ sent' \in {sent, sent \cup {r}}
  /\ pc' = [pc EXCEPT ![r] = "respond"]
  /\ UNCHANGED <<row, arg, read, code, committed, overtaken>>

\* publisher.publish(): the event is sent, or the failure is counted and the
\* handler goes on.
Publish(r) ==
  /\ pc[r] = "publish"
  /\ sent' \in {sent, sent \cup {r}}
  /\ pc' = [pc EXCEPT ![r] = "commit"]
  /\ UNCHANGED <<row, arg, read, code, committed, overtaken>>

\* Sessions that now hold an old copy of the row r has written.
Overtakes(r) == {q \in Requests \ {r} : Writing(q) /\ arg[q].shift = arg[r].shift}

\* session.commit() in get_db.
Commit(r) ==
  /\ pc[r] = "commit"
  /\ row' = [row EXCEPT ![arg[r].shift] = Written(r)]
  /\ pc' = [pc EXCEPT ![r] = "respond"]
  /\ committed' = committed \cup {r}
  /\ overtaken' = overtaken \cup Overtakes(r)
  /\ UNCHANGED <<arg, read, code, sent>>

\* The client is answered, with a 500 when the commit went through and its
\* acknowledgement was lost.
Respond(r) ==
  /\ pc[r] = "respond"
  /\ code' \in {[code EXCEPT ![r] = 200], [code EXCEPT ![r] = 500]}
  /\ pc' = [pc EXCEPT ![r] = "done"]
  /\ UNCHANGED <<row, arg, read, sent, committed, overtaken>>

\* A statement or the commit raises: get_db rolls back, the client sees a 500.
Fail(r) ==
  /\ pc[r] \in {"begin", "write", "commit"}
  /\ pc' = [pc EXCEPT ![r] = "done"]
  /\ code' = [code EXCEPT ![r] = 500]
  /\ UNCHANGED <<row, arg, read, sent, committed, overtaken>>

\* A pod dies: its transactions roll back and its clients get no answer.
Crash(p) ==
  LET lost == {r \in InFlight : arg[r].pod = p} IN
  /\ lost # {}
  /\ pc' = [r \in Requests |-> IF r \in lost THEN "done" ELSE pc[r]]
  /\ UNCHANGED <<row, arg, read, code, sent, committed, overtaken>>

\* Every request has been made and served.
Finished ==
  /\ \A r \in Requests : pc[r] = "done"
  /\ UNCHANGED vars

Serve(r) == Read(r) \/ PoolTimeout(r) \/ Flush(r) \/ Publish(r) \/ Commit(r) \/ Respond(r)

Next ==
  \/ \E r \in Requests : Arrive(r) \/ Serve(r) \/ Fail(r)
  \/ \E p \in Pods : Crash(p)
  \/ Finished

Spec == Init /\ [][Next]_vars

\* A thread that can run does; nothing forces a request, a failure or a crash.
FairSpec == Spec /\ \A r \in Requests : WF_vars(Serve(r))
------------------------------------------------------------------------------
Lifecycle == INSTANCE ShiftLifecycle

CommittedClaims(s) == {r \in committed : arg[r].op = "claim" /\ arg[r].shift = s}

\* schemas.py promises that of two workers racing for one open shift a single
\* one wins.  claim_shift does not keep the promise: see the run double_winner.
AtMostOneWinner == \A s \in Shifts : Cardinality(CommittedClaims(s)) <= 1

\* What claim_shift does guarantee: of the claims of a shift that no other
\* writer overtook between their read and their commit, at most one commits.
OneUndisturbedWinner ==
  \A s \in Shifts : \A r, q \in CommittedClaims(s) \ overtaken : r = q

\* A worker whose claim was committed stays the assignee, unless a claim that
\* had been overtaken was committed over it; cancel_shift keeps the assignee.
AcceptedClaimSurvives ==
  \A r \in committed : arg[r].op = "claim" =>
    \/ row[arg[r].shift].worker = arg[r].worker
    \/ \E q \in CommittedClaims(arg[r].shift) : q \in overtaken

\* The client's answer tells the truth about the write: a refusal (404, 409)
\* wrote and announced nothing, an accepted create or claim is in the table,
\* and only a request answered with a 500 or cut off may have announced a
\* write that never was.
AnswersAreHonest ==
  \A r \in Requests :
    /\ code[r] \in {404, 409} => r \notin committed \cup sent
    /\ code[r] = 200 /\ arg[r].op # "cancel" => r \in committed
    /\ r \in sent => r \in committed \/ pc[r] = "commit" \/ (pc[r] = "done" /\ code[r] \in {0, 500})

\* An open shift is unassigned and at its first version, so no commit, however
\* late, makes a shift claimable again: the status check alone refuses every
\* second claim that reads after the first one's commit.
OpenMeansUntouched ==
  \A s \in Shifts : row[s].status = "open" =>
    row[s] = Opened /\ CommittedClaims(s) = {}

\* No step takes a shift out of the cancelled state but the commit of a claim
\* that a cancellation overtook.
CancelledIsFinal ==
  [][\A s \in Shifts : row[s].status = "cancelled" /\ row'[s].status # "cancelled" =>
       \E r \in overtaken : arg[r].op = "claim" /\ r \in committed' \ committed]_vars

\* Every change of a row adds exactly one to its version, except the commit of
\* an overtaken writer, which may repeat a version or take it back.
VersionCountsWrites ==
  [][\A s \in Shifts : row'[s] # row[s] =>
       \/ row'[s].version = row[s].version + 1
       \/ \E r \in overtaken : r \in committed' \ committed]_vars

\* The inductive invariant behind the properties above, part by part.
\* A row is absent, fresh, or taken and then past its first version.
RowsWellFormed ==
  \A s \in Shifts :
    /\ row[s].status = "absent" => row[s] = Absent
    /\ row[s].status = "open" => row[s] = Opened
    /\ Taken(row[s]) => row[s].version >= 2

\* The id of a create is its own and has no row before the create commits.
CreatesAreFresh ==
  \A r \in Requests : arg[r].op = "create" =>
    /\ r \notin committed => row[arg[r].shift] = Absent
    /\ \A q \in Requests \ {r} : arg[q].op = "create" => arg[q].shift # arg[r].shift

\* A session goes on to write only from a copy its checks allow.
CopiesAllowWrite ==
  \A r \in Requests : Writing(r) =>
    /\ r \notin committed
    /\ arg[r].op = "create" => read[r] = Absent
    /\ arg[r].op = "claim"  => read[r] = Opened
    /\ arg[r].op = "cancel" => read[r].status \in {"open", "claimed"} /\ read[r].version >= 1

\* A copy is the committed row until the session is overtaken; what overtakes
\* it leaves the shift taken.
CopiesFreshOrOvertaken ==
  \A r \in Requests :
    /\ Writing(r) /\ r \notin overtaken => row[arg[r].shift] = read[r]
    /\ r \in overtaken => Taken(row[arg[r].shift])

\* A committed write ends the handler, and a committed claim takes the shift.
CommitsLeaveTheirMark ==
  \A r \in committed :
    /\ pc[r] \in {"respond", "done"}
    /\ arg[r].op = "claim" => Taken(row[arg[r].shift])

\* Rows, session copies and history agree in every state: the strengthening
\* that makes OneUndisturbedWinner inductive.
Consistent ==
  /\ RowsWellFormed
  /\ CreatesAreFresh
  /\ CopiesAllowWrite
  /\ CopiesFreshOrOvertaken
  /\ CommitsLeaveTheirMark
  /\ OneUndisturbedWinner

\* The commit of a writer that nobody overtook is one atomic operation of the
\* register; so are all of them when requests are served one at a time, as the
\* tests of the repository serve them.
AtomicUnlessOvertaken ==
  Lifecycle!Init /\ [][(committed' \ committed) \cap overtaken = {} => Lifecycle!Next]_row

\* Served concurrently they implement the weaker contract, where a claimed or
\* cancelled shift may be rewritten from an old copy and nothing else happens.
LossyLifecycle == Lifecycle!LossySpec

\* Row locks, the bounded pool, failures and crashes leave no request of a
\* living pod waiting for ever.
EveryRequestEnds == \A r \in Requests : pc[r] = "begin" ~> pc[r] = "done"
==============================================================================
