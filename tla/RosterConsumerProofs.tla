------------------------ MODULE RosterConsumerProofs ------------------------
(***************************************************************************)
(* What RosterConsumer promises of settlement and of the ledger, for any   *)
(* number of replicas, messages, deliveries, faults and any batch size.    *)
(*                                                                         *)
(* The argument: a message is completed by a delivery whose verdict is     *)
(* "complete", and a replica reaches that verdict for a handled event only *)
(* over a ledger row, which nothing deletes; the ledger row and the scan   *)
(* are written in one step.                                                *)
(*                                                                         *)
(* A replica that scans an event got past the ledger check before the      *)
(* first commit of it: it has not committed that event yet, and will not   *)
(* get past the check again.  Two replicas that scan an event at a time    *)
(* hold two deliveries of it, of which one has lost its lock.              *)
(*                                                                         *)
(* A delivery of an event is in good hands while a replica that has its    *)
(* lock will get to scan it.  Every other delivery of an event nobody has  *)
(* scanned was paid for by a break of its own: a fault, or an unreadable   *)
(* message in the same batch; a replica that got SIGTERM while it waits    *)
(* for messages has paid for the batch it may still receive.               *)
(***************************************************************************)
EXTENDS RosterConsumer, FiniteSetTheorems, TLAPS

\* A message that may be received has a delivery left.
DeliveriesLeft == \A m \in Messages : state[m] \in {"unsent", "active"} => count[m] < MaxDelivery

\* Only a handled event is scanned, and only what needs no work, or no more, is
\* about to be completed.
VerdictsAreTrue ==
  \A c \in Consumers : \A d \in cur[c] :
    /\ pc[c] \in {"scan", "commit"} => d[1] \in Handled
    /\ pc[c] = "settle" /\ verdict[c] = "complete" => d[1] \in Ignored \/ d[1] \in Handled \cap ledger

\* A replica dispatches one delivery at a time.
OneAtATime == \A c \in Consumers : \A d, e \in cur[c] : d = e

IInv ==
  /\ TypeOK /\ DeliveriesLeft /\ VerdictsAreTrue /\ OneAtATime
  /\ CompletedWasProcessed /\ LedgerTellsWhatWasApplied

\* The queue is empty, the ledger too, and every replica waits.
LEMMA InitEstablishes == Init => IInv
  BY ConsumerAssumption DEF Init, IInv, TypeOK, DeliveriesLeft, VerdictsAreTrue, OneAtATime,
     CompletedWasProcessed, LedgerTellsWhatWasApplied

\* A message that is settled or given back has a settled state, or a delivery left.
LEMMA SettledTypes ==
  ASSUME TypeOK, NEW m \in Messages, NEW how \in {"complete", "abandon", "dead_letter"}
  PROVE  /\ GivenBack(m) \in {"active", "dead"} /\ Settled(m, how) \in {"completed", "active", "dead"}
         /\ GivenBack(m) = "active" \/ Settled(m, how) = "active" => count[m] < MaxDelivery
         /\ Settled(m, how) = "completed" => how = "complete"
  BY ConsumerAssumption DEF TypeOK, GivenBack, Settled

\* A step that leaves the broker and the database alone and puts replica c where
\* its verdict is true keeps the invariant.
LEMMA MoveKeepsIInv ==
  ASSUME IInv, TypeOK', NEW c \in Consumers, UNCHANGED <<broker, database>>,
         \A b \in Consumers \ {c} : /\ pc'[b] = pc[b] /\ verdict'[b] = verdict[b]
                                    /\ cur'[b] = cur[b],
         \A d \in cur'[c] :
           /\ pc'[c] \in {"scan", "commit"} => d[1] \in Handled
           /\ pc'[c] = "settle" /\ verdict'[c] = "complete" =>
                d[1] \in Ignored \/ d[1] \in Handled \cap ledger,
         \A d, e \in cur'[c] : d = e
  PROVE  IInv'
  BY DEF IInv, broker, database, DeliveriesLeft, VerdictsAreTrue, OneAtATime, CompletedWasProcessed,
     LedgerTellsWhatWasApplied

\* A step that changes the state of one message as a settlement or a lost lock
\* does, and moves no replica towards a verdict, keeps it.
LEMMA SettlementKeepsIInv ==
  ASSUME IInv, TypeOK', NEW m \in Messages, NEW new,
         state' = [state EXCEPT ![m] = new], UNCHANGED <<count, database>>,
         new \in {"active", "unsent"} => count[m] < MaxDelivery,
         new = "completed" => m \in Ignored \/ m \in Handled \cap ledger,
         \A c \in Consumers : /\ cur'[c] \subseteq cur[c]
                              /\ cur'[c] # {} => pc'[c] = pc[c] /\ verdict'[c] = verdict[c]
  PROVE  IInv'
<1>1. \A x \in Messages : state'[x] = IF x = m THEN new ELSE state[x]
  BY DEF IInv, TypeOK
<1>2. VerdictsAreTrue' /\ OneAtATime'
  BY DEF IInv, VerdictsAreTrue, OneAtATime, database
<1> QED BY <1>1, <1>2 DEF IInv, database, DeliveriesLeft, CompletedWasProcessed, LedgerTellsWhatWasApplied

\* A commit writes the scan and its ledger row in one step.
LEMMA CommitKeepsIInv ==
  ASSUME IInv, NEW c \in Consumers, NEW d \in cur[c], pc[c] = "commit",
         Apply(c, d[1]), pc' = [pc EXCEPT ![c] = "settle"],
         NEW how \in {"complete", "abandon"}, verdict' = [verdict EXCEPT ![c] = how],
         UNCHANGED <<broker, batch, cur, seen, sigterm>>, faults' \in 0 .. MaxFaults
  PROVE  IInv'
<1>1. d[1] \in Messages /\ d[1] \in Handled
  BY DEF IInv, TypeOK, Deliveries, VerdictsAreTrue
<1>2. \A m \in Messages, b \in Consumers :
        applied'[m][b] = IF m = d[1] /\ b = c THEN applied[m][b] + 1 ELSE applied[m][b]
  BY DEF Apply, IInv, TypeOK
<1>3. TypeOK'
  BY <1>1 DEF IInv, TypeOK, Apply, broker
<1>4. LedgerTellsWhatWasApplied'
  BY <1>1, <1>2 DEF IInv, TypeOK, LedgerTellsWhatWasApplied, Apply
<1>5. VerdictsAreTrue' /\ OneAtATime'
  BY <1>1 DEF IInv, TypeOK, VerdictsAreTrue, OneAtATime, Apply
<1>6. DeliveriesLeft' /\ CompletedWasProcessed'
  BY DEF IInv, DeliveriesLeft, CompletedWasProcessed, Apply, broker
<1> QED BY <1>3, <1>4, <1>5, <1>6 DEF IInv

\* What a replica works on one by one.
LEMMA CurrentDelivery ==
  ASSUME TypeOK, NEW c \in Consumers, NEW d \in batch[c] \cup cur[c]
  PROVE  d \in Deliveries /\ d[1] \in Messages /\ d[2] \in Nat
  BY DEF TypeOK, Deliveries

\* A replica that waits or has stopped moves on.
LEMMA ReplicaMoves ==
  ASSUME IInv, NEW c \in Consumers,
         EndBatch(c) \/ StopIdle(c) \/ Start(c) \/ Sigterm(c) \/ Kill(c)
  PROVE  IInv'
<1>1. TypeOK'
  <2>1. CASE EndBatch(c) \/ StopIdle(c)
    BY <2>1 DEF IInv, TypeOK, EndBatch, StopIdle, broker, database
  <2>2. CASE Start(c)
    BY <2>2 DEF IInv, TypeOK, Start, broker, database
  <2>3. CASE Sigterm(c)
    BY <2>3, ConsumerAssumption DEF IInv, TypeOK, Sigterm, Fault, broker, database, replica
  <2>4. CASE Kill(c)
    BY <2>4, ConsumerAssumption DEF IInv, TypeOK, Kill, Exit, Fault, broker, database
  <2> QED BY <2>1, <2>2, <2>3, <2>4
<1>2. CASE EndBatch(c) \/ StopIdle(c) \/ Start(c)
  <2>1. UNCHANGED <<broker, cur, verdict, database>> /\ pc'[c] \in {"idle", "stopped"}
    BY <1>2 DEF IInv, TypeOK, EndBatch, StopIdle, Start
  <2>2. \A b \in Consumers \ {c} : pc'[b] = pc[b]
    BY <1>2 DEF IInv, TypeOK, EndBatch, StopIdle, Start
  <2> QED BY <1>1, <2>1, <2>2, MoveKeepsIInv DEF IInv, OneAtATime
<1>3. CASE Sigterm(c)
  BY <1>1, <1>3, MoveKeepsIInv DEF Sigterm, replica, IInv, VerdictsAreTrue, OneAtATime
<1>4. CASE Kill(c)
  <2>1. cur'[c] = {} /\ UNCHANGED <<broker, verdict, database>>
    BY <1>4 DEF IInv, TypeOK, Kill, Exit
  <2>2. \A b \in Consumers \ {c} : pc'[b] = pc[b] /\ cur'[b] = cur[b]
    BY <1>4 DEF IInv, TypeOK, Kill, Exit
  <2> QED BY <1>1, <2>1, <2>2, MoveKeepsIInv
<1> QED BY <1>2, <1>3, <1>4

\* A delivery is dispatched, ends the process, is scanned or fails.
LEMMA HandlerMoves ==
  ASSUME IInv, NEW c \in Consumers,
         (\E d \in batch[c] : Dispatch(c, d) \/ Choke(c, d)) \/ Scan(c) \/ DbFails(c)
  PROVE  IInv'
<1>1. ASSUME NEW d \in batch[c], Dispatch(c, d) PROVE IInv'
  <2>0. d \in Deliveries
    BY CurrentDelivery DEF IInv
  <2>1. /\ UNCHANGED <<broker, seen, sigterm, database, faults>>
        /\ cur' = [cur EXCEPT ![c] = {d}] /\ batch' = [batch EXCEPT ![c] = @ \ {d}]
    BY <1>1 DEF Dispatch
  <2>2. \/ d[1] \in Ignored /\ Decide(c, "complete")
        \/ d[1] \in Poison /\ Decide(c, "dead_letter")
        \/ d[1] \in Handled \cap ledger /\ Decide(c, "complete")
        \/ d[1] \in Handled /\ pc' = [pc EXCEPT ![c] = "scan"] /\ UNCHANGED verdict
    BY <1>1 DEF Dispatch, AlreadyProcessed
  <2>3. TypeOK'
    BY <2>0, <2>1, <2>2 DEF IInv, TypeOK, Decide, broker, database
  <2>4. cur'[c] = {d} /\ \A b \in Consumers \ {c} : pc'[b] = pc[b] /\ verdict'[b] = verdict[b] /\ cur'[b] = cur[b]
    BY <2>1, <2>2 DEF IInv, TypeOK, Decide
  <2>5. /\ pc'[c] \in {"scan", "commit"} => d[1] \in Handled
        /\ pc'[c] = "settle" /\ verdict'[c] = "complete" => d[1] \in Ignored \/ d[1] \in Handled \cap ledger
    BY <2>2 DEF IInv, TypeOK, Decide
  <2> QED BY <2>1, <2>3, <2>4, <2>5, MoveKeepsIInv
<1>2. ASSUME NEW d \in batch[c], Choke(c, d) PROVE IInv'
  <2>1. TypeOK'
    BY <1>2 DEF IInv, TypeOK, Choke, Exit, broker, database
  <2>2. cur'[c] = {} /\ UNCHANGED <<broker, verdict, database>>
    BY <1>2 DEF IInv, TypeOK, Choke, Exit
  <2>3. \A b \in Consumers \ {c} : pc'[b] = pc[b] /\ cur'[b] = cur[b]
    BY <1>2 DEF IInv, TypeOK, Choke, Exit
  <2> QED BY <2>1, <2>2, <2>3, MoveKeepsIInv
<1>3. CASE Scan(c)
  <2>1. TypeOK'
    BY <1>3 DEF IInv, TypeOK, Scan, broker, database
  <2>2. UNCHANGED <<broker, cur, verdict, database>> /\ pc'[c] = "commit" /\ pc[c] = "scan"
    BY <1>3 DEF IInv, TypeOK, Scan
  <2>3. \A b \in Consumers \ {c} : pc'[b] = pc[b]
    BY <1>3 DEF IInv, TypeOK, Scan
  <2> QED BY <2>1, <2>2, <2>3, MoveKeepsIInv DEF IInv, VerdictsAreTrue, OneAtATime
<1>4. CASE DbFails(c)
  <2>1. TypeOK'
    BY <1>4, ConsumerAssumption DEF IInv, TypeOK, DbFails, Decide, Fault, broker, database
  <2>2. UNCHANGED <<broker, cur, database>> /\ pc'[c] = "settle" /\ verdict'[c] = "abandon"
    BY <1>4 DEF IInv, TypeOK, DbFails, Decide
  <2>3. \A b \in Consumers \ {c} : pc'[b] = pc[b] /\ verdict'[b] = verdict[b]
    BY <1>4 DEF IInv, TypeOK, DbFails, Decide
  <2> QED BY <2>1, <2>2, <2>3, MoveKeepsIInv DEF IInv, OneAtATime
<1> QED BY <1>1, <1>2, <1>3, <1>4

\* The commit, which may meet a ledger row or lose its acknowledgement.
LEMMA Commits ==
  ASSUME IInv, NEW c \in Consumers, Commit(c) \/ CommitUnacknowledged(c)
  PROVE  IInv'
<1>1. CASE Commit(c)
  <2>1. PICK d \in cur[c] :
          IF seen[c] \/ d[1] \notin ledger
          THEN Apply(c, d[1]) /\ Decide(c, "complete")
          ELSE UNCHANGED database /\ Decide(c, "abandon")
    BY <1>1 DEF Commit
  <2>2. pc[c] = "commit" /\ UNCHANGED <<broker, batch, cur, seen, sigterm, faults>>
    BY <1>1 DEF Commit
  <2>3. CASE seen[c] \/ d[1] \notin ledger
    <3>1. Apply(c, d[1]) /\ pc' = [pc EXCEPT ![c] = "settle"] /\ verdict' = [verdict EXCEPT ![c] = "complete"]
      BY <2>1, <2>3 DEF Decide
    <3>2. faults' \in 0 .. MaxFaults
      BY <2>2 DEF IInv, TypeOK
    <3> QED BY <2>2, <3>1, <3>2, CommitKeepsIInv
  <2>4. CASE ~(seen[c] \/ d[1] \notin ledger)
    <3>1. UNCHANGED database /\ pc' = [pc EXCEPT ![c] = "settle"] /\ verdict' = [verdict EXCEPT ![c] = "abandon"]
      BY <2>1, <2>4 DEF Decide
    <3>2. TypeOK'
      BY <2>2, <3>1 DEF IInv, TypeOK, broker, database
    <3>3. pc'[c] = "settle" /\ verdict'[c] = "abandon"
          /\ \A b \in Consumers \ {c} : pc'[b] = pc[b] /\ verdict'[b] = verdict[b]
      BY <3>1 DEF IInv, TypeOK
    <3> QED BY <2>2, <3>1, <3>2, <3>3, MoveKeepsIInv DEF IInv, OneAtATime
  <2> QED BY <2>3, <2>4
<1>2. CASE CommitUnacknowledged(c)
  <2>1. PICK d \in cur[c] : Apply(c, d[1])
    BY <1>2 DEF CommitUnacknowledged
  <2>2. /\ pc[c] = "commit" /\ UNCHANGED <<broker, batch, cur, seen, sigterm>>
        /\ pc' = [pc EXCEPT ![c] = "settle"] /\ verdict' = [verdict EXCEPT ![c] = "abandon"]
    BY <1>2 DEF CommitUnacknowledged, Decide
  <2>3. faults' \in 0 .. MaxFaults
    BY <1>2, ConsumerAssumption DEF CommitUnacknowledged, Fault, IInv, TypeOK
  <2> QED BY <2>1, <2>2, <2>3, CommitKeepsIInv
<1> QED BY <1>1, <1>2

\* A settlement, a delivery given back, a lock that runs out, a message sent.
LEMMA Settlements ==
  ASSUME IInv,
         \/ \E c \in Consumers : Settle(c) \/ SettleFails(c) \/ \E d \in batch[c] : Drain(c, d)
         \/ \E m \in Messages : Send(m) \/ LockExpires(m)
  PROVE  IInv'
<1> USE ConsumerAssumption
<1>1. ASSUME NEW c \in Consumers, Settle(c) \/ SettleFails(c) PROVE IInv'
  <2>1. PICK d \in cur[c] :
          \/ /\ state' \in {state, [state EXCEPT ![d[1]] = Settled(d[1], verdict[c])]}
             /\ Exit(c)
          \/ /\ state' = [state EXCEPT ![d[1]] = Settled(d[1], verdict[c])]
             /\ pc' = [pc EXCEPT ![c] = "loop"] /\ cur' = [cur EXCEPT ![c] = {}]
             /\ UNCHANGED <<batch, verdict, seen, sigterm>>
    BY <1>1 DEF Settle, SettleFails
  <2>2. d[1] \in Messages /\ verdict[c] \in {"complete", "abandon", "dead_letter"}
    BY CurrentDelivery DEF IInv, TypeOK
  <2>3. UNCHANGED <<count, overrun, database>> /\ pc[c] = "settle" /\ faults' \in 0 .. MaxFaults
    BY <1>1 DEF Settle, SettleFails, Fault, IInv, TypeOK
  <2>4. /\ cur'[c] = {} /\ UNCHANGED verdict
        /\ \A b \in Consumers \ {c} : cur'[b] = cur[b] /\ pc'[b] = pc[b]
        /\ pc' \in [Consumers -> {"idle", "loop", "scan", "commit", "settle", "stopped"}]
        /\ cur' \in [Consumers -> SUBSET Deliveries] /\ batch' \in [Consumers -> SUBSET Deliveries]
        /\ UNCHANGED <<seen, sigterm>>
    BY <2>1 DEF Exit, IInv, TypeOK
  <2>5. CASE state' = [state EXCEPT ![d[1]] = Settled(d[1], verdict[c])]
    <3>1. TypeOK'
      BY <2>2, <2>3, <2>4, <2>5, SettledTypes DEF IInv, TypeOK, database
    <3>2. Settled(d[1], verdict[c]) = "completed" => d[1] \in Ignored \/ d[1] \in Handled \cap ledger
      BY <2>2, <2>3, SettledTypes DEF IInv, VerdictsAreTrue
    <3>3. Settled(d[1], verdict[c]) \in {"active", "unsent"} => count[d[1]] < MaxDelivery
      BY <2>2, SettledTypes DEF IInv
    <3> QED BY <2>2, <2>3, <2>4, <2>5, <3>1, <3>2, <3>3, SettlementKeepsIInv
  <2>6. CASE UNCHANGED state
    <3>1. TypeOK'
      BY <2>3, <2>4, <2>6 DEF IInv, TypeOK, database
    <3> QED BY <2>3, <2>4, <2>6, <3>1, MoveKeepsIInv DEF broker
  <2> QED BY <2>1, <2>5, <2>6
<1>2. ASSUME NEW c \in Consumers, NEW d \in batch[c], Drain(c, d) PROVE IInv'
  <2>1. d[1] \in Messages
    BY CurrentDelivery DEF IInv
  <2>2. UNCHANGED <<count, overrun, database, faults>> /\ pc[c] = "loop"
    BY <1>2 DEF Drain
  <2>3. CASE /\ state' = [state EXCEPT ![d[1]] = Settled(d[1], "abandon")]
             /\ batch' = [batch EXCEPT ![c] = @ \ {d}]
             /\ UNCHANGED <<pc, cur, verdict, seen, sigterm>>
    <3>1. TypeOK'
      BY <2>1, <2>2, <2>3, SettledTypes DEF IInv, TypeOK, database
    <3> QED BY <2>1, <2>2, <2>3, <3>1, SettledTypes, SettlementKeepsIInv DEF IInv
  <2>4. CASE Exit(c) /\ UNCHANGED state
    <3>1. TypeOK'
      BY <2>2, <2>4 DEF IInv, TypeOK, Exit, database
    <3>2. cur'[c] = {} /\ UNCHANGED verdict /\ \A b \in Consumers \ {c} : cur'[b] = cur[b] /\ pc'[b] = pc[b]
      BY <2>4 DEF IInv, TypeOK, Exit
    <3> QED BY <2>2, <2>4, <3>1, <3>2, MoveKeepsIInv DEF broker
  <2> QED BY <1>2, <2>3, <2>4 DEF Drain
<1>3. ASSUME NEW m \in Messages, Send(m) PROVE IInv'
  <2>1. TypeOK'
    BY <1>3 DEF IInv, TypeOK, Send, replica, database
  <2> QED BY <1>3, <2>1, SettlementKeepsIInv DEF Send, replica, IInv, DeliveriesLeft
<1>4. ASSUME NEW m \in Messages, LockExpires(m) PROVE IInv'
  <2>1. faults' \in 0 .. MaxFaults
    BY <1>4 DEF LockExpires, Fault, IInv, TypeOK
  <2>2. /\ state' = [state EXCEPT ![m] = GivenBack(m)]
        /\ UNCHANGED <<count, replica, sigterm, database>> /\ overrun' \in {overrun, overrun \cup {m}}
    BY <1>4 DEF LockExpires
  <2>3. GivenBack(m) \in {"active", "dead"} /\ (GivenBack(m) = "active" => count[m] < MaxDelivery)
    BY SettledTypes DEF IInv
  <2>4. TypeOK'
    BY <2>1, <2>2, <2>3 DEF IInv, TypeOK, replica, database
  <2> QED BY <2>2, <2>3, <2>4, SettlementKeepsIInv DEF replica
<1> QED BY <1>1, <1>2, <1>3, <1>4

\* A replica receives messages: each has a delivery left.
LEMMA Receives ==
  ASSUME IInv, NEW c \in Consumers, NEW S \in SUBSET Messages, Receive(c, S)
  PROVE  IInv'
<1> USE ConsumerAssumption DEF IInv
<1>1. /\ \A m \in S : state[m] = "active"
      /\ state' = [m \in Messages |-> IF m \in S THEN "locked" ELSE state[m]]
      /\ count' = [m \in Messages |-> IF m \in S THEN count[m] + 1 ELSE count[m]]
      /\ pc' = [pc EXCEPT ![c] = "loop"]
      /\ UNCHANGED <<overrun, cur, verdict, seen, sigterm, database, faults>>
  BY DEF Receive
<1>2. \A m \in Messages : count'[m] \in 0 .. MaxDelivery /\ (m \in S => count[m] + 1 \in 1 .. MaxDelivery)
  BY <1>1 DEF TypeOK, DeliveriesLeft
<1>3. batch' \in [Consumers -> SUBSET Deliveries]
  <2>1. batch' = [batch EXCEPT ![c] = {<<m, count[m] + 1>> : m \in S}]
    BY DEF Receive
  <2>2. {<<m, count[m] + 1>> : m \in S} \subseteq Deliveries
    BY <1>2 DEF Deliveries
  <2> QED BY <2>1, <2>2 DEF TypeOK
<1>4. TypeOK'
  BY <1>1, <1>2, <1>3 DEF TypeOK, database
<1>5. VerdictsAreTrue' /\ OneAtATime'
  BY <1>1 DEF TypeOK, VerdictsAreTrue, OneAtATime, database
<1>6. DeliveriesLeft' /\ CompletedWasProcessed' /\ LedgerTellsWhatWasApplied'
  BY <1>1 DEF TypeOK, DeliveriesLeft, CompletedWasProcessed, LedgerTellsWhatWasApplied, database
<1> QED BY <1>4, <1>5, <1>6

\* The strengthening is inductive.
LEMMA StepKeepsIInv == IInv /\ [Next]_vars => IInv'
<1> SUFFICES ASSUME IInv, [Next]_vars PROVE IInv'
  OBVIOUS
<1>1. CASE Rest \/ UNCHANGED vars
  <2>1. UNCHANGED vars
    BY <1>1 DEF Rest
  <2> QED BY <2>1 DEF vars, IInv, TypeOK, DeliveriesLeft, VerdictsAreTrue, OneAtATime,
             CompletedWasProcessed, LedgerTellsWhatWasApplied
<1>2. ASSUME NEW m \in Messages, Send(m) \/ LockExpires(m) PROVE IInv'
  BY <1>2, Settlements
<1>3. ASSUME NEW c \in Consumers, Work(c) PROVE IInv'
  BY <1>3, Settlements, Commits, HandlerMoves, ReplicaMoves DEF Work
<1>4. ASSUME NEW c \in Consumers, Break(c) PROVE IInv'
  BY <1>4, Settlements, Commits, HandlerMoves, ReplicaMoves DEF Break
<1>5. ASSUME NEW c \in Consumers, NEW S \in SUBSET Messages, Receive(c, S) PROVE IInv'
  BY <1>5, Receives
<1> QED BY <1>1, <1>2, <1>3, <1>4, <1>5 DEF Next

-----------------------------------------------------------------------------
HeldBy(c) == batch[c] \cup cur[c]

\* A delivery is in the hands of at most one replica, and of none that waits.
HandsApart ==
  /\ \A c \in Consumers :
       /\ pc[c] \in {"idle", "stopped"} => batch[c] = {} /\ cur[c] = {}
       /\ pc[c] = "loop" => cur[c] = {}
       /\ batch[c] \cap cur[c] = {}
       /\ \A d \in HeldBy(c) : d[2] <= count[d[1]]
  /\ \A c, b \in Consumers : c # b => HeldBy(c) \cap HeldBy(b) = {}

\* What a replica does to its own hands, and that it leaves those of others alone.
LEMMA ReplicaStepFacts ==
  ASSUME TypeOK, HandsApart, NEW c \in Consumers, Work(c) \/ Break(c)
  PROVE  /\ UNCHANGED count
         /\ \A b \in Consumers \ {c} : /\ pc'[b] = pc[b] /\ batch'[b] = batch[b] /\ cur'[b] = cur[b]
                                       /\ b \in sigterm' <=> b \in sigterm
         /\ batch'[c] \cup cur'[c] \subseteq batch[c] \cup cur[c]
         /\ batch'[c] \cap cur'[c] = {}
         /\ pc'[c] \in {"idle", "stopped"} => batch'[c] = {} /\ cur'[c] = {}
         /\ pc'[c] = "loop" => cur'[c] = {}
<1> USE DEF TypeOK, HandsApart, HeldBy
<1>1. ASSUME NEW d \in batch[c], Dispatch(c, d) \/ Drain(c, d)
      PROVE  /\ UNCHANGED count
             /\ \A b \in Consumers \ {c} : /\ pc'[b] = pc[b] /\ batch'[b] = batch[b] /\ cur'[b] = cur[b]
                                           /\ b \in sigterm' <=> b \in sigterm
             /\ batch'[c] \cup cur'[c] \subseteq batch[c] \cup cur[c]
             /\ batch'[c] \cap cur'[c] = {}
             /\ pc'[c] \in {"idle", "stopped"} => batch'[c] = {} /\ cur'[c] = {}
             /\ pc'[c] = "loop" => cur'[c] = {}
  <2>1. CASE Dispatch(c, d)
    <3>1. /\ batch' = [batch EXCEPT ![c] = @ \ {d}] /\ cur' = [cur EXCEPT ![c] = {d}]
          /\ UNCHANGED <<count, sigterm>>
          /\ \/ pc' = [pc EXCEPT ![c] = "settle"]
             \/ pc' = [pc EXCEPT ![c] = "scan"]
      BY <2>1 DEF Dispatch, Decide, broker
    <3> QED BY <3>1
  <2>2. CASE Drain(c, d)
    BY <2>2 DEF Drain, Exit
  <2> QED BY <1>1, <2>1, <2>2
<1>2. ASSUME NEW d \in batch[c], Choke(c, d)
      PROVE  UNCHANGED <<count, sigterm>> /\ Exit(c)
  BY <1>2 DEF Choke, Exit, broker
<1>3. CASE Kill(c) \/ SettleFails(c)
  <2>1. UNCHANGED <<count, sigterm>> /\ Exit(c)
    BY <1>3 DEF Kill, SettleFails, Exit, broker
  <2> QED BY <2>1 DEF Exit
<1>4. CASE Settle(c)
  BY <1>4 DEF Settle, Exit
<1>5. CASE Scan(c) \/ Commit(c) \/ DbFails(c) \/ CommitUnacknowledged(c)
  <2>1. /\ UNCHANGED <<count, sigterm, batch, cur>>
        /\ pc[c] \in {"scan", "commit"}
        /\ pc' = [pc EXCEPT ![c] = "commit"] \/ pc' = [pc EXCEPT ![c] = "settle"]
    BY <1>5 DEF Scan, Commit, DbFails, CommitUnacknowledged, Decide, broker
  <2> QED BY <2>1
<1>6. CASE EndBatch(c) \/ StopIdle(c) \/ Start(c) \/ Sigterm(c)
  <2>1. UNCHANGED <<count, batch, cur>>
    BY <1>6 DEF EndBatch, StopIdle, Start, Sigterm, broker, replica
  <2>2. /\ sigterm' \in {sigterm, sigterm \ {c}, sigterm \cup {c}}
        /\ pc' \in {pc, [pc EXCEPT ![c] = "idle"], [pc EXCEPT ![c] = "stopped"]}
    BY <1>6 DEF EndBatch, StopIdle, Start, Sigterm, replica
  <2>3. (pc[c] = "loop" /\ batch[c] = {}) \/ pc[c] \in {"idle", "stopped"} \/ pc' = pc
    BY <1>6 DEF EndBatch, StopIdle, Start, Sigterm, replica
  <2>4. \A b \in Consumers \ {c} : (b \in sigterm' <=> b \in sigterm) /\ pc'[b] = pc[b]
    BY <2>2
  <2>5. pc'[c] \in {"idle", "stopped"} => batch[c] = {} /\ cur[c] = {}
    BY <2>2, <2>3
  <2>6. pc'[c] = "loop" => cur[c] = {}
    BY <2>2
  <2> QED BY <2>1, <2>4, <2>5, <2>6
<1>7. ASSUME NEW d \in batch[c], Choke(c, d)
      PROVE  /\ UNCHANGED count
             /\ \A b \in Consumers \ {c} : /\ pc'[b] = pc[b] /\ batch'[b] = batch[b] /\ cur'[b] = cur[b]
                                           /\ b \in sigterm' <=> b \in sigterm
             /\ batch'[c] = {} /\ cur'[c] = {}
  BY <1>2, <1>7 DEF Exit
<1> QED BY <1>1, <1>3, <1>4, <1>5, <1>6, <1>7 DEF Work, Break

\* The messages a replica receives were in no other hands.
LEMMA ReceiveFacts ==
  ASSUME TypeOK, HandsApart, NEW c \in Consumers, NEW S \in SUBSET Messages, Receive(c, S)
  PROVE  /\ \A m \in Messages : count'[m] = IF m \in S THEN count[m] + 1 ELSE count[m]
         /\ \A m \in Messages : state'[m] = IF m \in S THEN "locked" ELSE state[m]
         /\ \A m \in S : state[m] = "active"
         /\ batch[c] = {} /\ cur[c] = {} /\ cur' = cur
         /\ batch'[c] = {<<m, count[m] + 1>> : m \in S}
         /\ \A b \in Consumers \ {c} : batch'[b] = batch[b] /\ pc'[b] = pc[b]
         /\ pc[c] = "idle" /\ pc'[c] = "loop"
         /\ UNCHANGED <<sigterm, ledger, applied, faults>>
BY DEF TypeOK, HandsApart, Receive, database

\* The hands stay apart: a new delivery is one the broker never handed out.
LEMMA HandsStep == TypeOK /\ HandsApart /\ [Next]_vars => HandsApart'
<1> SUFFICES ASSUME TypeOK, HandsApart, [Next]_vars PROVE HandsApart'
  OBVIOUS
<1>1. CASE Rest \/ UNCHANGED vars
  BY <1>1 DEF Rest, vars, HandsApart, HeldBy
<1>2. ASSUME NEW m \in Messages, Send(m) \/ LockExpires(m) PROVE HandsApart'
  BY <1>2 DEF Send, LockExpires, replica, HandsApart, HeldBy
<1>3. ASSUME NEW c \in Consumers, Work(c) \/ Break(c) PROVE HandsApart'
  <2>1. /\ count' = count
        /\ HeldBy(c)' \subseteq HeldBy(c)
        /\ \A b \in Consumers \ {c} : pc'[b] = pc[b] /\ batch'[b] = batch[b] /\ cur'[b] = cur[b]
        /\ pc'[c] \in {"idle", "stopped"} => batch'[c] = {} /\ cur'[c] = {}
        /\ pc'[c] = "loop" => cur'[c] = {}
        /\ batch'[c] \cap cur'[c] = {}
    BY <1>3, ReplicaStepFacts DEF HeldBy
  <2>2. \A b \in Consumers : HeldBy(b)' \subseteq HeldBy(b)
    BY <2>1 DEF HeldBy
  <2>3. \A b \in Consumers :
          /\ pc'[b] \in {"idle", "stopped"} => batch'[b] = {} /\ cur'[b] = {}
          /\ pc'[b] = "loop" => cur'[b] = {}
          /\ batch'[b] \cap cur'[b] = {}
    BY <2>1 DEF HandsApart
  <2>4. \A b \in Consumers : \A d \in HeldBy(b)' : d[2] <= count'[d[1]]
    BY <2>1, <2>2 DEF HandsApart
  <2>5. \A a, b \in Consumers : a # b => HeldBy(a)' \cap HeldBy(b)' = {}
    BY <2>2 DEF HandsApart
  <2> QED BY <2>3, <2>4, <2>5 DEF HandsApart
<1>4. ASSUME NEW c \in Consumers, NEW S \in SUBSET Messages, Receive(c, S) PROVE HandsApart'
  <2>1. /\ \A m \in Messages : count'[m] = IF m \in S THEN count[m] + 1 ELSE count[m]
        /\ batch[c] = {} /\ cur[c] = {} /\ cur' = cur
        /\ batch'[c] = {<<m, count[m] + 1>> : m \in S}
        /\ \A b \in Consumers \ {c} : batch'[b] = batch[b] /\ pc'[b] = pc[b]
        /\ pc'[c] = "loop"
    BY <1>4, ReceiveFacts
  <2>2. \A m \in Messages : count[m] \in Nat /\ count'[m] \in Nat /\ count[m] <= count'[m]
    BY <2>1 DEF TypeOK
  <2>3. \A b \in Consumers : \A d \in HeldBy(b) : d[1] \in Messages /\ d[2] \in Nat
    BY CurrentDelivery DEF HeldBy
  <2>4. \A b \in Consumers : \A d \in HeldBy(b) : d[2] <= count[d[1]] /\ d[2] <= count'[d[1]]
    BY <2>2, <2>3 DEF HandsApart
  <2>5. HeldBy(c)' = {<<m, count[m] + 1>> : m \in S} /\ \A b \in Consumers \ {c} : HeldBy(b)' = HeldBy(b)
    BY <2>1 DEF HeldBy
  <2>6. \A d \in HeldBy(c)' : d[1] \in S /\ d[2] = count[d[1]] + 1
    BY <2>5
  <2>7. \A b \in Consumers : \A d \in HeldBy(b)' : d[2] <= count'[d[1]]
    <3>1. \A d \in HeldBy(c)' : d[2] <= count'[d[1]]
      BY <2>1, <2>2, <2>6
    <3> QED BY <2>4, <2>5, <3>1
  <2>8. \A b \in Consumers \ {c} : HeldBy(b)' \cap HeldBy(c)' = {}
    <3> SUFFICES ASSUME NEW b \in Consumers \ {c}, NEW d \in HeldBy(b), d \in HeldBy(c)' PROVE FALSE
      BY <2>5
    <3>1. d[2] <= count[d[1]] /\ d[2] = count[d[1]] + 1 /\ d[1] \in Messages
      BY <2>3, <2>4, <2>6
    <3> QED BY <2>2, <3>1
  <2>9. \A a, b \in Consumers : a # b => HeldBy(a)' \cap HeldBy(b)' = {}
    BY <2>5, <2>8 DEF HandsApart
  <2>10. \A b \in Consumers :
          /\ pc'[b] \in {"idle", "stopped"} => batch'[b] = {} /\ cur'[b] = {}
          /\ pc'[b] = "loop" => cur'[b] = {}
          /\ batch'[b] \cap cur'[b] = {}
    BY <2>1 DEF HandsApart
  <2> QED BY <2>7, <2>9, <2>10 DEF HandsApart
<1> QED BY <1>1, <1>2, <1>3, <1>4 DEF Next

\* Replicas past the ledger check of m that have not committed.
Pending(m) == {c \in Consumers : pc[c] \in {"scan", "commit"} /\ \E d \in cur[c] : d[1] = m}

\* What a step does to the commits of m and to the replicas about to commit it:
\* at most it takes replicas away; or it lets one past the ledger check, with m
\* in its hands and not committed by any; or one of them commits.
LEMMA CommitSteps ==
  ASSUME IInv, HandsApart, [Next]_vars, NEW m \in Messages
  PROVE  \/ applied'[m] = applied[m] /\ Pending(m)' \subseteq Pending(m)
         \/ /\ \A b \in Consumers : applied[m][b] = 0 /\ applied'[m][b] = 0
            /\ UNCHANGED broker
            /\ \E c \in Consumers : \E d \in batch[c] :
                 /\ d[1] = m /\ cur' = [cur EXCEPT ![c] = {d}]
                 /\ Pending(m)' \subseteq Pending(m) \cup {c}
         \/ \E c \in Pending(m) :
              /\ applied'[m] = [applied[m] EXCEPT ![c] = @ + 1]
              /\ Pending(m)' \subseteq Pending(m) \ {c}
<1> DEFINE Fewer == applied'[m] = applied[m] /\ Pending(m)' \subseteq Pending(m)
           Passes(c) == /\ \A b \in Consumers : applied[m][b] = 0 /\ applied'[m][b] = 0
                        /\ UNCHANGED broker
                        /\ \E d \in batch[c] :
                             /\ d[1] = m /\ cur' = [cur EXCEPT ![c] = {d}]
                             /\ Pending(m)' \subseteq Pending(m) \cup {c}
           Commits1(c) == /\ c \in Pending(m)
                          /\ applied'[m] = [applied[m] EXCEPT ![c] = @ + 1]
                          /\ Pending(m)' \subseteq Pending(m) \ {c}
<1>0. /\ TypeOK /\ OneAtATime /\ LedgerTellsWhatWasApplied
      /\ applied[m] \in [Consumers -> Nat]
      /\ \A c \in Consumers : cur[c] \subseteq Deliveries
  BY DEF IInv, TypeOK
<1>1. ASSUME Rest \/ UNCHANGED vars PROVE Fewer
  BY <1>1 DEF Rest, vars, Pending
<1>2. ASSUME NEW x \in Messages, Send(x) \/ LockExpires(x) PROVE Fewer
  BY <1>2 DEF Send, LockExpires, replica, database, Pending
<1>3. ASSUME NEW c \in Consumers, NEW S \in SUBSET Messages, Receive(c, S) PROVE Fewer
  BY <1>0, <1>3, ReceiveFacts DEF Pending
<1>4. ASSUME NEW c \in Consumers, NEW d \in batch[c], Dispatch(c, d) PROVE Fewer \/ Passes(c)
  <2>1. /\ cur' = [cur EXCEPT ![c] = {d}] /\ applied' = applied /\ pc[c] = "loop" /\ UNCHANGED broker
        /\ \/ pc' = [pc EXCEPT ![c] = "settle"]
           \/ pc' = [pc EXCEPT ![c] = "scan"] /\ d[1] \notin ledger
    BY <1>4 DEF Dispatch, AlreadyProcessed, Decide, database
  <2>2. CASE m = d[1] /\ m \notin ledger
    <3>1. \A b \in Consumers : applied[m][b] = 0
      BY <1>0, <2>2 DEF LedgerTellsWhatWasApplied
    <3>2. Pending(m)' \subseteq Pending(m) \cup {c}
      BY <1>0, <2>1 DEF Pending, TypeOK
    <3> QED BY <2>1, <2>2, <3>1, <3>2
  <2>3. CASE ~(m = d[1] /\ m \notin ledger)
    BY <1>0, <2>1, <2>3 DEF Pending, TypeOK
  <2> QED BY <2>2, <2>3
<1>5. ASSUME NEW c \in Consumers, Commit(c) \/ CommitUnacknowledged(c) PROVE Fewer \/ Commits1(c)
  <2>1. pc[c] = "commit" /\ pc' = [pc EXCEPT ![c] = "settle"] /\ cur' = cur
    BY <1>5 DEF Commit, CommitUnacknowledged, Decide
  <2>2. Pending(m)' = Pending(m) \ {c}
    BY <1>0, <2>1 DEF Pending, TypeOK
  <2>3. ASSUME NEW d \in cur[c], Apply(c, d[1]) PROVE Fewer \/ Commits1(c)
    <3>1. applied' = [applied EXCEPT ![d[1]][c] = @ + 1]
      BY <2>3 DEF Apply
    <3>2. CASE d[1] = m
      <4>1. c \in Pending(m)
        BY <2>1, <3>2 DEF Pending
      <4> QED BY <1>0, <2>2, <3>1, <3>2, <4>1 DEF TypeOK
    <3>3. CASE d[1] # m
      BY <1>0, <2>2, <3>1, <3>3 DEF TypeOK
    <3> QED BY <3>2, <3>3
  <2>4. CASE UNCHANGED database
    BY <2>2, <2>4 DEF database
  <2> QED BY <1>5, <2>3, <2>4 DEF Commit, CommitUnacknowledged
<1>6. ASSUME NEW c \in Consumers, Work(c) \/ Break(c),
             ~(\E d \in batch[c] : Dispatch(c, d)), ~Commit(c), ~CommitUnacknowledged(c)
      PROVE  Fewer
  <2>1. applied' = applied
    BY <1>6 DEF Work, Break, Choke, Drain, Scan, Settle, EndBatch, StopIdle, Start, DbFails, SettleFails,
       Sigterm, Kill, database
  <2>2. pc'[c] \in {"scan", "commit"} => pc[c] \in {"scan", "commit"} /\ cur'[c] = cur[c]
    BY <1>0, <1>6 DEF Work, Break, Choke, Drain, Scan, Settle, EndBatch, StopIdle, Start, DbFails, SettleFails,
       Sigterm, Kill, Exit, Decide, replica, TypeOK
  <2>3. \A b \in Consumers \ {c} : pc'[b] = pc[b] /\ cur'[b] = cur[b]
    BY <1>0, <1>6, ReplicaStepFacts
  <2> QED BY <2>1, <2>2, <2>3 DEF Pending
<1>7. ASSUME NEW c \in Consumers, Passes(c) \/ Commits1(c)
      PROVE  \/ \E b \in Consumers : Passes(b)
             \/ \E b \in Pending(m) : Commits1(b)
  BY <1>7 DEF Pending
<1>8. Fewer \/ \E c \in Consumers : Passes(c) \/ Commits1(c)
  <2>1. ASSUME NEW c \in Consumers, Work(c) \/ Break(c)
        PROVE  Fewer \/ Passes(c) \/ Commits1(c)
    <3> HIDE DEF Fewer, Passes, Commits1
    <3> QED BY <1>4, <1>5, <1>6, <2>1
  <2> HIDE DEF Fewer, Passes, Commits1
  <2> QED BY <1>1, <1>2, <1>3, <2>1 DEF Next
<1> QED BY <1>7, <1>8

\* A replica commits the scan of an event once, and only from past the check.
OnceEach ==
  \A m \in Messages, c \in Consumers :
    /\ applied[m][c] <= 1
    /\ c \in Pending(m) => applied[m][c] = 0

LEMMA OnceEachStep ==
  ASSUME IInv, HandsApart, OnceEach, [Next]_vars
  PROVE  OnceEach'
<1> SUFFICES ASSUME NEW m \in Messages, NEW c \in Consumers
             PROVE  applied'[m][c] <= 1 /\ (c \in Pending(m)' => applied'[m][c] = 0)
  BY DEF OnceEach
<1>1. applied[m] \in [Consumers -> Nat]
  BY DEF IInv, TypeOK
<1>2. applied[m][c] <= 1 /\ (c \in Pending(m) => applied[m][c] = 0) /\ applied[m][c] \in Nat
  BY <1>1 DEF OnceEach
<1>3. CASE applied'[m] = applied[m] /\ Pending(m)' \subseteq Pending(m)
  BY <1>2, <1>3
<1>4. CASE \A b \in Consumers : applied[m][b] = 0 /\ applied'[m][b] = 0
  BY <1>4
<1>5. ASSUME NEW b \in Pending(m), applied'[m] = [applied[m] EXCEPT ![b] = @ + 1],
             Pending(m)' \subseteq Pending(m) \ {b}
      PROVE  applied'[m][c] <= 1 /\ (c \in Pending(m)' => applied'[m][c] = 0)
  BY <1>1, <1>2, <1>5
<1> QED BY <1>3, <1>4, <1>5, CommitSteps

\* Every delivery in a replica's hands has its lock, unless a lock of its message
\* ran out in the hands of a replica.
LocksHeld == \A c \in Consumers : \A d \in HeldBy(c) : LockValid(d) \/ d[1] \in overrun

LEMMA LocksHeldStep ==
  ASSUME IInv, HandsApart, LocksHeld, [Next]_vars
  PROVE  LocksHeld'
<1>0. TypeOK /\ \A c \in Consumers : \A d \in HeldBy(c) : d \in Deliveries /\ d[1] \in Messages /\ d = <<d[1], d[2]>>
  BY CurrentDelivery DEF IInv, HeldBy, Deliveries
<1>1. CASE Rest \/ UNCHANGED vars
  BY <1>1 DEF Rest, vars, LocksHeld, HeldBy, LockValid
<1>2. ASSUME NEW x \in Messages, Send(x) PROVE LocksHeld'
  <2>1. /\ state[x] = "unsent" /\ state' = [state EXCEPT ![x] = "active"]
        /\ UNCHANGED <<count, batch, cur, overrun>>
    BY <1>2 DEF Send, replica
  <2>2. \A c \in Consumers : \A d \in HeldBy(c) : LockValid(d) => LockValid(d)'
    BY <1>0, <2>1 DEF LockValid, TypeOK
  <2> QED BY <2>1, <2>2 DEF LocksHeld, HeldBy
<1>3. ASSUME NEW x \in Messages, LockExpires(x) PROVE LocksHeld'
  <2>1. /\ state' = [state EXCEPT ![x] = GivenBack(x)] /\ UNCHANGED <<count, batch, cur>>
        /\ overrun \subseteq overrun' /\ (Held(x) => x \in overrun')
    BY <1>3 DEF LockExpires, replica
  <2>2. ASSUME NEW c \in Consumers, NEW d \in HeldBy(c), LockValid(d), d[1] # x PROVE LockValid(d)'
    BY <1>0, <2>1, <2>2 DEF LockValid, TypeOK
  <2>3. ASSUME NEW c \in Consumers, NEW d \in HeldBy(c), LockValid(d), d[1] = x PROVE x \in overrun'
    <3>1. Held(x)
      BY <1>0, <2>3 DEF Held, HeldBy, LockValid
    <3> QED BY <2>1, <3>1
  <2> QED BY <2>1, <2>2, <2>3 DEF LocksHeld, HeldBy
<1>4. ASSUME NEW c \in Consumers, Work(c) \/ Break(c) PROVE LocksHeld'
  <2>1. /\ count' = count /\ UNCHANGED overrun
        /\ HeldBy(c)' \subseteq HeldBy(c)
        /\ \A b \in Consumers \ {c} : HeldBy(b)' = HeldBy(b)
    <3>1. UNCHANGED overrun
      BY <1>4 DEF Work, Break, Dispatch, Choke, Drain, Scan, Commit, Settle, EndBatch, StopIdle, Start,
         DbFails, CommitUnacknowledged, SettleFails, Sigterm, Kill, broker
    <3> QED BY <1>0, <1>4, <3>1, ReplicaStepFacts DEF HeldBy
  <2>2. \/ UNCHANGED state
        \/ \E d \in HeldBy(c) : /\ LockValid(d) /\ d \notin HeldBy(c)'
                                /\ \E new : state' = [state EXCEPT ![d[1]] = new]
    <3>1. CASE Settle(c) \/ SettleFails(c)
      BY <1>0, <3>1 DEF Settle, SettleFails, Exit, HandsApart, HeldBy, TypeOK
    <3>2. ASSUME NEW d \in batch[c], Drain(c, d)
          PROVE  \/ UNCHANGED state
                 \/ LockValid(d) /\ d \notin HeldBy(c)' /\ \E new : state' = [state EXCEPT ![d[1]] = new]
      <4>1. CASE LockValid(d)
        <5>1. /\ state' = [state EXCEPT ![d[1]] = Settled(d[1], "abandon")]
              /\ batch' = [batch EXCEPT ![c] = @ \ {d}] /\ cur' = cur
          BY <3>2, <4>1 DEF Drain
        <5>2. d \notin cur[c]
          BY DEF HandsApart
        <5> QED BY <1>0, <4>1, <5>1, <5>2 DEF HeldBy, TypeOK
      <4>2. CASE ~LockValid(d)
        BY <3>2, <4>2 DEF Drain
      <4> QED BY <4>1, <4>2
    <3>3. CASE ~Settle(c) /\ ~SettleFails(c) /\ ~(\E d \in batch[c] : Drain(c, d))
      BY <1>4, <3>3 DEF Work, Break, Dispatch, Choke, Scan, Commit, EndBatch, StopIdle, Start,
         DbFails, CommitUnacknowledged, Sigterm, Kill, broker
    <3> QED BY <3>1, <3>2, <3>3 DEF HeldBy
  <2>3. \A b \in Consumers : HeldBy(b)' \subseteq HeldBy(b)
    BY <2>1
  <2>4. CASE UNCHANGED state
    BY <2>1, <2>3, <2>4 DEF LocksHeld, LockValid
  <2>5. ASSUME NEW d \in HeldBy(c), LockValid(d), d \notin HeldBy(c)',
               NEW new, state' = [state EXCEPT ![d[1]] = new]
        PROVE  LocksHeld'
    <3>1. ASSUME NEW b \in Consumers, NEW e \in HeldBy(b)', LockValid(e) PROVE LockValid(e)'
      <4>1. e \in HeldBy(b) /\ e # d
        BY <2>3, <2>5, <3>1 DEF HandsApart
      <4>2. e[1] # d[1]
        BY <1>0, <2>5, <3>1, <4>1 DEF LockValid
      <4> QED BY <1>0, <2>1, <2>5, <3>1, <4>1, <4>2 DEF LockValid, TypeOK
    <3> QED BY <2>1, <2>3, <3>1 DEF LocksHeld
  <2> QED BY <2>2, <2>4, <2>5
<1>5. ASSUME NEW c \in Consumers, NEW S \in SUBSET Messages, Receive(c, S) PROVE LocksHeld'
  <2>1. /\ \A m \in Messages : count'[m] = IF m \in S THEN count[m] + 1 ELSE count[m]
        /\ \A m \in Messages : state'[m] = IF m \in S THEN "locked" ELSE state[m]
        /\ \A m \in S : state[m] = "active"
        /\ batch[c] = {} /\ cur[c] = {} /\ cur' = cur
        /\ batch'[c] = {<<m, count[m] + 1>> : m \in S}
        /\ \A b \in Consumers \ {c} : batch'[b] = batch[b]
    BY <1>0, <1>5, ReceiveFacts
  <2>2. UNCHANGED overrun
    BY <1>5 DEF Receive
  <2>3. \A d \in HeldBy(c)' : LockValid(d)'
    BY <1>0, <2>1 DEF HeldBy, LockValid
  <2>4. ASSUME NEW b \in Consumers \ {c}, NEW d \in HeldBy(b) PROVE LockValid(d) => LockValid(d)'
    BY <1>0, <2>1 DEF LockValid
  <2>5. \A b \in Consumers \ {c} : HeldBy(b)' = HeldBy(b)
    BY <2>1 DEF HeldBy
  <2> QED BY <2>2, <2>3, <2>4, <2>5 DEF LocksHeld
<1> QED BY <1>1, <1>2, <1>3, <1>4, <1>5 DEF Next

\* Of two replicas that have committed an event, or are about to, one had a
\* delivery whose lock ran out.
TwoTakeALostLock ==
  \A m \in Messages, c, b \in Consumers :
    c # b /\ (c \in Pending(m) \/ applied[m][c] > 0) /\ (b \in Pending(m) \/ applied[m][b] > 0)
      => m \in overrun

LEMMA TwoTakeStep ==
  ASSUME IInv, HandsApart, LocksHeld, TwoTakeALostLock, [Next]_vars
  PROVE  TwoTakeALostLock'
<1> DEFINE In(m, c) == c \in Pending(m) \/ applied[m][c] > 0
<1> SUFFICES ASSUME NEW m \in Messages, NEW a \in Consumers, NEW b \in Consumers, a # b,
                    In(m, a)', In(m, b)'
             PROVE  m \in overrun'
  BY DEF TwoTakeALostLock
<1>0. TypeOK /\ applied[m] \in [Consumers -> Nat]
  BY DEF IInv, TypeOK
<1>1. overrun \subseteq overrun'
  BY DEF Next, Rest, Send, LockExpires, Work, Break, Dispatch, Choke, Drain, Scan, Commit, Settle, EndBatch,
     StopIdle, Start, DbFails, CommitUnacknowledged, SettleFails, Sigterm, Kill, Receive, broker, vars
<1>2. CASE In(m, a) /\ In(m, b)
  BY <1>1, <1>2 DEF TwoTakeALostLock
<1>3. CASE ~(In(m, a) /\ In(m, b))
  <2>0. ASSUME NEW c \in Pending(m), applied'[m] = [applied[m] EXCEPT ![c] = @ + 1],
               Pending(m)' \subseteq Pending(m) \ {c}
        PROVE  FALSE
    <3>1. \A x \in Consumers : In(m, x)' => In(m, x)
      BY <1>0, <2>0
    <3> QED BY <1>3, <3>1
  <2>1. PICK c \in Consumers :
          /\ \A x \in Consumers : applied[m][x] = 0 /\ applied'[m][x] = 0
          /\ \E d \in batch[c] : d[1] = m /\ Pending(m)' \subseteq Pending(m) \cup {c}
    BY <1>3, <2>0, CommitSteps
  <2>2. PICK d \in batch[c] : d[1] = m /\ Pending(m)' \subseteq Pending(m) \cup {c}
    BY <2>1
  <2>3. PICK x \in Consumers : x # c /\ x \in Pending(m)
    BY <2>1
  <2>4. PICK e \in cur[x] : e[1] = m
    BY <2>3 DEF Pending
  <2>5. d \in HeldBy(c) /\ e \in HeldBy(x) /\ d # e /\ d \in Deliveries /\ e \in Deliveries
    BY <1>0, <2>3, <2>4, CurrentDelivery DEF HeldBy, HandsApart
  <2>6. ~(LockValid(d) /\ LockValid(e))
    BY <2>2, <2>4, <2>5 DEF LockValid, Deliveries
  <2> QED BY <1>1, <2>2, <2>4, <2>5, <2>6 DEF LocksHeld
<1> QED BY <1>2, <1>3
-----------------------------------------------------------------------------
\* Only a poison message is dead-lettered outright; an event nobody has scanned
\* is dead when its deliveries are used up.
DeadForAReason ==
  /\ \A c \in Consumers : \A d \in cur[c] :
       pc[c] = "settle" /\ verdict[c] = "dead_letter" => d[1] \in Poison
  /\ \A m \in Handled : state[m] = "dead" /\ m \notin ledger => count[m] >= MaxDelivery

LEMMA DeadStep ==
  ASSUME IInv, HandsApart, DeadForAReason, [Next]_vars
  PROVE  DeadForAReason'
<1>0. TypeOK /\ VerdictsAreTrue /\ \A m \in Handled : m \in Messages /\ m \notin Poison /\ m \notin Ignored
  BY KindsAssumption DEF IInv, Messages
<1>1. ASSUME NEW c \in Consumers, NEW d \in cur'[c], pc'[c] = "settle", verdict'[c] = "dead_letter"
      PROVE  d[1] \in Poison
  <2>1. CASE pc'[c] = pc[c] /\ verdict'[c] = verdict[c] /\ cur'[c] = cur[c]
    BY <1>1, <2>1 DEF DeadForAReason
  <2>2. ASSUME NEW b \in Consumers, Work(b) \/ Break(b) PROVE d[1] \in Poison
    <3>1. CASE b # c
      <4>1. pc'[c] = pc[c] /\ cur'[c] = cur[c]
        BY <1>0, <2>2, <3>1, ReplicaStepFacts
      <4>2. verdict'[c] = verdict[c]
        BY <1>0, <2>2, <3>1 DEF Work, Break, Dispatch, Choke, Drain, Scan, Commit, Settle, EndBatch, StopIdle,
           Start, DbFails, CommitUnacknowledged, SettleFails, Sigterm, Kill, Exit, Decide, replica, TypeOK
      <4> QED BY <2>1, <4>1, <4>2
    <3>2. ASSUME b = c, NEW e \in batch[c], Dispatch(c, e) PROVE d[1] \in Poison
      BY <1>0, <1>1, <3>2 DEF Dispatch, Decide, TypeOK
    <3>3. CASE b = c /\ (Sigterm(c) \/ (\E e \in batch[c] : Drain(c, e)))
      BY <1>0, <1>1, <2>1, <3>3 DEF Sigterm, Drain, Exit, replica, TypeOK
    <3>4. CASE b = c /\ ~Sigterm(c) /\ ~(\E e \in batch[c] : Dispatch(c, e) \/ Drain(c, e))
      <4>1. ~(pc'[c] = "settle" /\ verdict'[c] = "dead_letter")
        BY <1>0, <2>2, <3>4 DEF Work, Break, Choke, Scan, Commit, Settle, EndBatch, StopIdle, Start, DbFails,
           CommitUnacknowledged, SettleFails, Kill, Exit, Decide, TypeOK
      <4> QED BY <1>1, <4>1
    <3> QED BY <2>2, <3>1, <3>2, <3>3, <3>4
  <2>3. CASE Rest \/ UNCHANGED vars
    BY <2>1, <2>3 DEF Rest, vars
  <2>4. ASSUME NEW m \in Messages, Send(m) \/ LockExpires(m) PROVE d[1] \in Poison
    BY <2>1, <2>4 DEF Send, LockExpires, replica
  <2>5. ASSUME NEW b \in Consumers, NEW S \in SUBSET Messages, Receive(b, S) PROVE d[1] \in Poison
    <3>1. pc' = [pc EXCEPT ![b] = "loop"] /\ verdict' = verdict /\ cur' = cur
      BY <2>5 DEF Receive
    <3>2. pc'[c] = pc[c]
      BY <1>0, <1>1, <3>1 DEF TypeOK
    <3> QED BY <2>1, <3>1, <3>2
  <2> QED BY <2>2, <2>3, <2>4, <2>5 DEF Next
<1>2. ASSUME NEW m \in Handled, state'[m] = "dead", m \notin ledger'
      PROVE  count'[m] >= MaxDelivery
  <2>0. m \in Messages /\ ledger \subseteq Messages /\ \A c \in Consumers : cur[c] \cup batch[c] \subseteq Deliveries
    BY <1>0 DEF TypeOK
  <2>1. CASE state'[m] = state[m] /\ count'[m] = count[m] /\ ledger \subseteq ledger'
    BY <1>2, <2>1 DEF DeadForAReason
  <2>2. ASSUME NEW c \in Consumers, Settle(c) \/ SettleFails(c) PROVE count'[m] >= MaxDelivery
    <3>1. PICK d \in cur[c] : state' = state \/ state' = [state EXCEPT ![d[1]] = Settled(d[1], verdict[c])]
      BY <2>2 DEF Settle, SettleFails
    <3>2. pc[c] = "settle" /\ UNCHANGED <<count, ledger>> /\ verdict[c] \in {"complete", "abandon", "dead_letter"}
      BY <1>0, <2>2 DEF Settle, SettleFails, database, TypeOK
    <3>3. CASE state'[m] = state[m]
      BY <2>1, <3>2, <3>3
    <3>4. CASE state'[m] # state[m]
      <4>1. m = d[1] /\ Settled(m, verdict[c]) = "dead"
        BY <1>0, <1>2, <2>0, <3>1, <3>4 DEF TypeOK
      <4>2. verdict[c] # "dead_letter"
        BY <1>0, <3>2, <4>1 DEF DeadForAReason
      <4> QED BY <3>2, <4>1, <4>2 DEF Settled, GivenBack
    <3> QED BY <3>3, <3>4
  <2>3. ASSUME NEW c \in Consumers, NEW d \in batch[c], Drain(c, d) PROVE count'[m] >= MaxDelivery
    <3>1. UNCHANGED <<count, ledger>>
          /\ (state' = state \/ state' = [state EXCEPT ![d[1]] = GivenBack(d[1])])
      BY <2>3 DEF Drain, Settled, database
    <3>2. CASE state'[m] = state[m]
      BY <2>1, <3>1, <3>2
    <3>3. CASE state'[m] # state[m]
      <4>1. m = d[1] /\ GivenBack(m) = "dead"
        BY <1>0, <1>2, <2>0, <3>1, <3>3 DEF TypeOK
      <4> QED BY <3>1, <4>1 DEF GivenBack
    <3> QED BY <3>2, <3>3
  <2>4. ASSUME NEW x \in Messages, Send(x) \/ LockExpires(x) PROVE count'[m] >= MaxDelivery
    <3>1. UNCHANGED <<count, ledger>>
          /\ (state' = [state EXCEPT ![x] = "active"] \/ state' = [state EXCEPT ![x] = GivenBack(x)])
      BY <2>4 DEF Send, LockExpires, database
    <3>2. CASE state'[m] = state[m]
      BY <2>1, <3>1, <3>2
    <3>3. CASE state'[m] # state[m]
      <4>1. m = x /\ GivenBack(m) = "dead"
        BY <1>0, <1>2, <2>0, <3>1, <3>3 DEF TypeOK
      <4> QED BY <3>1, <4>1 DEF GivenBack
    <3> QED BY <3>2, <3>3
  <2>5. ASSUME NEW c \in Consumers, NEW S \in SUBSET Messages, Receive(c, S) PROVE count'[m] >= MaxDelivery
    <3>1. m \notin S
      BY <1>0, <1>2, <2>0, <2>5, ReceiveFacts
    <3> QED BY <1>0, <2>0, <2>1, <2>5, <3>1, ReceiveFacts
  <2>6. CASE Rest \/ UNCHANGED vars
    BY <2>1, <2>6 DEF Rest, vars
  <2>7. ASSUME NEW c \in Consumers, Work(c) \/ Break(c), ~Settle(c), ~SettleFails(c),
               ~(\E d \in batch[c] : Drain(c, d))
        PROVE  count'[m] >= MaxDelivery
    <3>1. UNCHANGED broker
      BY <2>7 DEF Work, Break, Dispatch, Choke, Scan, Commit, EndBatch, StopIdle, Start, DbFails,
         CommitUnacknowledged, Sigterm, Kill
    <3>2. ledger \subseteq ledger'
      BY <2>7 DEF Work, Break, Dispatch, Choke, Scan, Commit, EndBatch, StopIdle, Start, DbFails,
         CommitUnacknowledged, Sigterm, Kill, database, Apply
    <3> QED BY <2>1, <3>1, <3>2 DEF broker
  <2> QED BY <2>2, <2>3, <2>4, <2>5, <2>6, <2>7 DEF Next
<1> QED BY <1>1, <1>2 DEF DeadForAReason

\* Replica c has the lock on m and will get to scan it: it is at it, or nothing
\* in its batch and no SIGTERM will stop it before.
InGoodHands(c, m) ==
  /\ state[m] = "locked"
  /\ \/ <<m, count[m]>> \in cur[c] /\ pc[c] \in {"scan", "commit"}
     \/ /\ <<m, count[m]>> \in batch[c] /\ c \notin sigterm
        /\ \A e \in HeldBy(c) : e[1] \notin Unreadable /\ LockValid(e)

Safe(m) == \E c \in Consumers : InGoodHands(c, m)

\* Replicas that got SIGTERM in a call that may still return messages.
LateCalls == {c \in sigterm : pc[c] = "idle"}

\* The deliveries of m but the one in good hands, and the batches still to be
\* received in vain, are paid for.
Paid(m) == count[m] + Cardinality(LateCalls) <= Breaks + (IF Safe(m) THEN 1 ELSE 0)

BreaksPay == \A m \in Handled \ ledger : Paid(m)

\* Breaks and late calls are numbers.
LEMMA Numbers ==
  ASSUME TypeOK
  PROVE  /\ IsFiniteSet(UnreadableDeliveries) /\ Cardinality(UnreadableDeliveries) \in Nat
         /\ Breaks \in Nat /\ IsFiniteSet(LateCalls) /\ Cardinality(LateCalls) \in Nat
<1>1. IsFiniteSet(Unreadable \X (1 .. MaxDelivery))
  <2>1. IsFiniteSet(1 .. MaxDelivery)
    BY ConsumerAssumption, FS_Interval
  <2> QED BY <2>1, ConsumerAssumption, FS_Product
<1>2. UnreadableDeliveries \in SUBSET (Unreadable \X (1 .. MaxDelivery))
  BY DEF UnreadableDeliveries
<1>3. IsFiniteSet(UnreadableDeliveries) /\ Cardinality(UnreadableDeliveries) \in Nat
  BY <1>1, <1>2, FS_Subset, FS_CardinalityType
<1>4. LateCalls \in SUBSET Consumers
  BY DEF TypeOK, LateCalls
<1>5. faults \in Nat
  BY ConsumerAssumption DEF TypeOK
<1> QED BY <1>3, <1>4, <1>5, ConsumerAssumption, FS_Subset, FS_CardinalityType DEF Breaks

\* A step without deliveries keeps what is paid as long as it leaves m in good
\* hands or is a fault.
LEMMA PayingSteps ==
  ASSUME TypeOK, TypeOK', NEW m \in Messages, Paid(m), UNCHANGED count,
         LateCalls' \subseteq LateCalls,
         faults' = faults + 1 \/ (faults' = faults /\ (Safe(m) => Safe(m)'))
  PROVE  Paid(m)'
<1>1. UnreadableDeliveries' = UnreadableDeliveries
  BY DEF UnreadableDeliveries
<1>2. /\ Cardinality(UnreadableDeliveries) \in Nat /\ Cardinality(LateCalls) \in Nat
      /\ Cardinality(LateCalls') \in Nat /\ Cardinality(LateCalls') <= Cardinality(LateCalls)
      /\ faults \in Nat /\ count[m] \in Nat /\ count'[m] = count[m]
  BY Numbers, FS_Subset, FS_CardinalityType, ConsumerAssumption DEF TypeOK
<1>3. count[m] + Cardinality(LateCalls)
        <= faults + Cardinality(UnreadableDeliveries) + (IF Safe(m) THEN 1 ELSE 0)
  BY DEF Paid, Breaks
<1>4. count'[m] + Cardinality(LateCalls')
        <= faults' + Cardinality(UnreadableDeliveries) + (IF Safe(m)' THEN 1 ELSE 0)
  <2>1. CASE faults' = faults + 1
    BY <1>2, <1>3, <2>1
  <2>2. CASE faults' = faults /\ (Safe(m) => Safe(m)')
    BY <1>2, <1>3, <2>2
  <2> QED BY <2>1, <2>2
<1> QED BY <1>1, <1>4 DEF Paid, Breaks

\* What a replica settles is in nobody else's hands.
LEMMA OthersStaySafe ==
  ASSUME TypeOK, HandsApart, NEW c \in Consumers, NEW b \in Consumers \ {c}, NEW m \in Messages,
         UNCHANGED count, pc'[b] = pc[b], batch'[b] = batch[b], cur'[b] = cur[b],
         b \in sigterm' <=> b \in sigterm,
         \/ UNCHANGED state
         \/ \E d \in HeldBy(c) : LockValid(d) /\ \E new : state' = [state EXCEPT ![d[1]] = new],
         InGoodHands(b, m)
  PROVE  InGoodHands(b, m)'
<1>0. \A e \in HeldBy(b) \cup HeldBy(c) :
        e[1] \in Messages /\ e = <<e[1], e[2]>> /\ count'[e[1]] = count[e[1]]
  BY DEF HeldBy, TypeOK, Deliveries
<1>1. \A e \in HeldBy(b) : LockValid(e) => LockValid(e)'
  <2> SUFFICES ASSUME NEW e \in HeldBy(b), LockValid(e) PROVE LockValid(e)'
    OBVIOUS
  <2>1. CASE UNCHANGED state
    BY <1>0, <2>1 DEF LockValid
  <2>2. CASE \E d \in HeldBy(c) : LockValid(d) /\ \E new : state' = [state EXCEPT ![d[1]] = new]
    <3>1. PICK d \in HeldBy(c) : LockValid(d) /\ \E new : state' = [state EXCEPT ![d[1]] = new]
      BY <2>2
    <3>2. e # d
      BY DEF HandsApart
    <3>3. e[1] # d[1]
      BY <1>0, <3>1, <3>2 DEF LockValid
    <3>4. state'[e[1]] = state[e[1]]
      BY <1>0, <3>1, <3>3 DEF TypeOK
    <3> QED BY <1>0, <3>4 DEF LockValid
  <2> QED BY <2>1, <2>2
<1>2. <<m, count[m]>> \in HeldBy(b) /\ count'[m] = count[m]
  BY DEF InGoodHands, HeldBy
<1>3. state'[m] = "locked"
  <2>1. LockValid(<<m, count[m]>>)
    BY DEF InGoodHands, LockValid
  <2>2. LockValid(<<m, count[m]>>)'
    <3> DEFINE e == <<m, count[m]>>
    <3>1. e \in HeldBy(b) /\ LockValid(e) /\ e = <<m, count'[m]>>
      BY <1>2, <2>1
    <3>2. state'[e[1]] = "locked"
      BY <1>1, <3>1 DEF LockValid
    <3> QED BY <3>2 DEF LockValid
  <2> QED BY <2>2 DEF LockValid
<1>4. HeldBy(b)' = HeldBy(b)
  BY DEF HeldBy
<1> QED BY <1>1, <1>2, <1>3, <1>4 DEF InGoodHands

\* A replica that works settles what it holds the lock of, or nothing.
LEMMA WorkFacts ==
  ASSUME TypeOK, HandsApart, NEW c \in Consumers, Work(c)
  PROVE  /\ faults' = faults /\ ledger \subseteq ledger'
         /\ LateCalls' \subseteq LateCalls
         /\ \/ UNCHANGED state
            \/ \E d \in HeldBy(c) : LockValid(d) /\ \E new : state' = [state EXCEPT ![d[1]] = new]
<1>1. faults' = faults /\ ledger \subseteq ledger'
  BY DEF Work, Dispatch, Choke, Drain, Scan, Commit, Settle, EndBatch, StopIdle, Start, Apply, database
<1>2. \/ UNCHANGED state
      \/ \E d \in HeldBy(c) : LockValid(d) /\ \E new : state' = [state EXCEPT ![d[1]] = new]
  <2>1. CASE Settle(c)
    BY <2>1 DEF Settle, HeldBy
  <2>2. ASSUME NEW d \in batch[c], Drain(c, d)
        PROVE  \/ UNCHANGED state
               \/ \E e \in HeldBy(c) : LockValid(e) /\ \E new : state' = [state EXCEPT ![e[1]] = new]
    BY <2>2 DEF Drain, HeldBy
  <2>3. CASE ~Settle(c) /\ ~(\E d \in batch[c] : Drain(c, d))
    BY <2>3 DEF Work, Dispatch, Choke, Scan, Commit, EndBatch, StopIdle, Start, broker
  <2> QED BY <2>1, <2>2, <2>3
<1>3. \A b \in Consumers \ {c} : pc'[b] = pc[b] /\ (b \in sigterm' <=> b \in sigterm)
  BY ReplicaStepFacts
<1>4. c \in sigterm' => c \in sigterm
  BY DEF Work, Dispatch, Choke, Drain, Scan, Commit, Settle, EndBatch, StopIdle, Start, Exit, replica
<1>5. c \in sigterm' /\ pc'[c] = "idle" => pc[c] = "idle"
  <2>1. CASE \E d \in batch[c] : Dispatch(c, d)
    BY <2>1 DEF TypeOK, Dispatch, Decide
  <2>2. CASE (\E d \in batch[c] : Choke(c, d) \/ Drain(c, d)) \/ Settle(c)
    BY <2>2 DEF TypeOK, Choke, Drain, Settle, Exit
  <2>3. CASE Scan(c) \/ Commit(c)
    BY <2>3 DEF TypeOK, Scan, Commit, Decide
  <2>4. CASE EndBatch(c) \/ StopIdle(c) \/ Start(c)
    BY <2>4 DEF TypeOK, EndBatch, StopIdle, Start, Draining
  <2> QED BY <2>1, <2>2, <2>3, <2>4 DEF Work
<1>6. sigterm \subseteq Consumers /\ sigterm' \subseteq Consumers
  <2>1. sigterm' \subseteq sigterm \cup {c}
    BY DEF Work, Dispatch, Choke, Drain, Scan, Commit, Settle, EndBatch, StopIdle, Start, Exit, replica
  <2> QED BY <2>1 DEF TypeOK
<1>7. LateCalls' \subseteq LateCalls
  BY <1>3, <1>4, <1>5, <1>6 DEF LateCalls
<1> QED BY <1>1, <1>2, <1>7

\* What a replica has in good hands it keeps there, until it is scanned.
LEMMA OwnStaySafe ==
  ASSUME IInv, HandsApart, NEW c \in Consumers, Work(c), NEW m \in Handled, m \notin ledger',
         InGoodHands(c, m)
  PROVE  InGoodHands(c, m)'
<1> DEFINE h == <<m, count[m]>>
<1>0. /\ TypeOK /\ m \in Messages /\ count' = count /\ m \notin ledger /\ OneAtATime
      /\ m \notin Unreadable /\ m \notin Ignored /\ m \notin Poison
  BY ReplicaStepFacts, WorkFacts, KindsAssumption DEF IInv, Messages
<1>1. state[m] = "locked" /\ LockValid(h) /\ (h \in cur[c] \/ h \in batch[c])
  BY DEF InGoodHands, LockValid
<1>2. ASSUME NEW d \in batch[c], Dispatch(c, d) PROVE InGoodHands(c, m)'
  <2>1. /\ UNCHANGED <<state, count, sigterm>> /\ pc[c] = "loop"
        /\ batch'[c] = batch[c] \ {d} /\ cur'[c] = {d}
    BY <1>0, <1>2 DEF Dispatch, broker, TypeOK
  <2>2. cur[c] = {} /\ h \in batch[c] /\ c \notin sigterm
        /\ \A e \in HeldBy(c) : e[1] \notin Unreadable /\ LockValid(e)
    BY <2>1 DEF HandsApart, InGoodHands
  <2>3. CASE d = h
    <3>1. pc'[c] = "scan"
      BY <1>0, <1>2, <2>3 DEF Dispatch, AlreadyProcessed, TypeOK
    <3> QED BY <1>1, <2>1, <2>3, <3>1 DEF InGoodHands
  <2>4. CASE d # h
    <3>1. HeldBy(c)' \subseteq HeldBy(c)
      BY <2>1, <1>2 DEF HeldBy
    <3>2. h \in batch'[c]
      BY <2>1, <2>2, <2>4
    <3> QED BY <1>1, <2>1, <2>2, <3>1, <3>2 DEF InGoodHands, LockValid
  <2> QED BY <2>3, <2>4
<1>3. ASSUME NEW d \in batch[c], Choke(c, d) \/ Drain(c, d) PROVE FALSE
  <2>1. pc[c] = "loop" /\ (d[1] \in Unreadable \/ c \in sigterm)
    BY <1>3 DEF Choke, Drain, Draining
  <2> QED BY <1>3, <2>1 DEF InGoodHands, HandsApart, HeldBy
<1>4. CASE Scan(c)
  <2>1. UNCHANGED <<state, count, sigterm, batch, cur>> /\ pc'[c] = "commit"
    BY <1>0, <1>4 DEF Scan, broker, TypeOK
  <2> QED BY <2>1 DEF InGoodHands, HeldBy, LockValid
<1>5. CASE Commit(c)
  <2>1. UNCHANGED <<state, count, sigterm, batch, cur>> /\ pc[c] = "commit"
    BY <1>5 DEF Commit, broker
  <2>2. h \notin cur[c]
    <3>1. ASSUME h \in cur[c] PROVE m \in ledger'
      <4>1. PICK d \in cur[c] : d[1] \in ledger \/ Apply(c, d[1])
        BY <1>5 DEF Commit
      <4>2. d = h
        BY <1>0, <3>1, <4>1 DEF OneAtATime
      <4> QED BY <1>0, <4>1, <4>2 DEF Apply
    <3> QED BY <3>1
  <2> QED BY <2>1, <2>2 DEF InGoodHands, HeldBy, LockValid
<1>6. CASE Settle(c)
  <2>1. pc[c] = "settle" /\ h \in batch[c] /\ c \notin sigterm
        /\ \A e \in HeldBy(c) : e[1] \notin Unreadable /\ LockValid(e)
    BY <1>6 DEF Settle, InGoodHands
  <2>2. PICK d \in cur[c] :
          /\ state' = [state EXCEPT ![d[1]] = Settled(d[1], verdict[c])]
          /\ cur' = [cur EXCEPT ![c] = {}] /\ UNCHANGED <<batch, sigterm>>
    BY <1>6, <2>1 DEF Settle, HeldBy
  <2>3. \A e \in batch[c] : e[1] # d[1]
    <3> SUFFICES ASSUME NEW e \in batch[c], e[1] = d[1] PROVE FALSE
      OBVIOUS
    <3>1. LockValid(e) /\ LockValid(d) /\ e \in Deliveries /\ d \in Deliveries
      BY <1>0, <2>1 DEF HeldBy, TypeOK
    <3>2. e = d
      BY <3>1 DEF LockValid, Deliveries
    <3> QED BY <3>2 DEF HandsApart
  <2>4. \A e \in batch[c] : state'[e[1]] = state[e[1]]
    BY <1>0, <2>2, <2>3 DEF TypeOK, Deliveries
  <2>5. HeldBy(c)' = batch[c] /\ batch'[c] = batch[c]
    BY <1>0, <2>2 DEF HeldBy, TypeOK
  <2>6. state'[m] = "locked"
    BY <1>1, <2>1, <2>4
  <2>7. \A e \in batch[c] : e[1] \notin Unreadable /\ LockValid(e)'
    BY <1>0, <2>1, <2>4 DEF HeldBy, LockValid
  <2> QED BY <1>0, <2>1, <2>2, <2>5, <2>6, <2>7 DEF InGoodHands
<1>7. CASE EndBatch(c) \/ StopIdle(c) \/ Start(c)
  <2>1. batch[c] = {} /\ cur[c] = {}
    BY <1>7 DEF EndBatch, StopIdle, Start, HandsApart
  <2> QED BY <1>1, <2>1
<1> QED BY <1>2, <1>3, <1>4, <1>5, <1>6, <1>7 DEF Work

\* A fault pays; SIGTERM to a replica that waits pays for the batch to come.
LEMMA FaultsPay ==
  ASSUME IInv, HandsApart, NEW c \in Consumers, Break(c), TypeOK',
         NEW m \in Handled, m \notin ledger', Paid(m)
  PROVE  Paid(m)'
<1>0. TypeOK /\ m \in Messages /\ count' = count
  BY ReplicaStepFacts DEF IInv, Messages
<1>1. faults' = faults + 1
  BY DEF Break, DbFails, CommitUnacknowledged, SettleFails, Sigterm, Kill, Fault
<1>2. CASE Sigterm(c) /\ pc[c] = "idle"
  <2>1. sigterm' = sigterm \cup {c} /\ c \notin sigterm /\ UNCHANGED <<state, count, pc, batch, cur>>
    BY <1>2 DEF Sigterm, broker, replica
  <2>2. LateCalls' = LateCalls \cup {c} /\ c \notin LateCalls
    BY <1>2, <2>1 DEF LateCalls
  <2>3. Cardinality(LateCalls') = Cardinality(LateCalls) + 1
    BY <1>0, <2>2, Numbers, FS_AddElement
  <2>4. Safe(m) => Safe(m)'
    <3>1. ASSUME NEW b \in Consumers, InGoodHands(b, m) PROVE InGoodHands(b, m)'
      <4>1. b # c
        BY <1>2, <3>1 DEF InGoodHands, HandsApart
      <4> QED BY <2>1, <3>1, <4>1 DEF InGoodHands, HeldBy, LockValid
    <3> QED BY <3>1 DEF Safe
  <2>5. UnreadableDeliveries' = UnreadableDeliveries
    BY <1>0 DEF UnreadableDeliveries
  <2>6. /\ Cardinality(UnreadableDeliveries) \in Nat /\ Cardinality(LateCalls) \in Nat
        /\ faults \in Nat /\ count[m] \in Nat /\ count'[m] = count[m]
    BY <1>0, Numbers, ConsumerAssumption DEF TypeOK
  <2>7. count[m] + Cardinality(LateCalls)
          <= faults + Cardinality(UnreadableDeliveries) + (IF Safe(m) THEN 1 ELSE 0)
    BY DEF Paid, Breaks
  <2>8. count'[m] + (Cardinality(LateCalls) + 1)
          <= faults + 1 + Cardinality(UnreadableDeliveries) + (IF Safe(m)' THEN 1 ELSE 0)
    BY <2>4, <2>6, <2>7
  <2> QED BY <1>1, <2>3, <2>5, <2>8 DEF Paid, Breaks
<1>3. CASE ~(Sigterm(c) /\ pc[c] = "idle")
  <2>1. \A b \in Consumers \ {c} : pc'[b] = pc[b] /\ (b \in sigterm' <=> b \in sigterm)
    BY <1>0, ReplicaStepFacts
  <2>2. c \in sigterm' /\ pc'[c] = "idle" => c \in sigterm /\ pc[c] = "idle"
    <3>1. CASE Sigterm(c)
      BY <1>3, <3>1 DEF Sigterm, replica
    <3>2. CASE DbFails(c) \/ CommitUnacknowledged(c)
      BY <1>0, <3>2 DEF DbFails, CommitUnacknowledged, Decide, TypeOK
    <3>3. CASE SettleFails(c) \/ Kill(c)
      BY <1>0, <3>3 DEF SettleFails, Kill, Exit, TypeOK
    <3> QED BY <3>1, <3>2, <3>3 DEF Break
  <2>3. LateCalls' \subseteq LateCalls
    BY <1>0, <2>1, <2>2 DEF LateCalls, TypeOK
  <2> QED BY <1>0, <1>1, <2>3, PayingSteps
<1> QED BY <1>2, <1>3

\* A delivery of m that is not in good hands has an unreadable message beside it,
\* or a replica that was told to stop.
LEMMA ReceivePays ==
  ASSUME IInv, HandsApart, NEW c \in Consumers, NEW S \in SUBSET Messages, Receive(c, S), TypeOK',
         NEW m \in Handled, Paid(m)
  PROVE  Paid(m)'
<1> DEFINE U == Cardinality(UnreadableDeliveries)
           V == Cardinality(UnreadableDeliveries')
           L == Cardinality(LateCalls)
           K == Cardinality(LateCalls')
<1>0. TypeOK /\ m \in Messages
  BY DEF IInv, Messages
<1>1. /\ \A x \in Messages : count'[x] = IF x \in S THEN count[x] + 1 ELSE count[x]
      /\ \A x \in Messages : state'[x] = IF x \in S THEN "locked" ELSE state[x]
      /\ \A x \in S : state[x] = "active"
      /\ batch[c] = {} /\ cur[c] = {} /\ cur' = cur
      /\ batch'[c] = {<<x, count[x] + 1>> : x \in S}
      /\ \A b \in Consumers \ {c} : batch'[b] = batch[b] /\ pc'[b] = pc[b]
      /\ pc[c] = "idle" /\ pc'[c] = "loop"
      /\ UNCHANGED <<sigterm, ledger, applied, faults>>
  BY <1>0, ReceiveFacts
<1>2. \A x \in Messages : count[x] \in Nat /\ count'[x] \in 0 .. MaxDelivery
  BY <1>0 DEF TypeOK
<1>3. UnreadableDeliveries \subseteq UnreadableDeliveries'
  <2>1. \A d \in Unreadable \X (1 .. MaxDelivery) : d[1] \in Messages /\ d[2] \in Nat
    BY ConsumerAssumption DEF Messages
  <2> QED BY <1>1, <1>2, <2>1 DEF UnreadableDeliveries
<1>4. IsFiniteSet(UnreadableDeliveries') /\ V \in Nat
  <2>1. IsFiniteSet(1 .. MaxDelivery)
    BY ConsumerAssumption, FS_Interval
  <2>2. IsFiniteSet(Unreadable \X (1 .. MaxDelivery))
    BY <2>1, ConsumerAssumption, FS_Product
  <2>3. UnreadableDeliveries' \in SUBSET (Unreadable \X (1 .. MaxDelivery))
    BY DEF UnreadableDeliveries
  <2> QED BY <2>2, <2>3, FS_Subset, FS_CardinalityType
<1>5. /\ U \in Nat /\ L \in Nat /\ IsFiniteSet(LateCalls) /\ faults \in Nat
      /\ IsFiniteSet(UnreadableDeliveries) /\ U <= V
      /\ UnreadableDeliveries' # UnreadableDeliveries => U < V
  <2>1. UnreadableDeliveries \in SUBSET UnreadableDeliveries'
    BY <1>3
  <2>2. U <= V /\ (V = U => UnreadableDeliveries' = UnreadableDeliveries)
    BY <1>4, <2>1, FS_Subset
  <2>3. faults \in Nat
    BY <1>0, ConsumerAssumption DEF TypeOK
  <2>4. U \in Nat /\ L \in Nat /\ IsFiniteSet(LateCalls) /\ IsFiniteSet(UnreadableDeliveries)
    BY <1>0, Numbers
  <2>5. V # U => U < V
    BY <1>4, <2>2, <2>4
  <2> QED BY <2>2, <2>3, <2>4, <2>5
<1>6. LateCalls' = LateCalls \ {c}
  BY <1>0, <1>1 DEF LateCalls, TypeOK
<1>7. K \in Nat /\ K = IF c \in sigterm THEN L - 1 ELSE L
  <2>1. c \in LateCalls <=> c \in sigterm
    BY <1>1 DEF LateCalls
  <2>2. K = IF c \in LateCalls THEN L - 1 ELSE L
    BY <1>5, <1>6, FS_RemoveElement
  <2>3. IsFiniteSet(LateCalls')
    BY <1>5, <1>6, FS_RemoveElement
  <2> QED BY <2>1, <2>2, <2>3, FS_CardinalityType
<1>8. count[m] + L <= faults + U + (IF Safe(m) THEN 1 ELSE 0)
  BY DEF Paid, Breaks
<1>9. count'[m] + K <= faults + V + (IF Safe(m)' THEN 1 ELSE 0)
  <2>1. CASE m \notin S
    <3>1. ASSUME NEW b \in Consumers, InGoodHands(b, m) PROVE InGoodHands(b, m)'
      <4>1. b # c
        BY <1>1, <3>1 DEF InGoodHands
      <4>2. \A e \in HeldBy(b) : e[1] \in Messages
        BY <1>0, CurrentDelivery DEF HeldBy
      <4>3. \A e \in HeldBy(b) : LockValid(e) => LockValid(e)'
        BY <1>1, <4>2 DEF LockValid
      <4>4. state'[m] = state[m] /\ count'[m] = count[m] /\ HeldBy(b)' = HeldBy(b)
        BY <1>0, <1>1, <2>1, <4>1 DEF HeldBy
      <4> QED BY <1>1, <3>1, <4>1, <4>3, <4>4 DEF InGoodHands
    <3>2. Safe(m) => Safe(m)'
      BY <3>1 DEF Safe
    <3>3. count'[m] = count[m] /\ count[m] \in Nat
      BY <1>0, <1>1, <1>2, <2>1
    <3> HIDE DEF U, V, L, K
    <3> QED BY <1>4, <1>5, <1>7, <1>8, <3>2, <3>3
  <2>2. CASE m \in S
    <3>1. ~Safe(m) /\ count'[m] = count[m] + 1 /\ count[m] \in Nat
      BY <1>0, <1>1, <1>2, <2>2 DEF Safe, InGoodHands
    <3>2. CASE c \in sigterm
      <4> HIDE DEF U, V, L, K
      <4> QED BY <1>4, <1>5, <1>7, <1>8, <3>1, <3>2
    <3>3. CASE c \notin sigterm /\ S \cap Unreadable # {}
      <4>1. PICK u \in S \cap Unreadable : TRUE
        BY <3>3
      <4>2. u \in Messages /\ count'[u] = count[u] + 1 /\ count[u] \in Nat /\ count'[u] \in 1 .. MaxDelivery
        BY <1>1, <1>2, <4>1
      <4>3. <<u, count'[u]>> \in UnreadableDeliveries' /\ <<u, count'[u]>> \notin UnreadableDeliveries
        BY <4>1, <4>2 DEF UnreadableDeliveries
      <4>4. U < V
        BY <1>5, <4>3
      <4> HIDE DEF U, V, L, K
      <4> QED BY <1>4, <1>5, <1>7, <1>8, <3>1, <3>3, <4>4
    <3>4. CASE c \notin sigterm /\ S \cap Unreadable = {}
      <4>1. HeldBy(c)' = batch'[c]
        BY <1>1 DEF HeldBy
      <4>2. \A e \in batch'[c] : e[1] \in S /\ e[1] \in Messages /\ e[2] = count'[e[1]]
        BY <1>1
      <4>3. \A e \in HeldBy(c)' : e[1] \notin Unreadable /\ LockValid(e)'
        BY <1>1, <3>4, <4>1, <4>2 DEF LockValid
      <4>4. <<m, count'[m]>> \in batch'[c] /\ state'[m] = "locked"
        BY <1>0, <1>1, <2>2
      <4>5. InGoodHands(c, m)'
        BY <1>1, <3>4, <4>3, <4>4 DEF InGoodHands
      <4>6. Safe(m)'
        BY <4>5 DEF Safe
      <4> HIDE DEF U, V, L, K
      <4> QED BY <1>4, <1>5, <1>7, <1>8, <3>1, <3>4, <4>6
    <3> QED BY <3>2, <3>3, <3>4
  <2> QED BY <2>1, <2>2
<1> QED BY <1>1, <1>9 DEF Paid, Breaks

\* A lock runs out without a fault only when nobody holds the delivery.
LEMMA BrokerPays ==
  ASSUME IInv, HandsApart, NEW x \in Messages, Send(x) \/ LockExpires(x), TypeOK',
         NEW m \in Handled, Paid(m)
  PROVE  Paid(m)'
<1>0. TypeOK /\ m \in Messages
  BY DEF IInv, Messages
<1>1. UNCHANGED <<count, pc, batch, cur, sigterm>> /\ LateCalls' = LateCalls
  BY DEF Send, LockExpires, replica, LateCalls
<1>2. \A y \in Messages \ {x} : state'[y] = state[y]
  BY <1>0 DEF Send, LockExpires, TypeOK
<1>3. CASE faults' = faults + 1
  BY <1>0, <1>1, <1>3, PayingSteps
<1>4. CASE faults' # faults + 1
  <2>1. faults' = faults /\ (state[x] = "unsent" \/ ~Held(x))
    BY <1>4 DEF Send, LockExpires, Fault
  <2>2. ASSUME NEW b \in Consumers, NEW e \in HeldBy(b), LockValid(e) PROVE e[1] # x /\ e[1] \in Messages
    <3>1. e[1] \in Messages /\ e = <<e[1], e[2]>>
      BY <1>0 DEF HeldBy, TypeOK, Deliveries
    <3>2. CASE state[x] = "unsent"
      BY <2>2, <3>1, <3>2 DEF LockValid
    <3>3. CASE ~Held(x)
      BY <2>2, <3>1, <3>3 DEF LockValid, Held, HeldBy
    <3> QED BY <2>1, <3>1, <3>2, <3>3
  <2>3. ASSUME NEW b \in Consumers, InGoodHands(b, m) PROVE InGoodHands(b, m)'
    <3>1. \A e \in HeldBy(b) : LockValid(e) => LockValid(e)'
      BY <1>1, <1>2, <2>2 DEF LockValid
    <3>2. m # x
      <4>1. <<m, count[m]>> \in HeldBy(b) /\ LockValid(<<m, count[m]>>)
        BY <2>3 DEF InGoodHands, HeldBy, LockValid
      <4>2. \A e \in HeldBy(b) : LockValid(e) => e[1] # x
        BY <2>2
      <4> QED BY <4>1, <4>2
    <3>3. state'[m] = state[m] /\ HeldBy(b)' = HeldBy(b)
      BY <1>0, <1>1, <1>2, <3>2 DEF HeldBy
    <3> QED BY <1>1, <2>3, <3>1, <3>3 DEF InGoodHands
  <2>4. Safe(m) => Safe(m)'
    BY <2>3 DEF Safe
  <2> QED BY <1>0, <1>1, <2>1, <2>4, PayingSteps
<1> QED BY <1>3, <1>4

\* Every step is paid for.
LEMMA PayStep ==
  ASSUME IInv, HandsApart, BreaksPay, [Next]_vars, TypeOK'
  PROVE  BreaksPay'
<1> SUFFICES ASSUME NEW m \in Handled, m \notin ledger' PROVE Paid(m)'
  BY DEF BreaksPay
<1>0. TypeOK /\ m \in Messages
  BY DEF IInv, Messages
<1>1. CASE Rest \/ UNCHANGED vars
  <2>1. UNCHANGED vars
    BY <1>1 DEF Rest
  <2>2. Paid(m)
    BY <2>1 DEF BreaksPay, vars
  <2> QED BY <2>1, <2>2 DEF vars, Paid, LateCalls, Breaks, UnreadableDeliveries, Safe, InGoodHands, HeldBy, LockValid
<1>2. ASSUME NEW x \in Messages, Send(x) \/ LockExpires(x) PROVE Paid(m)'
  <2>1. Paid(m)
    BY <1>2 DEF BreaksPay, Send, LockExpires, database
  <2> QED BY <1>2, <2>1, BrokerPays
<1>3. ASSUME NEW c \in Consumers, Work(c) PROVE Paid(m)'
  <2>1. Paid(m)
    BY <1>0, <1>3, WorkFacts DEF BreaksPay
  <2>2. /\ count' = count /\ faults' = faults /\ LateCalls' \subseteq LateCalls
        /\ \A b \in Consumers \ {c} : /\ pc'[b] = pc[b] /\ batch'[b] = batch[b] /\ cur'[b] = cur[b]
                                      /\ b \in sigterm' <=> b \in sigterm
        /\ \/ UNCHANGED state
           \/ \E d \in HeldBy(c) : LockValid(d) /\ \E new : state' = [state EXCEPT ![d[1]] = new]
    BY <1>0, <1>3, WorkFacts, ReplicaStepFacts
  <2>3. ASSUME NEW b \in Consumers, InGoodHands(b, m) PROVE InGoodHands(b, m)'
    <3>1. CASE b = c
      BY <1>3, <2>3, <3>1, OwnStaySafe
    <3>2. CASE b # c
      BY <1>0, <2>2, <2>3, <3>2, OthersStaySafe
    <3> QED BY <3>1, <3>2
  <2>4. Safe(m) => Safe(m)'
    BY <2>3 DEF Safe
  <2> QED BY <1>0, <2>1, <2>2, <2>4, PayingSteps
<1>4. ASSUME NEW c \in Consumers, Break(c) PROVE Paid(m)'
  <2>1. ledger \subseteq ledger'
    BY <1>4 DEF Break, DbFails, CommitUnacknowledged, SettleFails, Sigterm, Kill, database, Apply
  <2> QED BY <1>4, <2>1, FaultsPay DEF BreaksPay
<1>5. ASSUME NEW c \in Consumers, NEW S \in SUBSET Messages, Receive(c, S) PROVE Paid(m)'
  <2>1. Paid(m)
    BY <1>0, <1>5, ReceiveFacts DEF BreaksPay
  <2> QED BY <1>5, <2>1, ReceivePays
<1> QED BY <1>1, <1>2, <1>3, <1>4, <1>5 DEF Next

\* The strengthening by hands, locks, commits and payments.
LInv ==
  /\ IInv /\ HandsApart /\ OnceEach /\ LocksHeld /\ TwoTakeALostLock
  /\ DeadForAReason /\ BreaksPay

LEMMA LedgerInit == Init => LInv
<1> SUFFICES ASSUME Init PROVE LInv
  OBVIOUS
<1>1. IInv /\ TypeOK
  BY InitEstablishes DEF IInv
<1>2. HandsApart /\ DeadForAReason
  BY DEF Init, HandsApart, HeldBy, DeadForAReason, Messages
<1>3. OnceEach /\ LocksHeld /\ TwoTakeALostLock
  BY DEF Init, OnceEach, LocksHeld, TwoTakeALostLock, Pending, HeldBy
<1>4. BreaksPay
  <2>1. LateCalls = {} /\ \A m \in Handled : count[m] = 0
    BY DEF Init, LateCalls, Messages
  <2>2. Cardinality(LateCalls) = 0
    BY <2>1, FS_EmptySet
  <2> QED BY <1>1, <2>1, <2>2, Numbers DEF BreaksPay, Paid
<1> QED BY <1>1, <1>2, <1>3, <1>4 DEF LInv

LEMMA LedgerStep == LInv /\ [Next]_vars => LInv'
<1> SUFFICES ASSUME LInv, [Next]_vars PROVE LInv'
  OBVIOUS
<1>1. IInv /\ TypeOK /\ HandsApart /\ IInv' /\ TypeOK'
  BY StepKeepsIInv DEF LInv, IInv
<1> QED BY <1>1, HandsStep, OnceEachStep, LocksHeldStep, TwoTakeStep, DeadStep, PayStep DEF LInv
-----------------------------------------------------------------------------
\* Every delivery in a replica's hands names a message and one of its attempts.
THEOREM TypeCorrect == Spec => []TypeOK
<1>1. IInv => TypeOK
  BY DEF IInv
<1> QED BY InitEstablishes, StepKeepsIInv, <1>1, PTL DEF Spec

\* dispatch_message completes no handled event whose scan is not committed.
THEOREM CompletedMeansProcessed == Spec => []CompletedWasProcessed
<1>1. IInv => CompletedWasProcessed
  BY DEF IInv
<1> QED BY InitEstablishes, StepKeepsIInv, <1>1, PTL DEF Spec

\* processed_events holds exactly the events whose scan was committed.
THEOREM LedgerIsTrue == Spec => []LedgerTellsWhatWasApplied
<1>1. IInv => LedgerTellsWhatWasApplied
  BY DEF IInv
<1> QED BY InitEstablishes, StepKeepsIInv, <1>1, PTL DEF Spec

\* Two replicas may both pass the ledger check of an event and both commit its
\* scan, but no replica commits it twice: processed_events stops the second.
THEOREM AppliedOnceEach == Spec => []AppliedOncePerReplica
<1>1. LInv => AppliedOncePerReplica
  BY DEF LInv, OnceEach, AppliedOncePerReplica
<1> QED BY LedgerInit, LedgerStep, <1>1, PTL DEF Spec

\* is_already_processed lets a second replica scan an event only if its lock ran
\* out in the hands of the first: nothing else brings it back too early.
THEOREM TwiceTakesALostLock == Spec => []AppliedTwiceTakesALostLock
<1>1. LInv => AppliedTwiceTakesALostLock
  BY DEF LInv, TwoTakeALostLock, AppliedTwiceTakesALostLock
<1> QED BY LedgerInit, LedgerStep, <1>1, PTL DEF Spec

\* drain_loop loses an event, dead-lettered and never scanned, only after as many
\* faults and unreadable deliveries as the queue allows deliveries.
THEOREM LossTakesBreaks == Spec => []WorkLostOnlyByRepeatedBreaks
<1>1. LInv => WorkLostOnlyByRepeatedBreaks
  <2> SUFFICES ASSUME LInv, NEW m \in Handled, state[m] = "dead", m \notin ledger
               PROVE  Breaks >= MaxDelivery
    BY DEF WorkLostOnlyByRepeatedBreaks
  <2>1. TypeOK /\ Paid(m) /\ count[m] >= MaxDelivery /\ m \in Messages
    BY DEF LInv, IInv, DeadForAReason, BreaksPay, Messages
  <2>2. ~Safe(m)
    BY DEF Safe, InGoodHands
  <2>3. count[m] \in Nat /\ Cardinality(LateCalls) \in Nat /\ Breaks \in Nat /\ MaxDelivery \in Nat
    BY <2>1, Numbers, ConsumerAssumption DEF TypeOK
  <2> QED BY <2>1, <2>2, <2>3 DEF Paid
<1> QED BY LedgerInit, LedgerStep, <1>1, PTL DEF Spec
=============================================================================
