--------------------------- MODULE RosterConsumer ---------------------------
(***************************************************************************)
(* The consumer loop of roster-worker over its Service Bus queue: peek-lock*)
(* delivery, the settlement of each message, the idempotency ledger, crash *)
(* and restart of a replica, and the drain on SIGTERM.                     *)
(*                                                                         *)
(* A delivery is a pair <<m, n>>: the n-th time the broker handed out m.   *)
(* The lock a replica got with it is valid while m is still locked by that *)
(* delivery; settling without a valid lock raises, nothing in drain_loop   *)
(* catches it, main returns 1 and the container is restarted with an empty *)
(* batch.  What the scan writes is the subject of ConflictScan; here the   *)
(* effect of an event is how often each replica committed it.              *)
(***************************************************************************)
EXTENDS Naturals, FiniteSets

CONSTANTS
  Consumers,     \* replicas of roster-worker
  Handled,       \* events of a type the worker handles
  Ignored,       \* events of any other type
  Poison,        \* bodies that raise PermanentError: not JSON, no shift_id, ...
  Unreadable,    \* bodies that raise outside process_one's try: not UTF-8, a JSON scalar
  MaxDelivery,   \* max_delivery_count of the queue
  BatchSize,     \* deliveries one replica holds: batch and prefetch buffer
  MaxFaults,     \* bound on the faults of one behaviour
  MaxSent        \* bound on the messages sent in one behaviour

Messages == Handled \cup Ignored \cup Poison \cup Unreadable

ASSUME ConsumerAssumption ==
  /\ IsFiniteSet(Consumers) /\ IsFiniteSet(Unreadable)
  /\ MaxDelivery \in Nat \ {0}
  /\ BatchSize \in Nat \ {0}
  /\ MaxFaults \in Nat /\ MaxSent \in Nat

ASSUME KindsAssumption ==
  /\ Handled \cap (Ignored \cup Poison \cup Unreadable) = {}
  /\ Ignored \cap (Poison \cup Unreadable) = {}
  /\ Poison \cap Unreadable = {}

VARIABLES
  state,     \* of each message in the broker
  count,     \* delivery_count of each message
  pc,        \* where the loop of each replica is
  batch,     \* deliveries received and not yet dispatched
  cur,       \* the delivery being dispatched, as a set of at most one
  verdict,   \* how the current delivery will be settled
  seen,      \* the merge of mark_processed found the ledger row
  sigterm,   \* replicas whose _shutdown event is set
  ledger,    \* the processed_events table
  applied,   \* how often each replica committed the scan of each event
  overrun,   \* history: messages whose lock ran out in the hands of a replica
  faults     \* faults so far

vars == <<state, count, pc, batch, cur, verdict, seen, sigterm, ledger, applied, overrun, faults>>

broker == <<state, count, overrun>>
replica == <<pc, batch, cur, verdict, seen>>
database == <<ledger, applied>>

Deliveries == Messages \X (1 .. MaxDelivery)

\* Type invariant: every delivery names a message and one of its attempts.
TypeOK ==
  /\ state \in [Messages -> {"unsent", "active", "locked", "completed", "dead"}]
  /\ count \in [Messages -> 0 .. MaxDelivery]
  /\ pc \in [Consumers -> {"idle", "loop", "scan", "commit", "settle", "stopped"}]
  /\ batch \in [Consumers -> SUBSET Deliveries]
  /\ cur \in [Consumers -> SUBSET Deliveries]
  /\ verdict \in [Consumers -> {"complete", "abandon", "dead_letter"}]
  /\ seen \in [Consumers -> BOOLEAN]
  /\ sigterm \subseteq Consumers
  /\ ledger \subseteq Messages
  /\ applied \in [Messages -> [Consumers -> Nat]]
  /\ overrun \subseteq Messages
  /\ faults \in 0 .. MaxFaults

Init ==
  /\ state = [m \in Messages |-> "unsent"]
  /\ count = [m \in Messages |-> 0]
  /\ pc = [c \in Consumers |-> "idle"]
  /\ batch = [c \in Consumers |-> {}]
  /\ cur = [c \in Consumers |-> {}]
  /\ verdict = [c \in Consumers |-> "complete"]
  /\ seen = [c \in Consumers |-> FALSE]
  /\ sigterm = {} /\ ledger = {} /\ overrun = {} /\ faults = 0
  /\ applied = [m \in Messages |-> [c \in Consumers |-> 0]]
-----------------------------------------------------------------------------
Fault == faults < MaxFaults /\ faults' = faults + 1

\* Mutation of Draining: the loops never look at _shutdown.
NeverDraining(c) == FALSE

\* _shutdown.is_set(), as the loops of drain_loop read it.
Draining(c) == c \in sigterm

\* Mutation of AlreadyProcessed: the ledger is not consulted.
NeverProcessed(m) == FALSE

AlreadyProcessed(m) == m \in ledger

\* The broker takes a settlement only from the delivery that holds the lock.
LockValid(d) == state[d[1]] = "locked" /\ count[d[1]] = d[2]

\* A message given back is delivered again until its deliveries are used up.
GivenBack(m) == IF count[m] >= MaxDelivery THEN "dead" ELSE "active"

Settled(m, how) ==
  CASE how = "complete"    -> "completed"
    [] how = "dead_letter" -> "dead"
    [] how = "abandon"     -> GivenBack(m)

\* The process ends and kubelet starts it again, unless the pod is going away.
\* What it held stays locked in the broker.
Exit(c) ==
  /\ pc' = [pc EXCEPT ![c] = IF c \in sigterm THEN "stopped" ELSE "idle"]
  /\ batch' = [batch EXCEPT ![c] = {}]
  /\ cur' = [cur EXCEPT ![c] = {}]
  /\ UNCHANGED <<verdict, seen, sigterm>>

\* dispatch_message decides how to settle the current delivery.
Decide(c, how) ==
  /\ pc' = [pc EXCEPT ![c] = "settle"]
  /\ verdict' = [verdict EXCEPT ![c] = how]

Send(m) ==
  /\ state[m] = "unsent" /\ Cardinality({x \in Messages : state[x] # "unsent"}) < MaxSent
  /\ state' = [state EXCEPT ![m] = "active"]
  /\ UNCHANGED <<count, overrun, replica, sigterm, database, faults>>

\* receiver.receive_messages returns, prefetch buffer included.  A call that
\* was waiting when SIGTERM arrived may still return messages.
Receive(c, S) ==
  /\ pc[c] = "idle"
  /\ Cardinality(S) \in 1 .. BatchSize
  /\ \A m \in S : state[m] = "active"
  /\ state' = [m \in Messages |-> IF m \in S THEN "locked" ELSE state[m]]
  /\ count' = [m \in Messages |-> IF m \in S THEN count[m] + 1 ELSE count[m]]
  /\ batch' = [batch EXCEPT ![c] = {<<m, count[m] + 1>> : m \in S}]
  /\ pc' = [pc EXCEPT ![c] = "loop"]
  /\ UNCHANGED <<overrun, cur, verdict, seen, sigterm, database, faults>>

\* dispatch_message up to the ledger check of handle_event.
Dispatch(c, d) ==
  /\ pc[c] = "loop" /\ ~Draining(c)
  /\ d \in batch[c] /\ d[1] \notin Unreadable
  /\ batch' = [batch EXCEPT ![c] = @ \ {d}]
  /\ cur' = [cur EXCEPT ![c] = {d}]
  /\ \/ d[1] \in Ignored /\ Decide(c, "complete")
     \/ d[1] \in Poison /\ Decide(c, "dead_letter")
     \/ d[1] \in Handled /\ AlreadyProcessed(d[1]) /\ Decide(c, "complete")
     \/ /\ d[1] \in Handled /\ ~AlreadyProcessed(d[1])
        /\ pc' = [pc EXCEPT ![c] = "scan"]
        /\ UNCHANGED verdict
  /\ UNCHANGED <<broker, seen, sigterm, database, faults>>

\* Mutation of Choke: the exception is caught and the same message tried again.
ChokeAgain(c, d) ==
  /\ pc[c] = "loop" /\ ~Draining(c)
  /\ d \in batch[c] /\ d[1] \in Unreadable
  /\ UNCHANGED vars

\* The body cannot be decoded or is no object: the exception leaves
\* dispatch_message and ends the process, the message unsettled.
Choke(c, d) ==
  /\ pc[c] = "loop" /\ ~Draining(c)
  /\ d \in batch[c] /\ d[1] \in Unreadable
  /\ Exit(c)
  /\ UNCHANGED <<broker, database, faults>>

\* _rescan_shift, then session.merge: the pending rows are flushed and the
\* ledger is read again.
Scan(c) ==
  /\ pc[c] = "scan"
  /\ \E d \in cur[c] : seen' = [seen EXCEPT ![c] = d[1] \in ledger]
  /\ pc' = [pc EXCEPT ![c] = "commit"]
  /\ UNCHANGED <<broker, batch, cur, verdict, sigterm, database, faults>>

\* The scan and its ledger row become visible together.
Apply(c, m) ==
  /\ ledger' = ledger \cup {m}
  /\ applied' = [applied EXCEPT ![m][c] = @ + 1]

\* session.commit(): merge updates a ledger row it saw; one it did not see it
\* inserts, and a row that came in between raises IntegrityError.
Commit(c) ==
  /\ pc[c] = "commit"
  /\ \E d \in cur[c] :
       IF seen[c] \/ d[1] \notin ledger
       THEN Apply(c, d[1]) /\ Decide(c, "complete")
       ELSE UNCHANGED database /\ Decide(c, "abandon")
  /\ UNCHANGED <<broker, batch, cur, seen, sigterm, faults>>

\* Mutation of DbFails: the exception is swallowed and the message completed.
DbFailsSwallowed(c) ==
  /\ pc[c] \in {"scan", "commit"} /\ Fault
  /\ Decide(c, "complete")
  /\ UNCHANGED <<broker, batch, cur, seen, sigterm, database>>

\* Mutation of DbFails: the ledger row is committed by itself.
DbFailsAfterMark(c) ==
  /\ pc[c] \in {"scan", "commit"} /\ Fault
  /\ ledger' = ledger \cup {d[1] : d \in cur[c]}
  /\ Decide(c, "abandon")
  /\ UNCHANGED <<broker, batch, cur, seen, sigterm, applied>>

\* Mutation of DbFails: every exception is taken for a permanent one.
DbFailsForGood(c) ==
  /\ pc[c] \in {"scan", "commit"} /\ Fault
  /\ Decide(c, "dead_letter")
  /\ UNCHANGED <<broker, batch, cur, seen, sigterm, database>>

\* The database fails: process_one rolls back and raises TransientError.
DbFails(c) ==
  /\ pc[c] \in {"scan", "commit"} /\ Fault
  /\ Decide(c, "abandon")
  /\ UNCHANGED <<broker, batch, cur, seen, sigterm, database>>

\* The commit goes through and its acknowledgement is lost.
CommitUnacknowledged(c) ==
  /\ pc[c] = "commit" /\ Fault
  /\ \E d \in cur[c] : (seen[c] \/ d[1] \notin ledger) /\ Apply(c, d[1])
  /\ Decide(c, "abandon")
  /\ UNCHANGED <<broker, batch, cur, seen, sigterm>>

\* complete_message, abandon_message or dead_letter_message; without a valid
\* lock they raise.
Settle(c) ==
  /\ pc[c] = "settle"
  /\ \E d \in cur[c] :
       \/ /\ LockValid(d)
          /\ state' = [state EXCEPT ![d[1]] = Settled(d[1], verdict[c])]
          /\ pc' = [pc EXCEPT ![c] = "loop"]
          /\ cur' = [cur EXCEPT ![c] = {}]
          /\ UNCHANGED <<batch, verdict, seen, sigterm>>
       \/ /\ ~LockValid(d)
          /\ Exit(c)
          /\ UNCHANGED state
  /\ UNCHANGED <<count, overrun, database, faults>>

\* The settlement raises for another reason, before or after the broker took it.
SettleFails(c) ==
  /\ pc[c] = "settle" /\ Fault
  /\ \E d \in cur[c] :
       /\ LockValid(d)
       /\ state' \in {state, [state EXCEPT ![d[1]] = Settled(d[1], verdict[c])]}
  /\ Exit(c)
  /\ UNCHANGED <<count, overrun, database>>

\* After SIGTERM the rest of the batch is given back without being dispatched.
Drain(c, d) ==
  /\ pc[c] = "loop" /\ Draining(c) /\ d \in batch[c]
  /\ \/ /\ LockValid(d)
        /\ state' = [state EXCEPT ![d[1]] = Settled(d[1], "abandon")]
        /\ batch' = [batch EXCEPT ![c] = @ \ {d}]
        /\ UNCHANGED <<pc, cur, verdict, seen, sigterm>>
     \/ /\ ~LockValid(d)
        /\ Exit(c)
        /\ UNCHANGED state
  /\ UNCHANGED <<count, overrun, database, faults>>

\* The for loop over the batch ends; the while loop looks at _shutdown.
EndBatch(c) ==
  /\ pc[c] = "loop" /\ batch[c] = {}
  /\ pc' = [pc EXCEPT ![c] = IF Draining(c) THEN "stopped" ELSE "idle"]
  /\ UNCHANGED <<broker, batch, cur, verdict, seen, sigterm, database, faults>>

\* receive_messages returned nothing, or raised, and _shutdown is set.
StopIdle(c) ==
  /\ pc[c] = "idle" /\ Draining(c)
  /\ pc' = [pc EXCEPT ![c] = "stopped"]
  /\ UNCHANGED <<broker, batch, cur, verdict, seen, sigterm, database, faults>>

\* The Deployment replaces a pod that went away.
Start(c) ==
  /\ pc[c] = "stopped"
  /\ pc' = [pc EXCEPT ![c] = "idle"]
  /\ sigterm' = sigterm \ {c}
  /\ UNCHANGED <<broker, batch, cur, verdict, seen, database, faults>>

Sigterm(c) ==
  /\ c \notin sigterm /\ pc[c] # "stopped" /\ Fault
  /\ sigterm' = sigterm \cup {c}
  /\ UNCHANGED <<broker, replica, database>>

\* The container is killed, whatever it was doing.
Kill(c) ==
  /\ pc[c] \notin {"idle", "stopped"} /\ Fault
  /\ Exit(c)
  /\ UNCHANGED <<broker, database>>

Held(m) == \E c \in Consumers : <<m, count[m]>> \in batch[c] \cup cur[c]

\* The lock runs out: because its holder is gone, or is slower than the lock.
LockExpires(m) ==
  /\ state[m] = "locked"
  /\ IF Held(m) THEN Fault /\ overrun' = overrun \cup {m} ELSE UNCHANGED <<faults, overrun>>
  /\ state' = [state EXCEPT ![m] = GivenBack(m)]
  /\ UNCHANGED <<count, replica, sigterm, database>>

Work(c) ==
  \/ \E d \in batch[c] : Dispatch(c, d) \/ Choke(c, d) \/ Drain(c, d)
  \/ Scan(c) \/ Commit(c) \/ Settle(c)
  \/ EndBatch(c) \/ StopIdle(c) \/ Start(c)

Break(c) ==
  DbFails(c) \/ CommitUnacknowledged(c) \/ SettleFails(c) \/ Sigterm(c) \/ Kill(c)

\* Nothing is left to receive: the replicas poll an empty queue.
Rest ==
  /\ \A m \in Messages : state[m] \in {"unsent", "completed", "dead"}
  /\ \A c \in Consumers : pc[c] = "idle"
  /\ UNCHANGED vars

Next ==
  \/ Rest
  \/ \E m \in Messages : Send(m) \/ LockExpires(m)
  \/ \E c \in Consumers : Work(c) \/ Break(c) \/ \E S \in SUBSET Messages : Receive(c, S)

Spec == Init /\ [][Next]_vars

\* A replica that can take a step takes it, a lock without a holder runs out,
\* and the broker hands what is active to a replica that asks for it.
FairSpec ==
  /\ Spec
  /\ \A c \in Consumers :
       WF_vars(Work(c)) /\ WF_vars(\E S \in SUBSET Messages : Receive(c, S))
  /\ \A m \in Messages : WF_vars(~Held(m) /\ LockExpires(m))
-----------------------------------------------------------------------------
\* A message leaves the queue as completed only if it needed no work or its
\* work and its ledger row are committed: settlement follows the commit.
CompletedWasProcessed ==
  \A m \in Messages : state[m] = "completed" => m \in Ignored \/ m \in Handled \cap ledger

\* The ledger tells exactly which events were scanned, through every failure
\* between the statements of a transaction: the two are written together.
LedgerTellsWhatWasApplied ==
  \A m \in Messages : m \in ledger <=> \E c \in Consumers : applied[m][c] > 0

\* models.py: the ledger keeps a redelivery from being written twice.  Two
\* replicas may both pass the ledger check, and merge turns the second row into
\* an update; but no replica commits the scan of an event twice, whatever it
\* restarts, loses or receives again in between.
AppliedOncePerReplica == \A m \in Messages, c \in Consumers : applied[m][c] <= 1

\* Two replicas apply an event only if its lock ran out while a replica still
\* held it: crashes, failed settlements, drains and lost acknowledgements bring
\* the event back as often, and the ledger check stops each of them.
AppliedTwiceTakesALostLock ==
  \A m \in Messages, c, b \in Consumers :
    c # b /\ applied[m][c] > 0 /\ applied[m][b] > 0 => m \in overrun

UnreadableDeliveries == {d \in Unreadable \X (1 .. MaxDelivery) : d[2] <= count[d[1]]}

\* The faults so far, and the deliveries of unreadable messages, each of which
\* ends the process that gets to it.
Breaks == faults + Cardinality(UnreadableDeliveries)

\* An event nobody has scanned is dead-lettered only after as many breaks as the
\* queue allows deliveries; drains, kills, lost locks and unreadable neighbours
\* count as much as failures of the handler.
WorkLostOnlyByRepeatedBreaks ==
  \A m \in Handled : state[m] = "dead" /\ m \notin ledger => Breaks >= MaxDelivery

\* Every message sent is settled in the end.
EverySentIsSettled ==
  \A m \in Messages : state[m] = "active" ~> state[m] \in {"completed", "dead"}

\* With fewer breaks than deliveries every handled event is scanned in the end.
EveryEventIsScanned ==
  \A m \in Handled : state[m] = "active" ~> m \in ledger \/ Breaks >= MaxDelivery

\* A drain ends: no replica stays in its loop after SIGTERM.
DrainEnds == \A c \in Consumers : c \in sigterm ~> pc[c] = "stopped"
=============================================================================
