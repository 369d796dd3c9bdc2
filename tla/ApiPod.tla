------------------------------- MODULE ApiPod -------------------------------
(***************************************************************************)
(* One pod of shift-api: its request threads, its database connections     *)
(* and the probes by which the kubelet starts, feeds and restarts it.      *)
(*                                                                         *)
(* Every handler is a plain function, run in the thread pool of the web    *)
(* framework.  A request takes a thread for its handler and once more to   *)
(* render the response; it takes a connection with its first statement     *)
(* and keeps it, between those threads too, until get_db has committed.    *)
(* The commit runs outside the pool of threads.  /readyz and /startupz are *)
(* such requests; /healthz takes a thread and no connection.               *)
(*                                                                         *)
(* Time is not modelled but for two facts.  A probe may time out while it  *)
(* waits, and not when nothing holds it up.  The kubelet sends probes at   *)
(* intervals that are long to a thread nothing holds up, and of which the  *)
(* timeout of the pool of connections is a small multiple.                 *)
(***************************************************************************)
EXTENDS Naturals, FiniteSets

CONSTANTS
  Clients,    \* requests of the API, each repeated at will
  Probes,     \* requests of /readyz and /startupz the pod may be serving at once
  NoProbe,    \* the kubelet awaits none
  Threads,    \* size of the thread pool
  PoolSize,   \* pool_size + max_overflow
  Patience,   \* probes the kubelet sends within the timeout of the pool
  StartupThreshold, ReadinessThreshold, LivenessThreshold

\* 15 connections, a pool timeout of 30 s, a probe every 2 s until the pod has
\* started and every 5 s afterwards, and 40 threads.
ASSUME PodAssumption ==
  /\ IsFiniteSet(Clients) /\ IsFiniteSet(Probes) /\ Clients \cap Probes = {}
  /\ NoProbe \notin Probes
  /\ Threads \in Nat /\ Patience \in Nat /\ PoolSize + Patience + 1 < Threads
  /\ {PoolSize, StartupThreshold, ReadinessThreshold, LivenessThreshold} \subseteq Nat \ {0}

VARIABLES
  db,         \* the database answers, or is slow or gone
  pc,         \* where each request is
  conns,      \* requests that hold a connection
  degraded,   \* probes that answer 503
  waited,     \* probes sent while each one waits for a connection
  served,     \* history: since the container started, a client has been served
  awaited,    \* the probe the kubelet awaits
  started,    \* /startupz has succeeded
  ready,      \* the pod is among the endpoints of the service
  misses,     \* consecutive failures of the startup or readiness probe
  silences    \* consecutive failures of the liveness probe

kubelet == <<awaited, started, ready, misses, silences>>
vars == <<db, pc, conns, degraded, waited, served, kubelet>>

Requests == Clients \cup Probes

\* Type invariant: no more threads and connections are held than there are, and
\* none is held by a request that has ended.
TypeOK ==
  /\ db \in {"up", "slow"}
  /\ pc \in [Requests -> {"idle", "queued", "connect", "query", "returned", "render", "commit"}]
  /\ conns \subseteq {r \in Requests : pc[r] \in {"query", "returned", "render", "commit"}}
  /\ Cardinality(conns) <= PoolSize
  /\ Cardinality({r \in Requests : pc[r] \in {"connect", "query", "render"}}) <= Threads
  /\ degraded \subseteq {p \in Probes : pc[p] \in {"returned", "render", "commit"}}
  /\ waited \in [Probes -> 0 .. Patience] /\ served \in BOOLEAN
  /\ awaited \in Probes \cup {NoProbe}
  /\ started \in BOOLEAN /\ ready \in BOOLEAN /\ (ready => started)
  /\ misses \in Nat /\ silences \in 0..LivenessThreshold

Init ==
  /\ db \in {"up", "slow"}
  /\ pc = [r \in Requests |-> "idle"]
  /\ conns = {} /\ degraded = {}
  /\ waited = [p \in Probes |-> 0] /\ served = FALSE
  /\ awaited = NoProbe /\ started = FALSE /\ ready = FALSE
  /\ misses = 0 /\ silences = 0
-----------------------------------------------------------------------------
Running == {r \in Requests : pc[r] \in {"connect", "query", "render"}}

FreeThread == Cardinality(Running) < Threads

FreeConnection == Cardinality(conns) < PoolSize

Go(r, where) == pc' = [pc EXCEPT ![r] = where]

\* The startup or the readiness probe fails once more.
Miss ==
  LET threshold == IF started THEN ReadinessThreshold ELSE StartupThreshold IN
  /\ misses' = IF misses < threshold THEN misses + 1 ELSE misses
  /\ ready' = (ready /\ misses' < ReadinessThreshold)
  /\ UNCHANGED started

\* It succeeds: the pod has started, or is ready.
Hit == misses' = 0 /\ started' = TRUE /\ ready' = started

\* The kubelet learns how the probe p ended, unless it has given it up.
Report(p, ok) ==
  /\ IF p = awaited THEN awaited' = NoProbe /\ (IF ok THEN Hit ELSE Miss)
     ELSE UNCHANGED <<awaited, started, ready, misses>>
  /\ UNCHANGED silences

\* The kubelet has decided to restart the container.
Doomed == silences = LivenessThreshold \/ (~started /\ misses = StartupThreshold)
-----------------------------------------------------------------------------
\* Mutation of Arrive: readiness does not gate the traffic.
ArriveAnyway(c) ==
  /\ started /\ pc[c] = "idle" /\ Go(c, "queued")
  /\ served' = TRUE
  /\ UNCHANGED <<db, conns, degraded, waited, kubelet>>

\* A client's request is routed to the pod.
Arrive(c) ==
  /\ ready /\ pc[c] = "idle" /\ Go(c, "queued")
  /\ served' = TRUE
  /\ UNCHANGED <<db, conns, degraded, waited, kubelet>>

\* The probe waits for a thread, a connection or the database.
HeldUp(p) ==
  \/ pc[p] \in {"queued", "returned"} /\ ~FreeThread
  \/ pc[p] = "connect" /\ ~FreeConnection
  \/ pc[p] \in {"query", "commit"} /\ db = "slow"

\* A probe that nothing holds up, or that has waited for a connection as long as
\* the pool lets it, goes on before the next one is sent.
Overdue(p) ==
  pc[p] # "idle" /\ (~HeldUp(p) \/ (pc[p] = "connect" /\ waited[p] = Patience))

\* The kubelet sends /startupz or /readyz, and awaits one at a time.
SendProbe(p) ==
  /\ awaited = NoProbe /\ ~Doomed /\ pc[p] = "idle" /\ Go(p, "queued")
  /\ \A q \in Probes : ~Overdue(q)
  /\ waited' = [q \in Probes |-> IF pc[q] = "connect" THEN waited[q] + 1 ELSE waited[q]]
  /\ awaited' = p
  /\ UNCHANGED <<db, conns, degraded, served, started, ready, misses, silences>>

TakeThread(r) ==
  /\ pc[r] = "queued" /\ FreeThread /\ Go(r, "connect")
  /\ waited' = [p \in Probes |-> IF p = r THEN 0 ELSE waited[p]]
  /\ UNCHANGED <<db, conns, degraded, served, kubelet>>

\* The first statement takes a connection.
Connect(r) ==
  /\ pc[r] = "connect" /\ FreeConnection /\ Go(r, "query")
  /\ conns' = conns \cup {r}
  /\ UNCHANGED <<db, degraded, waited, served, kubelet>>

\* A handler raises.  A client sees a 500 and get_db closes the session; the
\* readiness handler catches the error and answers 503.
Raise(r) ==
  IF r \in Probes
  THEN /\ Go(r, "returned") /\ degraded' = degraded \cup {r} /\ UNCHANGED conns
  ELSE /\ Go(r, "idle") /\ conns' = conns \ {r} /\ UNCHANGED degraded

\* Mutation of PoolTimeout: the pool waits for ever.
PoolWaits(r) == pc[r] = "connect" /\ ~FreeConnection /\ UNCHANGED vars

\* No connection came free in time.
PoolTimeout(r) ==
  /\ pc[r] = "connect" /\ ~FreeConnection /\ Raise(r)
  /\ UNCHANGED <<db, waited, served, kubelet>>

\* The statements of the handler are answered, and it returns.
Answered(r) ==
  /\ pc[r] = "query" /\ db = "up" /\ Go(r, "returned")
  /\ UNCHANGED <<db, conns, degraded, waited, served, kubelet>>

\* A statement of the handler, or of the rendering of its result, fails.
QueryFails(r) ==
  /\ db = "slow"
  /\ pc[r] = "query" \/ (pc[r] = "render" /\ r \in Clients)
  /\ Raise(r)
  /\ UNCHANGED <<db, waited, served, kubelet>>

\* The response is rendered in a thread of the pool.
TakeThreadAgain(r) ==
  /\ pc[r] = "returned" /\ FreeThread /\ Go(r, "render")
  /\ UNCHANGED <<db, conns, degraded, waited, served, kubelet>>

Rendered(r) ==
  /\ pc[r] = "render" /\ (db = "up" \/ r \in Probes) /\ Go(r, "commit")
  /\ UNCHANGED <<db, conns, degraded, waited, served, kubelet>>

\* get_db commits, or the commit fails, and the session is closed.
Close(r) ==
  /\ pc[r] = "commit" /\ Go(r, "idle")
  /\ conns' = conns \ {r} /\ degraded' = degraded \ {r}
  /\ Report(r, r \notin degraded /\ db = "up")
  /\ UNCHANGED <<db, waited, served>>

\* The kubelet gives the probe up; the pod goes on serving it.
ProbeTimeout(p) ==
  /\ awaited = p /\ HeldUp(p) /\ awaited' = NoProbe /\ Miss
  /\ UNCHANGED <<db, pc, conns, degraded, waited, served, silences>>

\* /healthz is answered by any free thread.
Alive ==
  /\ started /\ ~Doomed /\ FreeThread /\ silences' = 0
  /\ UNCHANGED <<db, pc, conns, degraded, waited, served, awaited, started, ready, misses>>

\* Mutation of NoAnswer: /healthz opens a session like /readyz.
NoAnswerFromDatabase == ~FreeThread \/ ~FreeConnection

\* /healthz waits for a thread until the kubelet gives up.
NoAnswer == ~FreeThread

Silent ==
  /\ started /\ ~Doomed /\ NoAnswer /\ silences' = silences + 1
  /\ UNCHANGED <<db, pc, conns, degraded, waited, served, awaited, started, ready, misses>>

\* The container is restarted: whoever was being served is cut off.
Restart ==
  /\ Doomed
  /\ pc' = [r \in Requests |-> "idle"]
  /\ conns' = {} /\ degraded' = {}
  /\ waited' = [p \in Probes |-> 0] /\ served' = FALSE
  /\ awaited' = NoProbe /\ started' = FALSE /\ ready' = FALSE
  /\ misses' = 0 /\ silences' = 0
  /\ UNCHANGED db

\* The database slows down or is lost, and comes back.
DbChanges ==
  /\ db' \in {"up", "slow"} \ {db}
  /\ UNCHANGED <<pc, conns, degraded, waited, served, kubelet>>

Serve(r) ==
  \/ TakeThread(r) \/ Connect(r) \/ PoolTimeout(r) \/ Answered(r) \/ QueryFails(r)
  \/ TakeThreadAgain(r) \/ Rendered(r) \/ Close(r)

Next ==
  \/ \E c \in Clients : Arrive(c)
  \/ \E p \in Probes : SendProbe(p) \/ ProbeTimeout(p)
  \/ \E r \in Requests : Serve(r)
  \/ Alive \/ Silent \/ Restart \/ DbChanges

Spec == Init /\ [][Next]_vars

\* Threads are given out in the order they are asked for; a thread that can run
\* does; the kubelet keeps probing.
FairSpec ==
  /\ Spec
  /\ \A r \in Requests :
       /\ SF_vars(TakeThread(r) \/ TakeThreadAgain(r))
       /\ WF_vars(Connect(r) \/ PoolTimeout(r) \/ Answered(r) \/ QueryFails(r)
                    \/ Rendered(r) \/ Close(r))
  /\ WF_vars(\E p \in Probes : SendProbe(p))
  /\ WF_vars(Alive \/ Silent) /\ WF_vars(Restart)
-----------------------------------------------------------------------------
\* health.py: /healthz never touches the database, "because a slow database must
\* not cause Kubernetes to kill and restart every pod".  Alone it does not, once
\* the pod has started: /healthz goes unanswered only in a pod that has served
\* clients.  Without them the probes that wait for the database, or for its
\* connections, leave a thread free however long it is slow.  (Until the pod has
\* started, /startupz touches the database and does restart it.)
SilentOnlyUnderClients == silences > 0 => served

\* The request in a thread waits for the database, or for a connection to it.
OnDatabase(r) ==
  \/ pc[r] = "connect" /\ ~FreeConnection
  \/ db = "slow" /\ (pc[r] = "query" \/ (pc[r] = "render" /\ r \in Clients))

\* health.py and values.yaml promise that a slow database never restarts a pod
\* through its liveness probe: when that probe fails for the last time and the
\* database is slow, some thread is busy with something else than the database.
SlowDatabaseKillsNoPod ==
  [][db = "slow" /\ silences < LivenessThreshold /\ silences' = LivenessThreshold =>
       \E r \in Running : ~OnDatabase(r)]_vars

\* Once the database is back every request ends, though requests that hold a
\* connection wait for a thread and those that hold a thread for a connection:
\* the timeout of the pool breaks the circle.
RequestsEnd ==
  <>[](db = "up") => \A r \in Requests : pc[r] # "idle" ~> pc[r] = "idle"

\* Once the database is back the pod is ready again and again, however often it
\* was restarted and whatever the clients send: while it is not ready its
\* threads run empty, so its probes are not held up.
ReadyAgain == <>[](db = "up") => []<>ready
=============================================================================
