---------------------------- MODULE ApiPodProofs ----------------------------
(***************************************************************************)
(* What ApiPod promises of its threads, its connections and its restarts,  *)
(* for any number of clients and probes, any pool and any thresholds.      *)
(*                                                                         *)
(* The argument: a thread is taken only when one is free, and a connection *)
(* too, so the counts stay within their pools.  In a pod that has served   *)
(* no client the requests in threads are probes: those with a connection   *)
(* are no more than the pool, and those without one have waited each for   *)
(* another number of later probes, which the timeout of the pool bounds;   *)
(* so a thread is free for /healthz.                                       *)
(***************************************************************************)
EXTENDS ApiPod, FiniteSetTheorems, TLAPS

InThread == {"connect", "query", "render"}

Connected == {"query", "returned", "render", "commit"}

\* The sizes and thresholds are natural numbers.
LEMMA Sizes ==
  /\ Threads \in Nat /\ PoolSize \in Nat /\ Patience \in Nat
  /\ LivenessThreshold \in Nat /\ LivenessThreshold > 0
BY PodAssumption

\* The requests are finitely many, so the pools can be counted.
LEMMA RequestsAreFinite ==
  /\ IsFiniteSet(Requests)
  /\ \A S \in SUBSET Requests : IsFiniteSet(S) /\ Cardinality(S) \in Nat
<1>1. IsFiniteSet(Requests)
  BY PodAssumption, FS_Union DEF Requests
<1>2. \A S \in SUBSET Requests : IsFiniteSet(S)
  BY <1>1, FS_Subset
<1> QED BY <1>1, <1>2, FS_CardinalityType

\* The pool is idle when the pod starts.
LEMMA InitEstablishes == Init => TypeOK
<1> SUFFICES ASSUME Init PROVE TypeOK
  OBVIOUS
<1>1. {r \in Requests : pc[r] \in InThread} = {}
  BY DEF Init, InThread
<1>2. Cardinality({}) = 0
  BY FS_EmptySet
<1>3. Cardinality(conns) <= PoolSize
  BY <1>2, Sizes DEF Init
<1>4. Cardinality({r \in Requests : pc[r] \in {"connect", "query", "render"}}) <= Threads
  BY <1>1, <1>2, Sizes DEF InThread
<1>5. pc \in [Requests -> {"idle", "queued", "connect", "query", "returned", "render", "commit"}]
  BY DEF Init
<1>6. silences \in 0 .. LivenessThreshold /\ misses \in Nat
  BY Sizes DEF Init
<1>7. waited \in [Probes -> 0 .. Patience]
  BY Sizes DEF Init
<1> QED BY <1>3, <1>4, <1>5, <1>6, <1>7 DEF Init, TypeOK

\* The counts grow only through a free thread or connection.
LEMMA Counts ==
  ASSUME TypeOK, NEW r \in Requests,
         NEW where \in {"idle", "queued", "connect", "query", "returned", "render", "commit"},
         Go(r, where), where \in InThread => pc[r] \in InThread \/ FreeThread,
         \/ conns' = conns \/ conns' = conns \ {r}
         \/ conns' = conns \cup {r} /\ FreeConnection /\ where \in Connected,
         r \in conns' => where \in Connected
  PROVE  /\ pc' \in [Requests -> {"idle", "queued", "connect", "query", "returned", "render", "commit"}]
         /\ conns' \subseteq {q \in Requests : pc'[q] \in Connected}
         /\ Cardinality(conns') <= PoolSize
         /\ Cardinality({q \in Requests : pc'[q] \in InThread}) <= Threads
<1>1. \A q \in Requests : pc'[q] = IF q = r THEN where ELSE pc[q]
  BY DEF Go, TypeOK
<1>2. pc' \in [Requests -> {"idle", "queued", "connect", "query", "returned", "render", "commit"}]
  BY DEF Go, TypeOK
<1>3. conns' \subseteq {q \in Requests : pc'[q] \in Connected}
  BY <1>1 DEF TypeOK, Connected
<1>4. conns \subseteq Requests /\ IsFiniteSet(conns) /\ Cardinality(conns) \in Nat
  <2>1. conns \subseteq Requests
    BY DEF TypeOK
  <2> QED BY <2>1, RequestsAreFinite
<1>5. Cardinality(conns') <= PoolSize
  <2>1. CASE conns' \subseteq conns
    <3>1. Cardinality(conns') <= Cardinality(conns) /\ Cardinality(conns') \in Nat
      BY <1>4, <2>1, FS_Subset, FS_CardinalityType
    <3> QED BY <1>4, <3>1, PodAssumption DEF TypeOK
  <2>2. CASE conns' = conns \cup {r} /\ FreeConnection
    <3>1. Cardinality(conns') = Cardinality(conns) \/ Cardinality(conns') = Cardinality(conns) + 1
      BY <1>4, <2>2, FS_AddElement
    <3> QED BY <1>4, <2>2, <3>1, Sizes DEF FreeConnection
  <2> QED BY <2>1, <2>2
<1>6. Cardinality({q \in Requests : pc'[q] \in InThread}) <= Threads
  <2> DEFINE now == {q \in Requests : pc[q] \in InThread}
             next == {q \in Requests : pc'[q] \in InThread}
  <2>1. IsFiniteSet(now) /\ Cardinality(now) \in Nat /\ Cardinality(next) \in Nat
        /\ Cardinality(now) <= Threads /\ Threads \in Nat
    BY RequestsAreFinite, PodAssumption DEF TypeOK, InThread
  <2>2. CASE next \subseteq now
    <3>1. Cardinality(next) <= Cardinality(now)
      BY <2>1, <2>2, FS_Subset
    <3> QED BY <2>1, <3>1
  <2>3. CASE next = now \cup {r} /\ FreeThread
    <3>1. Cardinality(now) < Threads
      BY <2>3 DEF FreeThread, Running, InThread
    <3>2. Cardinality(next) = Cardinality(now) \/ Cardinality(next) = Cardinality(now) + 1
      BY <2>1, <2>3, FS_AddElement
    <3> QED BY <2>1, <3>1, <3>2
  <2>4. next \subseteq now \/ (next = now \cup {r} /\ FreeThread)
    BY <1>1
  <2> QED BY <2>2, <2>3, <2>4
<1> QED BY <1>2, <1>3, <1>5, <1>6

\* What the kubelet keeps of a pod.
KubeletType ==
  /\ awaited \in Probes \cup {NoProbe}
  /\ started \in BOOLEAN /\ ready \in BOOLEAN /\ (ready => started)
  /\ misses \in Nat /\ silences \in 0 .. LivenessThreshold

\* The report of a probe keeps it.
LEMMA Reports ==
  ASSUME TypeOK, NEW p, NEW ok \in BOOLEAN, Report(p, ok)
  PROVE  KubeletType'
<1>1. CASE p = awaited
  <2>1. CASE ok
    BY <1>1, <2>1 DEF TypeOK, KubeletType, Report, Hit
  <2>2. CASE ~ok
    BY <1>1, <2>2 DEF TypeOK, KubeletType, Report, Miss
  <2> QED BY <2>1, <2>2
<1>2. CASE p # awaited
  BY <1>2 DEF TypeOK, KubeletType, Report
<1> QED BY <1>1, <1>2

\* What is remembered of the waits and the clients.
PodType == waited \in [Probes -> 0 .. Patience] /\ served \in BOOLEAN

\* Every step keeps the type invariant.
LEMMA StepKeepsTypes == TypeOK /\ [Next]_vars => TypeOK'
<1> SUFFICES ASSUME TypeOK, [Next]_vars PROVE TypeOK'
  OBVIOUS
<1>0. KubeletType /\ PodType
  BY DEF TypeOK, KubeletType, PodType
<1>1. CASE UNCHANGED vars
  BY <1>1 DEF vars, kubelet, TypeOK
<1>2. ASSUME db' \in {"up", "slow"}, KubeletType', PodType', NEW r \in Requests,
             NEW where \in {"idle", "queued", "connect", "query", "returned", "render", "commit"},
             Go(r, where), where \in InThread => pc[r] \in InThread \/ FreeThread,
             \/ conns' = conns \/ conns' = conns \ {r}
             \/ conns' = conns \cup {r} /\ FreeConnection /\ where \in Connected,
             r \in conns' => where \in Connected,
             degraded' \subseteq degraded \cup {r},
             r \in degraded' => r \in Probes /\ where \in {"returned", "render", "commit"}
      PROVE  TypeOK'
  <2>1. degraded' \subseteq {p \in Probes : pc'[p] \in {"returned", "render", "commit"}}
    BY <1>2 DEF TypeOK, Go, Requests
  <2> QED BY <1>2, <2>1, Counts DEF TypeOK, KubeletType, PodType, InThread, Connected
<1>3. ASSUME NEW c \in Clients, Arrive(c) PROVE TypeOK'
  <2>1. KubeletType' /\ PodType' /\ c \in Requests /\ c \notin conns /\ c \notin degraded
    BY <1>0, <1>3, PodAssumption DEF Arrive, kubelet, KubeletType, PodType, Requests, TypeOK
  <2> QED BY <1>2, <1>3, <2>1 DEF Arrive, InThread, TypeOK
<1>4. ASSUME NEW p \in Probes, SendProbe(p) PROVE TypeOK'
  <2>1. KubeletType' /\ p \in Requests /\ p \notin conns /\ p \notin degraded
    BY <1>0, <1>4 DEF SendProbe, KubeletType, Requests, TypeOK
  <2>2. PodType'
    BY <1>0, <1>4, Sizes DEF SendProbe, Overdue, PodType
  <2> QED BY <1>2, <1>4, <2>1, <2>2 DEF SendProbe, InThread, TypeOK
<1>5. ASSUME NEW p \in Probes, ProbeTimeout(p) PROVE TypeOK'
  BY <1>5 DEF ProbeTimeout, Miss, TypeOK
<1>6. ASSUME NEW r \in Requests, Serve(r) PROVE TypeOK'
  <2>1. CASE TakeThread(r)
    <3>1. PodType'
      BY <1>0, <2>1, Sizes DEF TakeThread, PodType
    <3> QED BY <1>0, <1>2, <2>1, <3>1 DEF TakeThread, kubelet, KubeletType, InThread, Connected, TypeOK
  <2>2. CASE Connect(r)
    BY <1>0, <1>2, <2>2 DEF Connect, kubelet, KubeletType, PodType, InThread, Connected, TypeOK
  <2>3. CASE PoolTimeout(r) \/ QueryFails(r)
    <3>1. Raise(r) /\ UNCHANGED <<db, kubelet>> /\ KubeletType' /\ PodType'
          /\ pc[r] \in {"connect", "query", "render"} /\ (pc[r] = "connect" => r \notin conns)
      BY <1>0, <2>3 DEF PoolTimeout, QueryFails, kubelet, KubeletType, PodType, TypeOK
    <3>2. CASE r \in Probes
      <4>1. pc[r] = "connect" \/ pc[r] = "query"
        BY <2>3, <3>2, PodAssumption DEF PoolTimeout, QueryFails
      <4> QED BY <1>2, <3>1, <3>2, <4>1 DEF Raise, InThread, Connected, TypeOK
    <3>3. CASE r \notin Probes
      BY <1>2, <3>1, <3>3 DEF Raise, InThread, Connected, TypeOK
    <3> QED BY <3>2, <3>3
  <2>4. CASE Answered(r)
    BY <1>0, <1>2, <2>4 DEF Answered, kubelet, KubeletType, PodType, InThread, Connected, TypeOK
  <2>5. CASE TakeThreadAgain(r) \/ Rendered(r)
    BY <1>0, <1>2, <2>5 DEF TakeThreadAgain, Rendered, kubelet, KubeletType, PodType, InThread, Connected, TypeOK
  <2>6. CASE Close(r)
    <3>1. KubeletType' /\ PodType'
      BY <1>0, <2>6, Reports DEF Close, PodType
    <3> QED BY <1>2, <2>6, <3>1 DEF Close, InThread, TypeOK
  <2> QED BY <1>6, <2>1, <2>2, <2>3, <2>4, <2>5, <2>6 DEF Serve
<1>7. CASE Alive \/ Silent
  <2>1. silences' \in 0 .. LivenessThreshold
    BY <1>7, Sizes DEF Alive, Silent, Doomed, TypeOK
  <2>2. UNCHANGED <<db, pc, conns, degraded, waited, served, awaited, started, ready, misses>>
    BY <1>7 DEF Alive, Silent
  <2> QED BY <2>1, <2>2 DEF TypeOK
<1>8. CASE Restart
  <2>1. {r \in Requests : pc'[r] \in {"connect", "query", "render"}} = {}
    BY <1>8 DEF Restart
  <2>2. Cardinality(conns') <= PoolSize
        /\ Cardinality({r \in Requests : pc'[r] \in {"connect", "query", "render"}}) <= Threads
    BY <1>8, <2>1, FS_EmptySet, Sizes DEF Restart
  <2>3. pc' \in [Requests -> {"idle", "queued", "connect", "query", "returned", "render", "commit"}]
    BY <1>8 DEF Restart
  <2>4. silences' \in 0 .. LivenessThreshold /\ misses' \in Nat
    BY <1>8, Sizes DEF Restart
  <2>5. PodType'
    <3>1. waited' = [p \in Probes |-> 0] /\ served' = FALSE
      BY <1>8 DEF Restart
    <3>2. 0 \in 0 .. Patience
      BY Sizes
    <3> QED BY <3>1, <3>2 DEF PodType
  <2> QED BY <1>8, <2>2, <2>3, <2>4, <2>5 DEF Restart, PodType, TypeOK
<1>9. CASE DbChanges
  BY <1>9 DEF DbChanges, kubelet, TypeOK
<1> QED BY <1>1, <1>3, <1>4, <1>5, <1>6, <1>7, <1>8, <1>9 DEF Next

\* get_db and the thread pool: no more threads and connections are held than
\* there are, and none by a request that has ended, whatever fails.
THEOREM TypeCorrect == Spec => []TypeOK
<1> QED BY InitEstablishes, StepKeepsTypes, PTL DEF Spec

\* The probes in the pod that have no connection, from the thread they took to
\* the end of the rendering.
Unconnected ==
  {p \in Probes : p \notin conns /\ pc[p] \in {"connect", "returned", "render"}}

\* What holds of a pod that has served no client: /healthz was answered, one
\* probe at most waits for a thread, and the probes without a connection, none
\* of which is at its query, were sent one after the other.
Unserved ==
  /\ silences = 0
  /\ \A c \in Clients : pc[c] = "idle"
  /\ \A p \in Probes : pc[p] = "query" => p \in conns
  /\ \A p, q \in Probes : pc[p] = "queued" /\ pc[q] = "queued" => p = q
  /\ \A p, q \in Unconnected : waited[p] = waited[q] => p = q
  /\ \A p \in Probes, q \in Unconnected : pc[p] = "queued" => waited[q] > 0

UInv == TypeOK /\ (~served => Unserved)

\* The probes without a connection are no more than the periods of a wait.
LEMMA FewAreUnconnected ==
  ASSUME TypeOK, Unserved
  PROVE  IsFiniteSet(Unconnected) /\ Cardinality(Unconnected) <= Patience + 1
         /\ Cardinality(Unconnected) \in Nat
<1>1. IsFiniteSet(Unconnected) /\ Cardinality(Unconnected) \in Nat
  <2>1. Unconnected \in SUBSET Requests
    BY DEF Unconnected, Requests
  <2> QED BY <2>1, RequestsAreFinite
<1>2. IsFiniteSet(0 .. Patience) /\ Cardinality(0 .. Patience) = Patience + 1
  BY Sizes, FS_Interval
<1>3. SUFFICES ASSUME Cardinality(Unconnected) > Patience + 1 PROVE FALSE
  BY <1>1, Sizes
<1> DEFINE f == [p \in Unconnected |-> waited[p]]
<1>4. f \in [Unconnected -> 0 .. Patience]
  BY DEF TypeOK, Unconnected
<1>5. \A p, q \in Unconnected : f[p] = f[q] => p = q
  BY DEF Unserved
<1> HIDE DEF f
<1>6. \E p, q \in Unconnected : p # q /\ f[p] = f[q]
  BY <1>1, <1>2, <1>3, <1>4, Sizes, FS_PigeonHole
<1> QED BY <1>5, <1>6

\* A pod that has served no client has a free thread.
LEMMA AThreadIsLeft ==
  ASSUME TypeOK, Unserved
  PROVE  FreeThread
<1>1. Running \subseteq conns \cup Unconnected
  <2> SUFFICES ASSUME NEW r \in Running, r \notin conns PROVE r \in Unconnected
    OBVIOUS
  <2>1. r \in Probes
    BY DEF Running, Requests, Unserved
  <2> QED BY <2>1 DEF Running, Unconnected, Unserved
<1>2. IsFiniteSet(conns) /\ Cardinality(conns) \in Nat /\ Cardinality(conns) <= PoolSize
  <2>1. conns \in SUBSET Requests
    BY DEF TypeOK
  <2> QED BY <2>1, RequestsAreFinite DEF TypeOK
<1>3. IsFiniteSet(Unconnected) /\ Cardinality(Unconnected) \in Nat
      /\ Cardinality(Unconnected) <= Patience + 1
  BY FewAreUnconnected
<1>4. IsFiniteSet(conns \cup Unconnected)
      /\ Cardinality(conns \cup Unconnected) = Cardinality(conns) + Cardinality(Unconnected)
                                                - Cardinality(conns \cap Unconnected)
  BY <1>2, <1>3, FS_Union
<1>5. Cardinality(conns \cap Unconnected) \in Nat
  <2>1. conns \cap Unconnected = {}
    BY DEF Unconnected
  <2> QED BY <2>1, FS_EmptySet
<1>6. Cardinality(Running) <= Cardinality(conns \cup Unconnected) /\ Cardinality(Running) \in Nat
  BY <1>1, <1>4, FS_Subset, FS_CardinalityType
<1>7. PoolSize + Patience + 1 < Threads
  BY PodAssumption
<1> QED BY <1>2, <1>3, <1>4, <1>5, <1>6, <1>7, Sizes DEF FreeThread

\* Every step of such a pod leaves it one, or serves a client.
LEMMA StepKeepsUnserved ==
  ASSUME TypeOK, ~served => Unserved, [Next]_vars, ~served'
  PROVE  Unserved'
<1>1. CASE UNCHANGED vars
  BY <1>1 DEF vars, kubelet, Unserved, Unconnected
<1>2. CASE Restart
  BY <1>2 DEF Restart, Unserved, Unconnected, Requests
<1>3. ASSUME Unserved, NEW r \in Requests, Serve(r) PROVE Unserved'
  <2>1. r \in Probes /\ r \notin Clients /\ pc[r] # "idle"
    BY <1>3, PodAssumption DEF Unserved, Requests, Serve, TakeThread, Connect, PoolTimeout,
       Answered, QueryFails, TakeThreadAgain, Rendered, Close
  <2> USE DEF Unserved
  <2>2. CASE TakeThread(r)
    <3>1. \A q \in Requests : pc'[q] = IF q = r THEN "connect" ELSE pc[q]
      BY <2>2 DEF TakeThread, Go, TypeOK
    <3>2. /\ pc[r] = "queued" /\ UNCHANGED <<conns, silences>>
          /\ \A q \in Probes : waited'[q] = IF q = r THEN 0 ELSE waited[q]
      BY <2>2 DEF TakeThread, kubelet
    <3>3. Unconnected' \subseteq Unconnected \cup {r}
      BY <3>1, <3>2 DEF Unconnected, Requests
    <3>4. \A q \in Unconnected : waited[q] > 0
      BY <1>3, <2>1, <3>2
    <3>5. \A q \in Probes : pc'[q] # "queued"
      BY <1>3, <2>1, <3>1, <3>2 DEF Requests
    <3>6. \A p, q \in Unconnected' : waited'[p] = waited'[q] => p = q
      <4>1. \A q \in Unconnected : q \in Probes
        BY DEF Unconnected
      <4> QED BY <1>3, <2>1, <3>2, <3>3, <3>4, <4>1
    <3>7. \A c \in Clients : pc'[c] = "idle"
      BY <1>3, <2>1, <3>1 DEF Requests
    <3>8. \A q \in Probes : pc'[q] = "query" => q \in conns'
      BY <1>3, <3>1, <3>2 DEF Requests
    <3> QED BY <1>3, <3>2, <3>5, <3>6, <3>7, <3>8
  <2>3. CASE ~TakeThread(r)
    <3>1. /\ UNCHANGED <<waited, silences>>
          /\ \A q \in Requests : q # r => pc'[q] = pc[q]
          /\ pc'[r] # "queued"
          /\ Unconnected' \subseteq Unconnected
      <4>1. CASE Connect(r)
        BY <2>1, <4>1 DEF Connect, Go, TypeOK, kubelet, Unconnected, Requests
      <4>2. CASE PoolTimeout(r) \/ QueryFails(r)
        BY <2>1, <4>2 DEF PoolTimeout, QueryFails, Raise, Go, TypeOK, kubelet, Unconnected, Requests
      <4>3. CASE Answered(r) \/ TakeThreadAgain(r) \/ Rendered(r)
        BY <2>1, <4>3 DEF Answered, TakeThreadAgain, Rendered, Go, TypeOK, kubelet, Unconnected, Requests
      <4>4. CASE Close(r)
        <5>1. UNCHANGED <<waited, silences>>
          BY <4>4 DEF Close, Report
        <5> QED BY <2>1, <4>4, <5>1 DEF Close, Go, TypeOK, Unconnected, Requests
      <4> QED BY <1>3, <2>3, <4>1, <4>2, <4>3, <4>4 DEF Serve
    <3>2. \A p \in Probes : pc'[p] = "queued" => pc[p] = "queued"
      BY <3>1 DEF Requests
    <3>3. \A c \in Clients : pc'[c] = "idle"
      BY <1>3, <2>1, <3>1 DEF Requests
    <3>4. /\ \A q \in conns : q # r => q \in conns'
          /\ pc'[r] = "query" => r \in conns'
      <4>1. CASE Close(r)
        BY <2>1, <4>1 DEF Close, Go, TypeOK
      <4>2. CASE ~Close(r)
        BY <1>3, <2>1, <2>3, <4>2 DEF Serve, Connect, PoolTimeout, QueryFails, Answered,
           TakeThreadAgain, Rendered, Raise, Go, TypeOK
      <4> QED BY <4>1, <4>2
    <3>5. \A q \in Probes : pc'[q] = "query" => q \in conns'
      BY <1>3, <3>1, <3>4 DEF Requests
    <3>6. \A p, q \in Unconnected' : waited'[p] = waited'[q] => p = q
      BY <1>3, <3>1
    <3>7. \A p, q \in Probes : pc'[p] = "queued" /\ pc'[q] = "queued" => p = q
      BY <1>3, <3>2
    <3>8. \A p \in Probes, q \in Unconnected' : pc'[p] = "queued" => waited'[q] > 0
      BY <1>3, <3>1, <3>2
    <3> QED BY <1>3, <3>1, <3>3, <3>5, <3>6, <3>7, <3>8
  <2> QED BY <2>2, <2>3
<1>4. ASSUME Unserved, NEW p \in Probes, SendProbe(p) PROVE Unserved'
  <2>1. FreeThread
    BY <1>4, AThreadIsLeft
  <2>2. \A q \in Probes : pc[q] \notin {"queued", "returned", "render"}
                          /\ (pc[q] = "connect" => waited[q] # Patience)
    BY <1>4, <2>1 DEF SendProbe, Overdue, HeldUp
  <2>3. /\ UNCHANGED <<conns, silences>>
        /\ \A q \in Requests : pc'[q] = IF q = p THEN "queued" ELSE pc[q]
        /\ \A q \in Probes : waited'[q] = IF pc[q] = "connect" THEN waited[q] + 1 ELSE waited[q]
    BY <1>4 DEF SendProbe, Go, TypeOK
  <2>4. \A q \in Unconnected : q \in Probes /\ waited[q] \in Nat
    BY Sizes DEF Unconnected, TypeOK
  <2>5. \A q \in Unconnected' : q \in Unconnected /\ pc[q] = "connect" /\ q # p
    BY <2>2, <2>3 DEF Unconnected, Requests
  <2>6. \A q \in Unconnected' : waited'[q] = waited[q] + 1
    BY <2>3, <2>4, <2>5
  <2>7. \A q, x \in Unconnected' : waited'[q] = waited'[x] => q = x
    BY <1>4, <2>4, <2>5, <2>6 DEF Unserved
  <2>8. \A x \in Probes, q \in Unconnected' : pc'[x] = "queued" => waited'[q] > 0
    BY <2>4, <2>5, <2>6
  <2>9. \A q \in Probes : pc'[q] = "query" => q \in conns'
    BY <1>4, <2>3 DEF Unserved, Requests
  <2>10. \A q, x \in Probes : pc'[q] = "queued" /\ pc'[x] = "queued" => q = x
    BY <2>2, <2>3 DEF Requests
  <2>11. \A c \in Clients : pc'[c] = "idle"
    BY <1>4, <2>3, PodAssumption DEF Unserved, Requests
  <2>12. silences' = 0
    BY <1>4, <2>3 DEF Unserved
  <2> QED BY <2>7, <2>8, <2>9, <2>10, <2>11, <2>12 DEF Unserved
<1>5. ASSUME Unserved, NEW p \in Probes, ProbeTimeout(p) PROVE Unserved'
  BY <1>5 DEF ProbeTimeout, Unserved, Unconnected
<1>6. ASSUME Unserved, Alive \/ Silent PROVE Unserved'
  <2>1. Alive
    BY <1>6, AThreadIsLeft DEF Silent, NoAnswer
  <2> QED BY <1>6, <2>1 DEF Alive, Unserved, Unconnected
<1>7. ASSUME Unserved, DbChanges PROVE Unserved'
  BY <1>7 DEF DbChanges, kubelet, Unserved, Unconnected
<1>8. CASE served
  <2>1. ASSUME NEW r \in Requests, Serve(r) PROVE served' = served
    BY <2>1 DEF Serve, TakeThread, Connect, PoolTimeout, Answered, QueryFails, TakeThreadAgain,
       Rendered, Close
  <2>2. Restart \/ UNCHANGED vars \/ served' = served \/ served' = TRUE
    BY <2>1 DEF Next, Arrive, SendProbe, ProbeTimeout, Alive, Silent, DbChanges
  <2> QED BY <1>1, <1>2, <1>8, <2>2 DEF vars
<1>9. CASE ~served
  BY <1>1, <1>2, <1>3, <1>4, <1>5, <1>6, <1>7, <1>9 DEF Next, Arrive
<1> QED BY <1>8, <1>9

\* health.py, values.yaml: whatever the database does, /healthz goes unanswered
\* only in a pod that has served clients, if the pool of threads is larger than
\* the connections and the probes that wait for one during the pool's timeout.
THEOREM SilenceTakesClients == Spec => []SilentOnlyUnderClients
<1>1. Init => UInv
  <2>1. Init => Unserved
    BY DEF Init, Unserved, Unconnected, Requests
  <2> QED BY <2>1, InitEstablishes DEF UInv
<1>2. UInv /\ [Next]_vars => UInv'
  BY StepKeepsTypes, StepKeepsUnserved DEF UInv
<1>3. UInv => SilentOnlyUnderClients
  BY DEF UInv, Unserved, SilentOnlyUnderClients
<1> QED BY <1>1, <1>2, <1>3, PTL DEF Spec
=============================================================================
