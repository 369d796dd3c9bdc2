-------------------------- MODULE TokenCacheProofs --------------------------
(***************************************************************************)
(* What TokenCache promises of withdrawn and of published keys, for any    *)
(* number of threads and keys, any time to live and any patience.          *)
(*                                                                         *)
(* The argument: whatever pair of keys and stamp is in the cache, the      *)
(* stamp is at most Patience later than the tenant's answer, because an    *)
(* answer is stored within Patience of being given, and no stamp and no    *)
(* time a thread has read is later than the clock.                         *)
(***************************************************************************)
EXTENDS TokenCache, TLAPS

\* `S` is what the tenant published at time `at`, up to what it has done since.
KeysAt(S, at) ==
  /\ \A k \in S : /\ status[k] # "future" /\ from[k] <= at
                  /\ status[k] = "published" \/ (status[k] = "withdrawn" /\ at <= to[k])
  /\ \A k \in Keys \ S : status[k] = "published" => at <= from[k]

\* No recorded time is in the future.
NothingAhead ==
  /\ asOf <= clock /\ fetchedAt <= clock
  /\ \A k \in Keys : from[k] <= clock /\ to[k] <= clock
  /\ \A t \in Threads : now[t] <= clock /\ readAt[t] <= clock

\* The stamp may belong to a later answer than the keys, but not to one more
\* than Patience later.
StampsFollowAnswers ==
  /\ fetchedAt <= asOf + Patience
  /\ \A t \in Threads :
       /\ pc[t] = "store" => now[t] <= readAt[t] /\ clock <= readAt[t] + Patience
       /\ pc[t] = "stamp" => now[t] <= asOf + Patience
       /\ pc[t] \in {"stamp", "decode"} => cached.loaded
       /\ pc[t] = "decode" => now[t] < asOf + TTL + Patience

\* The cache and the answers under way are what the tenant published.
AnswersAreTrue ==
  /\ cached.loaded => KeysAt(cached.keys, asOf)
  /\ \A t \in Threads : pc[t] = "store" => KeysAt(answer[t], readAt[t])

IInv == TypeOK /\ NothingAhead /\ StampsFollowAnswers /\ AnswersAreTrue

\* The initial states: nothing is cached and nothing is under way.
LEMMA InitEstablishes == Init => IInv /\ WithdrawnKeysExpire /\ SettledKeysAreKnown
  BY TokenAssumption DEF Init, IInv, TypeOK, NothingAhead, StampsFollowAnswers, AnswersAreTrue,
     KeysAt, Empty, WithdrawnKeysExpire, SettledKeysAreKnown

\* Every step keeps the type invariant.
LEMMA StepKeepsTypes == TypeOK /\ [Next]_vars => TypeOK'
<1> SUFFICES ASSUME TypeOK, [Next]_vars PROVE TypeOK'
  OBVIOUS
<1> USE TokenAssumption DEF TypeOK, tenant, cache, local, Go, End
<1>1. CASE Tick
  BY <1>1 DEF Tick
<1>2. CASE Stop \/ UNCHANGED vars
  BY <1>2 DEF Stop, vars
<1>3. ASSUME NEW k \in Keys, Publish(k) \/ Withdraw(k) PROVE TypeOK'
  BY <1>3 DEF Publish, Withdraw
<1>4. ASSUME NEW t \in Threads, NoToken(t) PROVE TypeOK'
  BY <1>4 DEF NoToken
<1>5. ASSUME NEW t \in Threads, NEW k \in Keys, Arrive(t, k) PROVE TypeOK'
  BY <1>5 DEF Arrive
<1>6. ASSUME NEW t \in Threads, Validate(t) PROVE TypeOK'
  <2>1. CASE Check(t)
    BY <2>1 DEF Check, Fresh
  <2>2. CASE Answer(t)
    BY <2>2 DEF Answer
  <2>3. CASE FetchFails(t)
    BY <2>3 DEF FetchFails
  <2>4. CASE StoreKeys(t)
    BY <2>4 DEF StoreKeys
  <2>5. CASE StoreStamp(t)
    BY <2>5 DEF StoreStamp
  <2>6. CASE Decode(t)
    <3>1. CASE key[t] \in cached.keys
      BY <2>6, <3>1 DEF Decode
    <3>2. CASE key[t] \notin cached.keys
      BY <2>6, <3>2 DEF Decode
    <3> QED BY <3>1, <3>2
  <2> QED BY <1>6, <2>1, <2>2, <2>3, <2>4, <2>5, <2>6 DEF Validate
<1> QED BY <1>1, <1>2, <1>3, <1>4, <1>5, <1>6 DEF Next

\* Every step keeps the strengthening: the tenant's and the clock's steps touch
\* what is known of keys, a thread's steps what is cached and how late it is.
LEMMA StepKeepsTimes == IInv /\ TypeOK' /\ [Next]_vars =>
                          NothingAhead' /\ StampsFollowAnswers' /\ AnswersAreTrue'
<1> SUFFICES ASSUME IInv, TypeOK', [Next]_vars
             PROVE  NothingAhead' /\ StampsFollowAnswers' /\ AnswersAreTrue'
  OBVIOUS
<1> DEFINE Goal == NothingAhead' /\ StampsFollowAnswers' /\ AnswersAreTrue'
<1> USE TokenAssumption DEF IInv, TypeOK, tenant, cache, local, Go, End
<1>1. CASE Tick
  BY <1>1 DEF Tick, NothingAhead, StampsFollowAnswers, AnswersAreTrue, KeysAt
<1>2. CASE Stop \/ UNCHANGED vars
  <2>1. UNCHANGED vars
    BY <1>2 DEF Stop
  <2> QED BY <2>1 DEF vars, NothingAhead, StampsFollowAnswers, AnswersAreTrue, KeysAt
<1>3. ASSUME NEW k \in Keys, Publish(k) \/ Withdraw(k) PROVE Goal
  <2>1. NothingAhead' /\ StampsFollowAnswers'
    <3>1. CASE Publish(k)
      BY <3>1 DEF Publish, NothingAhead, StampsFollowAnswers
    <3>2. CASE Withdraw(k)
      BY <3>2 DEF Withdraw, NothingAhead, StampsFollowAnswers
    <3> QED BY <1>3, <3>1, <3>2
  <2>2. ASSUME NEW S \in SUBSET Keys, NEW at \in Nat, at <= clock, KeysAt(S, at)
        PROVE  KeysAt(S, at)'
    <3>1. CASE Publish(k)
      BY <2>2, <3>1 DEF Publish, KeysAt
    <3>2. CASE Withdraw(k)
      BY <2>2, <3>2 DEF Withdraw, KeysAt
    <3> QED BY <1>3, <3>1, <3>2
  <2>3. AnswersAreTrue'
    BY <1>3, <2>2 DEF Publish, Withdraw, AnswersAreTrue, NothingAhead
  <2> QED BY <2>1, <2>3
<1>4. ASSUME NEW t \in Threads, NoToken(t) PROVE Goal
  BY <1>4 DEF NoToken, NothingAhead, StampsFollowAnswers, AnswersAreTrue, KeysAt
<1>5. ASSUME NEW t \in Threads, NEW k \in Keys, Arrive(t, k) PROVE Goal
  BY <1>5 DEF Arrive, NothingAhead, StampsFollowAnswers, AnswersAreTrue, KeysAt
<1>6. ASSUME NEW t \in Threads, Validate(t) PROVE Goal
  <2>1. CASE Check(t)
    BY <2>1 DEF Check, Fresh, NothingAhead, StampsFollowAnswers, AnswersAreTrue, KeysAt
  <2>2. CASE Answer(t)
    <3>1. NothingAhead' /\ StampsFollowAnswers'
      BY <2>2 DEF Answer, NothingAhead, StampsFollowAnswers
    <3>2. KeysAt(answer[t], readAt[t])'
      BY <2>2 DEF Answer, KeysAt, NothingAhead
    <3>3. AnswersAreTrue'
      BY <2>2, <3>2 DEF Answer, AnswersAreTrue, KeysAt
    <3> QED BY <3>1, <3>3
  <2>3. CASE FetchFails(t)
    BY <2>3 DEF FetchFails, NothingAhead, StampsFollowAnswers, AnswersAreTrue, KeysAt
  <2>4. CASE StoreKeys(t)
    <3>1. NothingAhead' /\ StampsFollowAnswers'
      BY <2>4 DEF StoreKeys, NothingAhead, StampsFollowAnswers
    <3>2. AnswersAreTrue'
      BY <2>4 DEF StoreKeys, AnswersAreTrue, KeysAt
    <3> QED BY <3>1, <3>2
  <2>5. CASE StoreStamp(t)
    BY <2>5 DEF StoreStamp, NothingAhead, StampsFollowAnswers, AnswersAreTrue, KeysAt
  <2>6. CASE Decode(t)
    <3>1. UNCHANGED <<clock, tenant, cache, local>> /\ pc' = [pc EXCEPT ![t] = "idle"]
      BY <2>6 DEF Decode
    <3> QED BY <3>1 DEF NothingAhead, StampsFollowAnswers, AnswersAreTrue, KeysAt
  <2> QED BY <1>6, <2>1, <2>2, <2>3, <2>4, <2>5, <2>6 DEF Validate
<1> QED BY <1>1, <1>2, <1>3, <1>4, <1>5, <1>6 DEF Next

\* The strengthening is inductive.
LEMMA StepKeepsIInv == IInv /\ [Next]_vars => IInv'
  BY StepKeepsTypes, StepKeepsTimes DEF IInv

\* Every step keeps both promises: only Decode ends a validation with a key's
\* verdict, and a key withdrawn or published later changes at the clock's time.
LEMMA StepKeepsPromises ==
  IInv /\ WithdrawnKeysExpire /\ SettledKeysAreKnown /\ [Next]_vars
    => WithdrawnKeysExpire' /\ SettledKeysAreKnown'
<1> SUFFICES ASSUME IInv, WithdrawnKeysExpire, SettledKeysAreKnown, [Next]_vars
             PROVE  WithdrawnKeysExpire' /\ SettledKeysAreKnown'
  OBVIOUS
<1> DEFINE Goal == WithdrawnKeysExpire' /\ SettledKeysAreKnown'
<1> USE TokenAssumption
    DEF IInv, TypeOK, WithdrawnKeysExpire, SettledKeysAreKnown, tenant, cache, local, Go, End
<1>1. CASE Tick \/ Stop \/ UNCHANGED vars
  BY <1>1 DEF Tick, Stop, vars
<1>2. ASSUME NEW k \in Keys, Publish(k) \/ Withdraw(k) PROVE Goal
  BY <1>2 DEF Publish, Withdraw, NothingAhead
<1>3. ASSUME NEW t \in Threads, NoToken(t) PROVE Goal
  BY <1>3 DEF NoToken
<1>4. ASSUME NEW t \in Threads, NEW k \in Keys, Arrive(t, k) PROVE Goal
  BY <1>4 DEF Arrive
<1>5. ASSUME NEW t \in Threads, Validate(t) PROVE Goal
  <2>1. CASE Check(t) \/ Answer(t) \/ StoreKeys(t) \/ StoreStamp(t)
    BY <2>1 DEF Check, Answer, StoreKeys, StoreStamp
  <2>2. CASE FetchFails(t)
    BY <2>2 DEF FetchFails
  <2>3. CASE Decode(t)
    <3>1. KeysAt(cached.keys, asOf) /\ now[t] < asOf + TTL + Patience
      BY <2>3 DEF Decode, StampsFollowAnswers, AnswersAreTrue
    <3>2. CASE key[t] \in cached.keys
      BY <2>3, <3>1, <3>2 DEF Decode, KeysAt
    <3>3. CASE key[t] \notin cached.keys
      BY <2>3, <3>1, <3>3 DEF Decode, KeysAt
    <3> QED BY <3>2, <3>3
  <2> QED BY <1>5, <2>1, <2>2, <2>3 DEF Validate
<1> QED BY <1>1, <1>2, <1>3, <1>4, <1>5 DEF Next
-----------------------------------------------------------------------------
\* The clock, the cache and the threads' copies keep their types.
THEOREM TypeCorrect == Spec => []TypeOK
<1>1. IInv => TypeOK
  BY DEF IInv
<1> QED BY InitEstablishes, StepKeepsIInv, <1>1, PTL DEF Spec

\* current_principal honours no key longer than the time to live and the
\* patience after the tenant has withdrawn it, whoever refills the cache when.
THEOREM KeysExpire == Spec => []WithdrawnKeysExpire
  BY InitEstablishes, StepKeepsIInv, StepKeepsPromises, PTL DEF Spec

\* current_principal refuses no key the tenant has published for longer than that.
THEOREM KeysAreLearnt == Spec => []SettledKeysAreKnown
  BY InitEstablishes, StepKeepsIInv, StepKeepsPromises, PTL DEF Spec
=============================================================================
