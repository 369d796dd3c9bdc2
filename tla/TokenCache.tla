----------------------------- MODULE TokenCache -----------------------------
(***************************************************************************)
(* Bearer token validation in one pod of shift-api: current_principal and  *)
(* the cache of the tenant's signing keys, which the threads of the pod    *)
(* read and refill without a lock.                                         *)
(*                                                                         *)
(* A refill is four steps others come between: the clock is read, the      *)
(* tenant answers, the keys are stored, and their time stamp is stored.    *)
(* The stamp is the time read first, so it is never later than the answer  *)
(* it belongs to; but the stamp and the keys of two refills can be mixed.  *)
(***************************************************************************)
EXTENDS Naturals

CONSTANTS
  Threads,    \* request threads of the pod
  Keys,       \* signing keys of the tenant; each is published at most once
  TTL,        \* _JWKS_TTL_SECONDS
  Patience,   \* bound on the time from the tenant's answer to its being stored
  MaxTime     \* bound on the clock

ASSUME TokenAssumption == TTL \in Nat \ {0} /\ Patience \in Nat /\ MaxTime \in Nat

VARIABLES
  clock,
  status, from, to,   \* the tenant: the state of each key, when it was published, and withdrawn
  cached, fetchedAt,  \* _jwks_cache; cached is NotYet before the first refill
  pc, key, now,       \* of each thread: where it is, the token's key, the time it has read
  answer, readAt,     \* the keys the tenant answered with, and when it did
  verdict,            \* how the last validation of each thread ended
  asOf                \* history: when the tenant answered with what is cached

tenant == <<status, from, to>>
cache == <<cached, fetchedAt, asOf>>
local == <<key, now, answer, readAt>>
vars == <<clock, tenant, cache, pc, local, verdict>>

\* What is cached before the first refill: nothing.
Empty == [keys |-> {}, loaded |-> FALSE]

\* Type invariant: clocks, stamps and the threads' copies.
TypeOK ==
  /\ clock \in Nat
  /\ status \in [Keys -> {"future", "published", "withdrawn"}]
  /\ from \in [Keys -> Nat] /\ to \in [Keys -> Nat]
  /\ cached \in [keys: SUBSET Keys, loaded: BOOLEAN]
  /\ fetchedAt \in Nat /\ asOf \in Nat
  /\ pc \in [Threads -> {"idle", "check", "fetch", "store", "stamp", "decode"}]
  /\ key \in [Threads -> Keys]
  /\ now \in [Threads -> Nat] /\ readAt \in [Threads -> Nat]
  /\ answer \in [Threads -> SUBSET Keys]
  /\ verdict \in [Threads -> {"none", "missing", "unreachable", "error", "unknown", "claims", "forbidden",
                            "handler"}]

\* The first stamp, 0.0, is older than any time the clock can show by more
\* than the time to live.
Init ==
  /\ clock = TTL
  /\ status \in [Keys -> {"future", "published"}]
  /\ from = [k \in Keys |-> 0] /\ to = [k \in Keys |-> 0]
  /\ cached = Empty /\ fetchedAt = 0 /\ asOf = 0
  /\ pc = [t \in Threads |-> "idle"]
  /\ \E k \in Keys : key = [t \in Threads |-> k]
  /\ now = [t \in Threads |-> 0] /\ readAt = [t \in Threads |-> 0]
  /\ answer = [t \in Threads |-> {}]
  /\ verdict = [t \in Threads |-> "none"]
-----------------------------------------------------------------------------
\* The transfer of an answer is bounded by the timeout of httpx.get.
Tick ==
  /\ clock < MaxTime
  /\ \A t \in Threads : pc[t] = "store" => clock < readAt[t] + Patience
  /\ clock' = clock + 1
  /\ UNCHANGED <<tenant, cache, pc, local, verdict>>

Publish(k) ==
  /\ status[k] = "future"
  /\ status' = [status EXCEPT ![k] = "published"]
  /\ from' = [from EXCEPT ![k] = clock]
  /\ UNCHANGED <<clock, to, cache, pc, local, verdict>>

Withdraw(k) ==
  /\ status[k] = "published"
  /\ status' = [status EXCEPT ![k] = "withdrawn"]
  /\ to' = [to EXCEPT ![k] = clock]
  /\ UNCHANGED <<clock, from, cache, pc, local, verdict>>

Go(t, where) == pc' = [pc EXCEPT ![t] = where]

\* The validation ends: the handler runs, or the client is refused.
End(t, how) == Go(t, "idle") /\ verdict' = [verdict EXCEPT ![t] = how]

\* A request without a token: 401.
NoToken(t) ==
  /\ pc[t] = "idle" /\ End(t, "missing")
  /\ UNCHANGED <<clock, tenant, cache, local>>

\* A request with a token reaches _get_jwks, which reads the clock.
Arrive(t, k) ==
  /\ pc[t] = "idle" /\ Go(t, "check")
  /\ key' = [key EXCEPT ![t] = k]
  /\ now' = [now EXCEPT ![t] = clock]
  /\ verdict' = [verdict EXCEPT ![t] = "none"]
  /\ UNCHANGED <<clock, tenant, cache, answer, readAt>>

\* Mutation of Fresh: what is cached once is kept.
FreshForEver(t) == cached.loaded

\* now - fetched_at < _JWKS_TTL_SECONDS; a stamp may be later than `now`.
Fresh(t) == cached.loaded /\ now[t] < fetchedAt + TTL

Check(t) ==
  /\ pc[t] = "check"
  /\ Go(t, IF Fresh(t) THEN "decode" ELSE "fetch")
  /\ UNCHANGED <<clock, tenant, cache, local, verdict>>

\* The tenant answers with the keys it publishes.
Answer(t) ==
  /\ pc[t] = "fetch" /\ Go(t, "store")
  /\ answer' = [answer EXCEPT ![t] = {k \in Keys : status[k] = "published"}]
  /\ readAt' = [readAt EXCEPT ![t] = clock]
  /\ UNCHANGED <<clock, tenant, cache, key, now, verdict>>

\* The tenant is not reached, times out or answers with an error status: 401.  It
\* answers with what is not JSON: no handler catches that error, and the client
\* gets 500.  Nothing remembers the failure.
FetchFails(t) ==
  /\ pc[t] \in {"fetch", "store"}
  /\ \E how \in {"unreachable", "error"} : End(t, how)
  /\ UNCHANGED <<clock, tenant, cache, local>>

StoreKeys(t) ==
  /\ pc[t] = "store" /\ Go(t, "stamp")
  /\ cached' = [keys |-> answer[t], loaded |-> TRUE]
  /\ asOf' = readAt[t]
  /\ answer' = [answer EXCEPT ![t] = {}]
  /\ readAt' = [readAt EXCEPT ![t] = 0]
  /\ UNCHANGED <<clock, tenant, fetchedAt, key, now, verdict>>

\* Mutation of StoreStamp: the clock is read again for the stamp.
StoreLateStamp(t) ==
  /\ pc[t] = "stamp" /\ Go(t, "decode")
  /\ fetchedAt' = clock
  /\ UNCHANGED <<clock, tenant, cached, asOf, local, verdict>>

StoreStamp(t) ==
  /\ pc[t] = "stamp" /\ Go(t, "decode")
  /\ fetchedAt' = now[t]
  /\ UNCHANGED <<clock, tenant, cached, asOf, local, verdict>>

\* The keys are read once more, whoever stored them last.  jwt.decode refuses a
\* key that is not among them, and claims that are expired or of another
\* audience; require_role a token without the role of the endpoint.
Decode(t) ==
  /\ pc[t] = "decode"
  /\ IF key[t] \in cached.keys
     THEN \E how \in {"claims", "forbidden", "handler"} : End(t, how)
     ELSE End(t, "unknown")
  /\ UNCHANGED <<clock, tenant, cache, local>>

\* The clock has reached its bound and nothing is being validated.
Stop == clock = MaxTime /\ (\A t \in Threads : pc[t] = "idle") /\ UNCHANGED vars

Validate(t) ==
  Check(t) \/ Answer(t) \/ FetchFails(t) \/ StoreKeys(t) \/ StoreStamp(t) \/ Decode(t)

Next ==
  \/ Tick \/ Stop
  \/ \E k \in Keys : Publish(k) \/ Withdraw(k)
  \/ \E t \in Threads : NoToken(t) \/ Validate(t) \/ \E k \in Keys : Arrive(t, k)

Spec == Init /\ [][Next]_vars
-----------------------------------------------------------------------------
\* A withdrawn key is not honoured for longer than the time to live and, since
\* two refills may mix their keys and stamps, the time one answer may take to be
\* stored; a key the tenant never published is not honoured at all.
WithdrawnKeysExpire ==
  \A t \in Threads : verdict[t] \in {"claims", "forbidden", "handler"} =>
    \/ status[key[t]] = "published"
    \/ status[key[t]] = "withdrawn" /\ now[t] < to[key[t]] + TTL + Patience

\* A published key is not unknown to the pod unless it was published within the
\* same time before the request, or since: an unknown key does not make the pod
\* ask the tenant again.
SettledKeysAreKnown ==
  \A t \in Threads :
    verdict[t] = "unknown" /\ status[key[t]] = "published" =>
      now[t] < from[key[t]] + TTL + Patience
=============================================================================
