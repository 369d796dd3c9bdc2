# ShiftBoard: a verification project

TLA+ models of ShiftBoard's write path, its event consumer, its conflict
detection, the pods they run in and the console in front of them; the TLC runs
that check them on small instances; and theorems that TLAPS proves for every
size. Everything is translated from the code under `src/`; lines are those of
the mapped commit.

ShiftBoard lets workers claim open shifts. `shift-api` (FastAPI over Azure SQL)
writes shifts and publishes an event for each write to a Service Bus queue.
`roster-worker` consumes the queue, and for each event rescans one shift for
scheduling conflicts, which it writes to the same database. A React console
reads and claims through the API. Both services run as several replicas on AKS.

## 1. Inventory

| component | state | operations | correctness |
|---|---|---|---|
| shift-api write path (`routers/shifts.py`, `db.py`, `messaging.py`) | the `shifts` table; per request a session (a copy of the row, a transaction, a connection of the pod's pool) | `create_shift`, `claim_shift`, `cancel_shift`; `get_db` commits after the handler, `publish` fails open | one winner per shift; a cancelled shift stays cancelled; the version counts the writes; answers are true; every request ends |
| roster-worker consumer loop (`main.py`) | messages of the queue with lock and delivery count; the batch of each replica; `_shutdown`; the `processed_events` ledger | receive, dispatch, complete, abandon, dead-letter, drain on SIGTERM, crash and restart | completed means processed; ledger and findings agree; no event is lost cheaply; poison is not retried; a drain ends |
| roster-worker conflict scan (`handler.py`) | the `conflicts` table; the transaction of each replica | `handle_event`, `_rescan_shift`, `mark_processed` | the findings of a scanned shift are those of the roster; no duplicates; no gap a reader sees |
| conflict rules (`rules.py`) | none | `find_overlaps`, `find_insufficient_rest`, `find_weekly_hours_exceeded` | boundaries; the same verdict from either shift |
| the two services together | both | an event is published before its write is committed; a response is rendered with its findings before the commit | every clash is flagged in the end; the API can read what the worker writes |
| read endpoints (`list_shifts`, `get_shift`, `coverage_report`, `list_sites`) | none | pages by offset and limit; counts | no row twice or missed over pages |
| site and worker registry (`create_site`, `create_worker`) | rows of `sites`, `workers` | inserts under a unique key | no name twice |
| lazy singletons (`db.get_engine`, `messaging.get_publisher`) | module globals | first use from several threads | one engine, one publisher |
| token validation (`security.py`) | the JWKS cache | validate, refresh | a new key is accepted and a withdrawn one refused, each within a known time |
| health probes and lifespan (`health.py`, `app/main.py`, the chart's `probes`) | the pod's threads and connections; the kubelet's counters | `/healthz`, `/readyz`, `/startupz` beside the requests; restart | what a slow database does to the probes; a pod recovers when the database does |
| web console (`App.tsx`, `client.ts`) | React state, requests in flight | load, choose a site, claim | what is shown belongs to the chosen site; the notice of a lost race is seen |
| migrations, Helm charts, GitOps, Terraform, policy audit, scripts | declarative | | |

How they interact: the API and the worker share the database (`shifts` is
written by the API only, `conflicts` and `processed_events` by the worker only)
and the queue. A claim waits for the row lock of another write; a scan waits for
another scan's rows of `conflicts` and, for its foreign key, for an uncommitted
write of the shift. Nothing else synchronises them.

What is hard here: the optimistic check of a claim and its write are two
statements; the event leaves before the commit; the broker redelivers, and a lock
that runs out lets two replicas handle one event; commits whose acknowledgement is
lost; SIGTERM in the middle of a batch; exceptions that bypass the settlement;
threads and connections that wait for each other; a cache refilled by several
threads; pages of a table that changes. The hazards in `PROJECT.json` list each at
its line.

## 2. Modules

```
ShiftRows ── ShiftLifecycle (abstract: an atomic register, and a lossy one)
    │              ▲ refinement
    ├───────── ShiftApi
    │              ▲
    │              └── Roster ──► INSTANCE ConflictScan
    └───────── ConflictScan
RosterConsumer (queue, settlement, ledger)      Rules (pure rules)
TokenCache (signing keys)   ApiPod (threads, connections, probes)
Listing (pages)             WebConsole (one tab)
```

The theorems of a module `M` are in `MProofs`; those of `Roster`, which extends
`ShiftApi`, are the second half of `ShiftApiProofs`. `ShiftRows` and
`ShiftLifecycle` have none of their own.

`MC*` modules only add symmetry sets, a choice of initial states that replaces
them, and values for the `.cfg` files. Operators
whose comment begins with "Mutation of" are not part of any specification: each
is a plausible bug, and the run it is listed with must detect it.

### ShiftRows, ShiftLifecycle

`Row` is what claims and cancellations read and write of a shift: status,
assignee, version; `Absent` stands for no row. The status `confirmed`, which no
code of the repository assigns, is left out. `ShiftLifecycle` is the promise:
`Create`, `Claim` and `Cancel` as atomic operations on one row, with every
write adding one to the version. `LossySpec` adds `StaleClaim` and
`StaleCancel`, a taken row rewritten by a writer that read it earlier.

### ShiftApi

One request is one session of `get_db`; the actions are what another request can
come between.

| action | code |
|---|---|
| `Read` | the `db.get` calls and the checks made on the copies, with the early returns in `Verdict` |
| `Flush` | the UPDATE or INSERT by primary key, which waits for the row's exclusive lock |
| `Publish` | `publisher.publish`, which sends or counts the failure |
| `Commit` | `session.commit()` in `get_db`, after the handler returned |
| `Respond` | the answer, or a 500 when the acknowledgement of the commit was lost |
| `PoolTimeout` | `QueuePool` (5 + 10 connections) is exhausted |
| `Fail`, `Crash` | a statement raises and the session rolls back; a pod dies |

`Written` computes the new row from the session's copy, as the ORM does for the
columns the handler assigned; there is no `version_id_col`, so the UPDATE does
not check the version. `read`, `committed`, `sent` and `overtaken` are the copy
and the history the properties speak of: a writer is *overtaken* when another
write of its row commits between its read and its commit.

### RosterConsumer

Messages are of four kinds by what the code does with their bodies: `Handled`,
`Ignored` types, `Poison` (raises `PermanentError`) and `Unreadable` (raises
outside `process_one`'s `try`: `decode` on bytes that are not UTF-8, or
`parse_event` on a JSON scalar). A delivery is a message with its delivery number;
its lock is valid while the broker's count is still that number. `Dispatch` is
`dispatch_message` up to the ledger check, `Scan` the rescan and the `merge`,
`Commit` the commit with the verdict on the message, `Settle` the call that
completes, abandons or dead-letters. `Exit` is an exception that leaves
`drain_loop`: the process ends and its batch stays locked until `LockExpires`. A
lock may also run out while its delivery is held, which `overrun` remembers.
`applied` counts the commits of each replica. `Drain`, `EndBatch` and `StopIdle`
are the three ways `_shutdown` is seen.

### ConflictScan

The statements of one scan's transaction: `ReadShift`, `Delete`, `ReadOthers`,
`Mark` (the flush of the findings and the read that `merge` makes), `Commit`.
`Duplicate` and `Begin` are the two outcomes of the ledger check. `Clash` is a
symmetric relation between shifts: the rules, whose symmetry `Rules` checks. The
finding of the weekly rule, which names no other shift, is in `Rules` only. The
row, the events and the locks of the API are variables of the environment, so
that the module serves alone on a fixed roster and, by `INSTANCE`, in `Roster`.

### Roster

`ShiftApi` and `ConflictScan` over one table: a request's event is handled from
the moment `publish` sent it. `early` remembers the events whose scan read the
shift before their write was committed. `Render` is `ShiftOut` built from the
session, which loads the findings, after the handler and before `get_db`
commits; where it raises, only `Fail` is left, a rollback and a 500 after the
event was sent. `KindNames` and `StoredKinds` are the texts the two services use
for the kind of a finding. `Withdrawn` is a shift its worker has lost: cancelled,
or claimed by a session that had been overtaken. `RosterAssumption` asks that
`Clash` be symmetric and irreflexive, which `PairsClashMutually` proves of the
rules.

### Rules

`rules.py` over hours instead of microseconds and a week of `Week` hours.
`StartOf` is `as_utc` (a naive value is taken for UTC, an aware one is compared
as an instant), `InWeek` the ISO week on the subject's own clock. The state is a
roster that grows by one shift, so that every small roster is visited. `ReadBack`
is what `DATETIME2` keeps of a timestamp.

### TokenCache

`current_principal` in the threads of one pod. A refill of `_jwks_cache` is four
steps that other threads come between: the clock is read (`Arrive`), the tenant
answers (`Answer`), the keys are stored (`StoreKeys`), their stamp is stored
(`StoreStamp`, with the time read first). `Decode` reads the cache again and then
knows the token's key or not; a valid signature still leaves the claims and the
role to be refused. `FetchFails` leaves no trace in the cache: a 401 when the
tenant cannot be reached or answers with an error, a 500 when its answer is no
JSON, which the handler does not catch. `Patience` bounds the time from the
tenant's answer to its being stored; it is an assumption, since the timeout of
`httpx.get` is for each read and the thread may be slow, too. `asOf` is history.

### ApiPod

The handlers are plain functions, so the framework runs each in a pool of 40
threads, and once more to render the response; the first statement takes one of
15 connections, which the request keeps until `get_db` has closed the session.
`TakeThread`, `Connect`, `Answered`, `TakeThreadAgain`, `Rendered`, `Close` are
the way of a request, `PoolTimeout` and `QueryFails` its failures, which the
readiness handler turns into a 503. `SendProbe`, `ProbeTimeout`, `Report`,
`Alive`, `Silent`, `Restart` are the kubelet with the thresholds of the chart;
`Init` is a pod whose `lifespan` went on although the engine was not to be had.
A probe may time out only while something holds it up (`HeldUp`). A pod may serve
several probes at once, the one the kubelet awaits and those it gave up; what
bounds them is time, of which the model has this much: `waited` counts the probes
sent while one waits for a connection, and no further one is sent while a probe is
`Overdue`, that is, has nothing to wait for or has waited as long as the pool lets
it (`Patience` periods). `PodAssumption` compares the numbers: 15 connections, and 15
probes in 30 s at one every 2 s and one more, are 31 of the 40 threads. `served`
is history: a client has reached this container.

### Listing

A client's walk through `list_shifts`: `ReadPage` is one query, the next `Limit`
of the rows that pass the filter after `offset` of them, in the order of
`starts_at`, with ties in any order and another order on every page. `Write` is
any committed create, claim or cancellation, the claim among them that read the
open row and is committed after the cancellation, as in `ShiftApi`: `MaxRevivals`
bounds these. `there`, `come` and `gone` are history, `gone` as a sequence, since a
shift that came back may leave again.

### WebConsole

`App.tsx` in one tab. A step is a stretch of a handler between two awaits, the
server's part of a request, or the user. `StartLoad`, `Listed`, `LoadArrives` and
`LoadFails` are `load`; `Claim`, `ClaimServed`, `ClaimBreaks` and `ClaimAnswered`
are `handleClaim`, whose `finally` is `Release`; `ChooseSite` is the click and the
effect it triggers. `shown.by` is the load whose answer is on the screen. Each
claim remembers the load it was made from and when it ended. The server claims
atomically here. A claim sends the version of the row on the screen; an open row
is always at its first version (`OpenIsUntouched`, proved), so the version matches
exactly if the shift is still open, and the model keeps only the set of open
shifts.

## 3. Runs

| run | instance | asks | states |
|---|---|---|---|
| `ShiftApi_racing` | 3 requests, 2 pods with 2 connections each, 1 shift, 2 workers, versions to 2 | what the write path keeps in every interleaving, and whether every request ends | 1.2 M |
| `RosterConsumer_replicas` | 2 replicas; any two of an event, an ignored, a poison and an unreadable message; 3 deliveries, 2 faults | safety of settlement and ledger; events are scanned, messages settled, drains end | 0.21 M |
| `ConflictScan_replicas` | 2 replicas, 3 events on 2 shifts, every fixed roster | what interleaved scans leave, and that they end | 0.7 M |
| `Rules_small` | a subject and 2 others, 2 policies, naive and offset times | what the rules mean | 0.32 M, all rosters |
| `Roster_one_replica` | 3 requests one at a time, 2 shifts, 1 replica | which clashes are missed, which findings are stale | 2.2 M |
| `TokenCache_rotation` | 2 threads, 1 key, three times the time to live | how late rotations take effect | 5.4 M |
| `ApiPod_outage` | 2 clients, 2 probes, 3 threads, 1 connection, thresholds of 2 | what an outage does to the pod, and whether it recovers | 36 k |
| `Listing_pages` | 4 shifts at 3 times, 2 to a page, 1 overtaken claim | what a walk misses and repeats | 3.6 M |
| `WebConsole_one_tab` | 2 sites, 2 shifts at one of them, 4 loads, 3 claims | what the screen shows when answers arrive in any order | 0.43 M |

The passing properties, the ones worth a second look first:

* `OneUndisturbedWinner`, `CancelledIsFinal`, `AcceptedClaimSurvives`,
  `AtomicUnlessOvertaken`: each is the promise with its
  one exception, a commit of an overtaken writer. `LossyLifecycle` is the
  refinement of the weaker register and says that nothing worse happens.
  `VersionCountsWrites`, which `AtomicUnlessOvertaken` implies, is only proved.
* `AnswersAreHonest`: refusals wrote and announced nothing, and an event without
  a write belongs to a request that is about to commit, was answered with a 500 or was cut off.
* `LedgerTellsWhatWasApplied`, `CompletedWasProcessed`: one transaction for scan
  and ledger, settlement after it. Two replicas may apply one event, because
  `session.merge` in the second sees the row the first committed and updates it.
  `AppliedOncePerReplica`: no replica commits an event a second time, and
  `AppliedTwiceTakesALostLock`: two replicas commit it only if a lock ran out
  while its replica was still at work. Crashes, drains, failed settlements and
  lost acknowledgements bring the event back as often, and are all caught.
* `WorkLostOnlyByRepeatedBreaks`: an unhandled event reaches the dead letters
  only after as many *breaks* as the queue allows deliveries. A break is a fault
  of the environment, a drain, or an unreadable message that ended the process:
  its neighbours in the batch pay with a delivery each, although no handler
  failed on them. The message itself is delivered again, and ends the process
  again, until the queue gives it up: the code has no dead-letter path for it,
  as it has for a `PermanentError` (`main.py:90-92`).
* `LedgerMeansScanned`, `FindingsNeverFlicker`: on a roster that does not change,
  scans in any interleaving leave the right findings and no reader sees a gap.
  `NoDuplicatesOfOneReplica` is what the DELETE guarantees against duplicates;
  two replicas that both delete before either inserts do leave a finding twice.
* `UnflaggedClashesWereMissed`, `CancelledShiftsAreClean`,
  `StaleFindingsNameAWithdrawnShift`: with one replica, and nothing left to do,
  every unreported clash and every stale finding has one of the known causes. A
  clash is missed when its event was lost, or was handled before the write was
  committed: then it is never reported, by no later event. The last property
  records that a cancellation rescans only its own shift, so a finding on
  another shift that names it stays, and so it does when an overtaken claim takes
  the other shift from its worker. The run serves one request at a time and sees
  cancellations only; the theorem covers requests that overlap.
* `OneOffsetKeepsVerdicts`: the database drops the offset a shift was written
  with, and the worker takes what is left for UTC. While all shifts of a worker
  were written with one offset this changes no verdict, the week included;
  shifts written with different offsets are compared by their wall clocks.
* `WithdrawnKeysExpire`, `SettledKeysAreKnown`: the threads refill without a lock
  and may leave the keys of one answer under the stamp of another. The time to
  live holds all the same but for the time one answer takes, because the stamp
  is the time read before asking. A stamp read afterwards would break it, which
  is the mutant.
* `SilentOnlyUnderClients`: `/healthz` goes unanswered only in a pod that has
  served clients; the probes that wait for a slow database, however many the
  kubelet has given up, and the connections leave it a thread. That is as much of
  the comments in `health.py` and `values.yaml` as holds. Requests of clients that
  wait for the database fill the threads, and then the liveness probe restarts
  the pod: `SlowDatabaseKillsNoPod` states the promise and is violated (below). A
  pod that has not started is restarted by `/startupz`, which asks the database.
  `RequestsEnd`: requests that hold a connection wait for a
  thread, and those that hold the threads for a connection; the pool's timeout
  breaks the circle. `ReadyAgain`: what lets a pod recover is that it gets no
  requests while it is not ready.
* `MissedShiftHasACause`, `RepeatedShiftHasACause`: without ties a walk misses a
  shift only for an earlier one that left, and repeats one only for an earlier
  one that appeared. With ties it may do both on a table at rest, since the query
  orders by `starts_at` alone. `OneHiddenForOneGone` bounds the damage by the
  departures; a shift that leaves, is revived by an overtaken claim and leaves
  again may hide two. That takes more pages than the run has; the theorem covers it.
* `WrongSiteHasACause`, `ReloadShowsTheTruth`, `SecondClaimNeedsAnother`: the
  console does show the wrong site, offer a taken shift and claim a shift twice,
  each for the causes the property names and no other. The wrong site is an older
  answer that came late, or the reload of a claim from a list loaded before the
  user left that site; the claim itself may come after, since the old list stays
  until the new one arrives. Between two claims of one shift that are both under
  way, another shift was claimed or another claim ended. The notice of a lost race
  is set and wiped in one stretch (`App.tsx:84-85`), so it is never rendered.

Three runs show where the code does not do what a comment says of it; each has a
finding in `PROJECT.json` with the quotation.

| run | what it shows |
|---|---|
| `ShiftApi_double_winner` | two claims that read the open shift before either commits both win |
| `Roster_unreadable_finding` | the worker stores the value of a finding's kind and the API accepts its name, so that a request about a flagged shift cannot be rendered |
| `ApiPod_slow_database` | requests that wait for a slow database fill the threads `/healthz` needs, and the liveness probe restarts the pod |

The second has consequences `Roster` models: a shift with a finding can be
neither shown nor cancelled, and what was sent about it was never written. The
unit tests of either service use their own models on both ends and cannot see it.

### Bounds

`MaxVersion` bounds the version a client sends: 1 is the first version and 2 any
later one, and the versions of rows are not bounded. Three requests are enough
for a reader, the writer that overtakes it and a third that comes before or after
both. `PoolSize` is 2 instead of 15 so that three requests exhaust it.
`MaxDelivery` is 3 instead of 5: the code does not look at the count, and
the properties state the number of breaks in terms of it. `MaxFaults` bounds
faults, SIGTERMs and kills; with a break by an unreadable neighbour they reach
`MaxDelivery`, so that an event can be lost. `MaxSent` lets any two messages of the
four kinds meet. Three claims let one tab claim a shift a second time, and four loads let
each of them reload. `BatchSize` 2 puts a good message beside an unreadable one.
In `TokenCache` a time to live of two and a clock that runs to six let a key be
published, cached, withdrawn and forgotten while a second refill is late by
`Patience`, and one key is enough, since nothing relates two. `ApiPod` has
fewer connections than threads and more requests than both, so that each pool is
exhausted while the other is not; 2 stands for each threshold, and `Patience` is 0:
no wait for a connection outlasts the period of the probes, although a wait for the
database does, so that a given-up probe meets the next one. `Listing` has two
pages of two, times enough for ties and for none, and one revival. In `Rules` the
starts reach into the second week of six hours, and the shifts of at most three
hours can touch, overlap, lie exactly a minimum rest apart and straddle the
boundary. `Roster_one_replica` serves the requests one at a time (`MaxInFlight`
is 1), because two overtaking writers are `ShiftApi`'s subject; the scans still
interleave with every statement of a request, and the theorems about `Roster` do
without the bound. Symmetry sets are used in runs without
liveness only; `ShiftApi_racing`, which checks liveness too, starts from one
initial state of each class of interchangeable requests, pods and workers
(`CanonicalInit` in `MCShiftApi`). Every property is symmetric in them.

`CHECK_DEADLOCK FALSE` appears in `Rules_small` only, whose rosters stop growing
at `MaxOthers`. Elsewhere deadlock is checked; `Finished`, `Rest`, `Stop` and
`Over` stutter only where nothing is left to do.

### Fairness

* `ShiftApi`: weak fairness of the steps a request's thread can take. A lock is
  freed because its holder goes on to commit, and a waiting request takes a
  connection or runs into the pool's timeout. Arrivals, failures and crashes are
  not fair.
* `RosterConsumer`: weak fairness of each replica's work, of the broker handing
  active messages to a replica that asks, and of locks without a holder running
  out. Faults are not fair and are bounded.
* `ConflictScan`: weak fairness of each replica's `Handle`; `EventsAreSettled`
  assumes that failures stop at some time, which it states as its premise.
* `ApiPod`: weak fairness of a request that can go on, of the kubelet's probing
  and of the restart it has decided on; strong fairness of taking a thread, for the
  handler or the rendering, because the framework's limiter hands out threads first
  come, first served, so that a waiting request is not passed over for ever. Its
  liveness assumes that the database comes back for good, as its premise.
* `WebConsole`: weak fairness of all that a request in flight or its handler does;
  the user, failures and other clients are not fair.

## 4. Theorems

Each is proved for every set of requests, replicas, messages, shifts, threads
and every bound, from the named assumptions of its module. Every module
proves its type invariant (`TypeCorrect`; `Listing` within its inductive
invariant); the runs do not repeat it.

| module | theorem | establishes |
|---|---|---|
| `ShiftApiProofs` | `AlwaysConsistent` | `Spec => []Consistent`, the inductive invariant |
| | `UndisturbedWinner` | `Spec => []OneUndisturbedWinner` |
| | `OpenIsUntouched` | `Spec => []OpenMeansUntouched` |
| | `ClaimsSurvive` | `Spec => []AcceptedClaimSurvives` |
| | `HonestAnswers` | `Spec => []AnswersAreHonest` |
| | `CancelledStaysCancelled` | `Spec => CancelledIsFinal` |
| | `VersionsCountWrites` | `Spec => VersionCountsWrites` |
| | `AtomicWhenUndisturbed` | `Spec => AtomicUnlessOvertaken` |
| | `ImplementsLossyLifecycle` | `Spec => LossyLifecycle`, the refinement |
| | `OnlyMissedClashes` | one replica: `RosterSpec => []UnflaggedClashesWereMissed` |
| | `CancelledIsClean` | one replica: `RosterSpec => []CancelledShiftsAreClean` |
| | `StaleFindingsExplained` | one replica: `RosterSpec => []StaleFindingsNameAWithdrawnShift` |
| | `FindingsAlwaysAccounted` | one replica: `RosterSpec => []FindingsAccount`, the same at every step |
| | `RosterImplementsShiftApi` | `RosterSpec => Spec`: the theorems above hold of the two services together |
| `RosterConsumerProofs` | `CompletedMeansProcessed` | `Spec => []CompletedWasProcessed` |
| | `LedgerIsTrue` | `Spec => []LedgerTellsWhatWasApplied` |
| | `AppliedOnceEach` | `Spec => []AppliedOncePerReplica` |
| | `TwiceTakesALostLock` | `Spec => []AppliedTwiceTakesALostLock` |
| | `LossTakesBreaks` | `Spec => []WorkLostOnlyByRepeatedBreaks` |
| `ConflictScanProofs` | `LedgerScanned` | `Spec => []LedgerMeansScanned` |
| | `NoDuplicates` | `Spec => []NoDuplicatesOfOneReplica` |
| | `NoFlicker` | `Spec => FindingsNeverFlicker` |
| `RulesProofs` | `OverlapsShareTime` | `Spec => []OverlapIsSharedTime` |
| | `RestWidensTheSubject` | `Spec => []RestIsWidenedOverlap` |
| | `FindingsNeverGo` | `Spec => FindingsOnlyGrow` |
| | `ClashesMutual` | `Spec => []ClashesAreMutual` |
| | `OneOffsetIsEnough` | `Spec => []OneOffsetKeepsVerdicts` |
| | `WeeklyHoursAreWorked` | `Spec => []WeeklyIsHoursWorked` |
| | `PairsClashMutually` | overlap and rest are symmetric: what `ConflictScan` assumes of `Clash` |
| `TokenCacheProofs` | `KeysExpire`, `KeysAreLearnt` | `Spec => []WithdrawnKeysExpire`, `Spec => []SettledKeysAreKnown` |
| `ApiPodProofs` | `SilenceTakesClients` | `Spec => []SilentOnlyUnderClients` |
| `ListingProofs` | `MissesAreExplained`, `RepeatsAreExplained` | `Spec => []MissedShiftHasACause`, `Spec => []RepeatedShiftHasACause` |
| | `MissesAreBounded` | `Spec => []OneHiddenForOneGone` |
| `WebConsoleProofs` | `WrongSitesAreExplained`, `ReloadsShowTheTruth`, `SecondClaims` | `[]WrongSiteHasACause`, `[]ReloadShowsTheTruth`, `[]SecondClaimNeedsAnother` |

**ShiftApi.** `OneUndisturbedWinner` alone is not inductive: a second claim could be about to
commit with a copy that no longer is the row. `Consistent` rules that out by
parts. `RowsWellFormed`: an open row is at version 1, a taken one past it.
`CreatesAreFresh`: the id of a create has no row before its commit.
`CopiesAllowWrite`: a session writes only from a copy its checks let through.
`CopiesFreshOrOvertaken`: a copy is the committed row unless the writer is
overtaken, and then the row is taken. `CommitsLeaveTheirMark`: a committed claim
took its shift. So a claim that is not overtaken meets an open row, which no
committed claim has touched. `TypeStep` and `ConsistentStep` go action by action;
all but `Read` and `Commit` fall under `QuietStep`. `CommitCases` says what a
commit does to the row, and the action properties and the refinement follow from
it. `ClaimsSurvive` is inductive relative to `Consistent`; `HonestAnswers` needs
`AnsweredAtTheEnd`, that nobody is answered before the request ends and that a
response is prepared only after the commit.

**Roster.** The properties speak of a system at rest, and are far from inductive:
while events and scans are under way every table is out of step with the others.
`RosterConsistent` keeps books instead. A committed write *owes* a rescan of its
shift until its event is in the ledger, and for ever if the event was lost or
early (`Owed`). `FindingsAccount` says that each missing and each superfluous
finding is owed by someone, in every state. `SessionAccount` says the same of what
a scan under way holds, where the event it handles counts as settled: the copy of
the shift is the row or a later write owes (`SubjectFits`), and the shifts it
found are the worker's or one of them owes (`FoundFits`). A commit of the API
incurs the debt that covers what it changes (`NewWriteOwes`); a commit of the scan
pays the one of its event, because what it found then replaces the findings of the
shift (`ApplyKeepsFindings`). At rest only missed events owe (`OwedAtRest`).
`StaleFindingsNameAWithdrawnShift` had to be widened on the way: it spoke of
cancelled shifts only, and a shift re-assigned by an overtaken claim leaves a
stale finding, too.

**RosterConsumer.** A completed message says nothing of the replica that is
about to complete the next one. `VerdictsAreTrue` does: a replica holds the
verdict "complete" of a handled event only over its ledger row, which nothing
deletes. `OneAtATime` and `DeliveriesLeft` are needed for the types: a message
that may be received has a delivery left.

`OnceEach` adds to `AppliedOncePerReplica` that a replica past the ledger check of
an event has not committed it: it passed when the event was not in the ledger, and
has been busy with it since. For two replicas, `LocksHeld` says that what a replica
holds is locked by its delivery unless a lock of the message ran out in the hands
of one. A second replica gets past the check only with a delivery of its own, and
the message is not locked twice (`TwoTakeALostLock`).

`WorkLostOnlyByRepeatedBreaks` is a payment for deliveries (`Paid`): the
deliveries of an unscanned event, but for one in good hands, are no more than the
breaks. In good hands means that the replica has the lock and either is past the
ledger check or will get there, since it got no SIGTERM and holds nothing
unreadable and nothing whose lock is lost. An event leaves good hands, unscanned,
only by a break; one that is received into other hands has the break beside it, an
unreadable message of the same batch, or before it, a SIGTERM in the middle of the
receive call, whose batch is given back at once: `LateCalls` keeps that break
apart until the call has returned.
`HandsApart` is needed throughout, that no delivery is in two hands. The counts need
`Consumers` and `Unreadable` to be finite, which `ConsumerAssumption` says.

**ConflictScan.** On a fixed roster every scan finds the same, so `found` is what
the rules expect of the shift, at every step of every replica; a commit then
replaces findings by true ones and removes no pair. For duplicates the invariant
says that a scan which may insert has removed all that its own replica left.

**Rules.** Arithmetic on the ends of two intervals; `IntervalsMeet` names an hour
that two overlapping ones share.
The weekly rule sums over a set with a fold, whose unfolding needs an induction.
The library's induction theorems take an operator, which the provers cannot
instantiate; a set can take its place. `SmallestSet` gives every nonempty set of
finite sets a smallest member, by the well-founded order of the naturals, and
`FiniteInduction` is induction over the members of a set of sets. With these the
sum is defined (`SumExists`), does not depend on the order of adding
(`HoursTakeOut`), and is additive (`HoursSplit`); `DisjointHours` equates it with
the number of hours covered.

**TokenCache.** `StampsFollowAnswers`: whichever refills are mixed, the stamp is
at most `Patience` later than the answer whose keys are cached. `AnswersAreTrue`:
those keys are what the tenant published then. Together they date the key a
thread decodes with.

**ApiPod.** The counts grow only through a free thread or connection (`Counts`), so
they stay within their pools. What holds of a pod that has served no client is
`Unserved`. The probes that hold a connection are within the pool. The others were
sent one after the other, because one that waits for a thread has one the next time
a probe is sent; so they differ in `waited`, which has `Patience + 1` values
(`FewAreUnconnected`, by the pigeonhole principle). Both together leave a thread
free (`AThreadIsLeft`), and so it stays until a client comes.

**Listing.** The place of a shift is the number of those that pass and start
earlier. `UnreadAreAhead`: a shift that is not yet read, and that nothing hides,
has at least `offset` before it. `ReadAreBehind`: one that is read, and that
nothing pushed on, has fewer. `PageTells` derives from the definition of a page
what it does to both. `OneHiddenForOneGone` needs `LostAreCovered`: before each
shift that was passed unread there were more departures than shifts passed unread,
so that the latest of those lost has enough departures before it (`LatestCounts`).
Departures are kept in a sequence and only grow, whatever comes back.

**WebConsole.** `StraysHaveACause` says of every load and every claim at another
site than the chosen one what the property says of the screen: the chosen site was
asked for later, or a chain of claims at that site began on a list loaded before it
was (`ChainBegan`). Choosing a site asks for it, which gives every older load and
claim this cause; a reload or a claim inherits it from what it was made from.
`ListsLackTheClaimed`: what was read for a reload
or later lacks the shift. `ClaimingTells`: `claiming` names the shift of an
unfinished claim, unless another shift was claimed or another claim ended since;
`ClaimsAreDated` ties these dates to the loads and claims there have been.

Only model-checked: liveness, since fairness and ENABLED are out of the prover's
reach. These are `EveryRequestEnds` of `ShiftApi`; `EveryEventIsScanned`,
`EverySentIsSettled` and `DrainEnds` of `RosterConsumer`; `EventsAreSettled` of
`ConflictScan`; `RequestsEnd` and `ReadyAgain` of `ApiPod`; `EveryWaitEnds` of
`WebConsole`. Every invariant and every action property of a passing run has a
theorem.

The run of `Roster` bounds what its theorems do not: `MaxInFlight` is 1 there, the
shifts are two and the requests three. Its theorems have one hypothesis,
`OneReplica`. The chart scales the worker to between one replica and ten; with two,
a scan that read a shift before its cancellation may commit after the scan of the
cancellation, so the properties, as `Roster` states them, are of one.

## 5. Assumptions, and what is not modelled

* The database is Azure SQL with its default isolation, read committed snapshot:
  reads see the last committed row and do not wait, writes take row locks. Its
  deadlock victim is `Fail`.
* FastAPI runs the code after `yield` in `get_db` before the response is sent
  (the pinned release does). The code 200 stands for 200 and 201.
* A connection is held while the event is published, because the transaction is.
* `uuid4` ids are fresh. Sites and workers are never deleted (no code deletes
  them), so a scan always finds the worker.
* A message's time to live, after which the queue dead-letters it, is left out;
  so are the texts of findings, logs, metrics and traces.
* The key cache starts empty and `auth_enabled` is set. A pod is alone with its
  database in `ApiPod`; the other pods are the reason why `db` changes.
* Not modelled: `create_site` and `create_worker`, one INSERT each, whose
  uniqueness is the database's; `get_shift`, `coverage_report` and `list_sites`,
  one read each, and the gauge `list_shifts` sets from a second read; the lazy
  singletons (`get_engine`, `get_publisher`), which only the first requests of a
  process race for and which leave nothing behind but an extra client or one
  failed request; configuration, logging, metrics and tracing, which keep no
  state the program reads; and the declarative parts (migrations, GitOps,
  Terraform, the charts but for the probes) with the policy audit and the
  scripts, single passes over files without order or concurrency to check.
* `WebConsole` has one tab and no shift created meanwhile; the coverage, read by a
  request of its own, is left out with the days and formats.

## 6. Plan

Done, in this order: `ShiftRows`, `ShiftLifecycle`, `ShiftApi` and its proofs;
`RosterConsumer`; `ConflictScan`; `Rules`; `Roster`; `WebConsole`; `TokenCache`;
`ApiPod`; `Listing`; the rendering of responses in `Roster`; the proofs of
`TokenCache`, `Listing`, `RosterConsumer`, `ConflictScan`, `Rules`, `ApiPod` and
`WebConsole`; the proofs of `Roster`, of the sums in `Rules` and of the counts in
`RosterConsumer` and `Listing`.

Left:

1. What `Roster` keeps with any number of replicas: the findings a scan leaves
   that read the shift before a write it does not know.
2. An abstract specification of conflict detection (findings as a function of
   the roster) that `Roster` implements when no event is lost or early, and a
   proof that it does.
3. When the services are changed to commit before they publish, or to check the
   version in the UPDATE, the exceptions in the properties of `ShiftApi` and
   `Roster` are to be removed and the runs must still pass.
