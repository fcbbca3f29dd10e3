# Partner Integration Reliability Hub: specifications

TLA+ models of the hub - admission of events and replays, the outbox, routing,
delivery, the destination's runtime, the search index, the control plane and the
portability of its configuration - with TLC runs on small instances and TLAPS
proofs for every instance. Paths below are relative to the repository.

```
tlc -workers 2 -config DeliveryHostile.cfg MCDeliveryWorker     # a run
tlapm DeliveryProofs.tla                                        # proofs
```

## 1. The system

Producers send events to the hub; the hub transforms each event for every
subscribed partner destination and delivers it over HTTP, with retries, leases,
circuit breakers, rate limits, dead letters and replays. All state is in one
DynamoDB table. Processes share nothing else: they meet in conditional
transactions on that table and in SQS messages, each of which may be delivered
late, twice or after its work is done.

```
 accept() --EVENT + OUTBOX--> publisher --ROUTE_EVENT--> route() --DELIVERY + OUTBOX
                                 ^                                       |
                                 +------------------ OUTBOX -------------+
 publisher --DELIVER--> deliver(): lease, checks, attempt record, partner call,
                        finalize (DELIVERY + ATTEMPT + EVENT + OUTBOX), ack
```

| Component (code) | State | Operations | Hard behaviours | What makes it correct |
|---|---|---|---|---|
| Ingestion (`application` 1080-1162, `persistence` 1763-1999) | EVENT, idempotency guard, first OUTBOX record | accept | concurrent requests with one key, an answer lost after the commit, guard expiry, lagging reads | one event per key and payload, answers about one's own request |
| Replay (`application` 1410-1636, `persistence` 977-1177, `domain` 469-495) | guard, relation, REPLAY delivery, audit | createReplay | the same, and eligibility that changes meanwhile | the same |
| Outbox (`outbox-worker`, `outbox-reconciler`, `persistence` 1591-1738) | OUTBOX and scheduled-work items by shard | send, mark, reconcile, materialize | crash between send and mark, two publishers, pages of 25, delays beyond the queue's | everything committed is sent, not early, duplicates only for a cause |
| Queue (SQS; `packages/queue`, `infrastructure/cdk`) | messages, receipts, receive counts, DLQ | send, receive, delete, change visibility, redrive | duplicates, expiry while held, redrive limit | external |
| Routing (`application` route, `persistence` 2000-2281) | DELIVERY items, the event's counters | route, createDelivery, completeRouting | duplicate messages, crash half-way, optimistic commits that lose, errors caught as something else | one delivery per subscribed destination |
| Delivery worker (`application` deliver, `persistence` 2361-3310, `apps/delivery-worker`) | DELIVERY with lease, DELIVERY_ATTEMPT items | acquireLease, defer, startAttempt, partner call, finalizeAttempt, recoverExpired | every pair of steps of two workers, lease expiry under its owner, crash after the call, ambiguous transaction errors | attempts counted exactly, outcome final, fencing, no forgotten delivery |
| Event outcome (`persistence` 2209-2281, 2682-2705, 2794; `domain` 517-541) | counters, status, version, STATUS# index entry | updated inside the transactions above | concurrent read-modify-write, ends before routing completes | status is what the deliveries amount to |
| Destination runtime (`persistence` 2849-2870, 2996-3154) | circuit and token bucket per destination | permits, recording of results | half-open probe lost, contention of finalizations, stale clocks and permits | results are recorded one after the other, one probe at a time, no more permits than the policy |
| Delivery index (`persistence` 166-206, 602-751, 3311-3437) | index items by category and instant | moved with the delivery, searched in pages, counted, resumed | deliveries that move between pages, entries left behind, windows that move | nothing listed twice or missed, nothing left blocked |
| Control plane (`apps/api` 584-1024, `application` 591-1021, `persistence` 1178-1568) | partners, destinations, transformation versions, subscriptions with their pointers, audit; credentials | create, update, delete, rotate | concurrent edits, several items per resource, lagging reads, failures between awaits | views agree, no lost update, audit matches |
| Configuration portability (`config-portability`) | none of its own; a receipt in the client's hands | export, plan, apply | edits between its reads and writes, failure half-way | exports can be imported, imports converge, a receipt is spent |
| Authentication (`packages/auth`) | nonces, versions of a producer's secret | authenticate | replayed and late requests, rotation | who enters the two operations of Admission |
| Backup, API and console otherwise, HTTP client, transformation engine, encryption of secrets, token cache, rollups, observability | token cache, rollup counters; otherwise stateless | | scan of a live table | see section 8 |

`PROJECT.json` lists each of these with what is modelled of it, and the hazards
at the lines where they bite.

## 2. The modules

| Module | What it is |
|---|---|
| `DeliveryDomain` | The pure rules of `packages/domain`: delivery states, `permittedTransitions`, `transitionDelivery`, classification of an answer. |
| `DeliveryWorker` | One delivery, any number of workers running `deliver()`, its queue messages and its outbox records. |
| `DeliveryContract` | The abstract specification of one delivery: begin an attempt, be processed by the partner, conclude. |
| `EventOutcome` | One event, any number of routers running `route()`, the finalizations of its deliveries, the event's counters, status and index entry. |
| `EventContract` | The abstract specification of one event: deliveries are created once, end once, and the status is a function of them. |
| `DestinationRuntime` | The circuit breaker and the rate limiter of one destination, and any number of workers delivering several deliveries to it. |
| `CircuitContract` | The abstract specification of a circuit breaker: it records one permitted result after the other, and a change of its state voids the other permits. |
| `Outbox` | The outbox records of all shards, both publishers, scheduled work and EventBridge schedules. |
| `Admission` | The two requests that make new work, submitting an event and replaying a delivery, from authentication to answer. |
| `Search` | The delivery index under every write of a delivery, the searches of script and console, the count by state, `resumeDestination`. |
| `ControlPlane` | The configuration of a tenant as items of the table, and the API's requests that change it. |
| `ConfigPortability` | Extends `ControlPlane`: exports, plans and imports among the API's requests. |
| `DeliveryProperties`, `EventProperties`, `DestinationProperties`, `OutboxProperties`, `AdmissionProperties`, `SearchProperties`, `ControlProperties` | What must hold of each, and the refinement mappings to the contracts. |
| `DeliveryProofs`, `WakeUpProofs`, `DestinationProofs`, `AdmissionProofs`, `EventProofs`, `OutboxProofs`, `SearchProofs`, `ControlProofs` | The TLAPS proofs. |
| `MC...` | Instances for TLC: the names of model values, functions for constants, symmetry. |

How they fit together. An event enters by `Admission`, which leaves an outbox
record; `Outbox` shows that a record becomes a message; `EventOutcome` routes it
and `DeliveryWorker` delivers, both leaving records to `Outbox` again. Three
components meet in `finalizeAttempt`, whose transaction carries the
delivery, its event and its destination's circuit. `DeliveryWorker` shows that the
deliveries conclude once, whichever workers run. `EventOutcome` builds on it,
with one finalizer for each delivery, and models the event's record, which all
routers and finalizers contend for. `DestinationRuntime` models the circuit's
record, which the finalizations of all deliveries to a destination contend for; of a
delivery it keeps the state, the attempt count and who holds the lease. The
verdicts it computes are choices in `DeliveryWorker`. `Search` keeps of a delivery
what its index entries show, and takes the transitions from `DeliveryDomain`.
`ControlPlane` commits the request to resume a destination that `Search` and
`DeliveryWorker` carry out.

### DeliveryWorker and the code

A worker suspends at every `await`, so each awaited read, write and call of
`deliver()` is one action and the statements up to the next `await` belong to
it. A conditional write is one `TransactWriteItems`: its condition is the guard,
and the delivery, the attempt record and the outbox change together.

| Action | Code |
|---|---|
| `Read` | the first `getDelivery` and the dispatch on its state (application 1714-1762) |
| `AcquireLease` | `acquireLease` (persistence 2361), its three outcomes in `deliver()` |
| `Check` | destination flag, circuit permit, rate permit, in this order; the verdict is a choice |
| `Defer` | `defer` (2882), whose result the caller ignores |
| `StartAttempt` | `startAttempt` (2605) |
| `Send` | secret, token and partner call; an answer may be lost after the partner acted |
| `Finalize` | classification and `finalizeAttempt` (2668) |
| `RecoverRead`, `RecoverCommit` | `recoverExpired` (3155) |
| `Ack`, `Return` | the consumers' delete, change of visibility, or failure of the item |
| `Crash` | the process dies or an operation throws, at any step |
| `PublishSend`, `MarkPublished`, `PublisherCrash` | both publishers |
| `ResumeDestination` | the part of `resumeDestination` (3311) that concerns one delivery |
| `Receive`, `VisibilityTimeout`, `DelayElapses`, `DeadLetter`, `Redrive` | the queue |
| `BecomesDue`, `LeaseExpires` | the clock |

Abstractions:
- Instants are the two facts the code asks of them: whether the lease has expired
  and whether the delivery is due. There is one clock for all machines.
- A lease token or an attempt id is a fresh ULID. The model draws it from the
  version the lease is written under, which is as unique, and one token stands
  for both ids since one run of `deliver()` draws both.
- `isConditionalFailure` (persistence 138) treats every cancelled transaction as
  a false condition. `NotWritten(op, condition)` therefore has both causes; the
  constant `CancelOps` names the operations a run lets fail for another reason.
- Reads without `ConsistentRead` show as commits that fail although nothing
  changed since: the version condition rejects what a stale read produced.
- A delivery handler that loses its message's receipt goes on; only its delete
  has no effect any more (`holder`).

### EventOutcome and the code

| Action | Code |
|---|---|
| `StartRouting` | receive, `listSubscriptions` |
| `NextDestination` | the loop's head: the destination, and the transformation, which fails for `Broken` ones |
| `Lookup`, `ReadEvent`, `CreateDelivery` | `createDelivery` (2000): the existing delivery, the event, the transaction, eight tries |
| `Thrown` | the catch clause of `route()` (application 1325-1372) |
| `StoreError` | any other error of the store, before or after the write took effect |
| `CompleteRead`, `CompleteRouting` | `completeRouting` (2209) |
| `FinalizeRead`, `Finalize` | the event's part of `finalizeAttempt` (2682, 2794), for a delivery's last attempt |
| `RouterCrash`, `Duplicate`, `Reconfigure` | the environment and the control plane |

Attempts that do not end a delivery leave the event as it is, so the states
before a terminal one are one state, `scheduled`. The two ways into
`failed_terminal` are kept apart: `transformation_error` is the delivery the
catch clause stores. `steady` is a history variable, for `RoutedCoversDestinations`.

### DestinationRuntime and the code

| Action | Code |
|---|---|
| `Begin` | the lease; `now` and what it makes of the circuit's instant (`since`, `ripe`) |
| `ReadCircuit`, `AcquireProbe` | `acquireCircuitPermit` (persistence 3049): read and decide; the conditional put of the half-open circuit, and its retries |
| `ReadBucket`, `Grant` | `acquireRatePermit` (2996) with `rateLimitDecision` (domain 669): likewise |
| `Defer` | `defer()` after a refusal by the circuit (`scheduled`) or the limiter (`rate_limited`) |
| `Call` | `startAttempt`, the partner's answer, its classification |
| `Finalize` | `circuitAfterAttempt` (3135) and `finalizeAttempt` with its condition on the circuit (2849); failing it throws |
| `Recover` | `recoverExpired` (3155) |
| `Crash` | the process dies or an operation throws, at any step |
| `InstantPasses`, `Tick` | the clock |

Abstractions:
- The circuit's instant (`nextProbeAt` when open, `probeLeaseExpiresAt` when half-open)
  is named by the version that set it, with one flag, `passed`. A worker compares it
  with the clock of its own beginning: `ripe` is the instant it then saw as past. How
  long a cooldown or a probe's lease is makes no difference to the properties.
- The rate limiter has a clock in units (`Tick`), because its promise is about
  distances in time. Permits are drawn on the worker's clock, which may be behind.
  Instants are whole, so rounding the next arrival up rounds the increment up.
- `grants` is a history variable. `answer` keeps what `circuitAfterAttempt` tells
  apart: success, a failure that counts, a retryable one that does not (408, 425,
  429), a terminal one.
- `waiting` stands for `scheduled` and `retry_scheduled`, which are leased alike. A
  `rate_limited` delivery is never leased again (finding 1).

### Outbox and the code

| Action | Code |
|---|---|
| `Commit` | any transaction that carries an outbox record (`DynamoAtomicWriter`, persistence 3464) |
| `BeginTick`, `Scan` | `tick`: the shards in turn, `getUnpublished` (1591) with its page and, for the reconciler, its age |
| `Send` | `createOutboxPublisher` (outbox-worker 133): materialize, create the schedule, or send with a delay in whole seconds |
| `Mark`, `MarkFails` | `markPublished` (1612) and its failure after the send |
| `SendFails`, `RecordFailure` | an error of send, recorded by `recordPublicationFailure` (1626) |
| `ScanWork`, `SendWork`, `MarkWork` | the reconciler's scheduled work (outbox-reconciler 178) |
| `Crash` | either process ends, at any step |
| `ScheduleFires`, `Tick` | EventBridge, the clock |

`local` chooses the deployment: scheduled work, or EventBridge schedules. A page is a set, gone through in the order of its keys (`AtHand`). A record
whose message the schema refuses fails each time (`malformed`). `queued` and
`early` are history. How DeliveryWorker sees the same publishers: `PublishSend`,
`MarkPublished`, `PublisherCrash`.

### Admission and the code

| Action | Code |
|---|---|
| `AuthenticateProducer`, `AuthenticateOperator` | `packages/auth` 160-225 and 79-105: skew, grace, nonce; role |
| `CheckOriginal`, `CheckConfiguration` | the checks of `ReplayService.replay` before the guard (application 1424-1477) |
| `ReadGuard`, `Fetch` | the first read of the guard and of what it names (persistence 1766-1782, 980-988) |
| `Write` | the one transaction (1827-1984, 1000-1149): condition failed, cancelled for contention, or committed |
| `Reread` | the second read after a refused transaction (1986-1997, 1161-1176) |
| `Fail` | an await throws or the process ends, also after its effect |
| `Send`, `Duplicate`, `Tick`, `Delete`, `Settle`, `Reconfigure` | clients, network, clock, time to live, delivery worker, control plane |

A body stands for what the hash of a request tells apart; `Confirming` are the replay
bodies that confirm a correction. `hosted` is DynamoDB itself: a read may miss an item
written in the same instant, and a transaction is cancelled when another is in its way
(all creations count in a shared rollup item), which `isConditionalFailure` cannot tell
from a failed condition. Nonces do not expire: the clock ends before they could.

### Search and the code

| Action | Code |
|---|---|
| `Create`, `Lease`, `StartAttempt`, `FinalizeAttempt`, `Defer` | the writes of a delivery with `deliveryIndexItem` (persistence 166-206), of which `startAttempt` moves no entry |
| `Search`, `Query`, `Resolve`, `Serve`, `NextPage` | `searchDeliveries` and `countDeliveriesByState`: the window, a page of entries, the delivery of each, the signed cursor with its life and its window |
| `ResumeQuery`, `ResumeRead`, `ResumeWrite`, `ResumeEnd` | `resumeDestination` (3311-3437) |

A transaction that names an entry twice is refused by DynamoDB, hence `Disjoint`. One
listing or one resumption runs at a time, since readers do not disturb one another.
Reads find what is current; the count takes the whole of time for its window.

### ControlPlane, ConfigPortability and the code

A request is the list of its awaited calls (`Todo`): read, audit of a rotation, store
of the credential, write.

| Action | Code |
|---|---|
| `Begin` | a handler of `apps/api` 594-1024, with the version the client saw for `If-Match` |
| `Read` | the handler's lookup and the checks of the service or the repository (limits, parents) |
| `AuditRotation`, `StoreSecret` | application 863-884, `packages/secrets` |
| `Write` | the transaction of `controlWrite` (persistence 1178-1555): items, pointers, audit, and `RESUME_DESTINATION` when a destination is enabled |
| `Abandon` | any awaited call throws, or the process ends |
| `BeginExport`, `List`, `EndExport` | `export` (config-portability 439-610): four lists, one after the other |
| `MakePlan` | `plan` (715-938), its reads in one step |
| `BeginApply`, `Drift` | `apply` up to the comparison with the receipt (939-963) |
| `ApplyResource`, `Skip`, `DependencyChanged`, `Returned`, `Complete` | one resource after the other through `ControlPlaneService` (964-1182) |

`table` maps keys to items, as in `keys.ts`; the history items and the audit event of a
write are counted in `audits`. What a bundle says of a partner is its name and perhaps a
description (`PartnerConfig`). `hosted` lets a read return what the last write
replaced: a read lags by one version of an item at most, which is a bound of the model, as
DynamoDB names none. Exports are modelled where reads do not lag. Of a version's entries in a bundle each is a resource of
its own. A definition, a name and an alias are values; digests and fingerprints compare what they hash.

Two assumptions say what the table and the requests are. `InitialAssumption`: the first
configuration is one a fresh service leaves, `Sound`, where external keys have resources and
resources external keys, and routes have catalogue entries. `OperationsAssumption`: requests are
those the strict schemas of `packages/contracts` (350-405) and the routes let through, where a
create names a key and no update touches an id, a key, an event type or a subscription's
destination. `PortabilityAssumption`: a bundle is `WellFormed`, as the schema, the check for duplicates and
`normalized` leave it (config-portability 216-320). Identifiers are positive numbers given out in order, for ULIDs: `Fresh` is the
next, and never one given out before.

## 3. Properties

Of a delivery (`DeliveryProperties`):
- `AttemptAccounting`: attempt records, the count and the active attempt agree at
  every moment, and the policy's maximum is kept.
- `OutcomeMatchesAttempts`: the state is what the attempts amount to; a success
  was really processed by the partner.
- `SendsOnce`: no attempt is sent twice, nor without its record. The hub delivers
  at least once; this says that duplicates are always *further attempts*.
- `LeaseExclusive`: of all workers between lease and finalization one at most can
  still write. The fence is version and token, not time.
- `OutcomeFinal`: concluded attempts and ended deliveries never change.
- `ImplementsContract`: every step is a step of `DeliveryContract` or a stutter.
- `WakeUp`: an unfinished delivery has an outbox record or a message that nobody
  is about to delete.
- `DeliveryEnds` (liveness): it ends, or a message of it is in the DLQ.
- `DeferredResumes` (liveness, **violated**).

Of an event (`EventProperties`):
- `CountersMatchDeliveries`: the five counters are the numbers of deliveries.
- `RoutedCoversDestinations`: routing is never complete with a destination missing.
- `FinalStatusKept`: repeated routing does not reopen an event.
- `ImplementsContract`: the status is at every moment the contract's `Status`.
- `EventSettles` (liveness): it gets a final status for good.
- `IndexFindsEvent` (**violated**).

Of a destination (`DestinationProperties`):
- `PermitsFollowCircuit`: a permit whose result would still be recorded is a permit of
  the circuit as it is: none while open, the probe's alone while half-open.
- `RateRespected`: between any two rate permits the clock has advanced by what the
  policy asks for the permits between them, less the burst.
- `ImplementsContract`: permits, results and expiries are steps of `CircuitContract`.
- `CircuitLetsGo` (liveness): a circuit does not stay shut; each delivery ends unless
  the rate limiter refused it.
- `HealthyDestinationSucceeds` (**violated**).

Of the outbox (`OutboxProperties`):
- `NothingLost`: a committed record is unpublished, scheduled or was sent, whoever
  crashed between what.
- `NeverEarly`: no message becomes visible before its delivery is due.
- `DuplicatesBounded`: a record is sent twice only for the other publisher or a fault.
- `QueuedUnlessCrowdedOut` (liveness): every record gets into the queue, with the
  reconciler alone, unless it stands behind a page of malformed records or of
  scheduled work. These two are the ways in which the code does starve records.

Of submissions and replays (`AdmissionProperties`):
- `CreatedOnce`: one key makes one record in the life of its guard.
- `AnswersAgree`: who is told "accepted" or "duplicate" gets a record of its own
  request, and one caller only is told that it made it.
- `ConflictExplained`: on the local table a conflict has a cause: another body, or a
  guard that has had its time and is not deleted yet.

Of the index (`SearchProperties`):
- `FoundExactlyOnce`: a listing read to its end shows nothing twice and misses only what
  changed meanwhile or is being attempted.
- `ResumeReaches`: a resumption that has ended leaves blocked only what older entries
  crowded out of its page.

Of the configuration (`ControlProperties`):
- `ViewsAgree`: a subscription is in the routing table as in the catalogue or in neither;
  external keys and resources match one to one.
- `AuditTrail`: as many audit events name a resource as it has versions.
- `VersionsAdvance`: what replaces an item is its next version, made from it;
  transformation versions are never replaced.
- `ResumeRequested`: who enables a disabled destination commits its resumption. The last two
  except a write that was built on a lagging read: `If-Match` is compared with the
  stored version, not with the one that was read.
- `ExportRoundTrips`: an export is importable although others edit meanwhile, and if
  nobody did there is nothing to import.
- `Converges`: after an import that nobody interfered with, also one that completes a
  failed one, there is nothing left to do but what an import leaves undone by its own rules: a
  description the bundle leaves out, and the transformation of a destination that passed for unchanged
  before that transformation was created (section 7).
- `ReceiptSpent`: the first change made with a receipt ends its use, unless a resource
  is gone again.

## 4. Runs

| Run | Instance | Question and result |
|---|---|---|
| `DeliveryHostile` | 2 workers, 1 message slot, 2 attempts, 2 receives, all refusals, all cancellations, early redelivery, 2 faults, 1 deferral | All safety properties of a delivery but `WakeUp` hold. 2.1 million states. |
| `DeliveryWakeUp` | 2 workers, 2 slots, 2 faults; only `finalize` may be cancelled | `WakeUp` holds. 5.6 million states. |
| `DeliveryLiveness` | 1 worker, 2 slots, 4 receives, 1 fault, 1 deferral, fairness | `DeliveryEnds` holds. 0.8 million states. |
| `DeliveryRate` | 1 worker, rate refusals, no faults, fairness | `DeferredResumes` is violated (finding 1). |
| `EventOutcome` | 2 routers, 2 destinations of which one's transformation fails, 2 tries, 2 faults, 1 change, fairness | All of an event's properties hold. |
| `EventIndex` | 1 router, no fault at all | `IndexFindsEvent` is violated (finding 2). |
| `Destination` | 2 workers, 2 deliveries of 2 attempts, threshold 2, 3 units for 2 requests, burst 4, clock to 1, 2 tries, 1 fault, fairness | All of a destination's properties hold. 1.1 million states. |
| `DestinationHealthy` | 2 workers, 3 deliveries, the partner always succeeds, no fault | `HealthyDestinationSucceeds` is violated (finding 3). |
| `Outbox` | both deployments, 3 records of one delivery in one of 2 shards, page of 2, waits of 3 and 4 ticks with 2 ticks a second and a limit of 1 second, 2 malformed, 1 fault, fairness | All of the outbox's properties hold. 0.3 million states. |
| `ControlPlane` | local and hosted, 2 API clients, 1 importer with 2 plans or exports, one resource of each kind, 3 bundles, limits of 2, 1 fault | All of the configuration's properties hold. 2.6 million states. |
| `Admission` | local and hosted, 3 calls, a key of each kind, 2 bodies, a rotated secret, clock to 2 with a guard's life of 1, 1 fault, 1 change | All of Admission's properties hold. 6.6 million states. |
| `Search` | 2 deliveries, 3 categories, pages of 1, clock to 4, cursors that live for 2, all three readers | All of the index's properties hold. 8.9 million states. |

Bounds. Two attempts are the least with both a retried and a last attempt. Two
workers are the least that can contend; with one delivery, a third only repeats
what the second does, because each acts on the store alone. One message slot is
enough for the fencing properties, since early redelivery hands the same message
to a second worker; `WakeUp` needs two, because it depends on which copy
is deleted. `faults` bounds crashes, cancellations, early redeliveries,
publisher duplicates, leases that expire under their owner and premature
messages together: two allow each pair of them, such as a lease that expires and
a finalization that is lost. `deferrals` bounds refusals. The eight tries of an
event's commit are two, so that giving up happens within the bound of faults. In `Destination` the threshold 2 lets one failure be forgotten and two open
the circuit, and leaves an attempt for the probe. The four
attempts reach the burst of 4 and the increment is not whole, so that the fourth
permit is refused when the others were drawn on a clock ahead of its own: the case a
limiter without the stored arrival time gets wrong. Two tries are the fewest with a retry and a giving up. In `DestinationHealthy` the burst is out of
the way and nothing fails, so that only contention can explain the violation. Runs
stop when the delivery has ended and its queue is drained, hence
`CHECK_DEADLOCK FALSE`. Symmetry (workers, messages) is used in the safety runs
of `DeliveryWorker` and in `Admission` (calls).

In `Outbox` a page of 2 is full with three records, so that one is behind it; the waits
are on both sides of what the queue can delay and one is no whole number of seconds; three records
of one delivery contend for its schedule's name. In `Admission` three calls are a
winner, a loser and a retry; the guard expires within the clock, and the record after it.
In `Search` two deliveries and pages of one make every listing turn a page between two
deliveries that may change, and one entry fills a resumption's page. In `ControlPlane` two clients can
each make the other's read old, the limits and the page of versions are reached by one create, and
two plans allow a receipt to be used again or an export to follow an import.

`DeliveryHostile` and `DeliveryWakeUp` differ in `CancelOps`: cancelling `lease`,
`defer` or `recover` loses the delivery (section 7), so `WakeUp` is asked without
them. Where they are allowed, the other properties hold all the same.

## 5. Fairness

`Fairness` in `DeliveryWorker`: a started run of `deliver()` goes on (an event
loop; crashes are actions of their own and bounded), publishers poll, messages
become visible, visibility timeouts and instants pass: weak fairness. Receiving a
given visible message is strongly fair, because a worker that polls a queue is
sometimes busy, and a standard queue does not starve one message for ever. No
fairness on crashes, refusals, resumption by an operator or redrives. In
`DestinationRuntime` a run goes on, instants pass and abandoned deliveries are
recovered (weak), and a waiting delivery is taken up again (strong: `WakeUp`, and
the queue's fairness); `Tick` is not fair. In
`EventOutcome` routers and finalizers are weakly fair; that a delivery's attempts
come to an end is what `DeliveryEnds` shows for one delivery.

In `Outbox` only the reconciler's steps are fair, because a timer starts it again and again, with the
clock and the schedules that are due; the worker, which hosted runs only when the table's
stream calls it, gets none.

`DeliveryEnds` admits a message in the DLQ as the end. A message on its last
permitted receive may lease the delivery and crash, while another copy is
acknowledged because the lease is still live: what remains is the copy in the
DLQ, and an operator.

## 6. Proofs

`DeliveryProofs` proves for any sets of workers and messages, any `MaxAttempts`,
`MaxReceives` and bounds, and any choice of environment allowed by the assumptions
of `DeliveryWorker` (`NullAssumption`, `AttemptsAssumption`,
`ReceivesAssumption`, `EnvironmentAssumption`): `TypeCorrect`,
`AttemptsAccounted`, `OutcomesMatch`, `SentOnce`, `LeaseExcludes`,
`OutcomesAreFinal` and `ContractImplemented`, the refinement.

None of the properties is inductive. `Inductive` adds:
- `SnapshotInv`: a worker's snapshot is of an older version or *equals* the stored
  delivery. Every write advances the version, so a worker whose version still
  matches knows the whole delivery. This is what makes the conditions of
  `startAttempt` and `finalizeAttempt`, which name two or three fields, sufficient.
- `TokenInv`: no two runs hold one token. With `SnapshotInv` it gives `LeaseExclusive`,
  and that the attempt record a worker is to conclude is its own.
- `StepInv`: what a worker knows at each step, for instance that at `send` its
  attempt is recorded and has not been sent, and that at `finalize` a success is in
  `accepted`.
- `StoreInv`: the two stored properties together with bounds that carry them
  over a step: the attempt exists before it is active, nothing is sent for numbers
  not yet used, tokens never exceed the version.
- `sent <= outbox`, for the type of the difference.

`InitInductive` and `NextInductive` establish it, the latter with one lemma for
each action (actions that leave store and workers alone share `QuietStep`, those
that move one worker `LocalStep`). `OthersFenced` is the heart: after a write that
advances the version no other worker's snapshot is current. `StepShape` classifies
every step as one of the store's four changes, reschedule, start, conclude and
process, or none; finality and the refinement follow from it.

`WakeUpProofs` extends it with `NeverForgotten`, that `WakeUp` holds, under one hypothesis:
`Granted`, that SQS hands no held message out again before its visibility timeout and
that no transaction but a finalization is cancelled. These are the choices of run
`DeliveryWakeUp`; without them the code does lose the delivery, which is a finding
(section 7). A delivery may wait or be leased, and the property only speaks of messages, so
`WakeInv` says what carries it through the changes of hand:
- `LeaseKept`: the message a lease was taken from outlives it; only its holder or, after
  its expiry, a worker that will recover the delivery works on it.
- `WaitingKept`: while a delivery waits a record is still to be sent, or a message
  `Rouses`: the worker that has it, if any, will lease the delivery or put the
  message back.
- `OwnerInv`, `HoldInv`, `RoutedInv`: who holds the lease works on that message, one worker
  has a message, and a delivery waits, is leased or has ended.

`DestinationProofs` proves for any workers, deliveries, thresholds and rate policies,
from the assumptions of `DestinationRuntime` (`PolicyAssumption`: a policy's numbers are
positive; `EnvironmentAssumption`): `TypeCorrect`, `PermitsFollow`,
`RateRespectedAlways` and `ContractImplemented`. Its `Inductive` adds:
- `CircuitInv`: a worker's copy of the circuit is of an older version or equals the
  stored one; a prober with the current version has seen the instant pass; an
  instant's name never exceeds the version, so that a new instant is a new name.
- `RateInv`: the same for the bucket.
- `GrantsInv`: the stored arrival time lies one increment beyond every permit for each
  permit since, and permits are apart as increment and tolerance say. `DrawnAccounts`
  carries it over a permit, whatever the worker's clock; `RateFollows` turns
  increments rounded up and a tolerance rounded down into the policy's own numbers
  (`Division`, `IncrementEnough`, `ToleranceAtMost`).

For the refinement each action becomes one of the contract's: `KeptOrWithdrawn`
covers those that give no permit, `PermitGiven`, `ProbeGiven` and `ResultGiven` the
others, and `RecordedCircuit` computes what a result makes of the circuit.

`AdmissionProofs` proves for any calls, keys, bodies, secrets, lifetimes and bounds, from
`AdmissionAssumption` (a record outlives its guard, events and replays have keys of their
own): `TypeCorrect`, `CreatedOnceAlways`, `AnswersAlwaysAgree` and `ConflictsExplained`,
the last three being all of its run's invariants. `CreatedOnce` alone is not inductive:
nothing in it says that a free key is a key whose records have had their time.
`Inductive` adds:
- `GuardLasts`: a record has had the life of its guard, or its key's guard lasts as long
  as the record asks for. The guard is dated no earlier than the record's own instant
  (`CommitGuards`), the table deletes only what has expired (`DeleteKeeps`), and the
  transaction asks for the key to be free (`CommitKeepsStore`).
- `GuardNames`: a guard is about a record made under its key.
- `CallOK`: what a call refers to is a record of its own key and content; on the local
  table a call that lost its write has a record under its key to lose to, which is why
  the second read explains a conflict (`MissedIsOutlived`).

`EventProofs` proves for any destinations, copies of `ROUTE_EVENT`, changes of the
configuration and faults, from the assumptions of `EventOutcome`: `TypeCorrect`,
`CountersAlwaysMatch`, `RoutedAlwaysCovers`, `FinalStatusAlwaysKept` and
`ContractImplemented`. Counters are read in one step and written in a later one, so
`Inductive` adds what each actor knows in between:
- `CopiesInv`: a copy of the event that has its current version equals it, and a
  finalizer that holds a copy has a scheduled delivery. A write under a version is
  therefore a write over the event as it is.
- `Derived`: the status is what `DeriveEventStatus` makes of the counters. With the
  counters equal to the numbers of deliveries by state this makes the status a
  function of the deliveries, which is all `EventContract` says.
- `RouterInv`, `Pending`: what a router still has to do contains every destination that
  was subscribed all along and has no delivery yet, so that the copy that completes the
  routing leaves none of them out, also when others died on their way.
- `ConfigInv`: while the configuration is unchanged every destination in it is steady.

`NumberMoves` counts the deliveries of a state over a step that moves one of them, from
the cardinality theorems of the library. `StepShape` says that every step makes one
delivery, ends one, completes the routing or leaves the event alone; finality and the
refinement (`MadeAndEnded`, `StatusMeans`) follow from it.

`OutboxProofs` proves for any records, delays, shards, page sizes and faults, from
`RecordsAssumption` and `BoundsAssumption` of `Outbox`: `TypeCorrect`,
`NothingEverLost` and `NeverEverEarly`. A publisher marks a record in a step of its own
after it has handed it over, so `Inductive` adds:
- `PublisherOK`: at a mark the record at hand was handed over or, in the second loop,
  sent; the records of that loop's page are due. There is one record at hand
  (`OneAtHand`), as ids break the ties of equal instants.
- `StoreInv`: work is made of committed records, and is published only once sent.

For `DuplicatesAreBounded` an account is kept for each record (`Counted`): what was sent,
plus the schedule and the work that are bound to send, plus the publishers that may still
do so, never exceeds the faults and the two publishers. A page read before the record was
marked is one such publisher, a crash between send and mark pays for the next. `CountInv`
adds that the second loop is the reconciler's and that a schedule carries its own
delivery.

`Onward` (what was handed over stays so) carries these over the other publisher's steps,
`DelayReaches` is the arithmetic: seconds rounded up never end before the instant.

`SearchProofs` proves for any deliveries, filters, page sizes and clocks, from the
assumptions of `Search`: `TypesHold`, `ListingsAreExact` and `ResumptionsReach`, all
invariants of its run. A listing reads an index that moves under it, so its `Inductive` says
where everything is between two pages:
- `IndexInv`: the entries of a delivery whose attempt is not under way are in the index;
  others may be stale, but none is newer than its delivery.
- `Backwards`: what a listing has returned is not behind its cursor, as the key of a delivery
  only moves forward and the listing runs backwards. So it returns nothing twice.
- `Covered`: a delivery that matched all along was returned, is on the page at hand, or lies
  ahead of the cursor. So it misses nothing.
- `Reached`: a delivery a resumption has not touched is among the ids it holds, or a page of
  older ones is ahead of it.

A page is the first entries of an ordered set. `Pages` says that what is not on a full page
lies beyond its last entry, from `Extreme` (a finite set has a first member) without any
induction over data.

`ControlProofs` proves for any slots, clients, operations, bundles, ids, limits and faults, on a
table whose reads may lag or not, from `ControlAssumption`, `InitialAssumption`,
`OperationsAssumption` and `PortabilityAssumption`: `TypesHold`, `ViewsAlwaysAgree`,
`ChangesAreAudited`, `NoUpdateLost`, `EnablingResumes`, `ReceiptsAreSpent`,
`ExportsRoundTrip` and `ImportsConverge`. No transaction checks a whole
configuration. It names single items and versions, so that the configuration stays sound is due
to what requests know from earlier steps, which `Inductive` says:
- `Sound`: every item has the shape of its key, external keys and resources point at each other,
  and routes and catalogue entries are the same items.
- `Owned`: an id given out belongs to one class for ever. As ids are not reused, an item that
  was seen and is gone stays gone.
- `Former`: what a read returned, however late, is or was that resource's item. It has the key, the event
  type and the destination the item has now, so the keys a transaction computes
  from it are the right ones.
- `UpToDate`: if nobody wrote after a lagging read, what an update has seen is no older than the version
  its client named and no newer than what is there, and equal to it under an equal
  version. The condition on the client's version is then one on what was seen. This is where lagging
  reads break it, and why `NoUpdateLost` and `EnablingResumes` except them.
- `NoOlder`: after a lagging read, what was seen is one version older at most than what the client
  named. So even a late write sets no version back: it repeats the one there is or is the next.
- `ImportsInv`: an importer's request is under way only while it is at a resource.

The proof of a step has two halves. An accepted write is one transaction about one id: creations
(`Grows`), replacements in every place an item has and deletions are each shown to keep the table sound and to
be one of `Advances`. From that alone follows `Steady`: no step takes away what any other
request, read or importer has learnt. So the requests of others are dealt with once, for all kinds of
writes. `ViewsAgree` counts: that there are as many external keys as resources comes from the bijection
`Sound` makes between them.

`ReceiptsAreSpent` needs one invariant more, `ReceiptsInv`, and that versions never go back. What a
receipt says of a resource is or was its item (`Settled`); the receipt of an import that changed
something has a target that is gone for ever or is older than its item (`Used`); and
a request of the import that is accepted will have used up the target it is about (`Uses`). A plan made later
shows the target's new version, so it is not that receipt. This is where the lag of one
version matters: were a read older by two, a late write could set a version back, and a
receipt could fit again as far as versions tell.

`ExportsRoundTrip` needs two. `VersionsInv`: the versions of a transformation go back to the
first without a gap and have one key, for a new version is written after one that is there
(`NewVersion`) and none is ever removed. So the key of any version finds its transformation, and
a transformation has one key whichever version is asked. `ExportsInv`: while nobody interferes
each list is what is there (`Snapshot`); and a version that a listed destination names is
still there when the versions are listed, which come last. If versions were listed before
destinations this would fail. The rest is that the bundle has a line for each
listed item and no other (`LinesAre`), and that a line written from an item is planned as
`UNCHANGED` against that item.

`ImportsConverge` is about what the import of one resource does to the plan for the others.
`ConvergesInv` says of an import that nobody interferes with:
- Every resource its receipt does not want to write, or that has had its turn, is `Attained`:
  the plan after it has nothing left to do there but the two exceptions. For a destination or a
  subscription this includes what its references find, as a later line may create that.
- A partner or transformation that was there when the receipt was drawn is there still
  (`Present`). So one the receipt creates is the only kind that can turn up later.
- A request of the import asks to create what is not there or to update what it has seen as it is
  (`Asked`), once all it refers to is found (`Resolved`).

An own write only adds to the table and changes nothing but the resource it is about (`Grown`,
`Spares`), so what other resources have attained stays so (`AttainedStays`). A destination that is blocked
or in conflict stays so (`HopelessStays`): an import replaces no transformation version, no
secret and no destination's partner. `EarlierVersions` is where a bundle must be gapless: its versions come in
order, so a version is written as the number it has in the bundle. The exceptions were
found in planning this proof. A line planned as `UNCHANGED` is not written, whatever the lines before
it create; and an update merges, so it removes no description.

Only model-checked: the liveness properties, as liveness and `ENABLED` are outside the
prover's reach, and the three runs that find a claim violated, which a counterexample settles.
Every invariant and every action property of the passing runs is a theorem.

## 7. Findings

1. **A rate-limited delivery cannot be leased** (`DeliveryRate`). `acquireLease` names
   `rate_limited` among the states it accepts (persistence 2371, 2415), the transition
   table lets it become `scheduled` only (domain 712), so `transitionDelivery`
   throws. Every redelivery throws until the message is in the DLQ.
2. **Final statuses are not searchable** (`EventIndex`): `finalizeAttempt` changes the
   event's status (2794) and leaves the index entry under the old one.
3. **Deliveries of a healthy destination fail one another** (`DestinationHealthy`):
   `finalizeAttempt` requires the circuit's version to be the permit's (2849), every
   finalization advances it (3138), and all eight tries carry the same version. Of two
   deliveries in flight the second throws; its attempt is later charged as a timeout
   and sent again, and at the last attempt it is dead-lettered.

Also seen while modelling; the models have these behaviours, and where a property
above would forbid them it names them as its exception:
- Any cancelled lease transaction deletes the message: the comment at application 1773
  is true of a failed condition only.
- The `try` of `route()` encloses `createDelivery`, so one store error is recorded as a
  terminal failure of the transformation (application 1325).
- An import never removes a description: a bundle's partner without one is applied as an
  input without one (config-portability 982), which `updatePartner` takes for no change
  (application 641), while the plan compares the two (731). Every further plan wants to
  update the partner, and every import gives it a version. `Converges` excepts it.
- A destination keeps its old transformation: the plan compares it only with a
  transformation that exists (config-portability 843). If the bundle creates the one it
  shall have, under the same version number, it passes for unchanged and is skipped (1052)
  in an import that succeeds. `m02.integration.test.ts` 310 expects the next plan to find
  everything unchanged, which is so for the empty tenant it imports into. `Converges`
  excepts it.
- The console asks for the next page with a new window, which the cursor does not fit
  (console 844, api 154).
- On the hosted table a race of two equal submissions may be answered with
  `IDEMPOTENCY_KEY_REUSED` (persistence 144, api 471).
- An edit between an import's second plan and its write is overwritten (config-portability
  958), though the comment at 167 calls the receipt fail-closed on concurrent mutations.
- A destination may name a transformation version that does not exist (application 751);
  routing then passes it over in silence, and its export cannot be imported.

The hazards no property covers are marked in `PROJECT.json` with the reason.

## 8. Not modelled

- Several deliveries at once in `DeliveryWorker`: they share the destination, which
  `DestinationRuntime` has, and the event, which `EventOutcome` has.
- A change of a destination's policies while it is in use.
- REPLAY deliveries in `EventOutcome`: they do not count towards the event
  (persistence 2682).
- Payloads, transformations, encryption, signatures, digests, redaction, HTTP,
  presentation: pure data handling without an order of steps.
- Back-off delays and `Retry-After`: a delay is merely some time.
- Lagging reads in `Search` and in exports; two listings at once.
- The receipt's expiry, and the tenant and actor it names: comparisons with constants.
- The search for events but by status, and the hourly rollups.
- The OAuth token cache: one process's memory, whose only effect is an answer that `Send`
  of `DeliveryWorker` already may get.
- Backup and restore, a command-line procedure on a quiet table.

## 9. Plan

Done: every component with a protocol of its own. What remains worth doing:

1. The rollups, with their counts under redelivery.
2. An abstract specification of an idempotent operation for `Admission`.
