# Verification of the microservices product catalog

TLA+ models of the product catalog in `src/`: FastAPI services around PostgreSQL,
RabbitMQ, MongoDB, Elasticsearch and the Camunda engine. Model checking with TLC,
proofs with TLAPS. `PROJECT.json` lists the components, the runs, the mutants that show
what each property can catch, the source lines of every definition, the hazards of the
code and the theorems.

1. [Inventory](#1-inventory)
2. [Modules and the code](#2-modules-and-the-code)
3. [What is checked](#3-what-is-checked)
4. [Fairness](#4-fairness)
5. [What is proved](#5-what-is-proved)
6. [Where code and documentation differ](#6-where-code-and-documentation-differ)
7. [What is not modelled](#7-what-is-not-modelled)
8. [Plan](#8-plan)

## 1. Inventory

The heart of the program is the *publication* of a product offering: a saga over four
services that Camunda drives and whose workers poll it for tasks. Around it, every
service writes rows to its own PostgreSQL database and events to an outbox table, which
a listener publishes to RabbitMQ; other services keep caches and read models from the
events. The gateway puts a circuit breaker before each service.

| component | state it keeps | operations that change it | talks to |
|---|---|---|---|
| offering-service | offering rows (`lifecycle_status`), outbox | create, update, delete, publish, confirm, fail, retire | pricing and specification (validation), Camunda (start), outbox |
| pricing-service | price rows (`locked`, `locked_by_saga_id`), outbox | create, update, delete, lock, unlock | outbox |
| specification-service | specification rows, cache of characteristics, outbox | create, update, delete, validate, consume characteristic events | outbox, RabbitMQ |
| characteristic-service | characteristic rows, outbox | create, update, delete | outbox |
| store-service | read model in MongoDB and Elasticsearch, processed event ids | consume events, sync, delete | offering, specification, characteristic, pricing (fetch) |
| publication saga | Camunda process instances, one worker process per service (`saga_worker.py`) | fetch, handle, complete, BPMN error, failure | the services' HTTP endpoints |
| common library | outbox rows (`PENDING`, `SENT`, `FAILED`), publisher, consumer | outbox listener, publish with retries, consume | PostgreSQL, RabbitMQ |
| api-gateway | one circuit breaker per service | proxy a request | all services |
| identity-service | users, key pair | start-up (adds the users that are missing), login, public key | - |
| scripts, Makefile | none of their own: the data of all the others | stop, clean, migrate, start, create and publish sample data | the databases, the broker, the services |
| web-ui | none of its own | pages and forms | gateway |

How they interact, what is hard, and what makes each correct:

* **Publication saga.** Calls: workers call services over HTTP and report to Camunda
  over HTTP; each exchange can be lost, refused, late, or cut off by a crash, after which
  Camunda gives the task out again. *Correct* when the lifecycle holds, "successful"
  means published, locks are held while the saga relies on them and are released when it
  fails, the read model agrees with the offering in the end, and every accepted saga ends.
* **Offering service.** Coroutines and threads in one process: an `await` between the
  check of a status and its use, a flush that takes a row lock and blocks the event loop.
  *Correct* when the committed status follows the lifecycle, its events tell it, and only
  complete offerings are published.
* **Pricing service.** Threads with sessions of their own, READ COMMITTED, no
  `SELECT ... FOR UPDATE`: check and write are two transactions' worth of time apart.
  Create and delete commit twice, and an update tells the lock it has read. *Correct* when a
  lock shuts everybody else out as soon as nobody is left who has read the price before it,
  and the events tell the price's life and lock.
* **Outbox, messaging, characteristic and specification services.** A record is
  published before it is marked; passes of the listener overlap; the consumer acknowledges
  what it could not handle. *Correct* when events keep their causal order, none is
  forgotten, and the cache converges.
* **API gateway.** Calls overlap while they await the service, so answers come in any
  order and in a later state of the breaker. *Correct* when the breaker implements the
  diagram of a circuit breaker and closes again.
* **Store service.** Saga tasks and events both write the read model, in two stores.
  Four consumers and the saga's requests run on one event loop; a sync reads its sources
  over several awaits, writes MongoDB and then Elasticsearch, and looks at neither
  again. *Correct* when both stores show exactly the offerings on sale, as their sources are.
* **Specification service.** Threads check names and characteristics before they write;
  the characteristics come from a cache that lags behind its events, which may be lost,
  repeated and overtaken. Row and event are one commit. *Correct* when names are unique,
  references are real, the events tell each life, and the cache catches up.
* **Identity service, start-up.** Tokens expire under a worker that holds one. Every
  service asks for the public key three times while it starts, and serves without it if
  need be; the errors of adding the users are printed. *Correct* when this is noticed: when
  the sample data script does not report success over services that refuse everything.
* **Reset and sample data.** The operator stops services that may take their time,
  cleans five databases, two stores and the queues, where any command may fail or warn, and
  starts everything at once; a script then builds a catalog from the ids it gets back, and goes on
  when an item fails. *Correct* when nothing old is left, a success has created something,
  what is published is complete, and a second run adds only what was missing.

## 2. Modules and the code

| module | models | source |
|---|---|---|
| `Publication` | the abstract publication: a transaction over status, locks and store | - (what the saga promises) |
| `PublicationSaga` | the composition: process, workers, endpoints, faults of every exchange; refines `Publication` | `docs/camunda/offering_publication_saga.bpmn`, `camunda_rest.py`, the four `saga_worker.py`, the services' handlers |
| `OfferingService` | one offering under concurrent requests, with the event loop and the row lock | `offering/application/service.py`, `main.py`, `infrastructure/` |
| `PricingService` | one price under concurrent requests | `pricing/application/service.py`, `infrastructure/` |
| `CircuitDiagram` | the abstract breaker: three states over a sequence of answers | - (what the breaker promises) |
| `CircuitBreaker` | `AsyncCircuitBreaker` with overlapping calls; refines `CircuitDiagram` | `api-gateway/gateway/resilience.py`, `main.py` |
| `EventDelivery` | an event from row to cache: characteristic service, outbox listener, publisher, queue, consumer | `characteristic/application/service.py`, `common/database/outbox.py`, `common/messaging.py`, `specification/application/consumers.py` |
| `StoreReadModel` | the store's consumers and endpoints, one await at a time, on MongoDB and Elasticsearch | `store/application/service.py`, `consumers.py`, `main.py`, `infrastructure/` |
| `SpecificationService` | several specifications under concurrent requests, against the cache of characteristics and its consumer | `specification/application/`, `main.py`, `infrastructure/` |
| `Deployment` | a reset and the start of all services | `scripts/clean_databases.py`, `migrate.sh`, `Makefile`, the `lifespan` of each service, `identity/seed.py` |
| `SampleData` | the sample data script on top of it (extends `Deployment`) | `scripts/seed_data.py`, the services' create and publish as the script sees them |
| `MC*` | instances for TLC | - |
| `*Proofs` | invariants, lemmas and theorems | - |

**PublicationSaga.** `status` is `lifecycle_status`; `committing` holds the offerings
whose publish request has started a saga and has not committed; `lockedBy` is
`locked_by_saga_id`; `inStore` the read model as a whole; `events` each offering's
messages not consumed yet; `at` the token of each process instance, with `incident` for
instances that ran out of retries; `worker` each worker's task and place in its handler
(`pc`), with the index `i` of the price it is at; `late` requests that a client gave up and
a server will still run. One step is one HTTP exchange: `FetchAndLock`, then `Answered`
(one call of the handler and its answer), then `CompleteTask`, `ThrowBpmnError` or
`FailTask`. The handlers' loops over the prices are one step per price. A worker fetches
up to five tasks and handles them one after another, so a batch is the same as
single fetches; the lock time of 60 s is longer than a handler takes, and a task given
out twice is the crash fault. What can go wrong is a disjunct that spends one of
`MaxFaults` and names its kind (`FaultKinds`), so each run and each theorem says which
faults it is about. Handlers of one service are atomic here; what happens inside is the
subject of the next two modules.

**Publication.** No workers, engine, requests or faults: a publication begins (`Begin`) with a draft
on which no other works, takes its locks one by one (`Take`), and with all of them is `holding`;
then it may show the offering, and sells it (`Sell`), or undoes what it did in any order and gives
up. Nobody hides or reverts what another publication holds or has sold. The locks are weaker, as in the
code: a publication that is undone may drop the lock of any of its prices, whoever has it (`Drop`), so
one that holds or sells has all its locks but those of prices that are `Disputed`, which another
offering has too whose publication is undone or over. `Transaction` in `PublicationSaga` is the refinement mapping: `Phase` tells a saga's
phase from where its process instance stands (`PhaseAt`) and from what the offering worker has been
answered but has not reported (`Confirmed`, `Reverting`); a publish between flush and commit counts as
`PUBLISHING` (`Lifecycle`), so the commit is a stutter whether it comes before the first lock or
after the confirm that overtakes it, as long as that is refused; a lock attempt that has met an error
is undone from then on, since its rollback unlocks (`LockingFailed`). A saga stopped by an
incident stays in its phase for ever.

**OfferingService, PricingService.** One row and several requests; `doing` is each
request's step, `ask` what it wants, `read` what it has read. A request's read, its
flush, and its commit are steps where the code can be interrupted between them: at an
`await`, or anywhere in a thread. The row lock of an UPDATE lasts to the commit and is
modelled where something happens in between, in publish. Outbox rows are written in the commit of
the row, or by a second commit in create and, for prices, in delete. Of a price, `told` is what its events
say of life, fields and lock: `PriceCreated` and `PriceUpdated` tell the lock as the request
has read it, which may be an older one. `older` is history: the requests under way that have read
the price before its last lock or unlock. Of an offering, `told` is the status in its last lifecycle
event. A publish reads and checks on the loop, then flushes (`FlushPublish`), and a thread may write the row in
between, although nothing else runs on the loop. Any number of confirm and fail requests
overlap, as late and repeated requests of the saga do; `stale` holds those that have read a status
which another answer has written since, and the requests they have overtaken in turn, and `late` says
that a stale one has written last.

**CircuitBreaker.** Everything under the breaker's lock is one step: `Refuse`, `Send`,
`Succeed`, `Fail`. `failure_age` is `time.time() - last_failure_time`, counted up to one
more than the timeout: the code tells no larger values apart. `fail_count` likewise stops
at the threshold. `healthy` is the service's own state.

**EventDelivery.** `outbox` is the sequence of records in `created_at` order, with their
status; a flushed record is invisible until it is committed. `before` is a history
variable: what was committed when the record was written. A `pass` is one run of
`_process_pending_sync`: the records it read, and whether the one it is at has been
published. `published` and `orderly` are history. The characteristic's requests commit
the row first and the event second. Deliveries are at least once: a record may be
published again after a crash or an unconfirmed attempt, and a message may be delivered
again.

**StoreReadModel.** `mongo` and `elastic` hold one document per offering; of an entity a
document shows its version only, and 0 stands for nothing. `work` is what each of the five tasks is
doing (four consumers, and the request of the saga's worker): its step, the offerings still
to sync, the one in hand, the document composed so far and the parts still to read. One
step is the code between two awaits. `queue` keeps an event until it is acknowledged, so a
crash delivers it again; `processed` is the collection of event ids. `status`, `entry` and
`version` are the sources, which change under the sync's hands. `disturbed` is history: the offerings two
tasks have had in hand at a time.

**SpecificationService.** A request's check of the name, its check of the characteristics, and its
commit of row and event are steps of their own. `coming` is the set of the characteristics' events
that the consumer may still get: it gets them in any order and any number of times (`Consume`
may leave the event there), because a characteristic's row and event are two commits, passes of the
listener overlap, and messages are delivered again; `EventDelivery` shows how. `missed` holds the
characteristics of which an event was lost, between the two commits or by a handler that failed, and
`restored` those an older event came for after that of their deletion. `existed` and `told` are
history too.

**Deployment, SampleData.** `command` is the operator's next command, `up` what each process
is doing; `old` the places that hold data from before the reset. Of a table only whether
it exists matters, of a list of the script only the number of the item. A command
that fails is given again, after it has done any part of its work. The script's `ids` are the answers
it got, `rows` and `offered` what the services committed: a request may fail before or after
that. Two of the script's five characteristics are in units that the service does not know, and are
answered 422 (`Measurable` are the other three). `cached` fills with the events of the characteristics while the script runs. `warned`,
`outlived`, `before` and `runs` are history.

Definitions marked "Mutant" in a comment are the faulty variants that `PROJECT.json`
names. They show that the property can fail, and no specification uses them.

## 3. What is checked

Each run is `tlc -workers 2 -config <run>.cfg <module>`.

| run | asks | bounds |
|---|---|---|
| `saga_all_faults` | `SuccessIsPublishedOnce`, `LifecycleStateMachine` under every kind of fault | 1 offering, 2 prices, 3 sagas, 2 faults |
| `saga_locks` | `OneSagaAtATime`, `PricesStayLocked`, `FailureIsNotPublished`, `PublishedUnderLock`, `RevertOnlyOnFailure`, `ImplementsTransaction` (refinement) | 2 offerings with a common price, 3 sagas, 1 fault that repeats nothing |
| `saga_failure` | `FailureReleasesPrices`, `ReadModelSettles`, `NoOrphanStoreEntry` | 2 offerings with a common price, 3 sagas, 2 faults (lost or silently failing requests, expired tokens) |
| `saga_liveness` | `SagaEnds`, `PublishingEndsWithSaga` | the same offerings, 2 sagas, 1 fault that loses no request |
| `breaker` | `FieldsAgree`, `FollowsDiagram` (refinement), `RecoveryClosesCircuit` | 3 calls, threshold 3, timeout 2 ticks |
| `pricing` | `LifeAnnounced`, `LockShutsOut` | 3 requests, 2 sagas, 2 values per column |
| `offering` | `EventsTellStatus`, `LifecycleFollowed`, `CompleteWhenPublishing` | 4 requests, 4 bodies |
| `delivery` | `CausalOrder`, `CacheConverges`, `EventsAreDelivered` | 2 requests, 2 passes, 3 records, 1 fault of any kind |
| `store` | `MongoConverges`, `ElasticFollows`, `RetiredStaysOut`, `RetiredLeaves` | 1 offering with 1 specification, 2 versions, 3 events, 1 fault of any kind |
| `specification` | `NamesUnique`, `ReferencesExisted`, `LifeAnnounced`, `OnlyComingDeletionsSlip`, `CacheCatchesUp` | 2 requests, 2 specifications, 2 names, 1 characteristic |
| `sample` | `ResetIsComplete`, `SuccessIsNotEmpty`, `PublishedIsComplete`, `ReseedingAddsNothing` | 1 try for the key, 1 slow service, 1 fault, 2 polls, 2 runs of the script |
| `store_retired` | violated: `RetiredIsHidden` with no fault | as `store` |

`saga_all_faults` and `store` also check their module's `TypeOK`, which section 5
proves for every component.

Why the bounds are enough: two sagas are needed to interfere, and the third lets an
offering be published again after a failure while the other's compensation is under way;
two prices let a lock attempt fail half way. Two faults let a compensation be hit that a first fault has caused.
Three price requests are a reader whose check is stale, the writer that makes it stale,
and one more that follows: two locks that overlap and an update. Four offering requests are a publish and a saga's answer with an
update and a delete, or a confirm and a fail that overlap with what they overtake. Three records are a create, update and delete of one
characteristic, and two passes are what it takes to publish in two orders. Threshold 3 and three
calls let a success come between failures. One offering and three events are what a
publication, an update of its part and a retirement need to overlap; a part may be a
characteristic, a specification or a price, which differ in whether they answer. Two requests of the
specification service race for one name, and a create races with a delete and the
consumer; an event of each kind of one characteristic is all the cache can get, in any order. The
script's lists have the script's own lengths; one try more for the key only
delays a service, and more slow services write late into more places of the same kind
(the proofs have neither bound). The lifecycle, lock and ordering properties
are also proved without bounds (section 5).

`CHECK_DEADLOCK FALSE` is set where the system really may stop: process instances are
finitely many in the saga model, a deleted price answers 404 for ever, records and events are finitely
many, and so are runs of the script. The offering and breaker models never stop.

The offering and pricing runs use symmetry of requests (and sagas, names, values); they
have no liveness property.

Conditions that are part of a property, and why they are there:

* `Contested` in `PricesStayLocked` and `PublishedUnderLock`, and `Disputed` in `Publication`: a failed
  publication of another offering unlocks the prices it shares, because `unlock_price` does not
  ask who owns the lock. Without this excuse the properties fail with no fault. What they say
  is that nobody else takes a lock, and no saga but a failed one.
* `"pricing" \in token` in `FailureReleasesPrices`: a worker whose token has expired gets 401 for every
  unlock, and completes its task.
* `older` in `LockShutsOut`, `late` in `LifecycleFollowed` and `EventsTellStatus`, `restored` in
  `OnlyComingDeletionsSlip` and `CacheCatchesUp`: a request, or an event, that knows an
  older state than there is and is not stopped by the code. Each is the only such case, which
  is what the property says.
* `missed` in the same two, `cutShort` in `LifeAnnounced` of the prices, and `orderly` in `CacheConverges` leave out
  what the code loses or lets overlap.
* The faults of `saga_locks` leave out those that leave a request running or repeat a task, and those of
  `saga_failure` an unlock that is answered 5xx; with them their properties fail.
* `disturbed` in `MongoConverges`, `ElasticFollows` and `RetiredLeaves` leaves out the offerings that two tasks
  of the store had in hand at a time: `store_retired` shows what may become of one.
* `outlived` in `ResetIsComplete` leaves out a process that `make stop`, which does not wait, has not
  ended when the cleanup begins; `warned` a cleanup that said it left something.

Section 6 tells how to see each of them.

## 4. Fairness

* **Saga.** `WF` of each worker's step: `run_forever` catches every exception and never
  returns. `WF` of `CommitPublication`: a publish handler runs on to its commit. `WF` of
  the consumer. No fault is fair by itself: where a fault is a disjunct of a fair action,
  another disjunct is enabled. Users owe nothing.
* **Breaker.** Time passes, calls that were sent end (httpx has timeouts), clients keep
  calling. Whether the service is healthy is not fair.
* **Offering.** The loop and the threads are scheduled, and what a coroutine awaits has a
  timeout. Requests owe nothing before they start.
* **Event delivery.** The listener polls every two seconds and its passes go on (`PassStep`
  as a whole); the consumer goes on. Requests of users are not fair.
* **Store.** Each task of the event loop goes on: its awaits have timeouts or end. Sources,
  users and faults owe nothing.
* **Specification.** The consumer goes on. Requests owe nothing.
* **Reset and sample data.** Safety only: a service that never starts is possible.

`SagaEnds` needs that no request is lost: a handler that gets an exception reports a
failure, and with the retries used up the instance is an incident (section 6).

## 5. What is proved

For every value of the constants that meets the named assumptions, with no bound on
offerings, prices, sagas, requests, calls, passes or faults:

| module | theorem | says |
|---|---|---|
| `PublicationSagaProofs` | `TypeCorrect` | `TypeOK` |
| | `LifecycleFollowed` | `LifecycleStateMachine` under every fault |
| | `SuccessIsReal` | `SuccessIsPublishedOnce` under every fault |
| | `LocksAreKept`, `PublishesUnderLock` | `PricesStayLocked`, `PublishedUnderLock`, assuming `Faults \subseteq OrderlyFaults` |
| | `SagasTakeTurns`, `RevertsAreOwn`, `FailuresAreNotPublished` | `OneSagaAtATime`, `RevertOnlyOnFailure`, `FailureIsNotPublished`, assuming `Faults \subseteq OrderlyFaults` |
| | `NoEntryIsOrphaned` | `NoOrphanStoreEntry`, assuming `OrderlyFaults` without `refused` |
| | `ReadModelIsSettled` | `ReadModelSettles`, assuming `OrderlyFaults` without `event` |
| | `FailureReleasesAll` | `FailureReleasesPrices`, assuming `OrderlyFaults` without `refused` |
| | `SagaIsTransaction` | the refinement `ImplementsTransaction`, assuming `Faults \subseteq OrderlyFaults` |
| `CircuitBreakerProofs` | `TypeCorrect`, `FieldsAlwaysAgree` | `TypeOK`, `FieldsAgree` |
| | `ImplementsDiagram` | the refinement `FollowsDiagram` |
| `PricingServiceProofs` | `TypeCorrect`, `LifeIsAnnounced`, `LockHolds` | `TypeOK`, `LifeAnnounced`, `LockShutsOut` |
| `OfferingServiceProofs` | `TypeCorrect`, `PublishingIsComplete` | `TypeOK`, `CompleteWhenPublishing` |
| | `EventsFollowStatus`, `LifecycleIsFollowed` | `EventsTellStatus`, `LifecycleFollowed` |
| `EventDeliveryProofs` | `TypeCorrect`, `EventsKeepCausalOrder` | `TypeOK`, `CausalOrder` under every fault |
| | `CacheIsRight` | `CacheConverges`, which is about histories without overlap or loss |
| `StoreReadModelProofs` | `TypeCorrect`, `RetiredOnesStayOut` | `TypeOK`, `RetiredStaysOut` under every fault |
| | `IndexFollowsMongo` | `ElasticFollows`: any fault but a crash and a failure of the index |
| | `MongoIsRight` | `MongoConverges`: any fault but a failure of a source or of MongoDB |
| `SpecificationServiceProofs` | `TypeCorrect`, `NamesAreUnique`, `ReferencesAreReal`, `LifeIsAnnounced` | `TypeOK`, `NamesUnique`, `ReferencesExisted`, `LifeAnnounced` |
| | `OnlyLateDeletionsSlip` | `OnlyComingDeletionsSlip` |
| `SampleDataProofs` | `TypeCorrect`, `ResetLeavesNothing`, `SuccessHasCreated` | `TypeOK`, `ResetIsComplete`, `SuccessIsNotEmpty` |
| | `PublishedOnesAreComplete`, `SecondRunAddsNothing` | `PublishedIsComplete`, `ReseedingAddsNothing` |

The arguments:

* **Saga, types.** `TypeOK` alone is not inductive: a handler's next step looks up a price
  by the worker's index and a flow by its activity. `WorkersOK` ties every busy worker to
  a task it is in charge of, at an index that exists; `LateOK` says the same of late requests.
* **Saga, lifecycle.** The commit of a publish does not check the status again; it is safe because an offering
  whose publish is `committing` is still a `DRAFT` (`CommittingDraft`), which only the
  row lock and the entry points of the handlers give.
* **Saga, success.** A confirm that was answered or is still being reported means an
  offering on sale (`ConfirmedOnSale`), and two confirmed sagas have different
  offerings (`ConfirmedOnce`): the second's confirm is refused.
* **Saga, locks.** Every saga on its way owns its offering alone (`OneOwner`), and the lock
  handler still holds the prices it has passed (`LockProgress`), or they are contested. So a
  rollback, which unlocks only what its own handler has locked, takes nobody's lock that was not
  contested before, and a compensation is that of a failed publication of another offering with the price
  (`LockKept`), which stays failed (`FailedKept`), so that what is contested stays contested (`ContestedKept`).
* **Saga, owners.** `OwnersInv` is what does not speak of the prices: `OneOwner`, with the
  status that an owned offering cannot have (`OwnersNotDraft`), gives `OneSagaAtATime` and
  `RevertOnlyOnFailure`. An offering on sale has a confirmed saga (`OnSaleConfirmed`), so a
  failed one did not put it there.
* **Saga, store.** `DocumentsKept`: a document of an offering not on sale is kept by a saga
  that has written it and will confirm or delete it. `Settled` counts the events still to
  be consumed of an offering on sale; no saga touches its document any more (`DocumentLeftAlone`).
* **Saga, release.** A lock belongs to a saga of an offering with that price
  (`LocksOwnPrices`), every failure leads through unlock-prices, and its handler has
  released what it has passed (`UnlockProgress`); so past it nothing is locked (`Released`). Both hold
  while the worker's token is valid, which it never is again once it has expired (`TokenShrinks`).
* **Saga, transaction.** `TransactionInv` joins the invariants of the locks, `LocksOwnPrices` and the order of the
  events (`EventsOnSale`, `RetiredEvents`: a retirement on its way means a retired offering). The phases are
  moved by few steps (`HandlerPhases`, `CompletePhases`, `ErrorPhases`; `FailPhases` and `FetchPhases`
  move none), and each step maps: a draft is free because owners are not drafts (`DraftIsFree`); a lock report
  is `Hold` by `LockProgress`, a confirm is `Sell` by `PricesStayLocked`, where contested means
  disputed (`FailedPhase`, `HoldsItsLocks`); an unlock is `Drop` because its saga is being undone, also when it is
  the rollback of a lock attempt (`LocksTransaction`), which is undone with its first error (`ErrorUndoes`).
* **Breaker.** `FieldsAgree` is inductive with the types, and it gives the step of `Fail`
  in the refinement: an `OPEN` or `HALF_OPEN` circuit has counted to the threshold.
* **Pricing.** A price that was never created is not locked (`BeforeCreation`); someone
  still owes each event not written (`LifeInv`). `ShutInv`: what a request has read of the lock is still so, unless
  the request is an older one; a change of the lock makes all others that know anything older
  (`AfterLockChange`), and no other step can make what a request knows wrong.
* **Offering.** A publish between flush and commit is alone, on a complete draft (`LockInv`). `KnowInv`: the
  status a request has read is still the row's (`Knows`), unless the request is stale. Publish and delete make no
  answer wrong, since they find no `PUBLISHING`; a confirm or fail makes the other answers stale, a stale
  write everybody; so a status off the lifecycle is written by a stale request (`KnownWrite`).
* **Delivery.** `CausalOrder` is not inductive: a pass publishes its first record whatever
  comes before it. `PassesCover` says that all predecessors of a record in a pass are
  published, given up or in the pass too; they are older (`BeforeIsOlder`), so none is left
  when the record is first. Nothing leaves "published or given up", since a record
  is marked `SENT` only once published (`PassesHold`) and only unseen records are
  committed or rolled back (`RecordsHeld`, `RecordsDiffer`).
* **Delivery, cache.** While nothing overlaps or is lost, the newest record tells what the row is, unless a
  request still owes its record (`RowTold`); the first `k` records are `SENT` and the pass
  under way is at the next (`SentUpTo`, `PassesAfter`); and the last message, in the queue or
  applied, is that of record `k` or `k + 1` (`LastIs`), however often it was repeated.
* **Store, hands.** What the tasks have in hand is common to all: a busy consumer has an event in its
  queue (`Busy`) that fits its step (`Hands`: it removes for a retirement, it looks for offerings
  for a part), and two tasks that touch one offering have disturbed it (`OneTask`).
* **Store, retired.** That a retired offering stays out is an action property: `Gone` must hold of every
  next state. One that looks for affected offerings has the event of a part (`EventsInv`), and
  an empty document shows no part; the offering's own publication is marked, so a second
  delivery of it is skipped.
* **Store, index.** The two stores differ on an offering only while a task is between them with the
  document it has just written to MongoDB, or has just removed (`Follows`); no other task writes meanwhile (`OneTask`).
* **Store, MongoDB.** The property speaks of a state at rest, so the invariant must say what is under way.
  Of a published offering, `Fresh`: each part is shown as it is, or an event of the part is to come
  (`PartComing`: in the queue and not marked, or in the hands of a consumer that still looks for
  offerings or will still read this one), and the document shows the part at all, without which
  the consumer would not find it. `Reading` says the same of the document a task is composing, but for the
  parts it has still to read; and there the event must be ahead of its consumer (`Ahead`), since one that has looked
  for offerings already will not look again. It stays ahead because beginning it disturbs the offering
  (`AheadOfReading`). Of another offering, `Unpublished` and `Retired`: no document and no sync of
  it, or the removal is to come. Both rest on the order of the queue, `InTurn`: no publication stands behind
  the retirement of its offering, although events come twice, since the second delivery finds the
  first one marked; on `SkipsHandled`: no event is acknowledged unmarked; and on `Told` and
  `Numbered`: events tell what their offering has become, and have their own numbers.
* **Specification.** `RowsInv`: a row is only written by a request whose checks hold or whose
  write the unique constraint refuses (`WritesChecked`), and a row that is gone is not written again.
  `CacheInv`: the cache, and the events on their way to it, name what existed (`AllExisted`); a
  characteristic that it shows and that is deleted has its deletion coming, or one of its events
  was lost, or an older one has come after the deletion (`CacheIsLate`).
* **Reset.** `Quiet`: between `make stop` and `make backend` no process runs but a slow one, and
  `Cleaned`: so each place stays as its command left it.
* **Sample data.** `Path`: how far the script has come tells what it was answered before, and `DeploymentGrows`:
  nothing of that is lost while it runs. `Earned`: an id stands for something this run has created, by a service that
  has the key, and the script comes to a list only with ids of those it cannot do without (`Needs`). `Reseeding`: a
  run that finds all that a list can create gets no id for it, so it ends before the next. `Complete` is stronger than what it is for: what any offering
  names exists, published or not. `Shape` bounds the item and the lengths, which the types need.

Every invariant and every action property that a run checks is proved. Only model-checked: the
five liveness properties (proofs of liveness under fairness need `ENABLED`, which the prover does not handle). The prover also does no induction over data and no `RECURSIVE`
operator; the modules use neither.

## 6. Where code and documentation differ

Shown by the run `store_retired` (the finding in `PROJECT.json`): a sync that has read an
offering before it is retired writes it after it was removed, and a retired offering stays in the
store. No fault is needed.

Met while modelling; each can be reproduced by the change given:

| what the code does | where | documented | reproduce |
|---|---|---|---|
| A failed saga unlocks a price another saga has locked: `unlock_price` does not ask who owns it. | `pricing/application/service.py:119` | `srs_backend.md:406` | `PricesStayLocked` with `StillHolds(s, p) == lockedBy[p] = s` and `Faults = {}` |
| A saga may end before the publish that started it commits: the offering stays `PUBLISHING`. | `offering/application/service.py:161` | `srs_backend.md:327-330` | `PublishingEnds` as a PROPERTY, 2 sagas, `Faults = {}` |
| An update or delete that has read `locked` as false changes a price that is locked by now. | `pricing/application/service.py:56` | `srs_backend.md:846` | `LockedPriceIsFixed` as a PROPERTY of `pricing.cfg` |
| Two publishes of one offering hang the event loop: the flush of one waits for the row lock of the other. | `offering/application/service.py:134` | - | `PublishEnds` as a PROPERTY of the offering module, 2 requests, `FairSpec` |
| A start that is refused is logged, and `PUBLISHING` is committed with no saga to end it. | `offering/application/service.py:156` | `srs_backend.md:320` | `PublishingEnds` with fault `start` |
| An expired token, or a refused unlock, leaves prices locked after a failed publication. | `pricing/saga_worker.py:81` | `srs_backend.md:1603` | `FailureReleasesPrices` without `token`, or with fault `refused` |
| After a crash between confirm and its report the repeated confirm is refused, and a published offering's saga fails. | `offering/saga_worker.py:41` | `srs_backend.md:404-407` | `FailureIsNotPublished` with `crash` |
| A repeated or late revert hits the next publication of the offering. | `offering/saga_worker.py:49` | `srs_backend.md:327-330` | `RevertOnlyOnFailure` with `crash` or `late` |
| Retries used up make an incident nobody resolves. | `camunda_rest.py:149` | `srs_backend.md:382` | `SagaEnds` with `unreached` |
| A publish aborted after its saga has started lets a later sync put a retired offering back in the store. | `offering/application/service.py:161` | `srs_backend.md:1612` | `ReadModelSettles` with `abort` |
| An update or delete that has read `DRAFT` commits after the publication. | `offering/application/service.py:93`, `:110` | `srs_backend.md:1608`, `:1611` | `PublishedIsFixed` as a PROPERTY of `offering.cfg` |
| Two lock requests that overlap both get the lock. | `pricing/application/service.py:102` | `srs_backend.md:846`, `:1624` | `LockShutsOut` without `older = {}` |
| `PriceUpdated` tells the lock as the update has read it, after a lock or unlock that came in between. | `pricing/application/service.py:73` | `srs_backend.md:845` | the second part of `LockShutsOut` without `older = {}` |
| A confirm and a fail that overlap both write: an offering told as published goes back to `DRAFT`, or the reverse. | `offering/application/service.py:190` | `srs_backend.md:327-330` | `LifecycleFollowed` without `late` |
| The event of a create or delete is lost between the two commits. | `pricing/infrastructure/repository.py:15` | `srs_backend.md:845`, `report.md:571` | `LifeAnnounced` without `cutShort` |
| A `FAILED` record is never tried again. | `outbox.py:115` | `report.md:214`, `:588` | `CacheUpToDate` with fault `broker` |
| Overlapping passes, or an overlapping update, put a deleted characteristic back into the cache. | `outbox.py:79`, `consumers.py:60` | `srs_backend.md:204-205` | `CacheUpToDate` with `Faults = {}`; `OnlyComingDeletionsSlip` without `restored` |
| Two syncs of one offering that overlap may leave the older document; no event comes to correct it. | `store/application/service.py:80-87` | `report.md:571` | `MongoConverges` without `disturbed` |
| A crash or an error between the two writes leaves the search index behind MongoDB. | `store/application/service.py:96` | `srs_backend.md:488-491` | `ElasticFollows` with `elastic` or `crash` |
| A part that does not answer 200 is left out of the document, and its later events do not find the offering. | `store/application/service.py:36`, `:59`, `:128` | `srs_backend.md:479` | `MongoConverges` with `part` |
| A sync that fails is only logged, and its event is marked processed. | `store/application/consumers.py:68` | `srs_backend.md:488-491` | `MongoConverges` with `fetch` |
| The store never shows characteristics: their service wants a token for a read, and the store sends none. | `store/application/service.py:50-56`, `characteristic/main.py:170-177` | `srs_backend.md:479`, `:488-491` | read `Answers` of `StoreReadModel` |
| A specification is deleted although offerings refer to it. | `specification/application/service.py:105-106` | `srs_backend.md:201` | read `Delete` of `SpecificationService` |
| A name that is taken answers 400 on update: the arguments of the exception are swapped. | `specification/application/service.py:85` | - | - |
| An update that changes nothing announces `Updated` after a concurrent delete has announced `Deleted`. | `specification/application/service.py:75-101` | - | `LifeAnnounced` for any last event |
| A service that did not get the public key in three tries serves 500 for ever. | `lifespan` of each `main.py` | `srs_backend.md:600`, `:896` | read `Serve` of `Deployment` |
| A process that `make stop` has not ended when the cleanup begins writes into databases that are cleaned already. | `Makefile:124` | `SEEDING.md` | `ResetIsComplete` without `outlived` |
| Queues that are not purged are worth a warning; their events fill the new cache with old characteristics. | `scripts/clean_databases.py:157-171` | `SEEDING.md` | `ResetIsComplete` without `~warned` |
| The script reports success when nothing was published. | `scripts/seed_data.py:311` | `SEEDING.md:50` | read `Finish` of `SampleData` |
| A run over a catalog with all characteristics stops at the specifications, though it says it goes on. | `scripts/seed_data.py:119`, `:292` | `seed_data.py:292` | read `ToSpecifications` |
| A second run over all characteristics and prices creates nothing; new offerings only if a characteristic and a price were missing. | `scripts/seed_data.py:119`, `:292` | `SEEDING.md:246` ("it will create new entities each time") | `ReseedingAddsNothing` holds |
| Two of the script's five characteristics are in units the service does not have (`Percent`, `ms`) and are answered 422: they are never created, and the Enterprise Plan has Bandwidth in place of Reliability. | `scripts/seed_data.py:75`, `:80`; `characteristic/domain/models.py:7-26` | `SEEDING.md:40`, `:135-136`, `:143` | read `Creatable` of `SampleData` |
| HALF_OPEN lets any number of calls through. | `resilience.py:42` | `srs_backend.md:632` | read `Send` of `CircuitBreaker` |
| Late answers of old calls close or prolong the circuit's state. | `resilience.py:51`, `:60` | `srs_backend.md:631`, `:951-952` | read `Succeed`, `Fail` |
| The breaker trips on 3 failures and waits 20 s; the report says 5 and 30 s. | `gateway/config.py:25-26` | `report.md:664-673` | - |

(`srs_backend.md` is `docs/backend/srs_backend.md`.) Prices also stay locked after a
success: no step of the process unlocks them, so no later publication that needs one
of them succeeds.

## 7. What is not modelled

* **Reads.** Searches of the store, lists and single reads change nothing; those that another
  part relies on are steps of that part.
* **A database under several specifications' requests.** READ COMMITTED and the unique constraint
  are modelled, not the database's own failures other than a lost commit.
* **Camunda and the saga through a reset.** `EndSaga` of `SampleData` stands for a saga that
  ends or does not; process instances that survive the reset belong to Camunda's own database.
* **Web UI, tracing, logging, routing, headers.** No state that other parts rely on.
* **Gateway routing and its retries**, and the passwords and roles behind a token: a token is good
  or expired, and says ADMIN or nothing.
* **Messaging set-up.** The consumer's queue exists before the first event (an event
  published before it is unroutable and lost), and a consumer whose connection is open but
  whose iteration failed recovers (in the code `connect` then returns nothing, and the
  consumer retries for ever).
* **Several processes per service.** One process each, as `docker-compose.yml` runs
  them: the event loop of the offering service and the breakers of the gateway are per
  process, and the workers one per service.
* **The hang of the offering service inside the saga.** `saga_liveness` takes a publish
  handler to reach its commit; section 6 says what a second publish may do to that.
* **Time.** Timeouts may fire at any moment, but in the breaker, whose clock matters.

## 8. Plan

Done in this order: saga, breaker, pricing, offering, event delivery, store, specification,
reset and sample data, with their theorems; then the abstract publication. Next:

1. `Publication!inStore` as the abstraction of `StoreReadModel`, with a refinement mapping: an
   offering is in the store when MongoDB has its document and no task is about to remove it.
2. An abstract `PriceLock` (a lock with an owner, `Take` and `Drop` of `Publication`, and an overtaking
   `Take` for a request that is older) that `PricingService` is shown to implement.
3. The saga worker's batches of tasks, the lock time and Camunda's second delivery after it.
