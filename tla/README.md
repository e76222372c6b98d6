# Verification of the smart warehouse

TLA+ models, TLC runs and TLAPS proofs for the warehouse services: a producer API
publishes events to Kafka, a consumer service applies them to Cassandra, and events
that cannot be processed go to a dead letter topic.

## 1. Inventory

| Component | State | Operations | Talks to |
|---|---|---|---|
| Events, validation (`warehouse/events.py`, `validation.py`) | none | `validate_event`, `topic_key`, `resolved_entity_key`, `history_product_id`, defaults | used by both services |
| Producer API (`producer_app.py`) | requests on handler threads | `POST /events`, `POST /events/batch`, `/health` | Kafka client |
| Kafka client (`kafka_client.py`) | records not yet delivered | `KafkaEventProducer.publish`, `close`, `create_consumer`, `deserialize_event`, `ensure_topics` | Kafka, schema registry |
| Consumer service (`consumer_service.py`) | fetch positions, the message in hand, the lag gauge | `start`, `run`, `handle_message`, `send_to_dlq_and_commit`, `update_lag`, `stop`, `health` | Kafka, processor, dead letter producer |
| Dead letter producer (`dlq.py`) | records not yet delivered | `publish`, `close` | Kafka |
| Event processor (`event_handlers.py`) | the locals of one call: zone rows and totals cached by `InventoryAccumulator`, the batch | `process`, `record_ignored`, `handle_order_created`, `handle_order_completed`, `change`, `set_available`, `flush` | repository |
| Repository (`repositories.py`, `cassandra/migrations`) | seven Cassandra tables | reads (QUORUM), one logged batch per event | Cassandra |
| Consumer API (`consumer_app.py`) | none | lifespan, `/health`, `/metrics` | consumer service |
| Start-up (`cassandra_client.py`, `cassandra_migrations.py`, `schema_registry.py`) | none | connect, migrate, register | external services |
| Scripts (`scripts/`) | none | `send_demo_events`, `query_inventory`, `read_dlq`, `register_schema` | both APIs |

What is hard here. There is no lock and no compare-and-set: `process` reads rows one
by one, caches them, and writes absolute values. Correctness rests on one writer
per product, on the caches (an order may name one row twice), on the batch being
all-or-nothing, and on `processed_events` and `entity_versions` making redelivery and
reordering harmless. Around it, a database call, a commit, a deserialisation or a dead
letter may fail or time out, with or without effect; partitions may move to another
consumer; the process may be stopped or die between any two steps. In the producer API,
threads share one Kafka producer whose delivery reports come late, to any
thread, or never, and clients repeat what was not confirmed. `PROJECT.json` lists
these hazards line by line.

What makes each component correct:

- *producer API*: what a 202 answer says is true, a repeated request takes effect once,
  a client that waits for its answers is not overtaken by itself;
- *consumer service*: no committed offset covers a message without an outcome, no
  message is skipped, commits never fall back, every message gets an outcome and is
  committed, a stop leaves nothing half done, the lag is reported;
- *consumer group*: the same whatever moves or dies, no two consumers with rows of one product, the
  same ledger as one consumer, and no order left open after its completion was committed;
- *dead letters*: they hold what failed, only that, and all of it;
- *processor and tables*: the denormalised tables agree, no quantity is negative or
  past its column, an event id takes effect at most once, versions only grow, an order
  is created and completed once, a transfer makes no stock, and the whole call is one
  atomic step of an abstract ledger;
- *replicas*: no acknowledged change is lost, no batch is half made.

## 2. Modules

| Module | Models | Builds on |
|---|---|---|
| `WarehouseEvents` | events, validation, keys | |
| `EventProcessor` | `EventProcessor.process` over the tables, for a set of consumers | `WarehouseEvents` |
| `WarehouseLedger` | abstract: what the warehouse promises of its topic | `WarehouseEvents` |
| `LedgerRefinement` | `EventProcessor` implements `WarehouseLedger` | `EventProcessor`, an instance of the ledger |
| `StockAccounts` | properties only: stock, reservations and open orders as the account of the history | `LedgerRefinement` |
| `ConsumerService` | one consumer process: the loop around the processor, offsets, dead letters, lag, stop and crash | `EventProcessor`, whose actions are parts of its own |
| `ConsumerGroup` | several consumer processes that share the partitions and write the same tables | `LedgerRefinement` |
| `DemoScenarios` | the scenarios of `send_demo_events.py` and their documented results | `ConsumerGroup` |
| `ProducerApi` | `/events` and `/events/batch` on handler threads over the shared Kafka producer | `WarehouseEvents` |
| `CassandraBatch` | QUORUM reads and logged batches on replicas with timestamps | |
| `MC*` | finite instances for TLC | |
| `*Proofs` | theorems | |

**Processor.** The seven tables are functions from key to row; an absent
inventory row reads as zeros in the code (`get_inventory`), so it is a row of zeros.
`task[c]` holds the locals of consumer `c`'s call of `process`: `pc` names the next
database call, `todo` the calls of `InventoryAccumulator.change` still to come,
`zone_states` and `totals` the two caches (`None`: not read), `order_update` the order
row of the batch, `status` the result.
Each database read is an action of its own (`IsProcessed`,
`CheckSequence`, `HandleOrderCreated`, `HandleOrderCompleted`, `GetZoneState`,
`GetTotal`), so another consumer, a crash or a failure can come between any two.
`ApplyChange` is the arithmetic of one `change`; `ExecuteBatch` is `flush`,
`add_processing_records` and `execute_batch` together. Pure code up to the next
database call is part of the same action: `CheckSequence` validates, compares
sequence numbers and picks the handler. `DatabaseCallFails` is any call raising
without effect, `BatchTimesOut` a batch that is applied and raises, `BatchRefused` a
value that does not fit its `int` column.

**Consumer service.** `loop` is where the thread is in `run` and `handle_message`. `PollEvent`
starts a call, `ProcessStep` is a step inside it, `ProcessReturns` chooses between
commit and dead letter. `CommitFails` raises with the offset stored or not, and goes
to the dead letter from `handle_message` but to `run` from `send_to_dlq_and_commit`,
as the nesting of the `try` blocks has it. `PublishDlq`, `PublishDlqFails` and
`PublishDlqTimesOut` are the three ways out of `DeadLetterProducer.publish`; after a
timed-out flush the record stays in `outbox`, from where the producer's thread delivers
it, expires it, or the process takes it along when it dies. `UpdateLag` and
`UpdateLagFails` are `update_lag`, the second stopping between two partitions.
`stop` is how far `stop()` is, which another thread runs: it sets the flag that
`LoopHead` reads (`RequestStop`), joins the thread or gives up after 15 seconds and closes
the consumer (`CloseConsumer`), flushes the dead letters and shuts the database down
(`CloseDlq`), and the process ends with the daemon thread wherever it is (`Exit`). A
thread that is still at work meanwhile finds its commits and database calls raising.
`faults` bounds the failures; `failed` remembers which kinds happened, for properties
that name what they survive.

**Consumer group.** `owner` is the assignment. Members take part in a rebalance
inside `poll()`, so a partition moves only from a consumer with nothing in
`hand` (`CanMove`), unless that consumer died (`CrashConsumer`) or was removed
because it did not poll in time (`Evict`): then it goes on with its message, and only its
commit is refused. `Settle` is the end of `handle_message`. The topic's content is fixed
(`Log`: what clients sent, in order, by partition), since one `publish()` waits for its
delivery; `ProducerApi!SequentialInOrder` is the property behind this.

**Producer API.** `call[h]` is the request on thread `h`. `Produce` is validation,
serialisation and `produce()`; the thread then waits in `flush(10)` and `wait(10)`.
`Delivered` and `DeliveryFails` run `on_delivery`, which writes into the `result` and
`failure` of its own call, if that still waits. `PublishReturns` and `PublishRaises` are the end
of `publish()`; the second is also the timeout, which leaves the message in the queue, to be
delivered later. `BrokerAppends` may repeat an append and take messages in any order,
as the producer is configured without idempotence. `Restart` loses the queue. `requests`, `answers` and
`accepted` are histories. `Parse` fills in the defaults of `event_id` and `sequence_number`. Ids made by
`uuid4()` are taken to be unique (`minted` counts them). `time_ns()` is a wall clock, which may tie or be set back,
in one process, between threads and over a restart: each reading is any member of `Times`, and no property relies on its
order. `SequentialInOrder` is therefore about offsets alone; whether default numbers grow with them is up to the clock,
and where they do not, the consumer ignores the later event of an entity (a restriction of the code, which no document denies).

**Replicas.** `cell[n][r]` is the value and timestamp of a row on a node, `owed` what
the batchlog, hints and the coordinator have still to bring to nodes. A read returns the newest
cell of some quorum; a batch is acknowledged when a quorum has each of its rows. The consumer is
reduced to reading a zone and a total and adding one to both. Node failures are nodes
that receive nothing and answer nothing for a while.

**Abstractions.** Names are model values; `None` is also the empty string, which the
code treats alike. `event_time`, `updated_at` and the `last_event_id` columns are left
out: nothing reads them back. `event_history` is keyed by payload, since its primary key
holds the event's product, time and id. A product's `int` columns end at `MaxInt`. The broker
loses nothing it has acknowledged. Everywhere but in `CassandraBatch` a batch
changes the tables at once or not at all, one that times out too, which `AckedCounted`, `CountsExact` and `BatchAtomic` justify
as long as no batch times out. A batch that is applied some time after its timeout is modelled in `CassandraBatch` only:
see finding 6, and read the other modules' "database failures" as failures of the first two kinds.

## 3. Runs

| Run (module, cfg) | Question | Expected |
|---|---|---|
| `processor` (`MCEventProcessor`, `LedgerRefinement.cfg`) | do the tables stay consistent, in range and idempotent, is each event applied as a whole, at most once, as documented, and does the history account for every unit? | pass |
| `service_all_faults` (`MCConsumerService`, `ServiceAllFaults`) | under any failures: is no message lost or skipped, do commits never fall back, is a stop clean? | pass |
| `service_liveness` (`ServiceLiveness`) | does every message get an outcome and a commit, does the gauge recover? | pass |
| `producer` (`MCProducerApi`) | are answers true, repeats harmless, batches published from the front? | pass |
| `group` (`MCConsumerGroup`) | do two consumers lose nothing, never write one product together, keep to the ledger, leave no completed order open, and get the demo's results? | pass |
| `cassandra` (`MCCassandraBatch`) | are acknowledged batches counted, exactly and atomically? | pass |
| `dlq_error` | at-least-once when a dead letter is refused | violation |
| `commit_failure` | are dead letters only events that failed? | violation |
| `registry_outage` | do dead letters keep the event? | violation |
| `history_coverage` | does a product's history name all its changes? | violation |
| `order_split` | does an order that was created and completed end completed, whatever valid fields its events have? | violation |
| `batch_replay` | do the total and the zones agree after a batch timed out? | violation |

**Bounds.** *Processor*: two products, two zones, one order, one consumer, fourteen
payloads. They are chosen so that the cases that matter occur: two order lines in one row,
an order over two products, both ends of a move in one total, sums that pass
`MaxInt = 3`, a count above and below the stored quantity, a repeated sequence number,
two payloads under one id, a second creation and a second completion of an order, and
an invalid event. Delivery is arbitrary, so every order and every redelivery is
explored; the state space is finite without a bound on steps, because an event id is
recorded once. `MaxInt = 3` stands for 2^31 - 1: the code only compares with it.

*Service*: two partitions, four events (applied, older, against a rule, invalid) and a
garbage message; `MaxMessages` (2 or 3) messages are published and `MaxFaults = 2`
failures of any of the nine kinds happen. Three messages put one behind and one before a
failing one on a partition; two failures make a restart fail again, or a stop cut short
a thread that had failed already.

*Producer*: two threads, three events in all requests, five commands (an event with an id; a valid one
without an id but with a number; an invalid one under the id of the first; a batch; a batch whose second event
is invalid; the second and third are sent with `validate_payload=false`), one repeated append, two clock readings with
payloads' own numbers between and above them. Two requests of one command can overlap, and a third event
still comes after both: the event with a number reaches the topic under up to three ids, and in
the mutant `Parse_NewNumbers` two of them take effect.

*Group*: two consumers, two partitions, the sixteen events of the six demo scenarios
(quantities in units of five), one death or eviction anywhere. `order_split` uses one consumer, as
deployed, and no failure.

*Replicas*: three nodes, quorums of two, one product in two zones, three batches, one of
which may be given up (two batches suffice for `batch_replay`). `CHECK_DEADLOCK FALSE` is
set here only: the model stops when its batches are used up.

Symmetry is used where nothing tells the values apart: consumers in `group`, threads in `producer`,
nodes and zones in `cassandra`.

**Fairness** (`FairServiceSpec`): weak fairness of `Consume` (the successful steps of the
loop), `Stop` and `Start`. `run()` leaves its loop only on `stop()`, catches every
exception, and every wait has a timeout; the steps of `stop()` wait for nothing without one. Fairness of `Start`
says that somebody starts the process again after it ended: `docker-compose.yml` has no restart
policy, so this is an assumption about the operator. Nothing is assumed of failures, publishing or requests.
With it, `LagReported` holds under every kind of failure (each finitely often), and `EventuallyHandled` as long as
dead letters get through; `EventuallyCommitted` excludes runs where a commit or a dead letter failed, as
nothing repeats a failed commit until the partition's next message.

**Findings** (disagreements of code and documents that the violation runs show):

1. `consumer_service.py:116`: a dead letter that cannot be published is lost, as `run()`
   goes on and the next commit covers its offset (`docs/task.md:71`).
2. `consumer_service.py:150`: an event that was processed is dead-lettered when its
   commit raises (`docs/task.md:27`).
3. `dlq.py:29`: a message that cannot be deserialised is dead-lettered without its
   content (`docs/task.md:181`).
4. `events.py:75`: an order event is in the history of one product only
   (`README.md:117`).
5. `events.py:59`: an `ORDER_COMPLETED` that names only its order is keyed by the order,
   its `ORDER_CREATED` by a product: on different partitions the completion may be read first and is dead-lettered
   for good (`docs/task.md:154`, `docs/task.md:125`). The demo's own events carry the product, and `OrdersComplete` holds for them.
6. `repositories.py:69`: a batch that timed out may be applied after the next one was computed
   without it; its zone then counts and its total does not (`docs/task.md:147`).

A neighbour of the first is not a run of its own: `dlq.py:54` ignores how many records `flush(10)` left
undelivered and commits; `CommittedMeansHandled` therefore excludes both kinds of dead letter failure.

Hazards that no passing property covers are listed with a note in `PROJECT.json`: that neighbour, the commit that
nothing repeats, and a product whose events are on several partitions with a consumer each, which no run's topic has.

## 4. Proofs

Assumptions on the constants: `Events` are well-typed events, `None` is none of the
values it is optional beside, `Zones` is finite,
`MaxInt` and the bounds are naturals, keys hash to partitions, commands parse to events, quorums
intersect. `ConsumerGroup` also assumes
that `SelectSeq` over a sequence of events yields one (`LogAssumption`): that is a fact about a recursive
definition, which TLC evaluates on the instance and no prover here can derive. Everything else, products, orders, events, consumers,
partitions, handlers, nodes, failures, is arbitrary.

*Processor* (`EventProcessorProofs`, `IdempotenceProofs`)

- `TypeCorrect`, `CallsConsistent`. The inductive invariant is `TypeInv == TypeOK /\
  CallOK`: the rows are naturals only because an order's items were validated, which
  `CallOK` remembers from `CheckSequence` to the batch.
- `QuantitiesInRange`. The non-negative half comes from the types of the caches
  (`BrokenRule` guards every change), the upper half from `BatchFits`. For any
  number of consumers.
- `MirrorAgrees`. Both zone tables are overlaid with the same cache by one batch, for
  any number of consumers.
- `TablesAlwaysAgree`, `ViewsAlwaysAgree`, `TotalsNeverShort`, for one consumer (`SingleConsumer`). A total is related to its zones
  by counting: `Units(f)` lists the units of a row of quantities and its
  cardinality is the sum, which needs no recursion. `UnitsExcept` says what replacing
  one entry does to the cardinality. Agreement of the tables alone is not inductive: a
  batch writes the cached rows and leaves the others. `AgreeInv` therefore adds
  `ViewsAgree`, the same agreement in the view each call has of the tables
  (cached where cached, stored elsewhere). Reads leave a view as it is, `ApplyChange` moves both sides
  of it by the same amount, and the batch makes the view the table. `TotalsNeverShort` follows: a zone
  is part of what its total counts. With a second
  consumer a foreign batch would change the stored half of a view under the cached
  half: this is where `SingleConsumer` is used.
- `ResultsMatchRecords`, `EventsAppliedOnce`, `VersionsOnlyGrow`, `OrdersLiveOnce`, for one consumer. The
  inductive invariant `RecordInv` says that the checks a call has passed still hold when
  its batch is sent (its id is not recorded, its number is newer than the last), that an
  ignored event brings nothing to its batch, and that a result agrees with the record;
  for orders (`OrderInv`), that the row a call will write follows the stored one. A
  second consumer could record the event between the check and the batch.

*Ledger* (`LedgerProofs`), one consumer; the invariant serves the group too

- `StockConserved`. `BalanceInv` relates each call to the stored rows it started from: the units of a product in
  its view differ from the stored ones by what the changes in `todo` still make or lack (`Balanced`), so that a
  move, a reservation, a release or an order, whose changes sum to nothing, ends with the units it began with.
- `ProcessorImplementsLedger`: the refinement `LedgerSpec` itself. The ledger applies an event at once to the stored
  stock; the code reads rows one at a time, changes cached copies and writes what it ended with. The invariant
  `LedgerInv` says how far a call has come: the rows it sees are the stored rows with the effect of the changes it has
  made, and what is still in `todo` is the rest of them (`EffectHolds`, with `ProductProgress` for the events of one
  product and `OrderProgress` for the lines of an order, where `Upto` counts the lines done). A batch that is ready
  to be sent has then nothing left to do, and what it writes is what the ledger promises (`ReadyEffect`): `BatchAccepts` for an
  event that was applied, `BatchIgnores` for one that was ignored. The sums over an order's lines are cardinalities of sets of units
  (`UnitsOf`), as in the totals above. `ChecksStand` and `AgreeInv` are part of the invariant because the checks
  a call has passed, and a total being the sum of its zones, decide which rule the ledger applies.

  The invariant is kept by other calls' batches as long as two calls under way are `Independent`: different event
  ids, entities and orders, and no product of one in the other (`OthersBatchApart`, `EffectApart`). With one
  consumer that is so because there is one call.

*Accounts* (`AccountsProofs`), one consumer; the group proof uses the steps again

- `ReservationsAreAccounted`, `StockIsAccounted`: in each cell, what is reserved and released, and what came in, left and was moved,
  by all the events the history calls `PROCESSED`, adds up to the stored row. The sums are over events and orders,
  again as cardinalities of sets of units (`CountedAdd`, `QuantityAdded`: one more event adds its quantity). The invariant
  `AccountsInv` says that the history is finite and has a record for each of its events, so that no event enters a sum
  twice, that an order row was written by a valid creation (`OrdersOK`), and the two accounts. That a batch keeps them
  follows from the ledger alone: the ledger's step moves a cell by exactly what its event adds to each sum (`ReservedMoves`, `OnHandMoves`,
  `OrderSums`), so no cache, read or write of the processor comes up again.
- `OrdersAreCompletable`: a completion that runs short of units does so because `PRODUCT_RELEASED` took more out of a
  cell of its order than `PRODUCT_RESERVED` had put there. Orders and products share one counter, so a release may take the
  units of an order (`event_handlers.py:145`); this says that nothing else can. `CompletableInv`: the units of an open order
  are among those all open orders have in the cell, and a completion has taken at most its own (`Upto`), so a
  reservation that runs short is one the account does not balance without releases.

*Consumer service* (`ConsumerServiceProofs`), one consumer, every failure and stop

- `ServiceRunsProcessor`: every step of the service is a step of `EventProcessor` or a
  stutter, so its theorems carry over: `ServiceTablesAgree`, `ServiceConservesStock`,
  `ServiceStockIsAccounted` (with `OrdersCompletable`), and `ServiceImplementsLedger`: redelivered, reordered or dead-lettered, a message has the effect the ledger promises or none.
- `ServiceTypeCorrect` (`ServiceTypeInv`).
- `AtLeastOnce`, `NoMessageSkipped`. `DeliveryInv` adds to the property that the only polled
  message without an outcome is the one in hand (`Pending`), that its offset is the last
  one polled from its partition (`MessageInHand`), and that offsets stay within the log:
  then a commit, which stores the offset after the message in hand, covers handled
  messages only. It holds as long as no dead letter failed, and nothing makes `failed` shrink, so the
  invariant is `WorkedInv == ServiceTypeInv /\ (DlqWorked => DeliveryInv)`. `HandledStays` shows that an outcome is never taken back.
- `StopLeavesNothing`, `CommitsOnlyGrow`. `OffsetInv`: positions are never behind
  commits, and ahead of them by the message in hand alone, unless a commit or a dead letter failed.

*Consumer group* (`ConsumerGroupProofs`), any number of consumers, deaths and evictions

- `GroupTypeCorrect` (`GroupInv`, with `HandOK`: a hand holds a place in the log and its consumer processes that event).
- `GroupAtLeastOnce` (`DeliveredInv`). With evictions two consumers may handle the same
  message. What saves the property is that only an owner's commit is taken, and `HandOK` says that
  the message in an owner's hand is at the committed offset: it polled there, and a consumer that lost
  the partition gets it back only with an empty hand. `OutcomeOK` says that a call that
  returned has recorded its event, and records stay, whoever writes the tables.
- `GroupRunsProcessor`: the group's steps are steps of `EventProcessor` or stutters, so what is proved there for any
  number of consumers (types, ranges, the mirror) holds of the group.
- `WritersApart`, `GroupTablesAlwaysAgree`: `OneWriterPerProduct` and `GroupTablesAgree`, under `KeysKeepTogether`: the
  valid events of a product, and those of an order, are on one partition. That is a condition on what clients send:
  `topic_key` gives it when an order has one product that both its events name, and the demo's
  events satisfy it (`MCConsumerGroup` assumes so); an order over several products may not, and nothing is
  promised of it. The invariant says that a message in hand is of a partition its consumer owns (`HandsOwned`, as long as nobody
  was evicted), so that two calls work on events of two partitions, which touch different products; an order a call completes was
  created by an event of its own partition. The agreement of the tables then needs less than `SingleConsumer`: that two
  calls under way touch no row in common (`CallsApart`), which is what `EventProcessorProofs` proves `AgreeInv` from.
- `GroupImplementsLedger`: `GroupLedger`, under `KeysKeepTogether` and `RecordsKeepTogether`, the same condition for event ids
  and entities. Default entity keys and generated ids satisfy it; an explicit `entity_key` that products of two
  partitions share does not. The calls are then `Independent` (`GroupIndependent`): by `HandsOwned` their events come from two
  partitions, `OrdersCreated` and `TouchesItsOwn` keep what they hold on their own. So no duplicate is applied, no older event
  overwrites a newer one and no change is lost between two consumers either, whoever dies, until somebody is evicted.
- `GroupStockIsAccounted`: the accounts and `OrdersCompletable` of the group under the same conditions (`GroupAccountsInv`). Another
  call's batch leaves the accounts of a call's cells alone, since its products are others (`ShortApart`).
- `OrdersAreClosed`: `OrdersClosed` under the same conditions, at-least-once and the ledger put together. Once an
  `ORDER_COMPLETED` is committed, its order is completed if it exists, for an event that is the last word on the order
  (`LastWord`: valid, its id not used again, no earlier event of its entity with its number or a later one, no
  `ORDER_CREATED` of the order after it) and an order whose cells no `PRODUCT_RELEASED` of the partition releases from
  (`NeverReleased`). Each condition excludes an outcome the code means to have: a duplicate, an ignored event, a creation that comes
  too late, an order that runs short. The argument goes over the ends of a call (`CompletionEnds`): it records its
  event, runs short in a zone, finds no order or a completed one; its batch fits the columns, as it only takes units
  away (`CompletionFits`), and a total is never short (`ZoneBreaksFirst`). `ExplainedInv` says that every id, version and ignored
  event has an event of the history behind it, and that an applied completion stays; `HistoryPlaced` says that the events of the
  history are on the partitions up to the message next to be committed. So what a call found was put there by an event before its own on its own
  partition, whichever consumer handled it, and the conditions exclude all but a completed order (`CompletionSettles`). Later batches
  leave it so (`ClosedKept`).

*Producer API* (`ProducerApiProofs`), any threads, commands, failures and repeats

- `TypeCorrect` (`TypeInv`).
- `AcceptedAlwaysPublished`. `PlaceInv` follows a place from the broker to the answer: an offset in the queue, in a
  report, in a partial result and in an answer is that of the same event (`QueuePlaced`, `CallPlaced`,
  `AcceptedPlaced`); that a report meets the call it belongs to is `Distinct`: no two threads handle one request,
  and a queued message belongs to an event its request has not got past.
- `BatchesPublishPrefixes` (`BatchInv`): a thread gets to an event of its batch only after the one before it was appended, which the
  broker's later appends never undo.
- `SequentialClientsInOrder` (`AcceptedGrow`): an answer given before a request arrives names a place that was taken before, so the place of the
  later event is higher. Nothing is assumed of the clock.
- `RepeatsTakeEffectOnce`: two copies of a payload with an id or a number of its own share the id, or the entity and the
  number, so the consumer ignores the later one. `PayloadsApart` is assumed: payloads that say different things differ in more
  than their ids and numbers, so that an event of the topic tells which payload it came from (`CopyIsParsed`). `MCProducerApi` assumes
  it of the run's payloads.

*Replicas* (`CassandraBatchProofs`), any nodes, rows and intersecting quorums

- `TypeCorrect`, `AckedAlwaysCounted`, `CountsAlwaysExact`, `BatchesAtomic`. `AckInv` gives each row a timestamp
  from which on every write, on a node or still owed, counts the acknowledged events, and which every
  quorum has reached (`AckedFrom`): quorums intersect, so the quorum that acknowledged the last batch meets
  all others. What the client has read counts them too (`ViewCounts`), and the batch it waits for
  counts one more (`BatchCounts`). Later timestamps of batches that timed out do no harm, as they were
  computed from such reads.

## 5. Only model-checked

`OrdersComplete` and `DemoResult`, which depend on the events the demo sends and on their order (what holds
of every topic is `OrdersClosed`; that the demo's order is created, so that there is one to complete, is model-checked); the
three liveness properties, since liveness under fairness is beyond the prover; the six violations.

## 6. Not modelled

- `health()` of both services and the fields only it shows (`running`, `last_error`), `/metrics`, `ping`: they
  read, and no decision of the code depends on them.
- Start-up: `connect_with_retry`, migrations, `ensure_topics`, schema registration. Retry loops and idempotent
  statements that end before the first message is handled.
- `query_inventory.py`, `read_dlq.py`: they read and print. Settings, logging, dashboards, alerts.
- An evicted consumer that writes after its successor: the tables may then disagree, since a batch has no condition and no
  fencing. `OneWriterPerProduct`, `GroupTablesAgree` and `GroupLedger` exclude evictions for that reason; at-least-once does not.
- Whose reserved units are: the code keeps one counter for orders and product reservations, so only their sum can be
  accounted for (`ReservationsAccounted`). A release may take the units of an order, which then runs short; `OrdersCompletable` says
  that an order never does for another reason.
- The lag gauge of a partition that moved to another process.
