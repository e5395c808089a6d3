# Token Price Service: TLA+ models, checks and proofs

The service keeps tokens and their prices in PostgreSQL, asks a price source for new prices every
few seconds, and announces each change on a Kafka topic through a transactional outbox: the price
and an `outbox_events` row are written in one transaction, and a poller later sends the rows to
Kafka. This directory holds TLA+ modules of its core logic, the TLC runs that check them on small
instances, and theorems about them that TLAPS proves for all instances. Paths below are relative
to the repository; `PROJECT.json` maps every definition to the lines it models.

Contents: [1 Inventory](#1-inventory), [2 Modules](#2-modules), [3 Runs](#3-runs),
[4 Fairness](#4-fairness), [5 Proofs](#5-proofs), [6 What the code does that its texts do not
say](#6-findings), [7 Abstractions and limits](#7-abstractions-and-limits), [8 Plan](#8-plan).

## 1. Inventory

| Component | State | Operations | Hard behaviour |
|---|---|---|---|
| `OutboxService` + `outbox_events` | rows: status, retry_count, created_at | create (in a caller's transaction), mark as processing / published / failed, fetch pending / failed, reset for retry, count | every UPDATE is keyed by id alone, so a late one overwrites whatever happened meanwhile |
| `OutboxProcessorService` | `isProcessing`, `processingPromise`, two intervals | poll and send a batch in parallel, retry failed rows, start, stop | ticks that overlap, errors in the middle of an event, death and restart, shutdown in mid-batch |
| `KafkaProducerService` | `isConnected`, the kafkajs producer | connect, disconnect, send (connects when needed), health | broker outages, lost acknowledgements, disconnect racing with sends |
| `TokenPriceUpdateService` | `isRunning`, `isProcessing`, the interval, tokens of the cycle | start, stop, cycle: read all tokens, batches in parallel, one transaction per token | stop and start in mid-cycle, prices read long before they are used, tokens removed meanwhile, commits with an unknown outcome |
| `CircuitBreakerService` | per circuit: state, two counters, time of the last failure | execute with timeout, success, failure | results of overlapping calls in any order, timeouts against late results, recovery |
| `MockPriceService` | none | a price, or the last known one when the breaker call fails | overlapping breaker calls |
| `TokenService` + `tokens`, `token_prices` | rows | CRUD, price upsert in a transaction | removal during a price cycle, uniqueness |
| Process (`main.ts`, module hooks, container) | up or down | boot, boot failure, SIGTERM, crash, restart | intervals that start before Kafka is connected |
| Health indicators | none | Kafka flag, outbox counts, breaker state, `SELECT 1`, memory, disk | cached flag, four counts taken while events move |
| `TokenController`, DTOs, validation pipe, `GlobalExceptionFilter` | none | requests to calls of `TokenService`, exceptions to statuses | PATCHes in the middle of a price cycle, initial values that a PATCH writes unasked |
| `TokenSeeder` | none | count the tokens, plant all rows in a transaction | its own rows against the unique columns |
| Configuration | settings | validate, write back to `process.env`, read | two readings of one variable (`Number`, `parseInt`) |
| `PrismaService` | none | connect, `$transaction`, errors | what it throws, and when it is unknown whether the statement was applied |

Interactions. The price cycle calls `MockPriceService` (which calls the breaker), then in one
transaction `TokenService.updatePriceInTransaction` and `OutboxService.createPriceUpdateEvent`.
The outbox processor and the price cycle share nothing but the outbox table. The processor calls
`OutboxService` and `KafkaProducerService`. Everything runs on one Node.js event loop: code
between two `await`s is atomic, calls in flight interleave freely. The module hooks of the
messaging module (`OutboxProcessorService` and `KafkaProducerService`) run at the same time, both
at start and at stop.

What makes each component correct:

- outbox: an event is not lost, not marked published unless it was delivered, not delivered more
  often than its row records, and given up only after its retries;
- processor: no two workers on an event, a clean stop leaves nothing half done and ends, a process
  that stays up works everything off;
- price cycle: price and event go together, the events of a token chain up, a removed token stays
  silent, a cycle always lets the next one in;
- breaker: a closed circuit has not seen too many failures, recovery attempts are judged by their
  own results, a circuit recovers once its service does;
- consumers of the topic: the at-least-once promise, the order of a token's events, one token per
  key;
- health report: near the truth although its counts are taken apart;
- token table: symbols stay unique under concurrent requests and inserts, and within a cycle that
  uses symbols it has read long before;
- seed script: a run on an empty database plants its rows;
- configuration: what runs is what was validated.

## 2. Modules

An arrow points from a module to the one it extends; `Pipeline` also instantiates `AtLeastOnce`,
and `PriceUpdate` instantiates `PriceFeed`.

```
OutboxTable   KafkaProducer    AtLeastOnce         PriceFeed     CircuitBreaker   TokenStore   TokenSeeder   EnvConfig
      ^         ^                  ^                   ^
     OutboxProcessor <---- Pipeline (instantiates)     PriceUpdate (instantiates)
            ^
         Health
```

**`OutboxTable`** is `OutboxService` over the table. `status[e]` and `retryCount[e]` are the two
columns the code branches on; an event is its rank by `created_at`, so `Oldest(S, n)` is
`orderBy createdAt asc, take n`. Each method of the service is an operator of the same name.

**`KafkaProducer`** is `KafkaProducerService` with what is behind it: `isConnected` is the flag of
the service, `linked` is whether the kafkajs producer accepts a send, `disconnecting` that its
`disconnect()` is awaited, `brokerUp` whether a broker answers.

**`OutboxProcessor`** composes the two with the processor and the process. Each call of
`processPendingEvents` that may overlap with others is a member of `Batches`, each call of
`retryFailedEvents` one of `Retriers`. `work[b][e]` says which call `processEvent(e)` awaits:

| step | code |
|---|---|
| `ProcessPendingEvents`, `ExecutePendingEvents`, `EndBatch` | a tick, `getPendingEvents` answers, `allSettled` with the `finally` block |
| `Marked`, `Reconnected`, `Sent`, `Published`, `Failed` | the answers of `markAsProcessing`, of `connect` inside `sendMessage`, of `producer.send`, `markAsPublished`, `markAsFailed` |
| `RetryFailedEvents`, `FetchFailed`, `ResetNext` | a tick, `getFailedEvents` answers, `resetFailedEventForRetry` answers for one row |
| `Boot`, `BootConnected`, `BootFailed` | `onModuleInit`: intervals registered while `connect` is awaited; it resolves, or `main.ts` exits |
| `Shutdown`, `Disconnected`, `Exit` | SIGTERM: intervals deleted and disconnect begun; disconnect returns; both hooks have returned |
| `Crash`, `BrokerDown`, `BrokerUp` | the environment |
| `CreatePriceUpdateEvent` | the commit of a price transaction |

`delivered[e]` and `stranded` are history variables: how often the topic got `e`, and the events
whose process died, or lost the database, while it held them. The constant `Env` switches faults:
`crash`, `stop` (SIGTERM), `db` (a call throws, applied or not), `broker` (outages), `ack` (an
acknowledgement is lost).

**`AtLeastOnce`** is the abstract specification: per event, a phase (absent, open, published,
abandoned, lost) and a number of sends, with one action for each way a phase may change. Nothing of
batches, retries, faults or the producer is in it.

`Holders(e)` are the retry passes that have read row `e` as FAILED and not reset it yet, and
`Copies(k)` is how often an event whose row counts `k` failures may have been sent: once, and once
more per failure that is retried and per retry pass that may have seen it.

**`Pipeline`** looks at the processor from its two ends. For its input, the events of one token are
committed in the order of `createdAt`, because price cycles take turns (`CommittedInOrder`). For
its output, `PhaseOf` maps a row and whether it is in somebody's hands to a phase of `AtLeastOnce`,
and `together` remembers which pairs of events have shared a batch.

**`Health`** is `GET /health/outbox` on top of the running processor: `checkOutbox` sends the
counts, `CountAnswers` is one answer in any order, with any number of outbox steps in between.
`steady` and `ever` are history variables: the events that were queued all the time, or at some
time, since the request. A count is `Unanswered` until its answer comes.

**`CircuitBreaker`** is one circuit under overlapping calls. Time is ticks; `sinceFailure` is the
age of `lastFailureTime`, `age[c]` how long call `c` has been running. `Tick` cannot pass a call's
timeout, because a timer that is due fires first.

**`PriceUpdate`** is `TokenPriceUpdateService` with the rows it reads and writes. `cycle[c]`,
`queue[c]` and `work[c][t]` are where a call of `updatePricesWithErrorHandling`, its batches and
its `updateTokenPrice` calls are; `oldPrice` is the snapshot `findAll` gave, `newPrice` the quote.
The writes of a transaction appear at `Committed`; between the upsert and the commit the rows are
`Locked`. `feed[t]` is the price last announced in the outbox and `contiguous[t]` whether each
event's `oldPrice` was the price announced before it (history variables). Tokens are numbered by
their rank in `findAll`'s order.

**`PriceFeed`** is the abstract specification of the price service: per token, whether it is listed,
its price and the price announced last, which change in one step (`List`, `Delist`, `Change`), from
the one announced last to one that is worth announcing. Nothing of cycles, batches, snapshots,
transactions or faults is in it. `PriceUpdate` implements it with the same three variables.

**`TokenStore`** is the tokens table under its writers. `Update` and `Remove` are the requests that
are carried out, each one SQL statement; `Taken` is the unique index on the symbol. A request that
is refused, for whatever reason, changes nothing and is a stuttering step. `TokensRead` and
`Announced` are the price cycle as far as symbols go: the symbol read at the start becomes the
Kafka key later. `Patched` shows that a PATCH without `priority` resets it to 0, because
`UpdateTokenDto` inherits the initial values of `CreateTokenDto`.

**`TokenSeeder`** is a run of the seed script, `seed.ts` with `TokenSeeder.seed`: `Counted` and then
`RolledBack` or `Committed` are its awaited steps. `FromHex` is what `Buffer.from` makes of the
addresses in the source, which decides between the two.

**`EnvConfig`** follows the text of each numeric setting: `Given` to the validation, `Valid` by
`Number()`, `WrittenBack` to `process.env` if it was not there, as `String()` writes it (`Written`,
with an exponent from 10^21 on, `Huge`), `Read` by `parseInt` or `parseFloat`. It has the settings
the application takes from the factories of the configuration. `PORT` is not one of them: `main.ts`
asks for the validated `PORT`, and nothing reads `app.port`; nothing uses `DB_PORT` at all.

The `MC...` modules give symmetry and small sets for TLC, the `...Proofs` modules the theorems.
Definitions marked "Mutant" are plausible bugs; each property is shown to fail when one of them
replaces the definition it is a variant of, and nothing else uses them.

## 3. Runs

| Run | Instance | Checks | Distinct states |
|---|---|---|---|
| `outbox_safety` | 2 events, 2 batches, 2 retriers, maxRetries 2, batch size 2; crashes, stops, database faults, lost acknowledgements | `TypeOK`, `OneWorkerPerEvent`, `FlagIsHeld`, `PublishedWasDelivered`, `StrandedOnlyByLoss`, `RepeatsAreRecorded`, `RetryBudget`, `KeepsPromise`, `DisorderHasCause` | 797,575 |
| `outbox_progress` | 2 events, 1 batch, 1 retrier, maxRetries 2, batch size 2, all faults; fair | `OnlyFailedEventsAreReset`, `EventuallyResolved`, `ShutdownTerminates` | 67,588 |
| `health` | 3 events, 2 batches, batch size 1, limit 2, crashes | `ProbeTypeOK`, `VerdictIsComplete`, `VerdictIsOffByABatch` | 659,237 |
| `breaker` | 5 calls, thresholds 5 and 3, timeout 3, recovery time 2; fair | `TypeOK`, `ClosedBelowThreshold`, `SuccessesOfThisAttempt`, `OpenIsDated`, `OnlyOldCallsOverlap`, `Recovers` | 90,412 |
| `price_safety` | 2 tokens, 3 prices, batch size 1, 2 cycles, all faults; fair | `TypeOK`, `FeedMatchesPrice`, `EventsAreContiguous`, `FlagIsHeld`, `PriorityIsKept`, `RemovedStaysSilent`, `KeepsFeed`, `CyclesEnd` | 17,478 |
| `token_store` | 3 tokens, 4 symbols, 2 priorities | `TypeOK`, `KeysApartInACycle` | 1,067 |
| `outbox_stale_reset`, `outbox_retry_limit`, `outbox_boot_failure`, `kafka_health`, `token_seed`, `env_config` | small | one statement each that the code does not keep, see [6](#6-findings) | |

No run bounds its state by a constraint. The state spaces are finite because `retryCount` stops at
`MaxRetries` and `delivered` follows it, because the breaker's counters saturate, because prices,
symbols and texts come from sets, and because a cycle forgets its keys when it ends.

Why the bounds are enough to meet the interesting cases:

- 2 events: an event of a batch can fail, die or be published while the other is anywhere else,
  they can share a batch or come one after the other, and either can overtake. Properties speak of
  one event or of a pair.
- 2 batches: what the guard on `isProcessing` must prevent needs two.
- 2 retriers in `outbox_safety`: passes that outlast the retry interval (30 s by default) overlap,
  and nothing in the code prevents it. One holds a stale list while the other, or a batch, moves the
  rows. `OnlyFailedEventsAreReset` does not survive that (`outbox_stale_reset`), so it is checked
  with one pass at a time, in `outbox_progress`.
- maxRetries 2: a failure that is retried and one that is not. The default is 3; the theorems hold
  for all. The next larger instance (maxRetries 3, or the broker's outages as well) is out of reach
  of a run of minutes with two overlapping passes; outages are in `outbox_progress`.
- 3 events in `health`: a count that is off by more than one batch of one needs a third event.
- 5 calls are the default `priceUpdateBatchSize`, the number of breaker calls in flight together,
  and the thresholds are the defaults. Only the order of timeout and recovery time matters; the run
  takes the harder one, in which late results of older calls reach a newer recovery attempt, and
  the default order is a theorem (`AttemptsAreQuiet`).
- 2 tokens in batches of 1 give a token that is written while another waits with an old price.
  Tokens of one batch share nothing but the cycle's flag. Prices 100, 101, 110 with a threshold of
  2 % give changes below and above it; a token without a price is the special case of an old price
  of 0.
- 3 tokens and 4 symbols let PATCHes hand symbols around in a circle, by way of a symbol that is
  free, while some of the tokens have been announced and others not.
- The texts of `env_config` are one of each kind, on both sides of the bounds, in the environment, in
  `.env` or in both. None is huge: TLC's integers end before 10^21.

What the safety runs show beyond single steps: `KeepsPromise` is the whole contract with the
consumer, overlapping retry passes included; `StrandedOnlyByLoss` is the guarantee of the graceful stop (the
batch is awaited, the retry pass is not and need not be); `RepeatsAreRecorded` that duplicates on
the topic are bounded by what the row records even when published events are sent anew;
`KeepsFeed` that a price and its event change together, although the price compared with was read
long before; `DisorderHasCause` that batches do not reorder
events by themselves; `EventsAreContiguous` that the snapshot price is safe only because cycles
never overlap, across stop, restart and crash; `KeysApartInACycle` that the stale symbol is safe
because one statement reads all of them, whereas the key of the row as it is at the commit would
not be; `VerdictIsOffByABatch` that four counts without a transaction are good enough for the
limit they serve.

Deadlock checking is on in every run except `env_config`, whose process is started once and then
stays as it is.

## 4. Fairness

`FairSpec` of each module assumes only what the runtime gives:

- an interval keeps firing while it is registered (`ProcessPendingEvents`, `RetryFailedEvents`;
  weak fairness for "some batch", since ticks during a batch return at once);
- every awaited call is answered: Prisma's and kafkajs' requests have timeouts and reject
  (`ExecutePendingEvents`, `ProcessEvent`, `RetryPass`, `Disconnected`, and in `PriceUpdate` all
  steps of a cycle), and `Promise.allSettled` then settles (`EndBatch`, `BatchSettled`);
- `docker-compose.prod.yml` restarts the container (`restart: unless-stopped`), and booting ends
  (`Boot`, `BootConnected \/ BootFailed`, `Exit`);
- in `CircuitBreaker`, time passes, a call ends in its timeout at the latest, and the price cycle
  keeps calling.

Nothing is assumed of new events, removals, stops, crashes, the broker's return, or which answer a
call gets. `EventuallyResolved` is conditional on a process that eventually stays up and a database
that eventually stops throwing: while every query may fail, nothing can be promised. It needs no
broker: without one, events run out of retries. `Recovers` is conditional on calls that stop
failing. `Pipeline`, `Health`, `TokenStore` and `EnvConfig` state no liveness.

## 5. Proofs

Theorems hold for every value of the constants that satisfies the named assumptions. Common
assumptions: events and tokens of the outbox and the price cycle are subsets of `Nat`, sizes are
positive, `Retriers` is a finite set (any number of retry passes may overlap, but not infinitely
many) and `Env` is any set of faults. `MaxRetries # 0` is what the validation enforces. Where a
theorem needs more, it says so itself, as a hypothesis about the behaviour
(`Spec /\ []PassesDoNotOverlap => ...`) or about a constant (`ASSUME ...`).

**`OutboxProcessorProofs`**

- `TypeCorrect`: `Spec => []TypeOK`, one case per action.
- `BatchesTakeTurns` (`OneWorkerPerEvent`). Not inductive: it says nothing of the flag. `BatchInv`
  adds that a batch that is not idle holds the flag, that at most one batch is not idle, and that
  only a running batch has work. `FlagFollowsBatch` (`FlagIsHeld`) is the other direction: every
  way a batch can end, the throwing ones included, clears the flag. It is the part of
  `EventuallyResolved` that is a safety property: nobody is locked out for good.
- `PublishedIsDelivered` (`PublishedWasDelivered`) by `DeliveryInv`: an event whose batch is at
  the step of marking it published has been delivered. Needs nothing of the retry passes.
- `OnlyLossStrands` (`StrandedOnlyByLoss`) builds on `BatchInv`: `Exit` happens only when the flag
  is down, hence when no batch has work. `ProcessingIsInHand` turns it round: with `crash` and `db`
  not in `Env` and boots that find the broker (`BootsConnected`), nothing is ever stranded and
  `ProcessingMeansInHand` holds. These are all the ways to lose an event; run
  `outbox_boot_failure` refutes the property without the last of them.
- `DuplicatesAreCounted` (`RepeatsAreRecorded`) and `RetriesAreBounded` (`RetryBudget`), however
  many retry passes overlap. Both follow from `AttemptsInv`, an account kept for each event. As
  long as the row is due for a retry (`Due`: FAILED with retries left), any number of passes may
  still read it, so there must be room for one copy from each; once it is not due, `Sendable` adds
  up what was sent and what may still be sent without another failure (one per pass that holds the
  event, one if the row is PENDING, one if it is on its way) and stays within `Copies(retryCount)`,
  and `Failable` does the same for failures. The step that needs the argument is `markAsFailed` of
  a row that passes still hold: it moves the row to the next `k`, and `Copies` grows by exactly the
  number of passes.
- `RetriesAreOfFailures` (`OnlyFailedEventsAreReset`) in behaviours in which passes do not overlap,
  by `TodoInv`: what the only active pass has read is still FAILED, in nobody's hands. The
  hypothesis is not idle: run `outbox_stale_reset` violates the property without it.
- `DuplicatesHaveCause`: where every send is acknowledged, no database call throws and passes do
  not overlap, an event is sent once at most (`SentOnce`), although processes die, stop and lose
  their broker. `OnceInv` says at which stages an event may already have been sent. Read the other
  way, it is the complete list of where duplicates come from.

**`PipelineProofs`**

- `OutboxKeepsPromise` (`KeepsPromise`), the refinement, for any number of overlapping passes.
  `PipeInv` puts the invariants above together; lemma `StepKeepsPromise` shows for one event and
  every action of the processor that the event's phase and sends take a step of `AtLeastOnce` or
  rest. The step lemma is per event because several events may move at once: a crash loses all that
  are in hand. An event counts as open while a pass holds it (`Live`), whatever its row says: this
  is what makes the promise true of a published row that an overlapping pass will reset. The bound
  on sends, `Copies(maxRetries)`, is `maxRetries` with a single pass.
- `DisorderIsExplained` (`DisorderHasCause`), for any number of overlapping passes. `OrderInv`:
  while an older event waits that has never failed and has never shared a batch with a newer one,
  the newer one is in nobody's hands and undelivered, and every batch takes the oldest rows first.
- `OneByOneKeepsOrder`: with a batch size of 1 no two events share a batch (`SingleInv`, from
  `OldestIsOne`), which leaves an earlier failure as the only cause of disorder.

**`HealthProofs`**, for finitely many events

- `ProbeTypeCorrect` (`ProbeTypeOK`): counts, verdict and the sets of queued events keep their types.
- `VerdictNeedsEveryCount` (`VerdictIsComplete`), by the part of `ProbeInv` that ties the counts to
  `awaited`: while a request is in progress, a count that is not awaited any more has answered.
- `VerdictIsNear` (`VerdictIsOffByABatch`). `ProcessingIsBounded` shows that at most one batch and
  the stranded rows are PROCESSING (from `OldestIsBounded`: `take n` gives at most n rows, an
  injection into `0 .. n - 1`; and `HandsInv`); `ProbeInv` relates each count that has answered to
  the events that were queued then.

**`CircuitBreakerProofs`**

- `TypeCorrect`, `ClosedMeansBelowThreshold` and `SuccessesAreOfThisAttempt` for all options and
  any number of calls.
- `OpenKnowsItsDate` (`OpenIsDated`): `shouldAttemptReset` compares with a date that is there. It
  is the safety half of `Recovers`.
- `OverlapIsOld` (`OnlyOldCallsOverlap`) by `OpenInv`: while the circuit is open no call starts, so
  every call in flight is at least as old as the last failure.
- `AttemptsAreQuiet` (`AttemptsStartQuiet`) under `CallsAreShort`, `Timeout < RecoveryTimeout` (5 s
  and 30 s by default; the validation does not require it): such calls have all ended.

**`PriceUpdateProofs`**

- `TypeCorrect`, through `TypeInv`: a token in a transaction has a quote that differs from its old
  price and hence is one of `Prices`; a cycle that is not under way has no work.
- `PriceAndEventTogether` (`FeedMatchesPrice`) and `RemovalIsFinal` (`RemovedStaysSilent`) by
  `TableInv`: the foreign key at the upsert and the row lock until the commit keep the token
  (`LockInv`), and a token that is not listed has no price (`AbsentInv`).
- `ChainIsUnbroken` (`EventsAreContiguous`) by `ChainInv`: cycles take turns (`TurnInv`), so that
  the snapshot of every token a cycle is not done with still equals the price announced last
  (`SnapshotInv`).
- `CycleKeepsFeed` (`KeepsFeed`), the refinement of `PriceFeed`. `WorthInv` adds that what is on its
  way to the tables is an announceable change from the snapshot; with `SnapshotInv` it is one from
  the price announced last, which is what `Change` asks for, and `LockInv` keeps the token listed
  until the commit (`CommitIsChange`). Every other step is `List`, `Delist` or a stutter
  (`StepKeepsFeed`).
- `FlagFollowsCycle` (`FlagIsHeld`), `BatchesGoByPriority` (`PriorityIsKept`) and
  `EveryRoundAdvances`: each round of the loop over the batches takes tokens off the queue or ends
  the cycle. That a non-empty queue has a first batch rests on the least element of a set of
  numbers (`FirstIsSome`, from the library's theorem on well-founded relations) and needs the
  positive batch size. They are what `CyclesEnd` needs besides fairness.

**`TokenStoreProofs`**

- `TypeCorrect`: the type invariant; a PATCH keeps a row a row.
- `KeysStayApart` (`KeysApartInACycle`) by `IndexInv`, the unique index as an invariant of all
  writers, and `CycleInv`: a key already used and a symbol yet to be used come from one reading of
  the table, in which they were distinct.

**`EnvConfigProofs`**: `PlainTextsStayInRange` proves `RunsInRange`, which run `env_config` refutes
in general, when the variables of the environment are spelled as plain decimals; those of `.env`
may be spelled in any way, because what was validated is written back, as long as they are numbers
below 10^21. From there on it would be false: `OUTBOX_RETRY_INTERVAL_MS=1e21` in `.env` passes, is
written back as `1e+21` and read as 1. The hypothesis `NumbersInFile` says so.

Only model-checked:

- the liveness properties `EventuallyResolved`, `ShutdownTerminates`, `Recovers` and `CyclesEnd`:
  TLAPS does not handle fairness and `ENABLED`. Their safety halves are theorems (`FlagIsHeld` of
  both flags, `OpenIsDated`, `EveryRoundAdvances`); that the steps they allow are in fact taken
  stays with TLC;
- the six violations, which are counterexamples. For four of them a theorem states what does hold:
  `RetriesAreOfFailures`, `ProcessingIsInHand`, `RetriesAreBounded` and `PlainTextsStayInRange`.

Every invariant, action property and refinement of the passing runs is a theorem.

## 6. Findings

Statements of the repository that the code does not keep, each shown by a run TLC refutes:

1. `outbox_stale_reset`. `retryFailedEvents` (outbox-processor.service.ts:112-128) has no guard
   against overlapping with itself and resets the rows it read earlier by id alone. Two passes: the
   first resets a row, a batch takes it (PROCESSING, perhaps PUBLISHED), the second sets it to
   PENDING again, and a published event is sent anew. The log line (outbox.service.ts:110) calls it
   the reset of a failed event.
2. `outbox_retry_limit`. CONFIG.md:48 says a failing event is repeated 3 times; the first failure
   already counts (outbox.service.ts:84, 95), so it is repeated twice.
3. `outbox_boot_failure`. The intervals start while Kafka is being connected. If that fails,
   `main.ts:41` exits and leaves rows that were marked PROCESSING, which no code ever reads again.
   The same happens in any crash; this is the case in which nothing crashed.
4. `kafka_health`. HEALTH.md:14 says the check looks at the connection; it looks at a flag that is
   cleared only by the service's own disconnect.
5. `token_seed`. `Buffer.from('0x...', 'hex')` is the empty buffer (token.seeder.ts:58), so the
   three seeded tokens share one address in a unique column and the transaction always fails;
   token.seeder.ts:110 and seed.ts:17 announce success.
6. `env_config`. The validation reads a setting with `Number()`, the application with `parseInt`
   (app.config.ts:7-8, outbox.config.ts:4-7, circuit-breaker.config.ts:5-8).
   `PRICE_UPDATE_INTERVAL_SECONDS=0x50` in the environment is validated as 80 and configured as 0,
   `PRICE_UPDATE_BATCH_SIZE=0x10` as 16 and 0, `OUTBOX_RETRY_INTERVAL_MS=5e3` as 5000 and 5.
   CONFIG.md:58 says the application does not start if a variable is not correct.

## 7. Abstractions and limits

- One process. The compose files run one container; a second instance would share the table
  without any guard. Old and new process do not overlap, and a COMMIT in flight at a crash is
  taken to be decided before the restart.
- A SIGTERM during boot, and a kill after the stop period, are treated as crashes. At shutdown
  `PrismaService` disconnects with the other modules; queries it cuts off are the `db` fault.
- kafkajs' send with its internal retries is one step. Its producer is not idempotent, so those
  retries may duplicate a message inside one send; `delivered` counts sends.
- The producer is not told apart by topic; `kafkaTopic` comes from the configuration and is never
  empty, so the check in `publishToKafka` never throws.
- Timestamps, `lastError`, payloads and all logging are left out; `createdAt` only as an order
  without ties. Prices are integers; the real ones have two decimals, the column has eight, so
  nothing is rounded on the way.
- POST never creates a token: `CreateTokenDto.address` has no validation decorator, so a body with
  an address is refused (400, or 500 when it is not a string), and without one Prisma refuses the
  row (400). The seed script never succeeds either (finding 5). Rows therefore come from outside
  the service, as the integration test inserts them (`Insert`, `AddToken`), with or without a
  price.
- Two runs of the seed script at once are not modelled: each fails on its own rows, whatever the
  other does.
- Which status a request is answered with is not modelled. `GlobalExceptionFilter` answers 500 to
  what has no case of its own, and that includes errors a client causes: a NUL in a symbol, which
  PostgreSQL does not store, or a Prisma code that is not listed. No text of the repository says
  otherwise.
- In the running service `start()` and `stop()` of the price service are called by the module's
  hooks only, once each. `PriceUpdate` lets a stopped service start again, as the two public
  methods allow.
- The filter replaces the body Terminus gives a failed health check by its own, so the
  `status: "error"` of HEALTH.md:30 is not in the answer; bodies are not modelled.

Not modelled, and why:

- How `MockPriceService` draws a price: any price stands for it. Its use of the breaker is
  `CircuitBreaker` on one side and "any price or the last known one" in `PriceUpdate` on the other;
  a composition of the two would add nothing, since a call's result reaches only its own caller
  (`Promise.race` drops a late one).
- The lists `GET /tokens` and `GET /tokens/symbol/:symbol`, and the shape of what is read back:
  reads that decide nothing.
- Settings that are strings, `PORT` and `DB_PORT`; the database, breaker, memory and disk health
  checks, each a single read or I/O.
- `updatePrice`, `createCircuit`, `executeTransaction` and `cleanDatabase`, which the service does
  not call.
- The names in `docker-compose.prod.yml` (`CIRCUIT_BREAKER_...`, `PRICE_UPDATE_INTERVAL`) that are
  not the ones the configuration reads; the runs use the configuration's defaults.

## 8. Plan

Built and proved: the outbox with its abstract specification, the order of a token's events, the
health report, the breaker, the price cycle with its abstract specification, the token table, the
seed script and the configuration. What could follow:

1. An exact condition in `EnvConfig`: for which texts `Number` and `parseInt` agree, as an
   equivalence instead of the sufficient one of `PlainTextsStayInRange`.
2. The two refinements in one: a consumer's view of a token, from `PriceFeed` through
   `AtLeastOnce`, that says which price a consumer ends up with when nothing fails any more.
3. A second instance of the service on the same table, if it is ever deployed that way.
4. Should `retryFailedEvents` get a guard like the one of `processPendingEvents`, then
   `PassesDoNotOverlap` is provable in the way of `BatchesTakeTurns`, and `RetriesAreOfFailures` and
   `DuplicatesHaveCause` lose their hypothesis.
5. An address that POST accepts, once the DTO has a decorator for it: `TokenStore` then gets a
   second unique column, and `TokenSeeder`, once its addresses are read, a race of two runs.
