# Verification of the real-time fraud feature store

TLA+ models of the pipeline in this repository, from the Kafka topic
`transactions.raw` to the decisions of the scorer; TLC configurations that
check them on small instances; and TLAPS proofs, for every instance, of the
safety properties of every part. Only the liveness properties are model-checked
alone.

    tlc -workers 2 -config FeaturePipeline.cfg MCFeaturePipeline   # check one run
    tlapm FeaturePipelineProofs.tla                                # check the proofs

## 1. The system

    generator -> Kafka transactions.raw -> Spark job -> Delta lake (bronze)
                                                  \-> transactions.dead_letter
    Delta lake -> load_bronze_to_postgres.py -> Postgres bronze.transactions
    Airflow DAG: dbt snapshot -> dbt run -> dbt test -> loader -> Redis -> API -> scorer

| Component | State it keeps | Operations | Talks to |
|---|---|---|---|
| Transaction generator (`ingestion/transaction_generator`) | the producer's buffer, counters | generate an event, validate it, send, delivery callback, flush | Kafka |
| Reference seed | users, merchants in Postgres | truncate and insert, in one transaction | Postgres |
| Streaming job (`streaming/spark/src/bronze_ingest.py`) | two checkpoints, Delta table, two query threads, driver | micro-batches of `bronze` and `dead`, `--once` or continuous wait, exit | Kafka, Delta |
| Bronze load script (`load_bronze_to_postgres.py`) | pinned Delta version, staging table, `bronze.transactions` | read, create staging, insert partitions, swap | Delta, Postgres |
| DAG (`orchestration/airflow/dags`) | state of each task, attempts | trigger, start, retry, fail | runs dbt and the loader |
| dbt project (`warehouse/dbt`) | one view and five tables over transactions, reference views, two SCD2 snapshots | snapshot, build, test | Postgres |
| Feature loader (`feature_store/src/loader.py`) | the batch under way | select, execute, set metadata | Postgres, Redis |
| Feature API (`feature_store/src/api.py`) | none | lookups, `/health` | Redis |
| Scorer example | none | two lookups, threshold rules | API |
| Reference CDC, Terraform, demo script, CI | configuration | | |

What is hard here, and hard to test:

* **Two writers of the warehouse that do not know of each other.** The load
  script is started by an operator; the DAG by its schedule. The script drops
  `bronze.transactions` with `CASCADE`, and `silver.stg_transactions`, a view,
  goes with it, at any moment of a `dbt run` or `dbt test`.
* **A gate that is only an order.** Nothing but the order of the tasks keeps
  untested tables out of Redis: gold tables are replaced in place by `dbt run`
  and read from the same place by the loader, and each task is retried alone.
* **Batches without an enclosing transaction.** The Spark sinks, the partition
  writes of the load script and the Redis executes all commit piecemeal, and
  all may stop half way.
* **Three clocks in Redis:** 24 hours for users and latest keys, 168 hours for
  merchant statistics, 25 hours for the health check.
* **Two queries, one driver.** Either query can fail at any time, also before
  the driver starts waiting.
* **A producer whose failures come later.** `send()` only buffers; errors and
  lost acknowledgements reach the program in callbacks, or never.
* **One rule written twice.** What staging keeps and what reconciliation counts
  as filtered are two queries in SQL's three-valued logic, over rounded and
  unrounded amounts.
* **One contract in three languages.** What Python's `TransactionEvent` accepts, what
  Spark parses and what SQL casts and keeps must be the same events.
* **Windows that end at the user's latest row**, not at the clock, over rows that
  arrive late, in tables that two models aggregate in two ways.
* **Thresholds that only work together.** The scorer adds weights and noise to a limit,
  the dashboard counts by others, and a z-score over few rows has a ceiling.
* **A history built from diffs.** A snapshot compares the reference table with
  the open versions, and merges later; the table may change, or be seeded again
  with new keys, in between.

The correctness properties of each part: section 4. All hazards, each at its
line, are listed in `PROJECT.json`.

## 2. The modules

| Module | Models | Kind |
|---|---|---|
| `BronzePublish` | what the load script promises the warehouse | abstract specification |
| `BronzeLoad`, `MCBronzeLoad` | `load_bronze_to_postgres.py`, statement by statement | refines `BronzePublish` |
| `BronzeLoadProofs` | its theorems, the refinement among them | proofs |
| `FeaturePipeline`, `MCFeaturePipeline` | DAG, executor, dbt build and test, what Redis was loaded from | composed with `BronzePublish` (INSTANCE) |
| `FeaturePipelineProofs` | its theorems | proofs |
| `FeatureStore`, `MCFeatureStore` | loader batches, keys, expiry, API answers, health | state machine |
| `FeatureStoreProofs` | its theorems | proofs |
| `BronzeIngest` | both Spark queries, checkpoints, driver | state machine |
| `BronzeIngestProofs` | its theorems | proofs |
| `EventProducer`, `MCEventProducer` | `run.py`, the producer wrapper, the sender thread and the broker behind it | state machine |
| `EventProducerProofs` | its theorems | proofs |
| `Reconciliation`, `MCReconciliation` | the rows `stg_transactions` keeps and `recon_bronze_silver` counts | operators over a growing table |
| `ReconciliationProofs` | its theorems | proofs |
| `EventSchema` | `TransactionEvent` and `generate_one` | operators |
| `FraudSignals`, `MCFraudSignals` | events through the schema, the rows staging keeps, both gold tables, the anomaly counts, the scorer | extends `EventSchema`, composed with `Reconciliation` (INSTANCE) |
| `FraudSignalsProofs` | its theorems | proofs |
| `ReferenceData`, `MCReferenceData` | seeding and changes of the users table, the snapshot `snp_users` | state machine |
| `ReferenceDataProofs` | its theorems | proofs |

**BronzeLoad.** `load[l].pc` is the statement script `l` has reached. Spark's
`mode="overwrite"` is a DROP and a CREATE (`DropStaging`, `CreateStaging`); every
partition of the DataFrame is written by a task with a transaction of its own
(`Insert`). `Begin` opens the Delta table, but its version is pinned only when Spark
plans the query, after staging has been created (`Plan`): Delta looks up the latest version again; the psycopg2 transaction at the end is one step (`Swap`). `Stop` is
any exception or kill. It is always possible, and it is the only thing that can
happen when the table to create exists already or the one to write is gone.
Tables are sets of chunks; a chunk says from which version, which
partition and which script its rows come.

**BronzePublish.** A script pins a version (`Pin`, which is `Plan`), and later replaces
`bronze` by it in one step (`Publish`) or does nothing (`Abandon`). A version
carries its *flaws*: the models whose data tests its rows will fail, or `cast`
for an amount or timestamp that `stg_transactions` cannot convert. Bronze is
append-only, so flaws only accumulate.

**FeaturePipeline.** A dbt relation is abstracted to the bronze version its rows
come from. `stg` is a view (`view` says whether it exists; its rows are whatever
`bronze` holds, since a swap drops it); the five others are tables (`tab`).
`Needs` is the `ref()` graph, over which dbt skips the descendants of a model
that failed; `Source` is where the rows of a model come from. `recon` really
reads `stg`, `int` and `user` next to bronze and is built from one version only
if they agree, which is what `CoherentBuild` asks. `exec` is the run whose task
has the SequentialExecutor; `done` and `bad` are the steps of its attempt.
`EndTask` is the exit of the bash command: AttemptPassed, or a retry
(`RetryOrFail`, two retries per task, then the run fails and its later tasks
with it). The load of users precedes the load of merchants; an exception in the
first ends the attempt. `Trigger` is the schedule or an operator; the DAG does
not have `depends_on_past`. `served` says which build the features in Redis were
last written from; keys, batches and expiry are the matter of `FeatureStore`.

**FeatureStore.** One redis-py pipeline `execute()` is one step, as it is a
MULTI/EXEC. `ExecuteUsers` and `ExecuteStats` write `PipelineBatch` rows each,
in the arbitrary order in which Postgres returns them, then the rest, which may
be empty; the latest keys go with the last batch of the statistics, as in the
code. Expiry is part of `Tick`. `SetMetadata` also remembers, as a history
variable, which users the load held.

**BronzeIngest.** A query plans a batch (offset log), writes it, commits it
(commit log). `WriteDelta` is skipped by Delta for a batch it already holds
(`txn`); `SendDeadLetter` sends one record and is repeated after a crash.
`StartQuery` starts `bronze`, then `dead`; `BeginWait` is `awaitAnyTermination`,
or for `--once` the list `spark.streams.active` at that moment, in any order: the driver
then waits for one query after the other and hears of no other meanwhile (`Awaited`). `Exit` is the
`finally` block, which stops both queries. Checkpoints and sinks survive every
exit; `sent`, the state of an attempt, does not.

**EventProducer.** `Send` is one turn of the loop of `run.py` up to the return of
`_producer.send()`, `Attach` the rest of the wrapper's `send`: the callbacks and the count;
`After` says where the loop goes on, as `PRINT_EVERY` and `--max-events` have it.
`future` is that of the last event: until it has its errback it is open or failed, and an
errback added to a failed one runs at once. `Interrupt` is Ctrl+C in the loop (between
`add_errback` and the count it is a case of `Attach`; before the record is buffered the
event was never sent), `Flush` a flush that returns, `Die` a kill. `Request` takes any part
of a partition's buffer, at most `MaxInFlight` batches at a time. A batch may be
written and its acknowledgement lost; `Retry` then sends it again, up to
`Retries` times. `Fail` runs the errback of each record that has one (`OnError`). Both
threads do `_error_count += 1`; CPython 3.11, the version `pyproject.toml` asks for, does not switch threads within it. A request on a
connection that has been given up is taken to be dead: it is not written later.

**Reconciliation.** `bronze` is a set of rows (offset, id, amount, time, type), the
columns the two queries look at; amounts are in thousandths. A row whose amount the
column of staging cannot hold (`Castable`) makes every query over the view raise
(`CastFails`), and the table of the reconciliation is then not built (`recon_status` is
None). `Validated`,
`FilteredRule` and `MissingRule` are the conditions as they are written, in
three-valued logic; `Where` keeps what is true. There is one action: bronze
grows. What the DAG makes of an unbalanced table is the flaw `{"recon"}` of
`FeaturePipeline`.

**ReferenceData.** `users` maps ids to rows. `Seed` is the transaction of
`seed_reference.py`, with ids from uuid4, which never repeats. `Change` is an operator's `Update`, with or without
`updated_at` (no trigger maintains it), `Delete`, or `Insert`, of a new id or of one deleted
before, with the default of `updated_at`. An operator who writes an older `updated_at`, as a restored
backup would, is outside: the new version may then lie inside one that has ended. `Stage` evaluates the snapshot
query against the open versions, `Merge` applies what was staged, `Abort` is a
failed snapshot. A change that leaves `updated_at` alone is not seen by the
timestamp strategy, so `OpenIsCurrent` is about ids and `updated_at`.

**EventSchema.** `Accepts` is what the constructor of `TransactionEvent` lets through,
`Generated` the event that `generate_one` makes of its random choices. A timestamp is an instant and
the offset it is written with, because `schemas.py`, Spark and Postgres each read the
two differently. A timestamp without an offset makes the validator raise a TypeError;
it never reaches the topic, and is left out, as is an amount written with a
superfluous zero (`10.100`), which is refused. The city may be missing.

**FraudSignals.** `Generate` is the loop of `run.py`, whose process a `ValidationError`
would end (`raised`); `Offer` is any other caller of the schema, with late events and
other offsets. Both append to `bronze`: that delivery and loading keep, repeat or delay
events is the matter of `EventProducer`, `BronzeIngest` and `BronzeLoad`. `Silver` is that
of `Reconciliation`. `Build` evaluates the gold models over it, if every amount can be cast: `Within` is a window,
`Features` the row of a user, `Enriched` the left joins over users and merchants that the
reference tables know or not (`InTables`), `DailyStats` the row of a merchant and day.
`EventTime` is what the cast to TIMESTAMP leaves, the local time without its offset,
`EventHour` and `EventDate` are Spark's, in the time zone of its session. `Exceeds` is the
comparison of the rounded z-score with 3, squared, in integers. `Reasons`, `risk_score` and
`Blocked` are the scorer, `Anomalies` the counts of the dashboard.

Spark, Delta, Kafka, Redis, Postgres, dbt and Airflow are not part of the repository.
They are modelled as far as the code relies on them and marked external in `map`.

## 3. The runs

| Run | What it asks | Answer |
|---|---|---|
| `feature_pipeline` | Does the gate hold, do tests and loader see one build, with swaps, failures and retries anywhere? Does every DAG run end, and clean data reach Redis whatever failed before? | yes, one DAG run at a time |
| `feature_pipeline_two_slots` | Does the gate hold with two active DAG runs, which the DAG does not exclude? | **no** |
| `bronze_load` | Does the script implement `BronzePublish`? | yes, one script at a time |
| `feature_store` | Is what the metadata vouches for served; are latest keys backed, and moved forward by newer builds? | yes, also with two loaders |
| `feature_store_health` | Does healthy mean that features are served? | **no**, in the last hour |
| `bronze_ingest` | At most once to bronze, at least once to dead letter, nothing skipped, checkpoints monotonic; no half job, every readable record routed while the job is up? | yes |
| `bronze_ingest_once` | Does exit code 0 of `--once` mean that all was processed? | **no** |
| `event_producer` | Do retries keep the order of a partition, is no event lost silently, does every flush return? | yes; one event at most is lost without an error, the last before a Ctrl+C |
| `reconciliation` | Is the balance honest, what upsets it, can it recover? | honest; three kinds of rows; never |
| `reference_data` | Is the SCD2 history one sequence per key, and current? | yes, one snapshot at a time |
| `fraud_signals` | Does staging keep what the schema accepts and its column can hold, and the schema what the generator makes? Are windows nested, and do they forget only for later rows? Do the two gold tables agree? What can block a purchase, and that of a new user? | yes; three reasons, or two with the failure rate; only failures in three cities |
| `fraud_signals_future` | Does the schema refuse events from the future? | **no**: not west of UTC |

The answers in bold are disagreements between the code and what its own
comments say; `PROJECT.json` quotes them under `findings`:

1. `fraud_pipeline_dag.py` has no `max_active_runs`. With two runs (schedule and
   an operator, or a run longer than the four hours between two scheduled ones) the first loads tables that the
   second has rebuilt and not tested.
2. The freshness limit (25 h) exceeds the life of the keys it vouches for (24 h).
3. In `--once` mode a query that fails before the driver lists the active
   ones is not awaited; the process exits 0.
4. `validate_timestamp_not_future` relabels the clock of UTC with the offset of the
   timestamp (`replace`) in place of converting it (`astimezone`). With -05:00, events of the
   next five hours are accepted; with +05:30, those of the last five and a half are
   refused. The generator writes UTC and is not affected.

Further disagreements, plain from the source, that need no run:

* The name of the staging table is fixed (`load_bronze_to_postgres.py:38`); a second
  member of `Loaders` in `MCBronzeLoad` makes TLC find an empty or torn table published.
* `sent_count` (`kafka_producer.py:93`) grows when a record is buffered, while the
  comment of `_on_success` takes it for the number delivered.
* `retries=3` without idempotence (`kafka_producer.py:69`) writes an event twice
  when an acknowledgement is lost, where `_sources.yml:9` says "One row per payment
  event". The `unique` test of `transaction_id` then fails in every later DAG run,
  since bronze is append-only; this is the flaw of `stg` and `int` in `FeaturePipeline`.
* The swap's `CASCADE` (`load_bronze_to_postgres.py:69`) takes the view
  `silver.stg_transactions` away, where the script promises "zero downtime"; a
  `dbt test` that falls between a swap and the next `dbt run` fails in all its
  retries, because `dbt_run` is not repeated. `CoherentBuild` rests on this very drop.
* A null `transaction_type` is unknown to `in` and to `not in`
  (`recon_bronze_silver.sql:44`): the row is dropped and not accounted for, where the
  model's comment says that every dropped row matches a rule, and the test of
  `recon_status` fails in every later DAG run. `UnbalancedOnlyByDisputed` says
  exactly which rows do this. Apart from amounts beyond the column the schema lets none of
  them through (`AcceptedIsKept`), so they come from producers that do not use it.
* An amount below half a cent is rounded to 0.00 before it is compared with 0
  (`stg_transactions.sql:21`); it is one of the `Disputed` rows.
* Ids come from uuid4 (`profiles.py:158`, `:203`). `seed_reference.py` and `run.py` share a
  seed and not their ids, as `test_profiles.py` says itself, where
  `seed_reference.py:4-7` says that they resolve: the joins of
  `int_transactions_enriched` find nothing.
* `late_night_txn_count_24h` is commented "02:00-05:00 local hour"
  (`gold_user_fraud_features.sql:104`); the hour is that of Spark's session time zone,
  and `between 2 and 5` includes 05:59.
* `event_timestamp` loses its offset in staging (`stg_transactions.sql:28`) while
  `event_date` and `event_hour` of the same row were converted by Spark. For rows that are
  not written in UTC the windows compare local times of different places.
* `send()` of the wrapper attaches the errback after the record is buffered
  (`kafka_producer.py:87-92`). Ctrl+C between the two ends the loop in an orderly way, but if
  the batch of that record fails in the final flush, `_on_error`, "called when a message
  delivery fails" (`:123`), is not, and the report counts no error. The event is the last one
  and the only one lost like this: `NothingLostSilently`, in which TLC finds the lost event
  if `Unwatched` is left out.
* The schema bounds amounts below and not above (`schemas.py:79`). From 10^10 on the cast to
  NUMERIC(12,2) fails, and with it every later `dbt run`, as long as the row is in bronze: the
  flaw `cast` of `FeaturePipeline`. The schemas are to be "the contract" with dbt
  (`schemas.py:4`); `AcceptedIsKept` holds with its premise on the amounts and not without it.
  The amounts of the generator are far below.
* The schema lets the city be null (`schemas.py:100`), and the test `not_null` of staging
  (`_stg_transactions.yml:64-67`) then fails.
* The generator takes the city of every event from the user's profile
  (`generator.py:136`), so `unique_cities_24h` is 1 on its events and the
  scorer's rule on cities, without which it blocks no new user, never holds; and
  `_generate_timestamp` uses no `HOUR_WEIGHTS`, where its docstring says it is weighted.
* `is_active` is true for 3% of the seeded merchants (`seed_reference.py:69`): the draw looks
  like one for inactive merchants. Nothing reads the column.

### Bounds

* `FeaturePipeline.cfg`: two versions and two loads, so that a swap can fall into
  a build that follows another one; `Retries = 2` as in the code; one failure of
  the infrastructure, at any step, on top of the failures that data cause (these
  are not bounded). Micro-batches are clean, hold a duplicate id, a null type or
  a value that cannot be cast. `served` can so hold two different builds, and
  the proofs lift the bounds.
* `BronzeLoad.cfg`: three versions, four scripts, two partitions: a partition can
  be inserted before and after a commit, and a staging table can be left over
  twice. The number of scripts is bounded, so the model stops in the end
  (`CHECK_DEADLOCK FALSE`).
* `FeatureStore.cfg`: two loaders, two users with batches of two, so that full, partial
  and empty last batches occur; one merchant with two days; two builds of each
  gold table. `Clock` is the set of hours at which anything can differ: 0 and 1
  (start and end of a load), 23 (the freshness promise ends), 24 (expiry of what was
  written at 0 and not at 1; the health run adds 25). Users, and loaders, are
  symmetric in these safety runs.
* `BronzeIngest.cfg`: two records of either kind, batches of one or two, one
  removed by retention, **no bound** on failures, kills and restarts. `dead`
  counts copies up to 2, which stands for more.
* `EventProducer.cfg`: two partitions, four events, a flush after two, two
  retries; batches of one and of several records, and a partition that fails
  while the other succeeds. The program ends (`CHECK_DEADLOCK FALSE`).
* `Reconciliation.cfg`: up to three rows, two ids that rows may share, amounts of
  -15, -5, 0, 4, 5, 14 and 15 thousandths: on both sides of zero, of half a cent and of the
  column, whose largest value (`MaxCents`) is one cent here in place of 10^12 - 1.
  The table stops growing at the bound (`CHECK_DEADLOCK FALSE`). The proofs lift it.
* `ReferenceData.cfg`: two users a seeding, five changes of the table, seedings
  among them, four ids. Time passes with every change of the table.
* `FraudSignals.cfg`: fourteen kinds of events besides those of the generator, valid and not, bursts of one
  or nine, three bursts: nine and one rows are too few for a z-score of 3, nine and two
  are not, so the limit of ten is met from both sides, and more than 15 rows in a day occur. The hours 3, 28 and
  196 are the start, and the limits of the windows of a day and a week and beyond.
  Amounts are paise (`MaxCents` is 10.00 rupees, with an event above it; tickets of 30 paise, so that squares stay in TLC's integers). One user
  and one merchant are unknown to the reference tables. Three bursts over, only builds
  are left (`CHECK_DEADLOCK FALSE`). Clocks do not step back between the making
  of an event and its validation.

`LoadTime`, the longest a load may take, is a property of the deployment and not
of the code. The code has no limit, and `ServedWhileFresh` says what a limit buys.

### Fairness

* `FeaturePipeline!FairSpec`: the executor takes up tasks and goes on with the
  steps of an attempt (a single process runs them; weak fairness), and the
  schedule (`0 */4 * * *`, every four hours) triggers runs. Nothing is assumed of operators, scripts or failures;
  failures are finitely many.
* `BronzeIngest!FairSpec`: the driver thread and each query thread are scheduled.
  Nothing restarts the job, so its liveness is claimed while it is up.
* `EventProducer!FairSpec`: the main thread leaves a flush that is over, and the
  sender thread goes on with each partition: every request is answered or times out
  (kafka-python has a request timeout). Nothing says that it is answered well.

## 4. The properties

| Property | Says |
|---|---|
| `GateHolds` | whatever was loaded into Redis was built from a version without flaws |
| `CoherentBuild` | from the end of `dbt run` to the end of the load all tables show one version |
| `LoadsOneBuild` | a successful run leaves users and merchants of one build |
| `RunsFinish`, `CleanDataServed` | every run ends; once quiet, clean bronze reaches Redis |
| `WholeTarget`, `Implements` | `bronze.transactions` is always a whole copy of one version, replaced in one step |
| `ServedWhileFresh` | users of the load that wrote the metadata are served until the TTL less the load time |
| `LatestBacked` | a latest key never outlives or misses the day it points to |
| `LatestMovesForward` | a newer build never moves it back to an earlier day |
| `BronzeAtMostOnce`, `NothingSkipped` | each valid record at most once in Delta, none below a checkpoint missing |
| `CheckpointsAdvance` | no restart moves a checkpoint back, and no row leaves Delta |
| `FirstCopiesInOrder` | retries and failed batches never reorder the first copies in a partition |
| `NothingLostSilently` | at the end, events missing from the topic are at most as many as errors, the last one excepted if Ctrl+C came before its errback |
| `FlushReturns` | no flush blocks for ever |
| `AccountsExactly` | `unaccounted_records` is the number of rows neither in silver nor filtered |
| `UnbalancedOnlyByDisputed`, `UnbalancedForEver` | which rows upset the balance, all of them, and for good |
| `MissingIsUnaccounted` | what the join by id reports is neither in silver nor filtered |
| `VersionsFollow` | the versions of a key do not overlap, and at most one is open, unless `updated_at` is set back |
| `OpenIsCurrent` | the open versions are those of the table the last snapshot read |
| `HistoryStays` | a version that ended never changes |
| `GeneratorNeverRaises` | no random choice makes an event that the schema refuses |
| `AcceptedIsKept` | as long as no amount is beyond the column, staging keeps every event the schema accepts, and the balance holds |
| `WindowsNested` | counts and distinct merchants grow with the window |
| `OnlyLaterRowsForget` | while a user's latest time stays, no windowed count ever shrinks |
| `ModelsAgree` | users and daily merchants tables count the same number of rows, each once, whatever the joins find; in the daily table the counts by status add up |
| `BlockIsExplained` | a block has three reasons, or two with the failure rate, which the dashboard counts too |
| `NewUsersNeedCities` | up to ten transactions no block without failures in three cities |
| `NoHalfJob`, `RoutedEventually` | a failed query ends the job; while up, the job routes everything readable |

Every one has a mutant: a bug that is plausible in the code it is about
(retries without end, a lost exit code, a flush before the load, an unpinned
version, an offset committed on receipt) and that violates it. The mutated
operators stand before the ones they replace, marked `Mutant`.

## 5. The proofs

`FeaturePipelineProofs` holds for every number of versions, loads, retries and
failures and every set of flaws, from the assumption `PipelineAssumption` of
`FeaturePipeline`.

* `TypeCorrect`: the type invariant, for any set of DAG runs active at once.
* `GateIsSafe`, `BuildIsCoherent`, `LoadIsOneBuild`: for one DAG run at a time
  (`OneSlotAtATime`). The run `feature_pipeline_two_slots` shows that this
  assumption is needed.

The argument is not that the tests passed, since bronze may be swapped between
the build, the test and the load. It is that an attempt of `dbt run` can only succeed
if no swap fell into its middle: a swap drops the view, every later model over
the view fails, and the attempt with it. A swap after the last model that reads
bronze changes nothing that is loaded. The inductive invariant `IndInv` says this piece by
piece: `BuildInv` relates the tables built so far in the running attempt to the
bronze version while the view exists, and among themselves when it does not; `AfterBuildInv` says
that the tables agree from the end of the build on; `TestInv` and
`AfterTestInv` that a model tested successfully has no flaw, and so, after
the tests, none of the tables has; `LoadInv` and `Sound` carry this to Redis. It was checked with TLC as
an invariant before it was proved.

`BronzeLoadProofs` holds for every set of partitions, scripts and versions.

* `TypeCorrect`: the type invariant, for any number of scripts at once.
* `TargetIsWhole` and `Refinement` (BronzeLoad implements BronzePublish): under
  `OneScript`, that there is one script; with two, TLC finds a torn copy published.

The invariant says what the staging table holds at each statement. `StagingInv`:
when the query is planned, staging is empty, and while the script inserts, it has the chunks of the version pinned,
from the partitions done, and no others, because whatever an earlier script
left there has been dropped; `Loaded`: what is renamed to `bronze.transactions`
has all of them. The plan of the query its `Pin`, the swap its `Publish` of the pinned version, and a stop after
the plan its `Abandon`; all else stutters.

`ReconciliationProofs` holds for every table of rows, of any size, with the
columns null or not.

* `TypeCorrect`, `BalanceIsHonest`, `BalanceIsExact`, `MissingIsBounded`, `NeverRebalanced`.

The argument: no row is both valid and filtered, so bronze is the disjoint union of
silver, the filtered rows and the rest, and the cardinalities add up; the rest are
the `Disputed` rows, which follows rule by rule from the truth tables and the
rounding of `Cents`; a cast fails exactly for the `OutOfRange` rows (`CastFailsIff`). Rows are never removed, so the rest never empties again.
The invariant (`Rows`) is that bronze is a finite set of rows.

`FraudSignalsProofs` holds for any users, merchants, events, bursts, hours and time zone,
from `SchemaAssumption` and `SignalsAssumption`.

* `GeneratorIsSafe`, `ContractIsKept`, `WindowsAreNested`, `BlocksAreExplained`,
  `LateRowsAdd`, `CountsAgree`, `NewUsersAreSafe`, `TypeCorrect`.

The argument: `Accepts` implies every condition of staging, because an accepted amount is
positive and in whole paise, so rounding leaves it positive, and leaves it in the range of
the column if it was (`FitsColumn`); that it is, is the premise of `AcceptedIsKept`, and
the configuration offers an event without it. The inductive
invariant says of every row of the users table that it was made of a nonempty
finite set of rows of that user which are in bronze. Bronze only grows, so the next build
makes the row of a superset; if the latest time is the same, each window of the old set
is a subset of the same window of the new one, and the counts follow by the
cardinality of subsets. That a latest time exists (`LargestExists`) is shown by the well-foundedness
of strict inclusion of finite sets. The blocking rule is arithmetic over the weights.

`CountsAgree` is about sums, which `Total` folds over a set in no particular order. The
provers cannot do induction over data, so in its place stands a minimal counterexample
(`MinimalSubset`): of the subsets of a finite set for which a claim fails, one has no smaller
one. With it, any element can be taken out of a sum first (`TakeOut`), and the sum
of the sizes of the parts of a set is the size of the set (`TotalOfParts`). The users table divides
silver by user, the daily table by merchant and day, and neither join drops or
multiplies a row (`JoinsKeepCount`), so both counts are those of silver. In a row of the daily
table the counts by status are those of three disjoint sets that make up its rows.

`NewUsersAreSafe` needs that a z-score over ten rows or fewer never exceeds 3. By the Cauchy-Schwarz
inequality (`SquaresBound`, proved the same way) the largest of n values is at most (n - 1)
standard deviations over the root of n above their mean, which is below 3 up to n = 10
(`FewAreNoOutliers`). Ten rows are too few for the velocity rule as well, and what remains of the
weights does not pass the limit, noise included, without failures and cities together.

`EventProducerProofs` holds for any partitions, events, retries, flushes and batch
sizes, from `ProducerAssumption`.

* `TypeCorrect`, `FirstCopiesAreInOrder`, `NothingIsLostSilently`.

The argument: a partition has at most one batch under way, every record in its topic
is older than those in its batch or part of it, and those are older than its buffer. So a repeated batch
appends no first copy of anything but itself, in its own order, and a batch that is given up
leaves nothing behind that could be written later. For the counts, an
event that is in no buffer or batch and not in the topic was refused by `send`, which counts an
error, or was in a batch that failed, whose errback counts one per record, or has failed before its
errback was attached, which then runs at once unless Ctrl+C comes first, or was in a process that
was killed; no event is in two buffers, so none that was counted is still pending. The invariant was checked with TLC as
an invariant of `event_producer` before it was proved.

`FeatureStoreProofs` holds for any number of loaders at once, users, merchants, days and
builds, any batch size and time to live, from `StoreAssumption`.

* `TypeCorrect`, `FreshIsServed`, `LatestIsBacked`, `LatestAdvances`.

The argument: every key that a load has written expires no earlier than its time to live
after the load started, and another loader that writes the same key only prolongs it. The
metadata are written last, by a load that took at most `LoadTime`, so what they vouch for
lasts until the time to live less that. A latest key is written last, and lives so
much shorter than the day it points to that it expires first (`LoadTime + UserTTL <= MerchantTTL`), and merchant statistics only gain days, so a newer build holds the days of
every older one and its own latest day is no earlier.

`BronzeIngestProofs` holds for any topic, batch size, retention and number of failures, from
`IngestAssumption`.

* `TypeCorrect`, `AtMostOnce`, `NoneSkipped`, `CheckpointsNeverReturn`.

The argument: the Delta table has a mark, `txn`, which is always one of the ends of the
current batch. Valid records up to the mark are in it once, those after it not at all. A
batch that is repeated is therefore all in the table, and skipped, or all missing. The
dead-letter sink has no mark; a batch of it commits when all its records are sent in the
same attempt, and `sent` is forgotten whenever the attempt ends. No step writes a checkpoint
but to the end of a batch, and none takes a row out of the table.

`ReferenceDataProofs` holds for any number of users, changes, seedings and failed
snapshots, from `ReferenceAssumption`.

* `TypeCorrect`, `HistoryFollows`, `OpenVersionsAreCurrent`, `HistoryIsKept`.

The argument: a table that a snapshot has read is older than the present one (`Older`): its
rows were updated no later, and a row that is gone comes back, if it does, with a later
`updated_at`. So a merge, however late, ends the open version of a user at or
after its begin, and opens the next where that ends. `KnownInv` says that every version
has ended by now, and no later than a row of its id that is there now was updated; `ReadAt` says the
same of the table a running snapshot has read. Without them a version could open before
the last has ended. The invariant was checked with TLC before it was proved.

Only model-checked: liveness (`RunsFinish`, `CleanDataServed`, `NoHalfJob`,
`RoutedEventually`, `FlushReturns`), which is out of the prover's reach. Every invariant and
every action property that a run expects to hold is stated by a theorem. No proof uses recursion; induction
is over the steps of a behaviour, and over data its place is taken by minimal
counterexamples among the subsets of a finite set.

## 6. What is not modelled

* The probabilities of the generator, and what it draws for columns no model
  reads; the backfill (its Parquet files are read by nobody, and a second run would add its rows again), CDC (nobody reads its topics),
  infrastructure and CI.
* Of the gold tables: sums, averages, extremes and ticket ratios of amounts, payment
  methods, the high-risk combination, coverage percentages. They are
  aggregates of the same windows and groups, and no rule of the scorer reads them.
* The HTTP side of the scorer.
* `make features`, which loads whatever the gold tables hold: the gate is a
  property of the DAG only. Two snapshots at once (`make dbt-snapshot` next to the
  DAG) would both insert the same version; nothing reads the snapshots.
* Authentication of the API and an unreachable Redis: neither changes state.
* A Redis that restarts so fast that the loader goes on (AOF synced every second).
  If the loader is lost with it, the state is that of a loader that crashed earlier,
  which `FeatureStore` has.
* `run_demo.sh` runs neither `dbt test` nor checks the exit code of the load
  script; it is a demonstration and outside the gate.
* Locks in Postgres: a swap waits for readers or fails; the failures are `Abandon`,
  `Stop` and `StepFault`.
* The repository's README speaks of a watermarking delay in the Airflow DAG. There is none
  in the code and none in the model.

## 7. Plan

Done: all the modules above, with proofs for each. What is left:

1. A composition of `EventProducer` and `BronzeIngest` over one topic: what
   reaches bronze of the events made.
2. A restart of Redis that the loader survives.
