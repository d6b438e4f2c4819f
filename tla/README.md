# Verification of the SQL Server observability collectors

TLA+ specifications, TLC runs and TLAPS proofs for the collectors that read a fleet of SQL
Server instances and land what they read in a repository database.

## The system

`run.py --task T` is started by cron (or another scheduler), once per due time and per task. The
process loads its configuration, then, for each monitored instance in turn, opens a connection to
the instance and one to the repository, lets the task's collector run, reports the result and
closes both connections. All state that outlives the process is in the repository.

| Component | State | Operations | Interacts with | Makes it correct |
|---|---|---|---|---|
| Runner loop, `run.py` | exit code, current instance | loop, connect, catch, close | collectors, both connections | a failure of one instance is reported and does not stop the others; exit code 0 only if all went well |
| Collector contract, `src/collectors/base.py` | the open transaction, `run_id` | fetch, transform, start_run, _persist, finish_run | source, repository | a closed row of `collection_run` tells the truth about the data |
| Run log, `src/db.py`, `collection_run` | one row per run | start_run, finish_run | watermark readers, people | opened once, closed once, never rewritten |
| Configuration, `src/config.py` | none | load, validate | runner | what passes is usable by the runner: there are instances, and their names differ (compared exactly: the repository's collation may still take two for one) |
| Workload collector, `collectors/workload.py` | watermark; event files on the instance | watermark query, parse, filter, aggregate, MERGE | XE session, `collection_run`, `fact_workload` | every event is counted once |
| Deadlocks collector, `collectors/deadlocks.py` | watermark; ring buffer on the instance | as above, one row per event | `system_health`, `collection_run` | every event still in the ring is stored |
| Counter collectors, `waits`, `io_latency`, `table_access` | raw cumulative snapshots | fetch, stamp, MERGE | delta views | the views' deltas match the activity across restarts |
| CPU collector, `collectors/cpu.py` | ring buffer of the instance | fetch, MERGE by sample time | `fact_cpu` | the history holds every sample of the ring, dated when it was taken |
| Daily collectors, `storage`, `index_ops`, `table_access` | one snapshot per day and database | loop over databases | latest-snapshot views | what is shown as current is current |
| Health, `collectors/health.py`, `rpt.health_summary` | one snapshot per day and database | fetch, stamp, MERGE, grade | `fact_health`, the clock of the reader | GREEN only while the backups are recent, no early alarm |
| Samplers, `sessions`, `blocking`, `concurrency` | none | fetch, stamp, group, MERGE | fact tables | a successful sample counts every request there was |
| Query performance, `collectors/query_perf.py` | none | one snapshot per run | `fact_query_perf` | as the contract |
| Views, `sql/rpt_views.sql` | none | LAG with a floor, latest row | dashboards | no negative and no invented activity |
| Retention, `sql/retention.sql` | none | batched deletes by age | every table | does not take away what a later run or view relies on |

Hard behaviours: cron starts an invocation whether or not the previous one has ended; every
statement of an invocation may fail, and its commit may take effect although the reply is lost;
the process may die between any two statements; MERGEs of overlapping invocations wait for each
other's row locks; the source keeps producing events between fetch and stamp, loses old ones, and
restarts. `PROJECT.json` lists these hazards at the line where they bite.

## Modules

**`RunLedger`**: the abstract specification. A row of `collection_run` is opened for a batch of
rows, data lands only under an open row, and the row is closed once, as *success* when the whole
batch has landed and as *failed* when some of it has not. It has no connections, transactions or
processes. A crash leaves the row open.

**`CollectionRun`**: one task, its overlapping invocations and the repository. `pc` says where an
invocation is: `connect`, `fetch`, `start` (before `start_run`), `persist`, `finish` (the `else`
branch), `fail` (the `except` branch), `close` (`finally`). Rows are inserted by `InsertRun` and
updated by `Finished`, the two statements of `src/db.py`. The transaction of each connection is
explicit: `Merge` adds a row to `txn`, `CommitTxn` makes it durable in `fact`, and `Close`, `Crash`,
`TransactionAborted` and `ConnectionLost` roll it back. `_persist` has no rollback of its own, so
`FinishFailed` commits what was executed before the failure, as the code does. The failures are:
connecting, reading, `start_run` (with and without effect), a refused statement (the transaction
survives), a transaction aborted by the server, a broken connection, a commit whose reply is lost,
either `finish_run` (with and without effect), and the death of the process at any point. The row
locks (`Locked`) and the lock monitor (`Victim`) are SQL Server's.

The history variable `hist` remembers who opened a run, for which batch, and what landed; only
properties and the ledger mapping read it, except that `FinishSuccess` takes the row count from
its batch (`row_count = len(transformed)` in the code).

**`Watermark`** extends `CollectionRun` as `WorkloadCollector` and `DeadlocksCollector` extend
`Collector`: events of the monitored instance, stamped by its clock and moving through its stages
oldest first (`Happen`, `Move`), the query for the watermark (`ReadWatermark`), the filter
(`After`), and the inherited steps (`Inherited`). `setup`, chosen at the start, is the skew of the
instance's clock against the repository's and whether the driver returns `DATETIME2` with a
timezone (`tests/test_workload.py` assumes so; pyodbc does not). The histories `seen` and `saw`
remember what each run had read, by which watermark, and when it stamped itself.

**`Workload`** is `Watermark` over the Extended Events session, with its three stages: buffered, in
the files, rolled off. An aggregate is represented by the set of events it sums, so a double count,
a loss and a replaced aggregate are visible. `groupOf`, chosen at the start, says which events share
a row. Runs may overlap.

**`Deadlocks`** is `Watermark` over the ring buffer of `system_health`. Every report of the ring is
parsed (`Parses`), those that are after the watermark become a row each, keyed by the time of the
event, so that two deadlocks of one time are *twins* that share a row. Runs may overlap here too.
`PurgeRuns` and `PurgeFacts` are the deletes of `retention.sql` for `collection_run`, which takes
watermarks away, and for `fact_deadlock`.

**`Samples`** extends `CollectionRun` with the samplers, whose runs may overlap: `task` is one of
`sessions` (one row per login, program, host and database), `blocking` (one per blocked session) and
`concurrency` (one for the instance). A count or a sum is represented by the set of requests it is
taken over. Its batches may hold two rows of one key, since Python compares names exactly and the
MERGE in the repository's collation (`Collated`), and a session may have two blocked requests. A row
whose key has a NULL is refused (`Refused`). `Displaced` says that an overlapping run of the same
moment landed another row of the same key.

**`CounterDeltas`**: cumulative counters of one object, snapshots by runs that may overlap, purge,
and the LAG views. The history (`total`, `boot`, `drops`) records what the counters would be had the
instance never restarted, and that the sum over the indexes of a table has lost one (`DropIndex`,
which takes a `Part` away); `alone` says whether a run overlapped another. A failed or killed run is
one step, `Fail`: what may happen inside it is `CollectionRun`'s subject. A batch has one row of the
object, so that a failed run whose row was committed is `Land`, as in `Health`.

**`CpuRing`**: the ring buffer of one instance and overlapping polls. The batch of `cpu.py` is two
statements: `ReadTicks` (`DECLARE @now`) and `Fetch` (the `SELECT`, which converts the stamps by the
clock of its own moment), at most `MaxDelay` apart. `Land` is the MERGE by `sample_time_utc`,
`FailPersisting` the poll that fails at one row and commits those before it. A sample is identified
by the time it was taken, so that two rows of one sample, a lost one and a wrong date are visible.
`Restart` empties the ring and resets the ticks.

**`DailySnapshot`**: `PerDatabaseCollector` and its two daily collectors; runs may overlap. `Begin`
is `target_databases`, `ReadDatabase` one turn of the loop of `fetch_rows`, `Stamp` the date given
by `transform`, `Land` the MERGEs in their order (of several missing indexes of one table any may be
the last). A run that fails in `_persist` commits the rows it had executed (`FailPersisting`): any
part of its batch. An offline database, a crash or a lost connection leave nothing (`Fail`). The
views `TableStorageLatest` and `IndexOpportunities` are evaluated on the result. The history
`landed` has what each run committed, in that order, whether this was the `whole` batch, and how
many had committed `before` it began: two runs neither of which began after the other had committed
are the ones that overlap.

**`Health`**: one database, its backups and faults, and overlapping runs that read (`Fetch`), date
(`Stamp`) and land a row; `Shown` and `Rag` are `rpt.health_summary`, evaluated against the clock
of the reader in every state. `Local` is the local time in which msdb keeps `backup_finish_date`;
the collector stores it unconverted.

**`MC...`** modules hold the instances for TLC; **`...Proofs`** modules the proofs about the
module they are named after. `WatermarkProofs` has those about `Watermark` and, since they need
little more, those about `Deadlocks`; `WorkloadProofs` builds on it, and all three on
`CollectionRunProofs`.

Definitions whose comment begins with *Mutation* are plausible bugs. They are not part of the
specifications: substituted for the definition they are written for, each must break the property
that `PROJECT.json` pairs it with.

### What is assumed

- A batch of `CollectionRun` and `Workload` has one row per key (`Proper`: `transform` groups, or
  the source has a primary key). In `Deadlocks` and `Samples` it need not: a later row replaces an
  earlier one, which is what two MERGEs on one key do.
- pyodbc's `close()` does not raise, and closing rolls back (autocommit is off).
- `run_id` values are distinct and grow; gaps in the IDENTITY column are not modelled.
- A driver returns every `DATETIME2` in the same way, and the skew of an instance's clock is
  constant.
- In `CpuRing` and `Health` all servers agree on UTC; `Health` knows one zone per instance, so
  changes to and from daylight saving time are left out.
- A database in `DailySnapshot`, and the moment of a sample in `Samples`, is read by one SELECT at
  once.
- In `Samples` one tick is one value of `sample_time_utc`. The repository's collation ignores case,
  as the default one does.
- `workload_attribution.sql` 71-79 declares four of the columns in the key of `fact_session_sample`
  as `NULL`, and SQL Server refuses a primary key over such a column. `Samples` is about the table
  that has to be created in its stead, with that key and `NOT NULL` columns, and the refusal of a
  row with a NULL in it (`Refused`) rests on this assumption.
- The clock of the repository does not go back. `InsertRun` advances it, so that two runs never
  share a `started_at_utc`.

## Runs

Bounds are the number of invocations, `MaxRuns` rows of `collection_run` (one per instance and
invocation is all the invocations can ask for, so this bound never cuts anything off), `MaxTime`
ticks between steps, and those named below.

| Run | Instance | Question | Result |
|---|---|---|---|
| `overlap` | 2 overlapping invocations, 1 instance, 2 keys, 2 values, fair | Do closed rows tell the truth, and stay? Does landed data stay? Is `RunLedger` implemented? Does a lock cycle end? | yes |
| `loop` | 2 invocations in turn, 2 instances, dry or not, fair | Are exit codes, stuck rows and dry runs honest? Does a failing instance leave the other its turn? | yes |
| `events` | 2 overlapping runs, 2 events in 1 or 2 groups, rollover, clock skew from -1 to 2, both drivers | Has every double count and every loss a cause the properties name? | yes |
| `naive` | naive watermark | Can a run filter by its watermark (`workload.py` 7-9)? | **no** |
| `deadlocks` | 2 overlapping runs, 2 deadlocks, one of them readable or not, eviction, both purges, a driver that returns aware times | Is every deadlock behind the watermark stored, with the exceptions named? | yes |
| `samples` | 2 overlapping runs of up to 2 of 4 requests, 3 samplers, 2 sessions, names that differ by case or are missing, purge | Does a successful sample count all there was? | yes |
| `deltas` | 2 overlapping runs on the `io_latency` counters of one file, restarts, a drop, failures, reruns, purge | Are deltas bounded by the activity, exact without restart, and the average latency within the latencies there were? | yes |
| `cpu` | 2 overlapping polls, a ring of 2, 1 restart, batches that land in part, purge | Are dates near the samples? Is all of the ring stored by a poll that lands? | yes |
| `cpu_twice` | the same | Is a sample stored once (`cpu.py` 3-4)? | **no** |
| `daily` | 2 overlapping runs, 3 commits, whole or partial, 3 days, 2 databases, 2 objects, 1 event, purge | Do the latest-snapshot views show what the last run stored, with the exceptions they name? | yes |
| `health` | 1 database, UTC or west, 3 events, 2 days | Is GREEN deserved, a silent collector noticed, no alarm early? | yes |
| `backup_zone` | an instance 1 h east of UTC | Is GREEN deserved (`config.yaml`, `rpt_views.sql` 226-231)? | **no** |

Why these bounds are enough to be interesting:

- Two invocations are needed for a lock cycle, for a `finish_run` that could touch another's row,
  for a rewritten key and for a retry; two keys, or two groups, for a batch that lands in part; two
  instances for a loop that could stop. `EveryInstanceIsReached` is in two runs because it has two
  ways to fail: a lock that is never released (`overlap`) and a loop that stops (`loop`).
- `events` has an event that sets the window and one that is counted again. `MaxTime` is 0 there:
  `start_run` advances the clock, and that is what a timestamp is compared with. A skew of -1 makes
  events late for the watermark, 1 and 2 carry them past one and past two starts.
- `deadlocks` has a clock that ticks, for twins as well as for deadlocks of different times, and a
  retention of `collection_run` (0) below that of the facts (2), so that a watermark is purged while
  the ring and the table still hold what was before it. (A run that begins after that purge, and
  starts over without a watermark, would need a tick more, and is covered by the proof only.) Its
  driver is the aware one: with the other every run after a success fails in `transform`, as
  `events` and `naive` show, and the theorem about it is for either.
- `deltas` has IOs of two latencies, so that an average can lie between them, and one drop, of what
  an IO had added: a drop is only an excuse there, and the proofs are for whatever an index may
  take.
- `samples` has a pair of requests for each way to share a key, and one for a refused row. No clock
  ticks there but in `start_run`, so that overlapping runs sample the same moment as well as two.
- `cpu` has a period of two ticks and a delay of one, so that a batch can straddle a new sample, and
  time for a ring of two to roll over, a restart and a purge.
- `daily` has two rows for one of its objects, so that two missing indexes of a table meet, and one
  for the other, so that a value changes. Two runs of one day, before and after a change, commit in
  either order, and a third after them; each may commit a part only, on the day of the others or on
  a later one that is within the retention of one day, and the purge then takes the oldest rows.
- `health` has two ticks to the hour and four to the day: `DATEDIFF` counts a boundary after one
  tick, and the row of yesterday is graded today; it has one run, since a second multiplies the
  states and overlap is covered by the proofs.

`daily` sets `CHECK_DEADLOCK FALSE` because its bounds on runs, days and events end every behaviour.
Where a configuration has `SYMMETRY` over invocations, runs, databases' objects or events, no
initial state, action or property tells one from another, and the run checks no liveness.

The *no* results, each with its counterexample:

- **`naive`**: aware and naive datetimes cannot be compared. `ExitCodeIsHonest` in `loop` says that
  the failure is visible in the exit code.
- **`cpu_twice`**: the key of a sample is computed anew at every poll, from two clocks read by two
  statements, and differs when the time between the two does.
- **`backup_zone`**: a local time is stored as UTC. East of it a backup looks younger than it
  is; west of it (`health`) older, so that the alarm is early instead. `NoEarlyAlarm` therefore
  speaks of rows whose times need no conversion.

Texts that the models sharpen, and where to find how:

- README 97-98 has a `failed` row written for every failure. There is none when the connections, the
  fetch or the transform fail, since `start_run` comes after them, and the row stays *running* when
  the connection breaks: `StuckRowIsExplained` and `ExitCodeIsHonest` say what can be relied on.
- README 130-131 says that a failure never duplicates data. `DoubleCountIsExplained` names the one
  failure that may (a failed first run, then a rollover), and two causes that are no failures: a
  clock ahead of the repository's, and a run that was overtaken. The last needs three runs (one that
  reads the old watermark, one that succeeds, one that reads the new one): it is beyond the bound of
  `events` and covered by the proof.
- `workload_attribution.sql` 44 calls the attribution accurate. The watermark is `started_at_utc`,
  stamped after the files were read, so an event that lands in between is skipped by the next run;
  and of two overlapping runs of one window the last to land decides. `LossIsExplained` says that
  there is no other way, rollover apart.
- `repo_schema.sql` promises one row per deadlock event; twins share one (`TruthfulUpToTwins`,
  `DeadlockLossOnlyInGap`).
- `rpt_views.sql` 37-38 and 292-293 speak of discarding a reset: the views report the new value
  instead, which `DeltaNeverOvercounts` covers. The numerator and denominator of an average latency
  decide about it separately, which is why `AvgLatencyIsPlausible` is stated for intervals without a
  restart. Of two runs that both overlapped another, the one that read first may stamp last, and the
  view then sees a reset that never was: hence `Comparable`.
- `rpt_views.sql` 168 speaks of the latest snapshot of a database. What the view takes for one is
  the latest date with a row, and a run that fails over one of its rows has committed those before
  it: until the next run that lands, or that day's rerun, `rpt.index_opportunities` then shows this
  part and hides the whole snapshot of the day before. `OpportunitiesShowLastRun` says that nothing
  else can hide it, and `StorageShowsLastSeen`, table by table, that what such a run left is shown
  as what it is, the last that was seen.
- The purge deletes in batches of no particular order, so an older row of a table may outlive a
  newer one for a while; `StorageShowsLastSeen` speaks of rows within their retention.

### Fairness

`FairSpec` assumes weak fairness of each invocation's `Progress`: what a single-threaded process
does next when every call to a server returns. The code sets no query timeout, so a server
that never answers would block it; that is outside the model. `Progress` has no failure in it
except two that the environment owes: a broken connection makes the next call raise, and SQL
Server's lock monitor ends a wait cycle. It does not assume that an invocation is ever started,
nor that a statement ever succeeds.

## Proofs

### The contract

`CollectionRunProofs` proves, for any number of invocations and instances, any keys, values and
batches, from the assumptions declared in `CollectionRun`:

| Theorem | States |
|---|---|
| `TypeCorrect` | `Spec => []TypeOK` |
| `StatusTruthful` | `Spec => []StatusIsTruthful` |
| `ClosedFinal` | `Spec => ClosedRowsAreFinal` |
| `Refinement` | `Spec => ImplementsLedger` |
| `DryRunIsDry` | `Spec => []DryRunWritesNothing` |
| `StuckExplained` | `Spec => []StuckRowIsExplained` |
| `ExitHonest` | `Spec => []ExitCodeIsHonest` |
| `SuccessDurable` | `Spec => []SuccessIsDurable` |

`TypeOK` alone is not inductive: `Close` moves to the next instance, which needs `PlaceInv` (an
active invocation is at one), and the row count is a number only if the batch is finite
(`FiniteInv`). `RunInv` has what the code relies on without saying so:

- `OwnerInv`: between `start_run` and `finish_run` an invocation has a `run_id` of its own, and its
  row, unless retention has deleted it, is *running*; so two invocations never close the same row.
- `BatchInv`: the open transaction and the rows still to be executed cover the batch (`Covered`:
  they have a row of each of its keys); in the `else` branch what has landed does; in the `except`
  branch, unless the connection is lost, the transaction holds a proper part of the batch. The last
  is why *failed* is truthful although the branch commits. A commit whose reply is lost would break
  it, and only a broken connection, over which `finish_run` cannot work either, keeps the row from
  being closed as *failed*.
- `LandInv`: the same of the closed rows.

The invariant comes in two sizes. `Base` (types and `RunInv`) holds for any finite batches, several
rows of one key included, and while rows of `collection_run` are deleted: it is preserved by every
`AnyStep` (`BaseStep`) and `PurgeStep` (`PurgeBase`), so `Deadlocks` and `Samples` inherit it.
`Core` adds that batches are `Proper` and that no row has gone; with it *covered* becomes *equal*,
which is `StatusIsTruthful`. `StepEffect` reduces every step to four effects on the tables
(`TableStep`: nothing, open, commit, close), from which `ClosedFinal` and, action by action of the
ledger, `Refinement` follow.

On top of it: what `main` has said so far (`ReportInv`: which instances have a verdict, and the exit
code they ask for; `VerdictInv`: an *ok* has its success row), where a dry run can be (`DryInv`),
who still works on a *running* row (`StuckInv`) and that what landed is readable or was replaced by
what another run landed (`DurableInv`, key by key: `DurableAt`).

### The workload collector

`WorkloadProofs` proves, for any events, groups, clocks, drivers and number of overlapping runs:

| Theorem | States |
|---|---|
| `WorkloadTypeCorrect` | `ASSUME Roomy PROVE WorkloadSpec => []WorkloadTypeOK` |
| `LossExplained` | `ASSUME Roomy PROVE WorkloadSpec => []LossIsExplained` |
| `DoubleCountExplained` | `ASSUME Roomy PROVE WorkloadSpec => []DoubleCountIsExplained` |
| `WorkloadRefinement` | `ASSUME Roomy PROVE WorkloadSpec => ImplementsLedger` |
| `WorkloadDurable` | `ASSUME Roomy PROVE WorkloadSpec => []SuccessIsDurable` |

`Roomy` says that `Keys` and `Vals` are large enough for every window and aggregate, and that the
events are finitely many: a key may be any time, while TLC has those that its bounds can reach. A
step of `Workload` is a step of `CollectionRun` or the fetch of a `Proper` batch (`ProperStep`), so
`Core` carries over and with it the contract, the refinement of the ledger included. `WatermarkInv`
is what `WatermarkProofs` has about either collector: its part `MarkInv` says that a watermark is
the start of an earlier success. `EventInv` says that buffers are dispatched in order, and `ReadInv`
what a run had read and made of it. For a loss, take the *first* successful run that stamped itself
past the event (`FirstPast`): it missed the event, or its batch has it, since a watermark past the
event would be the start of an even earlier success. For a double count without a watermark on
either side, the event that set the earlier window has rolled off, or the later window would be the
same. Otherwise one of the two readers knew a success that the other did not, and the event is after
that success: the other was stamped before the event, or after the success, and then it was
overtaken.

### The deadlocks collector

`WatermarkProofs` proves, for any events, clocks, drivers, unreadable reports, retentions and number
of overlapping runs:

| Theorem | States |
|---|---|
| `DeadlocksTypeCorrect` | `ASSUME TimesAreKeys PROVE DeadlocksSpec => []DeadlocksTypeOK` |
| `DeadlocksTruthful` | `ASSUME TimesAreKeys PROVE DeadlocksSpec => []TruthfulUpToTwins` |
| `DeadlockLossExplained` | `ASSUME TimesAreKeys PROVE DeadlocksSpec => []DeadlockLossOnlyInGap` |
| `DeadlocksClosedFinal` | `ASSUME TimesAreKeys PROVE DeadlocksSpec => ClosedRowsAreFinal` |

`TimesAreKeys`: any time may be a key and any event a value, and the events are finitely many. Twins
and the purge of `collection_run` rule `Core` out: the invariant is `Base`, and *truthful up to
twins* is its `LandInv`. `MarkInv` must then speak of what successes there *were* (`succeeded`), as
the row behind a watermark may be gone, and remember that each covered its batch. `KeptInv` is
`DurableAt` for the keys above the retention of the facts: the only ones that `PurgeFacts` spares
for certain, and the bound only moves up (`NowGrows`). `ReportInBatch` says that who has read some
reports has a row at the time of each one after his watermark. The loss follows: the first success
past the deadlock (`FirstPast` again) missed it or has a row at its time in its batch, which landed,
or that of a twin, and is kept while it is recent.

### The samplers

`SamplesProofs` proves, for any requests, sessions, names, collation and number of overlapping runs:

| Theorem | States |
|---|---|
| `SamplesTypeCorrect` | `ASSUME Room PROVE SamplesSpec => []SamplesTypeOK` |
| `SampleCountsAll` | `ASSUME Room PROVE SamplesSpec => []SampleIsWhole` |
| `SamplesClosedFinal` | `ASSUME Room PROVE SamplesSpec => ClosedRowsAreFinal` |

`Room` is to `Samples` what `Roomy` is to `Workload`. The invariant is `Base`, `KeptInv` as above
and `WholeInv`: a batch has a row for each request of its sample, and of two rows of one key each
has, for every request of the other, one that shares the key with it. So the row that has landed for
a key, of this run or another, has the request, or one that shares its key, or displaces it.

### The other components

| Module | Theorem | States |
|---|---|---|
| `CounterDeltasProofs` | `CounterTypeCorrect` | `CounterSpec => []CounterTypeOK` |
| | `DeltasNeverOvercount` | `CounterSpec => []DeltaNeverOvercounts` |
| | `DeltasExact` | `CounterSpec => []DeltaExactWithoutRestart` |
| | `AvgLatencyPlausible` | `ASSUME OfAFile PROVE CounterSpec => []AvgLatencyIsPlausible` |
| `CpuRingProofs` | `CpuTypeCorrect` | `CpuSpec => []CpuTypeOK` |
| | `DatesAreNear` | `CpuSpec => []StampedNearby` |
| | `RingIsStored` | `CpuSpec => []PollCoversRing` |
| `DailySnapshotProofs` | `DailyTypeCorrect` | `DailySpec => []DailyTypeOK` |
| | `StorageCurrent` | `DailySpec => []StorageShowsLastSeen` |
| | `OpportunitiesCurrent` | `DailySpec => []OpportunitiesShowLastRun` |
| `HealthProofs` | `HealthTypeCorrect` | `HealthSpec => []HealthTypeOK` |
| | `GreenIsBackedUp` | `ASSUME NotEast PROVE HealthSpec => []GreenMeansBackedUp` |
| | `StoppedIsNoticed` | `ASSUME NotEast PROVE HealthSpec => []SilenceTurnsRed` |
| | `NoAlarmIsEarly` | `HealthSpec => []NoEarlyAlarm` |

**Counters.** The invariant, `DeltaInv`, relates readings by `Follows(a, b)`: reading *b* was taken
after *a*, so the counters differ by the activity in the same life of the instance, and hold at most
the activity after a restart. `ChainInv` says that the order of the stamps is the order of the
readings, if one of the two runs overlapped nobody; it is kept because what such a run is compared
with was stored before it read, or is read after it landed (`LiveInv`), and because who is alone is
the only one under way (`AloneInv`). `OfAFile`: an IO adds a read and a stall of at most `MaxStall`.

**CPU.** `RingInv` says that a record is as old by its stamp as by the time its sample was taken,
`BaseInv` that `@now` lags by exactly the time since it was read, at most `MaxDelay`; the error of a
date is that lag. A restart would break both, but it empties the ring and ends the batch. For
`RingIsStored`, `CoverInv` says that the records of the ring are a period apart and that it holds
every recent sample, `DueInv` that a batch has a row for each sample it owes, and `SpacedInv` that
all samples known anywhere are a period apart, over restarts too. So the MERGE of a sample, also by
a poll that fails later, replaces no row but one of the same sample, and since no row is older than
its sample the purge takes none that is owed.

**Daily snapshots.** `FactInv` says that a row is what the last run of its date to store its object
had found, `KeptInv` that what a run stored has a row of its date while the retention lasts,
`DateInv` that a run which began after another had committed has no earlier date. (The dates need
not be in the order of the commits: a run stamped before midnight may commit after one stamped
later.) All three hold of whole and of partial commits alike (`CommitStep`). The latest row of an
object is then of the last run of the latest date that stored it, and `LatestIsUpToDate` says that
no run that did began after that one had committed. For the opportunities, `RowsOfDatabase` says
that a row of a later date than the last run to land over its database is of a run that failed.

**Health.** The invariant is `PastInv`: no row, landed or held by a run, tells of a backup that had
not happened when it was read (`RowPast`), so the age that the view computes is never less than the
real one. `AgeBound` turns the boundaries `DATEDIFF` counts into time: *h* of them or fewer are less
than *h + 1* hours. `NotEast`, no zone ahead of UTC, is needed: `backup_zone` is the counterexample
without it. `NoAlarmIsEarly` needs no invariant but the type: a difference of at most *h* hours
crosses at most *h* boundaries.

Only model-checked is liveness (`EveryInstanceIsReached`), which is out of the prover's reach under
fairness. The theorems hold whatever the bounds on runs, time, days, events and restarts are.
`WorkloadProofs` also has the assumptions of `Deadlocks` at hand, since it extends
`WatermarkProofs`: they speak of constants that `Workload` does not have, and no proof there uses
them.

## Plan

Done: every module above, with overlapping runs in all of them, and the proofs of all invariants,
action properties and refinements that a run checks. Left, most important first:

1. The attribution hash: two groups of which the '|'-joined names are equal.
2. An abstract specification of a history table that overlapping runs upsert and retention purges,
   which the fact tables of `CpuRing`, `CounterDeltas`, `DailySnapshot` and `Health` implement.
3. The purges of `fact_workload` and `fact_health`, which would need `KeptInv` in `WorkloadProofs`
   and a retention in `SilenceTurnsRed`.

## Not modelled

- Connection strings and credentials (formatting), the text of messages, the classification of waits
  and workloads into categories, `realtime_queries.sql` (for a person at a console), and the
  aggregating views.
- Configuration: the lists of required keys. What the models need of `validate` is
  `MonitoredAssumption`, its verdict is the action `ConfigRejected`.
- `query_perf`: its query has an `ORDER BY` before the `UNION ALL` (`query_perf.py` 70-74), which
  SQL Server refuses, so what rows it would return cannot be told from the code. A run that fails in
  `fetch_rows` is `FetchFails` of `CollectionRun`.
- The purges of `fact_workload`, `fact_health` and `fact_query_perf`, which are like the modelled
  ones; no view subtracts their neighbours.
- Malformed events of the workload files, which are as in `Deadlocks`, and collisions of the
  attribution hash.

`PROJECT.json` lists the components not covered with the reason.
