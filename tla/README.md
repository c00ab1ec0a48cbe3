# Verification of the personal infrastructure monitor

This directory holds TLA+ models of the Go program in `src/`, TLC
configurations that check them on small instances, and TLAPS proofs of the
theorems that matter most for every value of the constants. Every definition is
translated from the code; `PROJECT.json` names, for each of them, the lines it
stands for, for each property a mutation of the code that breaks it, and for
each hazard the properties that would notice it.

    tlc -config SchedulerSafety.cfg MCCollectionScheduler     # check a run
    tlapm CollectionScheduler_proofs.tla                      # check the proofs

## 1. The system

One process (`internal/app/runtime.go`) monitors the host it runs on. It owns a
listener with an HTTP API, two SQLite databases (history, audit), a settings
file, and four kinds of goroutines: the collection loop, the retention worker,
the settings watcher, and the handlers of requests. They share the objects
below; there is no other process and no network peer.

| Component | State | Operations | Hard behaviour | What makes it correct |
|---|---|---|---|---|
| Collection scheduler (`scheduler/`) | run and loop flags, last run, last success, under one mutex; a timer per loop; a goroutine and a deadline monitor per provider of a run | `Run`, `Trigger`, `collect`, `executeProvider`, `LastRun`, `LastSuccessfulRun`, `CollectionInProgress` | scheduled and manual runs at one moment; provider answer, deadline and cancellation racing; a wall clock that is set back; a recorder that fails after the evidence was published | runs never overlap and never leak goroutines; evidence only advances; a failure names its true cause; missed minutes are gaps; cancellation ends everything |
| Collection recorder and history repository (`app/collection_recorder.go`, `storage/history/repository.go`, `samples.go`) | tables of runs and samples | `RecordCollection` (one transaction), `ListCollectionRuns` | an error, cancellation or crash between two statements; run numbers that are given again after retention | a run in history is whole, and its samples are its own |
| History retention (`storage/history/retention.go`, `app/retention.go`) | the same database; cutoff, batch counters | startup clean-up, then one every 24 hours; six bounded DELETEs per batch, up to 20 batches | interleaving with the recorder; RESTRICT and CASCADE keys; partial batches; the exact cutoff; restart mid-way | nothing unexpired goes, everything expired goes in the end, "completed" is true, no orphan rows, the worker stops |
| Settings manager (`config/manager.go`, `watch.go`) | active and last-valid files; two atomics (settings, status); remembered hash; debounce timer; pending file events | `Load`, `Reload`, `commit`, `writeLastValid`, `Start`, the watch loop | edits at any moment, half-written files, lost events, failing writes, crash between rename and commit, readers between the two atomics | the copy always serves a restart; a broken edit changes nothing; status and settings agree; a good edit takes effect |
| Settings schema (`config/settings.go`, `validation.go`) | none | parse, validate, encode, defaults | numeric bounds | decode inverts encode; bounds hold |
| History queries (`storage/history/query.go`, `range.go`, `domain/range.go`) | none | resolve a range, aggregate buckets | rounding at minute and bucket boundaries; whole seconds | never more than the maximum number of points; gap, unavailable and observed stay distinct |
| SQLite opening (`storage/sqlite.go`, `migrations/`) | the file, its modes and sidecars, goose's version, the compatibility row; a lock per spelling of the path | `Open`, `OpenReadOnly`, `Close`, `Apply`, `Validate` | a failure at each step, concurrent opens by one name or two, a crash between two migrations, an older or newer application | a handle means the right kind, version and policy; a file never goes back; a failed open leaves nothing behind |
| Runtime lifecycle (`app/runtime.go`, `listener.go`) | listener, databases to close, contexts, workers, the goroutine of `Serve` | `Run`, `serve`, `stopServices`, `closeAll` | failure of each acquisition; a signal or a failed server while work is under way; the deadline of `Shutdown` | everything acquired is released once, in reverse order, after who uses it has ended; no failure looks like a clean stop; the process ends |
| Operational status (`app/status.go`, `maintenance.go`, `api/contracts/operational.go`) | the maintenance switch | snapshot, readiness, the contract's own derivation | separate reads of moving state; availability decided once at startup | what is read one by one is still a valid answer, no older than the request; ready means usable |
| Host collection (`collector/host/...`) | previous CPU counters | read `/proc`, difference counters, combine CPU and memory | counter resets, cores that come and go, one subcollector failing | usable evidence of one part survives failure of the other |
| API server (`api/server.go`, `cpu.go`, `memory.go`) | a response recorder per request | route, observe, recover from a panic, answer | panic before or after the header, client gone, database closed under a query | log and response agree; requests are drained or the failure is reported |
| API contracts, domain types, observability, web UI, empty packages | none or output only | field validation, formatting | none | not modelled (section 8) |

Interactions: the loop calls the providers, then stores the run in memory, then
calls the recorder with the completed run and **its own context**; the recorder
and the retention worker meet at SQLite's write lock; the status handlers read
the scheduler and the settings manager through atomics and a mutex, never both
together; the watcher goroutine reloads settings while everything else runs;
shutdown cancels the workers' context, waits for loop and retention worker, and
only then closes listener and databases.

## 2. Modules

| Module | Models | Role |
|---|---|---|
| `CollectionScheduler` | `scheduler/scheduler.go`, `clock.go`, `runCollectionScheduler`, and the validation of results and runs that decides `collect`'s control | component |
| `CollectionLedger` | what a reader of the scheduler and of history may rely on | abstract specification |
| `CollectionRefinement` | the mapping of the scheduler's state to the ledger | refinement |
| `CollectionScheduler_proofs`, `CollectionRefinement_proofs` | | theorems |
| `SettingsManager` | `config/manager.go`, `config/watch.go`, the two files | component |
| `SettingsManager_proofs` | | theorems |
| `HistoryStore` | recorder, retention and their SQLite database, which composes two components over a shared store | component |
| `HistoryTables` | what who reads the history database may rely on: a run appears whole, a whole batch of all six tables goes at once | abstract specification |
| `HistoryRefinement` | the committed database as those tables | refinement |
| `HistoryStore_proofs` | | theorems of both |
| `HistoryRange` | range resolution, bucket durations, the query of a series and its validation, against recording and retention | component |
| `HistoryRange_proofs` | | theorems |
| `HostCollection` | the CPU and memory collectors, their composition, the deadline around them, the history row made of the result | component |
| `HostCollection_proofs` | | theorems |
| `RuntimeLifecycle` | `app/runtime.go`, `app/listener.go`: startup, the goroutines, shutdown, with requests as far as they hold it up | component |
| `RequestHandling` | EXTENDS `RuntimeLifecycle` with the handlers of `api/server.go`, the reads of `app/status.go`, the contract in `operational.go`, and what moves under them | composition |
| `RequestHandling_proofs` | | theorems of both |
| `DatabaseOpen` | `storage/sqlite.go`, `storage/migrations/` | component |
| `DatabaseOpen_proofs` | | theorems |
| `MCCollectionScheduler`, `MCSettingsManager`, `MCHistoryStore`, `MCHistoryRange`, `MCHostCollection`, `MCRequestHandling`, `MCDatabaseOpen` | | small instances for TLC |

### CollectionScheduler

A *caller* is a goroutine inside `collect`: a loop (drives `Run`) or a trigger
(`Trigger`, once). `pc[c]` is where it stands; the steps of a run are

    idle -> arming -> waiting -> entering -> locking -> stamping -> joining
         -> recording -> ending -> (arming | leaving -> idle | returned)

One action is one synchronisation: a mutex section (`BeginRun`, `EndRun`), a
channel operation (`StoreRun` receives both results), a context check
(`CheckContext`), a clock reading (`ArmTimer`, `StartRun`). `exec[c][s]` is the
`executeProvider` goroutine of provider *s* with its monitor: its cause, what is
left of its deadline, its time stamps. `ProviderReturns`, `MonitorFires` and
`PropagateCancel` race; the first cause stands, as in `context.WithCancelCause`.

The two clocks of Go are kept apart. Timers run on monotonic time, so they are
stored as the ticks left, and `Tick` lowers them all. `time.Time` loses its
monotonic part in `UTC()`, so time stamps are values of the wall clock `now`,
which `SetClockBack` may lower. Three assignments have no counterpart in the
code and only name things: `runs` numbers runs, `by` is the caller of a run
(the code keeps scheduled or manual), `recorded` is what history holds.

A context that is done before the recorder commits makes `RecordCollection`
fail; a recorder that fails for other reasons is `StorageMayFail`. Any of the
error returns goes through `endRun`, and the loop's through `endLoop`. A service
without a recorder, which the constructor allows and production never builds, is
left out.

### SettingsManager

A file is what it parses to: settings, content that `Parse` rejects, something
`readSettingsFile` does not read at all, or absent. Hashes are injective, and
`encode` inverts `Parse`. `Load` is `LoadActive`, `LoadLastValid`, `Persist` or
`PersistFails`, `StoreSettings`, `StoreStatus`; `Reload` is `Reload` followed by
the same tail. Each is a separate step, so edits, events, crashes and readers
fall between any two. `events` is whether file events wait, `timer` the debounce
timer. `excuses` is a history variable: why an edit need not have taken effect.

### HistoryStore

`db` is what is committed; `tx` the private copy of whoever holds the write lock
(`writer`). A deferred transaction takes the lock with its first write
(`InsertRun`, `DeleteEvents`), every later statement changes `tx`, `Commit`
publishes it and `Rollback` drops it. The foreign keys are modelled by what they
do: CASCADE in `DeleteRuns`, RESTRICT as the failing branch of
`DeleteResources` (which the NOT EXISTS clauses make unreachable, and the
mutant of `Removable` makes fire). A run remembers in `with` which samples it
was recorded with; that is no column, and exists to state `RecordedWhole`. Run
numbers follow SQLite's rule for INTEGER PRIMARY KEY without AUTOINCREMENT, so a
number is given again once retention has deleted the newest run.

The retention worker's `pc` is the statement it is at; `more` gathers the six
comparisons of `CleanupExpired`, `batches` the bound of `CleanupExpiredBatches`,
`outcome` the log record of `runHistoryRetention`. A failing statement, a busy
lock that times out, a failed validation and a failed commit are one case each
of `RecordFails` and `CleanupFails`; a done context is `CleanupCancelled`, and
lets nothing commit. `Restart` is the end of the process wherever it stands.

`HistoryTables` knows neither statements nor transactions nor failures: its
tables change by `Record` and `Retain`, each at once. The mapping is `db` and
`cutoff` themselves (`cutoff` is fixed by `Begin`, for all batches of a clean-up),
so the refinement says that a commit publishes exactly one of the two: all of a
run, or a whole batch, with nothing the other has committed or deleted meanwhile
brought back or lost. A batch is whole when *every* table has given up its oldest
expired rows, either `BatchSize` of them or all: what some of the six statements
have deleted is no step of `HistoryTables` while another table, or a resource
that these deletions have freed, still waits.

Abstractions: ticks are whole seconds, as the columns are; only runs, host and
core samples have a writer in the code so far, so the other tables hold what the
database is found with. SQLite's own guarantees (isolation, atomic commit,
enforced keys) are assumed from the options `dataSourceName` sets and
`verifyConnectionPolicy` checks.

### HistoryRange

One request is answered at a time: it asks for a range (`AskPreset`,
`AskCustom`), which is refused (`Refuse`) or resolved against the clock;
`Answer` reads the rows later, and `RecordSample` and `CleanupExpired` fall in
between. Their commits are one step each here, because that is all
that `HistoryTables` lets a reader see of them. A row keeps two times: `at`, when
the sample was observed, which the statement selects by, and `started`, when its
run started, which retention deletes by (`retention.go:87`), the sample going by
cascade. They are seconds apart when a run is slow (`StartRun` to
`RecordSample`), so a sample observed in the retained range can be gone with a
run that started before it. `GapsAreHonest` says just that and no more;
`docs/history.md:47` ("rows exactly on the cutoff remain") holds of runs, and its
line 53 says that samples go with them. A tick is a part of a second: boundaries
keep it, rows do not, and the statement selects by whole seconds (`UnixSecond`),
so the cases that `docs/history.md:19` raises ("Custom boundaries are used
exactly as supplied") are there. `Rounded` gives sums and averages a mantissa of `FloatBits` bits,
rounding to nearest, ties to even; minimum and maximum are exact, as in Go.

### HostCollection

One action per read of the kernel: `ReadCounters`, then the load averages
(`PublishCPU` does what follows them), `ReadMemInfo`, then the pressure
(`PublishMemory`). The deadline (`Expire`) falls anywhere between, and matters
where the code looks at the context: before the counters, in the memory reads,
and in `executeProvider`, which is `Settle`. The kernel is the environment:
counters advance (`Elapse`), are reset, cores come and go. The eight counters of
a core are busy and idle, a usage is a numerator and a denominator, and sums of
counters are exact. `work`, `span` and `resets` are history variables: what a
core really did since the last reading, and between the last two.

### RuntimeLifecycle

`stage` is where `Run` stands, from `entering` to `returned`; the stages up to
`watching` acquire, one action per acquisition, each with its failure:

    entering -> loading -> listening -> opening -> building -> auditing -> watching
      -> serving -> stopping -> draining -> joining -> closing -> returned
         serving -> failing -> closing                 (Serve failed by itself)

`Refuse` is a return before anything is held, `Abort` one that closes the
listener and `closers`. The audit database may fail to open without ending the
start. `Discovered` and `Verified` are the two halves of the listener's address
check. The `select` of `serve` takes either ready case, so a server that has
failed may be left by the context's way; `JoinServe` then receives its error.
`ServeBegins` after `BeginShutdown` is the race of `Serve` and `Shutdown` that
net/http resolves by returning `ErrServerClosed`. A worker is `busy` while it
uses the database; both workers are told by one context and waited for by
`WorkersEnded`. After `ShutdownTimesOut` handlers go on although their
connections are closed, and so may meet a closed database.

### RequestHandling

A request is Accepted by the lifecycle and then goes through places: the four
reads of a snapshot in their order (`NextRead`), or the query of a history
series, then `answering`, `writing`, `done`. Each read is one action, because
each takes its own lock or atomic; between any two of them a reload
(`ReloadSettings`), the maintenance switch, a finished run (`StoreRun`, both
pieces of evidence under one lock) or a failing disk may come. `StateOf` is the
derivation of `status.go`, `ExpectedState` that of `operational.go`; both are
kept, because the second decides between an answer and a 500. `Panic` may come
at any place. `seen` and `came` are history variables: what maintenance was
while the request was handled, and what the last run and the disk were when it
came. `ApiSpec => Spec` is a theorem, so the composition adds to the lifecycle
and takes nothing from it.

### DatabaseOpen

One action per step of `storage.Open`; `Broken` is the failure of a step for
reasons outside it. The file is what the code looks at: whether it exists,
goose's version (`NoTable` before its table is made), the compatibility row, the
journal mode. `openLocks` is keyed by the cleaned absolute path, so two
spellings of one file (a mount, a hard link, an intermediate symbolic link) have
two locks; `holder` has one entry per name and the runs use two. `ListPending`
and `Migrate` are what goose's `Up` does: list, then one transaction per
migration. `Applies` is what makes a migration fail on tables that are there.
`pathLocks` of `migrations.Apply` is taken under the lock of the same name and
adds nothing. `Crash` frees what was locked in memory, `Restart` takes any
version of the application.

## 3. Runs

| Run | Instance | Question |
|---|---|---|
| `scheduler_safety` | 2 loops, 1 trigger, period 2, deadline 1, time to 2, recorder may fail, symmetric loops | do loops and runs exclude each other, does whoever waits for results wait for its own providers only, is the ledger implemented? |
| `scheduler_clock` | 1 loop, time to 3, wall clock set back once, a partial and a malformed provider result, recorder may fail, fairness | which minutes are collected, what times and causes say, when a finished run is missing from history; does a cancelled loop end? |
| `settings` | 2 documents, defaults, a half-written file, a directory; failing writes, lost events, crashes | the copy, the status, broken edits, and that good edits take effect |
| `settings_persist_retry` | the same without lost events | **violated**: an unchanged reload is not in force (finding 1) |
| `settings_startup_edit` | nothing fails | **violated**: an edit before the watcher is lost (finding 2) |
| `history` | batches of 1, at most 2 per clean-up, retention 1, time to 2; 1 run recorded, 1 failure, 1 restart; two found databases with rows of two ages | wholeness, orphans, cutoff, completion, progress, stopping; are the tables of `HistoryTables` implemented? |
| `history_queries` | seconds of 2 ticks, minutes of 4, retention 12, raw limit 8, at most 2 points and 3 selected rows, mantissas of 3 bits; a row found, observed within a second of its run's start, up to 4 in all; time from 16 to 18; every preset and custom range, recording and retention in between | shape of charts, which rows a point counts, what a gap means, why a series is thrown away |
| `history_rounding` | the same seconds and minutes, retention 24, two readings, a steady reading once a minute | **violated**: equal readings average to more than their maximum (finding 3) |
| `host_collection` | 2 cores, time to 2, one reset or topology change, two contents of `/proc/meminfo` | are usages true, does the overall usage wait, is the evidence of one subsystem independent of the other? |
| `requests` | 1 request of any route, 4 interfaces, 1 run of two outcomes, 1 change of settings, maintenance or disk, fairness | what is held when `Run` returns and in which order it is released, whether requests are drained and failures reported, whether `Run` ends; what a request is answered and logged as |
| `request_readiness` | the same without fairness | **violated**: ready after the history file broke (finding 4) |
| `database_open` | 2 openers, 2 names, 2 versions of the application, 5 files to find, fairness | what a handle means, how a file changes, who may change it under an open, whether every open is answered |

The type invariants are not among the properties of the runs: they are theorems
of section 5, for every instance.

Why the bounds are enough for what is asked. *Scheduler*: overlap, leaked flags
and evidence need two callers that meet in each of their steps; two loops and a
trigger give every pair of kinds. Period 2 with deadline 1 is the smallest that
`New` accepts, and time to 2 holds a boundary with work before and after it. The
clock run goes to 3, so that after one step back a loop passes two boundaries,
and the step can fall before, in and after a run. *Settings*: a third
document would meet the first two in the same roles (in force, in the copy, in
the file), and the initial files are arbitrary. *History*: the busy database has
two expired runs that hold samples of two kinds of resources, an event, an ended
and an active incident; with batches of 1 one batch cannot finish, with 2
batches neither can one clean-up, so backlog, RESTRICT between batches, and the
reuse of a run number all occur. One failure and one restart can fall at any
statement. The quiet database has nothing for `DeleteRuns` and a backlog of
events alone. The expired runs, and the events that wait, are of two ages, so a batch of
1 that were not the oldest would show. *Ranges*: with two points at most and minutes of four ticks, ranges occur
that are shorter than a point, fill points exactly, exceed them by a tick, and
need the second rounding up; half seconds put fractional boundaries on either
side of a row. Time goes on until a row at the very start of the oldest range has
expired, so that rows go inside a range that was resolved before; and a row found
may have been observed on the cutoff by a run that started before it. Both end in
gaps that `GapsAreHonest` is asked about. The row found has a reading, those
recorded may lack one. Three-bit mantissas are the shortest in which three equal
readings average to another number, as they do in Go's 53 bits. *Host*: two
cores are the fewest of which one can be new, gone or reset while the other is
sound; two ticks let a reading fall after another that had counted something,
and any number of collections, failing at any read, fit between them.
*Requests*: handlers share nothing but what they read, so one request meets every
change that another could only repeat; one run is enough for the last run and
the last success to disagree, and one change for a snapshot to be torn. The
proofs hold for any number of each. *Opening*: two openers meet in every pair of
steps, by one name and by two; two versions are an upgrade, a rollback and the
same again. The theorems of section 5 remove the bounds for every safety
property of a passing run; only liveness rests on the instances.

Deadlock is checked in every run: where the program stops for good, the scheduler
and the history store say so by a stuttering action (`Stopped`), the lifecycle by
`Exited`; the settings manager can always be edited, and a database opened again.

## 4. Fairness

* `CollectionScheduler!Fairness`: weak fairness of each loop, each `collect` and
  each provider goroutine. Goroutines are scheduled by the Go runtime; that a
  provider returns is assumed: `docs/scheduling.md:49` obliges providers to
  honor cancellation, and `collect` waits for as long as they do not. The clock,
  the cancellations and the triggers owe nothing.
* `SettingsManager!FairSpec`: weak fairness of the manager's goroutine and of
  timers; strong fairness of the timer case of the `select`, because Go chooses
  among ready cases at random, so a case that is ready again and again is taken.
* `HistoryStore!FairSpec`: weak fairness of a recording under way, of the
  clean-up's steps and of the ticker; strong fairness of the context case of the
  worker's `select`, for the same reason. That a statement fails, the clock
  ticks or the process restarts is owed to nobody. A clean-up that waits for the
  write lock is answered, because a recording is finite.

* `RuntimeLifecycle!Fairness`: weak fairness of `Run`, of `Serve` once the
  listener is closed, of a worker's work; strong fairness of the context case of
  a worker's `select`. That the work of a worker ends is `LoopStops` and
  `WorkerStops`, checked in the modules of the two workers. Handlers owe nothing:
  a handler that never returns is what the deadline of `Shutdown` is for, and
  `RunEnds` holds with it.
* `DatabaseOpen!FairSpec`: weak fairness of the steps of an open, strong fairness
  of taking a lock, because Go's mutex hands over to who has waited long
  (starvation mode). Nobody owes opening, closing, crashing or restarting.

## 5. What is proved

All theorems are `Spec => ...` without fairness (two of the history are about
the specification of `HistoryTables`), for every value of the constants
that satisfies the named assumptions (`OptionsAssumption`, `NoRunAssumption`,
`ContentsAssumption`, `HistoryAssumption`, `RangeAssumption`, `FloatAssumption`,
`HostAssumption`, `NoneAssumption`, `SnapshotAssumption`, `RuntimeAssumption`,
`OutcomesAssumption`, `OpenAssumption`). The assumptions state what `New` and
the callers validate, that model values differ, and for history that the found
database obeys its own constraints.

**CollectionScheduler.** `TypeCorrect`; `RunsExclude`; `LoopsExclude`;
`CollectorsBounded`; `EvidenceOrdered`. Over the types, run and loop
exclusion are inductive as they stand, because they tie the flag to the place of
one caller; their step lemmas rest on the two things a step can do, keep a
caller's place in or out of the run or move it (`RunKept`, `RunTaken`,
`LoopKept`, `LoopTaken`). `CollectorsBounded` needs that live provider goroutines
belong to the caller that is joining. `EvidenceOrdered` needs that run numbers of
evidence and of runs under way are bounded by the counter.

Four more are about the two clocks. `RecordsAreAccepted`: as long as the wall
clock is not set back, no run is refused for its own times, because every stamp
was read after the ones it must not precede (`StampsInOrder`: start of the run,
start and end of a provider, now). `FailuresHaveCauses`: a stored timeout took
the whole deadline and a stored cancellation came from the caller of that run.
It needs the link between monotonic and wall time, that a provider's start plus
the deadline is at most now plus what its timer has left (`CausesHappened`), and
is the reason why the invariant follows a goroutine through `Monitored`.
`MinutesAreNotReplayed` needs the same link for a loop's timer, up to the
boundary it was armed for (`TimersReach`), and that the boundary after an
instant is in a later minute (`BoundaryIsLater`, the arithmetic of `Truncate`).
`NoRunLostSilently`: a `collect` that ends without an error has its run in
history; its invariant `EndInv` says what each error left behind, and rests on
the order of run numbers.

`JoinsAreOwn`: a caller in the join has begun the latest run itself (the
numbers of `EvidenceInv`) and its two results are on their way (`Awaited`), for
any number of callers. With no deadlock in `scheduler_safety` that is why
`collect` comes back to every caller, refused or not, once the providers return;
that they do is theirs to keep.

**CollectionRefinement.** `EvidenceNeverErased` and `HistoryInOrder` (action
properties, from the same invariants plus "the run being recorded is the last
run, and everything recorded is older"), and `SchedulerImplementsLedger`: the
goroutine-level scheduler implements `CollectionLedger`. The phase of the ledger
is derived from where the one caller in a run stands; `PhaseOfOwner` and
`PhaseKept` reduce every step to the caller that makes it.

**SettingsManager.** `SettingsTypeCorrect`, `CopyAlwaysFollows`,
`StatusIsOfSettings`, `OnlyValidEditsApply`, from one inductive
invariant that adds, for each place of the goroutine, what its candidate, the
copy and the hash are there.

**HistoryStore.** `HistoryTypeCorrect`, `HistoryHasNoOrphans`, `RunsAreWhole`,
`CompletedIsClean`. The inductive invariant `IInv` says that the committed
database is good (keys, references, wholeness, finiteness); what the private copy
still lacks at each statement (the recorder's is good but for its own run; the
worker's is good throughout, which is where CASCADE and NOT EXISTS come in); and
that the cutoff is not above `now - Retention`. `NextIdIsNew` shows a fresh
number although numbers are reused: the references of the old run went with it.
`CompletedIsClean` needs a second invariant, the *sweep*: as long as no statement
has reached the batch size, the tables already passed hold nothing older than the
cutoff (`ShortBatchIsAll`), and the later statements cannot bring anything back.

**HistoryRefinement.** `StoreImplementsTables` is the refinement of
`HistoryTables`. Its two invariants say what the private copy is *to the
database*, not only in itself: the recorder's is the database and its own run
(`RecorderInv`), the worker's is the database without a batch of each table its
statements have been at, full or all that has expired, and with all of the
others (`WorkerInv`, by place). The lock keeps the
database still meanwhile. The delicate part is resources: one that was in use
when the batch began may be free when its statement comes, because the batch has
taken its samples, so `FreeOf` asks the copy what is in use and not the database
(`ResourcesTaken`). `TablesAreSound` and `TablesKeepUnexpired` then need
`HistoryTables` alone: whoever relies on it finds whole runs, nothing missing
that is referred to, and nothing gone that has not expired. `NothingUnexpiredGoes`
carries the last over to the store; as the refinement takes it in, no run asks
for it.

**HistoryRange.** `RangeTypeOK` and `RangeChartFits`: for any range and limits
the points of a chart cover the range without holes or overlaps, are at most
`MaxChartPoints`, and come from the smallest whole-minute bucket that gives so
few. The arithmetic is `DivideUpBounds` (what rounding up a quotient bounds),
from which `FewEnoughPoints`, `PointsCover` and `BucketIsSmallest` follow.
`EveryRowIsCounted` and `GapsTellTheTruth`: in a range of whole seconds every
row falls in one point and no other (`PositionIsThere`, `PositionIsOnly`: the
quotient the statement groups by against the boundaries Go computes), rows are in
order, and what is missing belonged to a run that started before the retained
range (`RowsOK`; `RunOK` orders the row that the current run may still record).
`RejectionsAreRounding` says that finding 3 is the only one of its kind: of all
checks of a series, none but the one of averages can fail (`PointsAreValid`).

**HostCollection.** `PublishedUsageIsTrue` and `HostTypeCorrect`, for any cores
and without bounds. The inductive invariant says that the counters of a core are
those of its last reading and its work since; while a reading is taken and not
yet published that reading is the last one, and it lies its span after the one
before. `OverallIsTogether`: there is an overall usage exactly if the cores are
those of the last reading and every one has a usage, and then its parts are the
sums of theirs. This needs that a sum over a set
of cores is additive (`TotalsAdd`), which is induction over data; the
induction theorems of the library take an operator, so it is done by the least
counterexample instead: a set of numbers that is not empty has a least member
(`WFMin`), which gives `EveryNatural` for sets and then `EverySubset` for finite
sets. `EvidenceStaysIndependent` needs that what is fresh is what has
succeeded, at every place of a collection (`EvidenceInv`).

**RequestHandling.** Of the lifecycle: `LifecycleTypeCorrect`, `NothingIsHeld`,
`ReleaseIsOrdered`, `RequestsAreDrained`, `FailuresAreReported`. Their inductive
invariant `LifecycleInv` adds to the types that what is to be closed is what is
open (`ClosersHold`); that nothing runs before `serving` (`StartsAlone`); that
draining and closing come after the workers' end, and a request that is still
active there after an error (`WaitsInOrder`); and what may still be running when
`Run` closes (`EndsAlone`). `HandlersKeepLifecycle` shows that the composition
implements the lifecycle, so all of them hold of it. Of the handlers:
`HandlersTypeCorrect`, `SnapshotsAreAccepted`, `ReadinessIsTrue`,
`EvidenceIsShown`, `LogTellsTrue`, from `AnswerInv`: the evidence only advances
(`EvidenceInv`), what a handler has read follows what there was when its request
came (`ReadInOrder`), what it sent follows what it read, and what was logged
follows what was sent. `SnapshotsAreAccepted` rests on a lemma without state,
that the two derivations of the operational state agree on everything a snapshot
can be.

**DatabaseOpen.** `OpenTypeCorrect`, `NothingIsLeft`, `HandlesAreCurrent`,
`FilesMoveForward`, `SchemasHoldStill`, for any openers, names, versions and
files to find. The argument of `HandlesAreCurrent` (invariant `IInv`, with the
part `Passed`): from `verifying` on an opener has seen the file at its target;
the file is consistent and only moves forward,
to the target of whoever migrates it, and openers that live at one time are of
one version; so what was seen stays. A file that is moved under an open has
another kind of opener to blame, which its own first migration refuses.

Only model-checked, not proved: liveness (`LoopStops`,
`WatchedEditsTakeEffect`, `ExpiredGoes`, `WorkerStops`, `RunEnds`, `OpensEnd`),
which is beyond the prover because it needs ENABLED; and the four properties of
section 6, which do not hold. What the rounded sums of a series come to is not
proved either: `SeriesAreValid` is false, and `RejectionsAreRounding` needs no
more of rounding than that it gives a number.

## 6. Findings

1. **A copy that could not be written at startup is not retried**
   (`UnchangedIsInForce`, `manager.go:150`). `Load` keeps the hash of a file it
   could not persist; the comment at `manager.go:214` promises a retry, and only
   `Reload` clears the hash.
2. **An edit during startup is missed** (`EditsTakeEffect`, `runtime.go:179`). The
   file is read at line 106 and watched from line 179; `TASKS.md:90` says valid
   edits take effect without restart. `WatchedEditsTakeEffect` shows it holds for
   edits the watcher is told of and that can be persisted.
3. **Equal readings can make a history series invalid** (`SeriesAreValid`,
   `query.go:287`). The average is rounded twice and may exceed the maximum by an
   ulp (three readings of 0.1), `contracts/cpu.go:174` rejects the series, and
   ranges of more than six hours are answered 503 although every sample is sound.
4. **A service whose history stopped working is ready** (`ReadyMeansUsable`,
   `runtime.go:162`). `historyAvailable` is the literal `true`;
   `docs/observability.md:14` says 200 means that history storage is usable.

Met while modelling, and not asserted by a run:

* A run that is cancelled by a shutdown is recorded under the same cancelled
  context (`scheduler.go:198`), so its failure is never stored, while
  `docs/cpu-backend.md:29` says a total failure is. `LostOnlyWithError` shows that
  the caller is told of every such loss.
* A memory read that hangs past the deadline takes the CPU evidence of the same
  collection with it (`scheduler.go:244`), although the page shows it;
  `docs/memory-backend.md:41` speaks of independent evidence.
  `EvidenceIndependent` holds inside the deadline.
* `docs/observability.md:37` says Docker connectivity remains `not_checked`;
  `status.go:119` shows `unavailable` or `available` after the first run.
* `stale_after_seconds` is taken once (`runtime.go:167`), so an edit of it changes
  the settings in force and not the freshness shown.

## 7. Plan

In this order, the behaviour that matters most first:

1. The freshness of current values, with the settings it ought to follow.
2. The parts of the settings schema that decide between `Parse` and a rejection.

## 8. Not modelled

* Field-wise validation of API contracts, domain enumerations and settings
  bounds: no state and no order of steps; where a validation decides control, it
  is in the module of its caller.
* Observability, web assets and UI, exit codes, scripts: output or build tooling.
* Of requests: headers, request numbers, sizes, the limit of a body, which of the
  4xx an unusable request is refused with, `CollectionInProgress`, and the
  routes of current values. Of opening a database: which paths are refused, and
  directories.
* The fields `MemFree`, `Cached`, `Buffers` and the single windows of the
  pressure, which are passed on as they are; floats in CPU counters, whose
  rounding can withhold the usage of a fully idle core (`calculate.go:35`). A
  counter that is reset and then grows past its last reading cannot be told from
  a sound one, and `UsageIsTrue` says nothing of it.
* Packages that hold a comment only (audit, backup, export, health).
* The Docker provider is a placeholder that always fails; it is one of the
  provider results of the scheduler's model.
* Loss of power: with `synchronous(NORMAL)` the last commits may be gone after
  it. `Restart` is the end of the process only.
* Hazards that no property covers: a reload that could not read the file leaves
  the status `using_previous` when the same bytes come back (`manager.go:199`; no
  document promises more), and the two of a rounded CPU total and a retention
  clock that jumps, above and below.
* A wall clock that jumps during retention: a jump ahead makes a clean-up delete
  unexpired rows, and nothing in the code prevents it. The clock of
  `HistoryStore` only advances.
* Time to wait: `busy_timeout` is a failure that may come at any moment, the
  24-hour interval a ticker that may tick at any moment.
