# A TLA+ verification of pi-monitor

pi-monitor is one Go process that samples the sensors of a Raspberry Pi twice a
second, keeps the samples in memory, flushes them every hour to SQLite, moves
completed ISO weeks from SQLite to Parquet files, and serves live and historical
data over HTTP. This directory holds TLA+ modules that model the path of a sample
through that process, from the counters of the kernel to the chart in the browser,
TLC configurations that check them on small instances, and proofs, checked by
TLAPS, of what holds for every instance.

## 1. The system

| Component | State | Operations | Where |
| --- | --- | --- | --- |
| SQLite table | `samples`, `metadata.persistence_interval_ms` | `AddBatch`, `PreparePersistence`, `querySQLite` | `internal/storage/store.go` |
| Parquet archives | `archive/metrics-YYYY-Www.parquet`, `.tmp` files | `ArchiveCompletedWeeks`, `writeParquetAtomic`, `readParquetRange` | `internal/storage/store.go` |
| Compaction | none (pure) | `CompactByInterval`, `stableWindow`, `Downsample`, `deduplicate` | `internal/storage/store.go` |
| Monitor | `current`, `pending`, `subscribers` under one RWMutex | `Run`, `collect`, `Flush`, `History`, `Subscribe` | `internal/monitor/monitor.go` |
| HTTP handlers | one goroutine per request | `/api/history`, `/api/stream`, `/api/current`, `/healthz` | `internal/web/web.go` |
| Process | context, two goroutines, two result channels | start, signal, shutdown | `cmd/pi-monitor/main.go` |
| Collector | previous CPU and network counters, sensor paths | `Collect` | `internal/metrics/collector.go` |
| System information | none | read once at start | `internal/metrics/system.go` |
| Dashboard | range, samples and event source of the page | `loadHistory`, `onmessage`, range buttons | `internal/web/static/app.js` |
| Installation | none | shell script, systemd unit | `install.sh`, `deploy/` |

How they interact:

- `main.run` opens the store, compacts it (`PreparePersistence`) and starts two
  goroutines, `Monitor.Run` and the HTTP server.
- `Monitor.Run` archives, samples once and then serves, one at a time, whichever
  of four events is ready: the sample, flush and archive tickers and the
  cancellation of its context. Sampling, flushing and archiving therefore never
  overlap with each other, but each of them overlaps with every HTTP handler.
- `Flush` detaches `pending` under the mutex and commits it *without* the mutex;
  if that fails it puts the batch back in front of what has arrived since.
- `History` reads SQLite, then the archive directory, then `pending`, and takes
  the mutex only for the last.
- A stream handler subscribes, sends `Current`, and then what its channel of four
  samples delivers; a full channel refuses samples.
- SQLite, with one connection, and the file system are shared with nobody else
  and outlive the process.

What is hard about it: state moves between three places (memory, SQLite, files)
while readers walk over the same three places in some order; the move to files is
not a transaction and can be interrupted by a crash or an error at every step; a
flush can fail and be retried; the calendar week and the wall-clock window cut
through batches; the process stops and starts again at any moment, perhaps with
another `-persist-interval`.

What makes each component correct:

- *Table and compaction*: every sample has a row that stands for it; a flush never
  overwrites a row; repeated compaction loses nothing without a trace.
- *Archives*: what the archiver deletes is in a file; an interrupted call can be
  repeated; completed weeks leave SQLite.
- *Monitor*: memory is in order and disjoint from the store whatever fails; a
  signal ends the process; pending samples become durable.
- *History*: nothing that was stored is missing, nothing appears twice.
- *Streams*: only an overflow loses a sample.
- *Process*: it ends in time, never closes the database under the monitor, and
  reports what it could not save; a service that is up becomes healthy again.
- *Collector*: differences of counters never go below zero, and nothing is counted
  twice, whatever the kernel's counters do.
- *Dashboard*: what is drawn stays bounded and ends up being the selected range.

## 2. The modules

    Samples --- Store --- Monitor --- Web           Thresholds --- Algorithms
       |                  / |  \                                 (and Samples)
       |        SampleFate  |  ClockSteps
       |              Durability           Lifecycle    Collector    Dashboard
       |

    SamplesProofs --- MonitorProofs --- WebProofs
           |                 |
           |            FaultProofs (with ClockSteps and Durability)
    AlgorithmsProofs
    LifecycleProofs, CollectorProofs, DashboardProofs

| Module | Models |
| --- | --- |
| `Samples` | samples, rows, tables and the pure functions on them: windows, `stableWindow`, `CompactByInterval`, the upsert of `addBatch`, range selection |
| `Store` | the disk (`db`, `meta`, `archive`, `tmp`) and every operation of `Store` on it; `ArchiveCompletedWeeks` as a loop of separate steps |
| `Monitor` | the goroutine of `Run`, the process around it, crash and restart; the properties and the fairness |
| `SampleFate` | the abstract specification: the life of a single sample, which `Monitor` is shown to implement |
| `Web` | the history and stream handlers, any number of each, beside the monitor |
| `Durability` | the monitor on a machine that loses its power: what SQLite and the files are afterwards |
| `ClockSteps` | the monitor under a wall clock that is set back |
| `Lifecycle` | `main` and `Run` with durations: tickers, time limits, open streams, the age that `/healthz` looks at |
| `Thresholds` | `stableWindow` with its whole table of thresholds, on readings with all metrics |
| `Algorithms` | the loops of `CompactByInterval`, `deduplicate` and `Downsample`, an iteration a step |
| `Collector` | `Collect` and its remembered counters, beside the kernel that changes them |
| `Dashboard` | the page: history answers, stream events, range buttons |
| `MCMonitor`, `MCWeb`, `MCDurability`, `MCClockSteps`, `MCAlgorithms`, `MCCollector`, `MCDashboard` | values of the constants for TLC |
| `SamplesProofs` | lemmas about the operators of `Samples` |
| `MonitorProofs` | the inductive invariant of `Monitor` and its theorems, and the refinement of `SampleFate` |
| `FaultProofs` | the accounting for every sample, also under a clock that is set back, with the archives; what survives power losses, and what they take |
| `WebProofs` | the invariants of the history requests and of the streams, and their theorems |
| `AlgorithmsProofs` | the loop invariants of the pure functions |
| `LifecycleProofs`, `CollectorProofs`, `DashboardProofs` | the invariants of these three modules and their theorems |

### How the state corresponds to the code

- **Time.** `now` counts milliseconds, or anything finer than a window: what
  matters is in which window (`t \div interval`) and which week
  (`t \div WeekLen`) a tick lies. The clock ticks at any moment, also between any
  two steps of the code, and goes back only in `ClockSteps` and `Collector`. That
  two samples of one process have different milliseconds, which `UnixMilli` keys
  the store by, is an assumption: `-sample-interval` is at least 100 ms, but a tick
  that waited in the ticker's channel while `Run` was blocked is taken late, and the
  next sample can come right behind it. In the code two samples of one millisecond
  would share a row.
- **Samples.** A sample is `[t, v]`. `v` is one number with one threshold and
  stands for the metrics that `stableWindow` compares. A partial sample (a sensor
  failed) is a sample like any other.
- **Slices and tables** are functions from integers; a slice's domain is its
  index set and the samples table's domain is its primary key. So
  `CompactByInterval`, which the code applies to a batch and to the whole table,
  is one operator. A window is not the set of points in a bucket but the run of
  *adjacent* ones, as in the code.
- **Transactions** of SQLite are one step. `PreparePersistence` and `AddBatch` are
  therefore one step each; `Flush` is two (`TakeBatch`, then `FlushCommit` or
  `FlushFail`), because it detaches the batch before it commits.
- **Archiving** is `ArchiveStart` (SELECT MIN, first and last week of the loop),
  then for each week `ArchiveSkip` (the file exists) or `ArchiveQuery` (query,
  create and write the `.tmp` file) with `ArchiveRename`, then `ArchiveDelete`;
  `ArchiveReturn` ends the loop and `ArchiveError` ends the call at any step,
  with the deferred `os.Remove` working or failing. `Crash` can come anywhere and
  leaves the disk as it is.
- **The goroutine of `Run`** is `phase`: `init` (the archive call before the first
  sample), `first`, `select`, `archive`, `flush`, `final` (the last flush),
  `stopped`. In `select` every ready case may be taken. After the signal the
  transactions of the ticker's flush and the queries of the archiver fail, as
  their context is cancelled, but file operations go on.
- **Start and end of the process** are actions of `Monitor` too: `Boot` is
  `main.run` up to the start of the goroutines, with any of the intervals,
  `BootFails` a start that fails after its compaction, `Signal` the cancellation of
  the context, `Exit` the return of `main.run`. `Boot` is possible whenever there
  is no process, for systemd or the user starts it again.
- **Handlers.** A history request is `at` = 0 (none), then one read per step, then
  answered; a stream is `closed`, `subscribed` (before its first event) or `open`.
- **Power and clock.** `Durability` adds to the monitor what a commit and a file
  write leave behind: `images`, the states SQLite may recover to (the one of the
  last checkpoint and every commit since), and `cached`, the weeks whose file is
  not synced. `PowerLoss` picks an image and empties any of the unsynced files.
  `ClockSteps` adds `SetBack`, which takes `now` to an earlier tick and lets a
  sample be taken there again.
- **Durations.** Only `Lifecycle` has them, as timers that count down to a ticker's
  next tick and up from the beginning of an operation; a goroutine that can go on
  does so before time passes (`Urgent`), and `Limit` says how long an operation may
  take. An age is elapsed time there: what `time.Since` of a timestamp gives while
  nobody sets the clock, for `UTC()` strips a timestamp of its monotonic reading,
  and a clock that is set changes the answer of `/healthz` until the next sample. It
  leaves out what is written where, which is the subject of `Monitor`; the two share
  the phases of `Run`.
- **Loops.** In `Algorithms` the variables are those of the Go loops (`begin`,
  `end`, `out`), and `points` is the array under the slice, which `deduplicate`
  overwrites while it reads. `CompactionLoopIsTheOperator` ties the loop to the
  operator that `Monitor` uses.
- **Counters.** `Collector` has a kernel whose cores and interfaces come and go and
  whose counters advance, wrap (modulo `Word`) and restart between any two reads of
  one `Collect`; a sample is what is between two reads (`usage`, `rates`), before it
  is divided and formatted. Its timestamps are of a wall clock (`wall`), with which
  the code measures the time between two samples (collector.go:190) and which
  `SetClock` sets, backward or forward, between any two steps. Busy time does not go
  back in this kernel, only idle time does; `usage()` guards against the latter.
- **The page.** A request of `Dashboard` fixes the time it asks for before the
  `await` and replaces the samples after it; events queue up between. A sample is
  its timestamp, and the server is a sample per tick and a history that has all.
- **History variables** (not in the code): `taken`, every sample with its value;
  `lost`, what was only in memory when a process ended; `late`, the rows that were
  committed to a week that already had its archive; `dropped`, what a full channel
  refused, that is the samples that came when it held as many as it can; `due` and
  `dueInMemory`, what a request should find; `gone` and `durable` (merged away; on
  disk for good); `repeated` (times that come twice); `uncounted` and `unclaimed`
  (what the kernel counted less what the samples say); `setBack` and `between` (what
  the clock was set back by since a timestamp, and between two of them); `blocked`
  and `since` of `Lifecycle`.

## 3. What TLC checks

All runs set `CHECK_DEADLOCK FALSE`: the service may stop for good, and the
bounded clock ends every behaviour that goes on.

### `core`: the monitor and its store

Two persistence intervals (2 and 4 ticks, nested like 5 s and 10 s), weeks of
three ticks, so that weeks and windows cut each other, values 0 and 1 with
threshold 0, so that windows are stable or volatile, an empty table or two rows of
an earlier version. The clock runs from 1 to 5: the legacy week, a second week
that is filled, flushed and archived, and the beginning of a third to be archived
early or late. Every operation can fail, and a crash and a restart with the other
interval can come between any two steps, any number of times.

- `MemoryNewerThanStore`: batch and pending together are in strict order and every
  stored timestamp is older. A failed flush that put its batch back in the wrong
  place, or a flush that forgot to reset `pending`, would break it, and a later
  flush would overwrite rows or compact a window twice.
- `EverySampleAccountedFor`: each sample ever taken was lost with the memory of a
  process, or is in memory, or has a row that stands for it (`StandsFor`): at its
  time or later, no further away than the compactions up to some interval can have
  moved it, with a value within twice the threshold for each of them. With
  intervals that are nested, as here, the row is in the sample's own window; that
  the rest holds for any intervals is proved (section 4).
- `ArchiveCoversRows`: a row whose week has a file is in the file with the same
  value. That makes it safe that `ArchiveCompletedWeeks` deletes the rows of a
  week without looking into an existing file. Rows that came late are excepted;
  what happens to them is the finding of `late_archive`.
- `StoredRowsStay` (an action property): only the compaction of a start takes a
  row out of SQLite and the archives together, unless it came late.
- `SamplesMeetTheirFate`: the refinement. The mapping takes each timestamp to
  `none`, `memory`, `stored`, `merged`, `lost` or `erased`, and every step of the
  monitor is a step of `SampleFate` or leaves it unchanged: flushes settle samples
  in the order of time, a merged sample has a later stored one, nothing comes back.
- `IInv`, the inductive invariant of the proofs, and `MonitorTypeOK`.

### `live`: the same under fairness

- `ShutdownCompletes`: a signal ends the process whatever it was doing.
- `SamplesBecomeDurable`: while the process stays up a sample leaves memory for
  SQLite, failed flushes notwithstanding.
- `CompletedWeeksLeaveSQLite`: while it stays up, the rows of a completed week
  leave SQLite, also when a call was interrupted or rows came late.

Fairness and why the code justifies it. Weak fairness of the first sample, of the
two outcomes of a commit and of the archive loop: a running goroutine does not
stop inside a call. Weak fairness of `Tick`, because time passes, and of `Exit`,
because `main` waits for nothing but the monitor and an HTTP shutdown with a time
limit. Strong fairness of each case of the select: Go picks at random among the
ready cases, so a case that is ready again and again is taken. Strong fairness of
`FlushCommit` and of each operation of the archiver says that errors do not last
forever; without it nothing would become durable on a full disk. No fairness for
signals, crashes or starts. The last two properties hold while the process
stays up (`StaysUp`); a process that keeps crashing makes nothing durable.
The weeks here are two ticks and the clock ends at 4, which gives an old week, a
week to be archived and the current one.

### `web`: requests and streams beside the monitor

One history request, with ranges that cover everything or cut through a week, or
one client of /api/stream, beside all of the monitor's behaviour. The handlers
meet nowhere but in the monitor's state: a request only reads it, a stream has its
own channel. So more of them would show nothing else, and the constraint
`OneHandler` has TLC look at one at a time; the proofs have any number. The channel
has two places, not four, so that it overflows within the five samples of the
bound; the client can connect, read slowly, leave and come back at any moment.

- `HistoryKeepsStoredRows`: a row that was stored when the request came is in the
  answer wherever the archiver has moved it meanwhile. It depends on SQLite being
  read before the directory: a mutant with the opposite order breaks it.
- `HistoryHasNoDuplicates`: no sample comes from the store and from memory both.
  It depends on the memory being read last.
- `StreamMissesOnlyOverflow`: what was taken since the client subscribed was
  written to it, is buffered, or came when its channel was full. There is no gap
  between `Subscribe`, `Current` and the channel, and no sample is refused for
  another reason: a channel whose last place is never used breaks it.
- `WebTypeOK`, with the bound on every channel and the registered channels being
  exactly those of the open connections.

### `lifecycle`: the process against the clock

A sample every 2 ticks that may take 1, a flush and an archive call every 8 that
may take 3, limits of 2 ticks for the HTTP shutdown and the last flush, and 6 for
`/healthz`; one stream (the shutdown only asks whether there is any). With these
an operation outlasts its ticker, both slow operations can follow each other, and
an archive call can outlast both limits. Ages are counted up to 12.

- `StoreOutlivesMonitor`: in every case of `run`'s select, and whichever of several
  ready ones is taken, the database is closed after the monitor has returned.
- `ExitSavesMemory`: samples are left in memory only by a last flush that failed or
  ran out of its time, and the exit code says so.
- `StopsInTime`: the time limits run side by side. Open streams and ticks that came
  with the signal cannot prolong the exit.
- `FreshUnlessBlocked`: the current sample is older than an interval and a collect
  only by what flushes and archive calls took, although the tickers drop ticks.
- `ShutdownEnds` and `HealthRecovers`, under weak fairness of `MainStep`, `RunStep`
  and `Pass`: goroutines that can go on do, operations end and time passes.
  Nothing is assumed of clients, signals and the listener.

### `power_loss`: a machine that loses its power

Weeks of two ticks, windows of two or four, one legacy row, the clock from 1 to 4:
flushed rows of two weeks, a file, and a compaction whose commit a power loss can
undo.

- `DurableRowsSurvive`: a row that was in SQLite at a checkpoint, or in a file, stays
  stored. It needs the `f.Sync()` before the rename and the DELETE after it.
- `PowerLossLeavesNoHole` (an action property): what is lost is the newest part.

Two assumptions. After a power loss SQLite is at one of its commits since the last
checkpoint, which is what `synchronous=NORMAL` promises in WAL mode. And a rename
is on disk before what is written later, which a journaling file system does and
POSIX does not promise: the code does not sync the directory (store.go:608).

### `clock_steps`: a wall clock that is set back

Once, to any earlier time, at any moment: while the service runs, inside a flush or
an archive call, or between two runs. Weeks and windows of two ticks, the clock
from 0 to 3. The order of memory and store is then lost, and with it
`MemoryNewerThanStore`. What remains:

- `ArchiveCoversRows` and `StoredRowsStay`: archiving does not depend on the clock.
- `OtherSamplesAccountedFor`: only samples whose row can be of the time that came
  twice (`Reaches`) can be overwritten or merged with others.

### `algorithms`: the pure functions

Every behaviour is one call. `CompactByInterval`: all sets of times in 0..4 with
values 0..2, windows of 2 and 3. `deduplicate`: all sorted lists of up to five
points. `Downsample`: up to 14 points, limits 0 and 2 to 15 (the handler never
passes 1, by which it would divide by zero). `stableWindow`: windows of four
readings for a sensor or a number, around its threshold, and of three for cores
and network rates, each with points that lack a sensor, a core or an interface.

- `CompactionLoopIsTheOperator`, `InPlaceDeduplicateIsPure`: the loops compute what
  the operators of the other modules say.
- `DownsampleSpansTheRange`: the first and the last point, evenly, none twice.
- `RepresentativeSpeaksForWindow`: the row of a stable window is within twice the
  threshold of every sample it stands for, in every metric, and no closer.

### `collector`: the counters of the kernel

A machine with two cores for two ticks, and one with an interface for four; the rows
of /proc/stat and the network counters share nothing but the timestamp, which usage
does not look at, so each is checked without the other. Counters of bytes are modulo
5 and start at zero or at their end; a `vcgencmd` takes up to a tick. Cores and
interfaces come and go and idle time is given back between any two reads. Three
samples are enough for a usage before and after a gap. A clock that is set multiplies
the states, so on the machine of four ticks it is set back once, at tick 2, to 1, and
a third machine, of two ticks, has it set to 0 or 2 at any moment and as often as one
likes. There timestamps stand still, go back and jump ahead.

- `UsageIsAPercentage`, `BusyTimeCountedOnce`, `TrafficCountedOnce`: unsigned
  differences never go below zero, and over all samples nothing is counted twice.
- `RatesStayNearLineSpeed`: what a rate is computed from fits into its elapsed time at
  line speed, but for two things. The counters are read up to two `vcgencmd`
  timeouts after the timestamp; and the clock may have been set back between the two
  timestamps, by `setBack`. Both are needed (TLC finds a rate beyond the bound without
  either), and the second has no limit in the code: when the clock is set back by
  nearly an interval, the elapsed time is tiny and the rate is a spike.
- `CollectorTypeOK`, with the fields of a rate: a clock that stands still or goes back
  never divides by zero or by a negative time.

### `dashboard`: the page

Ranges of one and three ticks, three points to an answer, a list limited to four, a
stream that holds three events; one or two requests under way (they overtake each
other); the clock runs from 1 to 3. Halving the list, late answers, overflow of the
stream and reconnects all happen. A reconnect brings the current sample first and then
what the channel held since `Subscribe`: the same sample, older ones, or newer. An
answer has room for all samples here; that a thinned one keeps its first and last is
the subject of `algorithms`, and `HistoryReturns` of the proofs has any limit.

- `MessageIsDrawn`: thinning out the list spares the newest sample.
- `SamplesGetDrawn`: when nobody clicks any more, each sample of the range is drawn
  from some time on again and again, whatever was overwritten by an answer asked for
  before it, refused by a full stream, lost with a broken one or thinned out. It speaks
  of a range that time does not move past, for of a shorter one a page that draws
  nothing could say that the sample has left it meanwhile.
- `OldSamplesLeave`: when nobody clicks any more, what is older than the range leaves
  the list, though the late answer to an earlier click may bring it back for a time.
- `DisorderHeals`: a reconnect can put samples into the list twice or out of order, and
  the line of the chart goes back and forth; the list is in order again sooner or
  later, for an answer replaces it. A page that merged answers into the list
  would keep the disorder.
- `DashboardTypeOK`, with the bound on the list.

Fairness: time passes, events are handled, requests end (weak); the reload timer
keeps firing and not every answer fails (strong). The page never stops polling, so
no more is needed; a mutant that polls only while offline breaks it.

### What the code does not do

Three runs state a sentence of the repository's documentation, and TLC finds a
behaviour of the code against it.

- `late_archive`: "Completed weeks are written atomically ..., then removed from
  SQLite" (README.md:62-64). An archive call at the turn of the week writes the
  file without the samples still in memory. Their flush puts them in SQLite; the
  next call finds the file, skips the week and deletes them. With the default
  hourly tickers this is up to an hour of samples a week.
- `split_window`: "Each sample in a wall-clock 5-second window is compared with the
  first sample in that window ... Volatile windows retain every 500 ms sample"
  (README.md:75-79). A flush in the middle of a window compacts its two parts one
  by one; each part can be stable although the window is not.
- `history_gap`: "History queries merge SQLite, the current memory batch and
  relevant Parquet archives" (README.md:67-68). A batch that a flush has detached
  is in none of the places a request reads, and one that is committed between the
  request's two reads is missed too.

## 4. What is proved

Every safety invariant, every action property and the refinement that the passing
runs check is a theorem; a theorem holds for all values of the constants that
satisfy the named assumptions, and has no other hypothesis. The assumptions:

- `SamplesAssumption`, `StoreAssumption`, `WebAssumption`: lengths are positive
  numbers, legacy tables are well formed, requested ranges are sets of times.
- `MonitorAssumption`: moreover legacy rows are not from the future, the clock
  starts before its bound, and there are finitely many intervals, at least one (of
  the flag `-persist-interval` a machine sees finitely many values).
- `DashboardAssumption`: ranges, limits and bounds are positive; a range is drawn
  from at least two points; the limit of the page is even, as 2000 is, and not less
  than `max_points`.
- `ClockAssumption`, `LifecycleAssumption`, `CollectorAssumption`: bounds, durations
  and counters are numbers in their ranges.
- `AlgorithmsAssumption`: the functions are called with lists of samples, a window
  is a list of readings (`IsReading`), a limit is not 1, and no two points of a
  history answer are the same, for rows come from a table with a key and
  `HistoryHasNoDuplicates`. With a clock that is set back a sample in memory can
  equal a row, and "none twice" then says too much of `Downsample`.

### The monitor and its store

`MonitorProofs` proves, for any number of samples, weeks, crashes and restarts:

- `Invariant`: `MonitorSpec => []IInv`
- `TypeCorrect`: `MonitorSpec => []MonitorTypeOK`
- `MemoryOrder`: `MonitorSpec => []MemoryNewerThanStore`
- `ArchivesCover`: `MonitorSpec => []ArchiveCoversRows`
- `RowsStay`: `MonitorSpec => StoredRowsStay`

The argument. None of the last three is inductive alone. That the file of a week
covers its rows needs to know, at the rename, that the rows read by the query are
still the rows of the week; nothing else writes to the table while the archiver
runs, because both run in one goroutine (`JobInv`: the archiver runs only in the
phases `init` and `archive`, `points` are the week's rows, and the week has no
file). That memory stays younger than the store needs that at most one of batch
and pending holds samples and both are in order (`MemoryInv`): the goroutine that
collects is the one that flushes. `IInv` is the conjunction of these with the
types. The step lemmas take the parts one at a time (`TypeStep`, `MemoryStep`,
`JobStep`, `CoverStep`), each with one step per action; `InvStep` puts them
together. They rest on the lemmas of `SamplesProofs`: a
compaction keeps only rows of its input, with their values and in their order
(`IsRowSlice`), and at least one of a nonempty input; an upsert adds exactly the
rows it is given.

### Every sample

`MonitorProofs` and `FaultProofs` prove that nothing is forgotten:

- `Refinement`: `MonitorSpec => SamplesMeetTheirFate`
- `Accounted`: `MonitorSpec => []EverySampleAccountedFor`
- `OthersAccounted`: `ClockSpec => []OtherSamplesAccountedFor`
- `ArchivesCoverAtAnyTime`: `ClockSpec => []ArchiveCoversRows`
- `RowsStayAtAnyTime`: `ClockSpec => StoredRowsStay`

The refinement sorts the actions of the monitor by their effect on samples
(a sample is taken; a batch is committed; memory is lost; rows are merged or
archived and deleted; nothing) and shows that each effect is a step of `SampleFate`.
It needs to know that a sample is in one place only (`PlacesInv`), and of a late
row that the file which came too early has an older one (`WeeksInv`): that is where
`erased` may happen at all. That a merged sample has a *later* stored one comes from
`CompactRepresents`: `CompactByInterval` keeps a last point of every window.

The accounting has to bound how far a row may be from a sample it stands for, in
time and in value. Each compaction may move the row within a window and its value by
twice the threshold, and what bounds their number is not a counter of restarts but the
recorded interval: a table is compacted only when that grows, so a row of a table
with interval `m` went through at most one compaction, that of its flush included,
for each interval up to `m` (`Compactions`). `RowsInv` says of every sample in the
store that a row is `Close` to it by the recorded interval: in time by at most
`(m - 1) * Compactions(m)`. Without any relation between the intervals no window
bounds it: with 2 and 3, the sample of tick 2 is merged into the row of tick 3, its
neighbour in a window of 2, and after a restart that row into the one of tick 5, in a
window of 3 that the sample was never in. (TLC finds this for 2 and 3, and no row
further away than the bound with ticks up to 6.) When of any two intervals the smaller divides
the larger (5 s, 10 s and 60 s are such), a window of the larger consists of windows
of the smaller, and `RowsInv` also says that the row is in the sample's window of
length `m` (`BucketsNest`).

The same invariant, `AccountInv(R)`, is proved for a clock that is set back. `R` is
the set of ticks that came more than once, empty in `Monitor`, and everything is
said of the other ticks. Of `MemoryInv`, which a set-back clock breaks, there remains
that two samples of memory are in order unless one is of `R`, and that no flush
overwrites a row but of `R` (`OrderInv`). What the archiver relies on does not even
need that: `SafeInv` (`MonitorTypeOK`, `JobInv` and `ArchiveCoversRows`) is inductive
without any order of timestamps. For this reason the lemmas of `SamplesProofs`
about upserts and compaction hold for equal and unordered timestamps, too; that
there is a last row with a key follows from the minimum principle `NatMinimum`.

### Requests and streams

`WebProofs` has the history requests of `Web`, with any number of requests and
streams:

- `RequestInvariant`: `Spec => [](IInv /\ HistoryInv)`
- `HistoryComplete`: `Spec => []HistoryKeepsStoredRows`
- `HistoryDistinct`: `Spec => []HistoryHasNoDuplicates`

Before its first read a request's rows are in the store; after SQLite, what it has
not found is in an archive, for rows only move in that direction (`RowsStay` and
`ArchivedGrows`); after the archives it has found all. And what it has found stays
older than anything memory will hold (`MemoryOrder` and `MemoryFresh`: only samples
of the present enter memory), so the pending samples it appends are new. That the
compaction of a start cannot come in between rests on the handlers being started
after `PreparePersistence` (`RunningMeta`).

`WebProofs` also has `WebTypes` and `StreamsComplete` (`WebTypeOK`,
`StreamMissesOnlyOverflow`), for any number of clients and any capacity.
`StreamInv` says of each open stream that every later sample has reached the client,
its channel or `dropped`, and that a stream before its first event has none.

### Power losses

`FaultProofs` proves `DurableRowsStay` (`DurableRowsSurvive`). `DurableInv` speaks of
every image SQLite may fall back to: no durable row is missing from image and files
together, and a row of an image whose week has a file is in the file, unless it was
merged away or late. The exception is needed: a power loss can undo a compaction whose rows were archived already, so `ArchiveCoversRows` itself is
*not* an invariant here.

`PowerLossTakesNewest` (`PowerLossLeavesNoHole`) needs more, for a power loss may
follow any number of others. `SuffixInv` says of every image that what it lacks of the
table, and no file has, is younger than all that the image or a file has (`Suffix`). A
commit keeps this because memory is younger than the store; an archive call, which
moves rows from the table to files that a power loss leaves, because it goes through
the weeks in order and leaves none behind it (`OldestInv`).

### The process, the collector, the functions, the page

`LifecycleProofs`, for all intervals, limits and durations: `LifecycleTypes`,
`StoreStaysOpen` and `ExitReportsLoss` by `ControlInv` (which positions of `main` go
with which of `Run`), `StopsWithinLimit` by `StopInv` (how `since` is bounded by the
timers at each position), `OnlyBlockingMakesStale` by `FreshInv` (the age and the
sample ticker's timer are bounded together).

`CollectorProofs`, for any cores, interfaces, counter width and timeouts:
`CollectorTypes`, `UsagesArePercentages`, `NoBusyTimeTwice` by `BusyInv` and
`NoTrafficTwice` by `TrafficInv` (what is not yet counted is at least what has gone
by since the remembered counter). `RatesAreNearLineSpeed` is for a clock that is set
to anything at any time. What has really passed since a timestamp is the difference on
the clock and what it was set back by, and that sum never decreases (`ClockInv`). In
real time, a step of `Collect` comes no later after the timestamp than the sensors
before it may have taken (`DelayInv`), and a counter went up since it was remembered
by no more than the line carries since *that* timestamp (`SpeedInv`).

`AlgorithmsProofs` proves that the loops do what the other modules take the functions
to do, for arguments of any length: `CompactionIsTheOperator`, `DeduplicateIsPure`,
`DownsampleSpans` and `RepresentativeSpeaks`. `LoopsInv` has one loop invariant each.
The rows put out so far are those that the operator has before `begin`
(`CompactionInv`); the array is untouched from `end` on, and before `begin` has the
points that no next one replaced, so that writing never overtakes reading
(`DeduplicateInv`); the points picked are those of the indices so far, which rise by
even steps (`DownsampleInv`). An operator's result is a function from some of the
positions of its argument, and a loop's a sequence: `Lists` says that the one
enumerates the other in order, and `ListsMore` and `ListsJoin` let it grow at its end.
That a position has a next one in a finite domain comes from the minimum principle,
not from induction. `JudgeInv` only says that the judgement is of the whole window; that
the last point speaks for the others is shown of each kind of metric by itself: two
points that are close to the first are close to each other (`NearSpeaks`).

`DashboardProofs` proves `PageBounded` (`DashboardTypeOK`) and `EventIsDrawn`
(`MessageIsDrawn`). The list is filtered by a recursive function (`Since`), of which
`SinceRecursion` first shows that there is one and `SinceReturns` what it returns:
elements of the list, not more than there were, and the last one if it is recent
enough. Both take the minimum principle (`LeastNatural`) for the induction. The list
has at most one sample more than the limit when it is thinned out, an odd number as
the limit is even, so the elements with an even index from 0 include the last
(`HalveReturns`); with an odd limit the newest sample would be the one that goes.
That an answer fits needs `FetchInv`: the time a request asks for ends in the present
of its click or reload, and does not begin after it.

The strengthened invariants (`IInv`, `FateInv`, `AccountInv`, `SuffixInv`, `RateInv`,
`LoopsInv`, `FetchInv` and the others) were all checked by TLC on the constants of their runs
before they were proved; `IInv` stays in `core`.

### Only model-checked

- Every liveness property (`ShutdownCompletes`, `SamplesBecomeDurable`,
  `CompletedWeeksLeaveSQLite`, `ShutdownEnds`, `HealthRecovers`, `SamplesGetDrawn`,
  `DisorderHeals`, `OldSamplesLeave`): the prover has no rules for fairness here.
- The three properties of the runs that expect a violation are false of the code.

## 5. Not modelled

- The plain sensors (temperature, frequency, fan, memory, disk, load, uptime): one
  file each, copied to the sample, and nothing kept between two samples. A failed
  sensor is a partial sample, which `Lifecycle` and `Monitor` treat as any other.
- The system information: read once, no state. `/api/system`, the static files and
  the security headers: constants. `/api/current` is the first event of a stream.
- The drawing of the dashboard, its cards and tables: functions of its samples.
- The installer and the service unit. That systemd starts the service again is why
  `Boot` is possible after every end of the process.
- The interval that shrinks and grows again: the recorded interval only grows
  (store.go:453), so rows of a run with a smaller one stay dense. No sample is lost
  by it, which `core` shows; whether the comment there (:437-439), which speaks of
  legacy rows, means these too is open.
- Cores that swap places. `stableWindow` compares the lists of cores place by place,
  and a core without a value leaves no place. When as many cores come in as drop out
  between two samples, a core is compared with its neighbour and a jump of its usage
  can go unseen, against the letter of README.md:76-86. It takes three cores and a
  window; the comparison itself is in `Thresholds`, the cores of `Collector` are
  not joined to it.
- Memory that grows while flushes fail (monitor.go:86): there is no limit to check.

Abstractions to keep in mind: reading the archives is one step (the directory is
listed once and files never change under their final name); a crash is the end of
the process, and a power loss, which only `Durability` has, of the machine; the
conversion of a row to Parquet and back keeps time, value and flag; JSON and HTTP
framing are left out; a channel send and the reading of it are steps, the network
is not; `Dashboard` takes browser and server to have one clock, and a history
without the gaps of the `history_gap` finding.
