# ScadaGuard in TLA+

A verification project for ScadaGuard: a C++ agent that runs beside an
industrial workstation, and a Python server that collects what agents report.
The TLA+ modules here are translated from the sources, model-checked with TLC on
small instances, and the safety of nine of them is proved with TLAPS for every
value of their constants. `PROJECT.json` is the index: components, runs, the map
from definitions to source lines, hazards, findings and theorems.

## The system

| Component | State it keeps | Operations | What makes it correct |
|---|---|---|---|
| Outbound delivery: `HttpCentralReporter`, `outbound_queue` of `LocalStorage` | queue rows with their next attempt, AUTOINCREMENT id, sequence number; retry gate in memory | `send_or_queue`, `flush`, `enqueue_event`, `mark_event_sent/failed` | bounded telemetry, incidents never dropped, nothing recorded twice, the queue drains as far as the server accepts it |
| Server ingest | `ingested_messages`, snapshots, incidents, agent row | one transaction per envelope | a repeated envelope changes nothing |
| Check scheduler | slots, queue, worker pool, executions | `run_once`, `worker_loop`, `finish_execution`, destructor | one execution per check, no slot lost, `run_once` returns although checks hang |
| Incident manager | one tracked entry per key, restored from the `incidents` table | `process`, constructor | one open incident per key over restarts, reminders within the cooldown, closing after recovery |
| Central configuration | server: desired row; agent: parameters in memory, working configuration, applied version | save, confirm, rescan; poll, validate, activate, persist, announce | what is shown as applied was persisted; a version names one content; what is confirmed is applied |
| Server offline monitor | `last_seen_at`, `current_status`, `agent_offline` incidents | `reconcile_offline_agents`, ingest, `update_agent` | one open incident, closed only after contact or a longer interval, a loss is reported and a recovery shown |
| Discovery scan | deque of directories, visited directories, candidates, limits, report | `MasterScadaDiscovery::scan` over `list_directory` | never enters what is restricted, keeps its limits, misses nothing without saying so, never replaces a named archive |
| Archive inspection and schema analysis | what was read of one database, a byte budget, a deadline | `inspect_sqlite`, `ArchiveSchemaAnalyzer::analyze` | stays within every limit; a cut never makes the analyzer surer |
| Health checks | log offset and identity, size of a file and since when; `log_state`, `file_state` | `LogPatternCheck::execute`, `FileActivityCheck::execute` | an error is reported, and once; silence and shrinking are real, over restarts |
| Data sources, signal quality | last sample and stable-since per signal; `signal_history` | `read_current`, `read_archive`, `analyze`, `compare_archive`, `restore_history` | frozen, gap and missing from the archive are true of all the samples |
| Local storage schema | migrations | constructor | a crash during migration leaves a database the next start can migrate |
| Server accounts and login limiter, views, web client | users, sessions, attempts | CRUD | the limiter's window |

The agent has one main thread (`Application::run`: poll configuration, discover,
run checks, analyse signals, process incidents, send, flush), a pool of check
workers and an HTTP thread whose rescan handler also sends. They share
`LocalStorage` (one mutex per call), the reporter and `discovery_mutex`. Agent
and server talk over HTTP: envelopes carry a `message_id` by which the server
deduplicates; configuration statuses carry none. The server runs request
handlers in READ COMMITTED sessions beside one maintenance loop.

What is hard: a reply that is lost after the server committed; live sends that
overtake the queue; two sending threads on one queue and one sequence counter;
workers the scheduler has given up on; restarts between any two durable writes;
server sessions that decide on rows another session has changed since; a
SQLAlchemy session that writes only columns whose value differs from what it
loaded, so that a stale assignment can be no write at all; a walk whose limits
cut it at six places.

## Modules

**`DeliveryPromise`** is the abstract specification of sending: messages are
created, held in memory, kept durably and applied at most once; only messages in
memory are lost in a crash, and only kept telemetry may be dropped.

**`OutboundDelivery`** implements it. One action per step of the code: `Make`
(`next_sequence_number` and `make_message`), `Sent`/`Queue` (the two outcomes of
`send_or_queue`, the second with all of `enqueue_event`), `FlushRead`,
`FlushPost`, `FlushSent`, `FlushFailed`, `FlushClosed` and `FlushDone` (`flush`),
`GateOpens` and `RowDue` (timers), `Ingest` and `Arrive` (the server's
transaction, in time or late), `GiveUp`, `LinkDown`, `LinkUp`, `Crash`,
`Supersede` (a newer configuration makes the server refuse a queued status).
`Accepts` is the server's verdict: a status may be superseded (409), and what
`Fits` says no to (`unfit`, decided when a message of a kind in `Refusable` is
made) is refused with 422 or 403 and rolled back, now and at every later attempt.
An answer of 401 is an outage.
`rows`, `nextId` and `seq` are SQLite tables; `stage` is the place of the main
thread in `cycle()`. A message is its `message_id`, kind and number. A migrated
`event_queue` row has no `delivery_path`, so it can never be sent.

**`CheckScheduler`**: `run_once` as `StartRun`, `SubmitNew`/`SubmitJoin`, `Push`,
`Await`, `Return`; a worker as `Pop`, `Cancel` or `Execute`, `Save`, `Complete`,
`SetPromise`, `Release`, `Leave`; the shutdown as `RequestStop`,
`DestroyStorage`, `SetStopping`, `StopSlot`, `Destroyed`, in the order in which
the members of `Application::Impl` are destroyed. `Stuck` names the checks that
never return, `StorageChecks` those that store before they return.

**`IncidentLifecycle`**: `process()` per result, `save_incident`, the message at the
end of the cycle, its arrival at `persist_incidents` (`Deliver`, of any message under
way, because a live send overtakes what is queued), and a crash that restores the
manager from the table. `overtaken` remembers the incidents whose recovery arrived
before an earlier message about them. Times are ages in cycles, capped at the longest
delay.

**`OfflineMonitor`**: a pass of `reconcile_offline_agents` as `StartPass` (read
the agents), `Judge` (look up one incident and decide) and `CommitPass`, beside
`Receive` and `Store`, the two ends of an ingest session, and `UpdateAgent`, which
enables or disables an agent and sets the heartbeat interval of its row; the
tolerated silence (`Threshold`) is three intervals, or the default if that is more.
Time is ticks since `last_seen_at`.

**`CentralConfig`**: `Edit` and `Save` are the two ends of `save_configuration`,
`Note` and `NoteCommit` those of `agent_configuration_status`; `Fetch`, `Reject`,
`Activate`, `ActivateFails`, `AnnounceApplied`, `Scan` and `ScanFails` are the
steps of `poll_central_configuration`, `Restart` the constructor. A body is
reduced to what decides its fate: whether `server_url` is null, empty, this server
or another one, whether the agent's host has what it names, and the rescan request.
`Activate` builds a new reporter when the URL changes (`base`, `reporter`): what is
announced from then on goes to the other server (`astray`), and this row is polled
again only after a restart.

**`DiscoveryScan`**: one `scan()`. `Gather` collects components and roots,
`WalkEnds`, `WalkTruncated` and `NextDirectory` are the head of the loop,
`ListingFails`, `ListedTooLate` and `Listed` the call of `list_directory`,
`Directory`, `File`, `FileLimit` and `EntriesDone` the loop over the entries,
`Choose` all that follows the walk; `TimeIsUp` and `RequestStop` come between any two
of them. The disk is a constant of the scan, a member of `Sites`: a tree with drives,
system directories and junctions, what names each directory (each kind of evidence
once), and for each file the properties that give points and whether it can be read
(`locked`, `Visible`). `Listed` may leave out any entries, as a listing does whose
iteration fails or whose directory may not be read; `lost` remembers them. Paths are
numbers and `path_key` is their identity; roots start in any order, because they are
sorted by name.

**`ArchiveInspection`** is what the scan calls for a candidate: one
`inspect_sqlite`, query by query (`Open`, `NextObject`, `ReadColumns`,
`ReadIndexes`, `ReadForeignKeys`, `Count`, `ReadRow`, `ReadRange`, `Finish`), with
`Analyze` for `ArchiveSchemaAnalyzer::analyze`. `Expire` is the deadline, which
the progress handler notices inside a query that runs long: each query ends at
any row after it, and so does any other failure of SQLite (`Breaks`). `errcode` is
SQLite's error code of the last query. The byte
budget is used up cell by cell; a cell keeps what the analyzer sees of its text
(a number, a timestamp's characters, half a character) and its cost. The columns
of an index are read with the index. Column names are the sets of words they
contain, one per role.

**`FileChecks`** is one file under one of the two checks with state. The owner of
the file appends, truncates, rotates; `Start`, `Identify`, `Measure`, `ReadData`,
`SaveLog`, `Match` are `LogPatternCheck::execute` (the path is looked up three
times), `Judge` and `SaveActivity` are `FileActivityCheck::execute`, `Finish` the
delivery of the result, `GiveUp` the scheduler's timeout, `SaveFails` a refused
write and `Crash` a restart from the tables. Units of text are the serial numbers
in which they were written, and what a pattern finds is a pair of neighbours
(`Errors`). `Group` says to which group the pattern belongs and `Place` where it
stands in it: `Match` names the first pattern of each group that is in the chunk
(`Found`), and `overshadowed` remembers the others.

**`SignalQuality`** is the part of `Application::cycle` that looks at signals:
`ReadCurrent`, `SaveSample` per signal, `Analyze`, `Compare`, `Finish`, an
exception (`Fails`) and a restart (`Crash`, with `restore_history`). Samples may
come late. The archive holds any part of what was ever produced, and a read gives
the oldest samples of the window up to a batch, or fewer when the deadline or the
byte limit ends it. `format` is how the archive writes its times: as the agent does
(`utc`), as other text or as numbers. The read compares text (`InRange`): of the
other formats the window shows nothing, or a row whose time does not parse and ends
the look (`NotParsed`). The problems one sample shows by itself (`bad_quality`,
`out_of_range`, `invalid_sentinel`) and the rate of change are left out.

`MC...` modules only give constants their values. `...Proofs` modules hold the
theorems; `DiscoveryProofs` those of both discovery modules, which share its lemmas
about sums and sequences, so that `ArchiveInspection` names its parts apart from
those of `DiscoveryScan` (`InspectSpec`, `query`, `overdue`, `schema_candidates`).

Composition. Each module contains the neighbours its properties need:
`OutboundDelivery` the server's ingest and the rescan thread, `CheckScheduler`
the storage it outlives, `IncidentLifecycle` the table, the transport and the
server, `CentralConfig` both sides. `IncidentLifecycle` sees the transport as
`OutboundDelivery` shows it for messages the server does not refuse: every message
arrives once, in any order; `CentralConfig` takes
from it that an announcement may arrive late or repeatedly. `CentralConfig` sees a
scan as `Scan` or `ScanFails`; what happens inside is `DiscoveryScan`, which sees
the inspection of a database as its outcome; what happens inside that is
`ArchiveInspection`. `FileChecks` contains what the scheduler does to an execution
(give up, deliver or drop) as `CheckScheduler` shows it.

## Runs

| Run | Question | Bounds |
|---|---|---|
| `delivery` | Queue bound, at most one record, number order, survival of queued incidents, refinement of `DeliveryPromise`; does every queued message leave the queue, unless it stands behind one that is refused for ever? | incident messages may be refused, 2 messages, queue of 1, flush of 2, one outage, one crash, a database that may be migrated with an unsent event |
| `delivery_poison` | Violation: a superseded status keeps incidents from being sent | 2 messages, 1 outage |
| `scheduler` | Single flight, slots, returns, frees and leaves | 2 checks, one stuck, 2 workers, 2 executions each |
| `scheduler_shutdown` | Violation: storage is destroyed under a running check | 2 checks, 1 worker |
| `incidents` | One active incident per key, memory and table, server view, cooldown, closing | 2 checks, 2 incidents, 2 crashes, 3 messages under way in any order |
| `monitor` | One open incident, contact or a longer interval before closing, loss reported, recovery shown | 1 agent, 2 requests, default threshold 2, intervals of 0 and 1 ticks (3 tolerated), one failure, two changes by an administrator |
| `config` | Applied means persisted, versions, usable configurations applied, rescans done | 2 administrators, 3 saves, 1 fault, a URL that is empty or names another server |
| `config_null_url` | Violation: what the web client confirms is never applied | 1 save |
| `discovery` | What the walk enters, limits, completeness, choice and alarms | 3 directories in every tree, 2 files, short listings and a locked file, limits of 1 to 3 directories, 1 to 2 files, depth 1 to 2 |
| `inspection` | Limits and budget, opaque names never give high confidence, a cut never raises it | 5 databases; 2 of up to 3 objects, 3 of 4 columns, 2 indexes, 4 of 5 rows, 8 bytes of samples, 3 per cell |
| `file_checks` | Errors reported, once; reading catches up; silence and shrinking are real | 4 units, 3 errors in 2 groups, chunks of 3, 2 files, 2 ticks, 2 faults |
| `quality` | The newest is remembered; frozen, gap and archive-missing are true | 2 signals (3 samples and 1), 3 formats of times, 3 ticks, batch of 2, 2 faults |

Why the bounds are enough: every hazard listed needs at most two actors and three
objects: a queue of one row is full with two messages, and a migrated event that
has waited before the first trim is the third; two of anything that can overlap
overlap. Three messages of one incident can arrive in any order, a reminder between
its opening and its recovery included. Four units hold three errors: two of one
group in a chunk, of which the later one hides the earlier, and one of another
group, inside a chunk or across two; and a file that was read in part, cut and grown
again. An interval of one tick tolerates three, more than the default of two, so that
raising it makes an overdue agent one that is not. Three samples are a
previous one, a new one and a late one between or before them; the second signal
shows what a window taken from the first one misses. The databases of
`MCArchiveInspection` exceed every limit once, with texts that end before, at and
behind a cut. Agents of `OfflineMonitor` share
nothing but the commit of a pass, so one is checked and the theorem covers the
others. Behaviours that need more (a version taken back needs four saves) were
looked at by simulation, and the theorems hold for all values. Three directories
in every tree suffice for `DiscoveryScan`: a root below another root and a child
that only one of them reaches, or a drive with a system directory that has a child.
`MCSites` varies the walk, the restrictions and the choice one at a time. Deadlock is
checked except where the system stops: after a shutdown (`CheckScheduler`), when
nobody saves any more (`CentralConfig`), and when a scan or an inspection is done.

Fairness. The main loop, the HTTP thread and the maintenance loop are endless
loops without a blocking wait that is not bounded by a timeout: weak fairness.
Timers expire: weak fairness of `GateOpens` and `RowDue`. `Heartbeat` has strong
fairness because cycles may skip it while its interval has not elapsed, but the
interval elapses again and again. The link comes back and an HTTP call ends by
reply or timeout. In `OfflineMonitor` a connected agent keeps sending heartbeats
and keeps having some of them stored (strong fairness: each can fail). A connected
agent is heard within `Beat` ticks whatever interval its row names: the agent has the
interval in its own configuration, and nothing ties the two. `RecoveryIsShown` needs
that this is no more than the default threshold.
In `OutboundDelivery` a flush is only started after a heartbeat has been accepted, so
that draining rests on heartbeats the server takes.
The scheduler runs a check in every
cycle and its executions end: weak fairness of `Step` in `FileChecks`.
`StorageOutlivesChecks` and `ServerShowsRecovery` need none. No
fairness is assumed of checks (those in `Stuck` never return), administrators or
the arrival of announcements.

Each property of a passing run has a mutant in `PROJECT.json`: the module defines
beside the operator `X` a plausible bug `X_...` (a trim that is off by one, a lost
marker, a slot freed too early, an incident closed while its agent is silent),
with which TLC finds the property violated. They are nowhere used by the
specification itself.

## What the code does differently from what it says

- `delivery_poison`: `flush` stops at the first row that is not answered 2xx. A
  status answered 409 for ever holds back everything that is queued after it.
- `scheduler_shutdown`: detached workers retain more than core and slots: their
  check uses `LocalStorage`, which is destroyed before the scheduler.
- `config_null_url`: the agent throws on the null that the server always sends.

Known and not given a run:

- Delivery: `enqueue_event` consumes a sequence number, so numbers have holes without
  loss; an envelope of any kind that the server refuses with 422 or 403 blocks what
  is queued behind it in the same way (`Stuck`).
- Incidents: a direct send overtakes the queue, and the server shows an incident open
  whose recovery arrived before an earlier message about it (`overtaken`); the
  incident of a timeout has a key no later result touches and stays open, like the
  incidents of signals and data sources, for which no result is ever ok; a restart
  may remind within the cooldown.
- Offline monitor: an administrator who raises an agent's heartbeat interval closes
  its open incident as recovered without any contact (`eased`), although
  `docs/system-architecture.md:5` says that it is closed after recovery; a duplicate
  does not refresh `last_seen_at`.
- Central configuration: a configuration that names another server makes the agent
  build its reporter for that one before it announces anything: here it is never
  shown as applied, rescans that are asked for here are not done, and the agent falls
  silent here until it is restarted; overlapping saves give two contents one version;
  a save between check and write of a status shows the new version as applied; a
  failed scan loses its rescan request; an agent that has persisted a working
  configuration does not start again, because its archive source is moved out of a
  moved-from configuration (`application.cpp:161`, `up` in `Restart`).
- Discovery: a scan that is truncated or stopped reports an existing named archive as
  disappeared, and so does a complete one if the archive cannot be read (it is
  locked) or its directory was listed short; a listing whose iteration fails, or of a
  directory that may not be read, ends without a warning or `truncated`, and what it
  leaves out is missed silently (`lost`); a strong archive that cannot be read does
  not compete in the choice; a root that is itself a junction is walked, although
  `docs/archive-discovery.md:7` excludes reparse points; a known directory that is
  also named by the administrator counts as a detection by its points alone.
- Inspection: a text that the byte budget or the cell limit cuts within a UTF-8
  character makes the `dump()` of the analyzer throw, which ends the discovery
  (`thrown`); only the bytes read of texts and blobs are charged to the budget, so
  that samples with numbers, or with the words that stand for blobs, can exceed the
  64 KiB of `docs/archive-discovery.md:9`; the deadline is an error only if the last
  query was the one it cut, and a query that fails otherwise (`SQLITE_BUSY`,
  `SQLITE_CORRUPT`) ends early without any error in the report; a blob is replaced by
  words that contain a `t` and so counts as a timestamp; an index supports the time
  range wherever in it the timestamp stands (`windows_discovery.cpp:694`), not only
  in first place; one column may take several roles.
- File checks: the offset is stored before the data is searched, so that an execution
  that was given up on, or a crash, loses its matches; of the patterns of one group
  only the first that is found in a chunk is reported, and what the others would find
  there is passed (`overshadowed`); a pattern across two chunks is in neither; the
  tail that was not read before a rotation is lost; a file replaced between the
  lookup of its identity and its data is read twice; a file truncated and grown past
  the old offset is read from there; a rewrite to the same size counts as silence.
- Signals: a drift within epsilon per sample is reported as frozen; a restart starts
  the time of standing still anew; a late sample moves it; the archive is asked only
  from a minute before the first signal's sample and cut at the batch, so that a
  sample that is there is reported as missing; an archive that writes its times in
  another text format, or as numbers, shows none of its rows to a comparison with
  text in the agent's format, so that every sample that is due is reported as
  missing, or shows one whose time does not parse and ends the look of every cycle;
  there is no warning in either case.

The properties that these would break name them (`Stuck`, `overtaken`, `eased`,
`reporter`, `lost`, `locked`, `overshadowed`, `format`) or state the condition
(`crashes = 0`, `~clash`, `failures = 0`, `~truncated`, `undelivered`, `borders`,
`skipped`, `swapped`, `fooled`, `missed`, `late`, `whole`).

## Proofs

Assumptions are those named in the modules: bounds and sizes are natural numbers,
queue and flush sizes positive (validated by the code), no heartbeat reports
`offline`. `DatabaseAssumption`
says what SQLite can store, in the model's data: a file is a sequence of tables and
views with typed columns, indexes, keys and rows of cells, and cutting a text at its
own end does not tear a character.

`OutboundDeliveryProofs` proves `Bookkeeping` inductive. None of the claims is
inductive alone. That a message is recorded once needs the markers to agree with
the effects (`Recording`) and messages to be told apart by their ids (`Minting`).
That an incident leaves the queue only when recorded needs that the row a flush
deletes is the row of the message the server has just accepted (`BatchTracks`:
ids and messages of batch and table correspond although a rescan trims the table
meanwhile), and that needs ids never to be reused (`QueueKeyed`). The refinement
of `DeliveryPromise` maps each action to a step or a stutter with the help of
`LiveIsNew` (a message that is sent live is neither queued nor in other hands).
The telemetry bound is a counting argument on `Oldest`: the trim removes the
excess, so that one insertion fits.

`CheckSchedulerProofs` proves `Ownership`: each reserved slot has exactly one
owner among the thread that pushes it, the queue and the workers. Single flight
and the absence of lost slots follow.

`OfflineMonitorProofs` proves `Monitoring`: what a pass has decided stays true
until it commits because nobody else changes incidents, and an open incident
means that its agent is overdue, was heard from since or was given a longer interval
(`SilenceKnown`). From that, at most one open incident, no alarm before contact, and
closing only after contact or a longer interval.

`CentralConfigProofs` proves `Configuring`: versions count saves, the agent's
versions follow the persisted one, and announcements of success name persisted
versions. From that, applied means persisted, only newer versions replace, a
version names one content.

`DiscoveryProofs` proves three invariants. `Walking`: the walk stays on its site
because nothing that may not be entered ever gets into the deque: roots are
filtered, and a child of an enterable directory is restricted only if its parent is
(the assumption on `Sites` that says where drives and system directories lie,
`ChildMayBeEntered`). That the choice is right needs that every examined file has
left its candidates, and that they are finite (`Remembered`, `Counted`).

`Tracing` is what completeness needs. What a listing left out lies in a directory
that was opened, and stays unseen unless another way leads to it (`LeftOut`). The
scan marks a directory as visited at the depth of whichever entry came first; if that
entry were not the nearest, the depth limit would leave out directories within reach,
silently. So the deque has to be that of a breadth-first search, and no state says
so: `Tracing` asks for a function `level` from the visited directories to depths,
such that each is reached by a way of that length (`Routes`), the deque holds entries
of at most two depths, in order (`Breadth`), no directory has a depth beyond what
waits in front (`InFront`), and whatever a visited, listable directory was seen to
lead to is visited no deeper than one below it, waits in the deque, or is still in
the listing in hand (`NothingLost`). Each action gives the new `level` as a witness.
When a walk ends with an empty deque, nothing waits, and induction over the depth (as
the least element of a set of naturals) shows that the layers of `InReach` are
visited, and in return that what is visited is within reach. `NothingMissed` follows,
and `AlarmIsReal` because the directory of a named archive is itself a root: a
complete walk has visited it and examined the file, unless one of the reasons the
property names kept it away, a short listing and an unreadable file among them.

`Inspecting` says what an inspection has in hand: the first objects of the file,
and of each a prefix of its columns, prefixes of some of its indexes, some keys and
prefixes of its first rows, where each cell shows what a prefix of the stored one
shows (`CutOf`), within the limits (`Bounded`), and paid for (`Budgeted`: samples and
what is left make up the budget, an equation over nested folds that `RowMore`,
`ObjectMore` and `LastObject` turn into steps of running sums). `WithinLimits`
follows. `CutNeverRaises` is a statement about the analyzer: `NoMore` compares what
two readings of a table show, every score of a column and so every best score is
monotone in it, hence the confidence is (`ConfidenceGrows`), and `CutShowsNoMore`
leads from a cut to `NoMore`; cut within a text, a cell shows a timestamp only if the
whole cell does. `OpaqueNeverHigh` is a bound: without help from names a timestamp
earns at most 18 points, an identifier 14 and a value 18, 50 together, less than
the 55 of high confidence.

`IncidentLifecycleProofs` proves `Lifecycle`: the table's incidents are keyed by the
check's key with one active at most (`TableKeyed`), the manager's entry of a key is
the newest incident of it (`MemoryFollows`), and only the incident of the result in
hand may be ahead of the table (`OneUnsaved`). One active incident per key and the
agreement of memory and table between cycles follow. That the server shows a recovery
needs more, for messages that arrive in any order: until a crash, each message under
way about an incident says that it is open, or is its recovery and the last one that
was sent about it; and the server's row says what the table says once none is under
way, unless the recovery has overtaken another (`Informed`, `Told`). The cooldown
needs `Timely`: until a crash the manager knows when each incident was last notified,
and an event that waits was due when it was made; a result gives one event at most
(`OnePerResult`).

`SignalQualityProofs` proves `Remembering`: the analyzer keeps one sample and one
time per signal, and these stand for all the samples analysed. The sample is the
newest (`RemembersNewest`), what was analysed had been stored before
(`StoredFirst`), and the time is the earliest from which the samples stand still
(`SinceIsEarliest`). A
sample that is not late adds one adjacent pair, the remembered sample and the new
one, so that one comparison decides about all of them; frozen and the gap follow.
For `MissingIsReal`, about archives that write times as the agent does, the nearest
sample exists because distances are natural
numbers (the least element of a set of naturals).

`FileChecksProofs` proves `Watching`. For the log, a position is counted in the file
it was read from (`CountsIn`: files are numbered upwards, and an offset that is
kept was counted in no older file than it names), and every pattern it has passed
is accounted for: reported, in a result that was lost, on the border of two chunks,
behind an earlier pattern of its group that was named instead, or in the chunk in
hand (`Covers`, for memory and for the table, which lags behind).
That nothing is reported twice needs `ReadOnce`: what was reported lies before the
place from which memory, and the table after a restart, make the check read; a
truncation or a new file moves that place beyond all that was ever written. For
the activity check, memory and table hold the size that was last told unless a
result was lost (`ActivityTold`), and the file has not changed since the kept time
(`SinceIsTrue`).

Every safety invariant of the passing runs is proved. Model-checked only: everything
about liveness (`QueueDrains`, `RunOnceReturns`, `HealthyChecksFinish`,
`WorkersLeave`, `HealthIncidentsClose`, `LossIsReported`, `RecoveryIsShown`,
`GivenIsApplied`, `RescanIsDone`, `CatchesUp`), which is out of the prover's reach.

Proved and not checked by a run: the inductive invariants, `NoAlarmBeforeContact`,
`WorkingIsUsable` and `VersionNamesOneBody`.

## Not modelled

Payloads, formatting, HTML and HTTP details, TLS, the Windows calls of checks and
discovery, retention of old samples, views and the web client: no state that changes,
or no interaction. The checks that look at a process, a service, a port, a disk or a
file once remember nothing. In `OutboundDelivery` the stop request is the crash. In
`OfflineMonitor` a second maintenance loop (several server processes) is not
modelled: the deployment starts one. In `CentralConfig` one announcement is handled
at a time, because the agent sends them one by one; another server is one that has no
configuration for the agent, and its row is not modelled. The run enters an empty URL
and that of another server; the theorems cover all. In `FileChecks` file ids are not
used again and all patterns have two units; in `SignalQuality` a signal has one
sample for each source timestamp, and every signal has a rule.

## Plan

Done: delivery, scheduler, incidents, offline monitor, central configuration, the
discovery scan, the inspection of archives, the checks with state and the quality
of signals, in the order of what loses data or alarms first. Left:

1. `StorageMigration`: the migration steps with their transactions and crashes.
2. `LoginLimiter`: the window and its reset.
3. An end-to-end module: incidents over the real outbound queue instead of its
   summary, with an abstract specification of what an operator sees.
4. Theorems: the invariants of items 1 and 2, and the refinement of item 3.
