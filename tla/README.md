# A TLA+ model of the encrypted traffic capture system

The repository runs web captures on several machines: a Vue frontend talks to a
*Master* (Flask), the Master hands experiments to *Workers* (Flask, one per
machine), a Worker runs `wiki_fetcher.py` in a child process (a browser beside
`tshark`), the packets may be reduced to features in the background, and
analysis scripts turn them into flow tables.  This directory holds TLA+ modules
of the parts whose difficulty is concurrency, crashes, unreliable calls or event
order, TLC configurations that check them, and TLAPS proofs.

## 1. Inventory

| Component | Code | State it keeps | What is hard | Models |
|---|---|---|---|---|
| Worker task manager | `worker_agent/task_runner.py`, `task_store.py` | `tasks` table, task directories, in-memory queue, active task and child, stop event, submission lock | four handler threads and one consumer share rows with one lock that only resume takes; every store call is a transaction of its own; a crash between any two | `WorkerTask`, `ProgressFeed` |
| Worker HTTP API | `worker_agent/app.py`, `schema.py` | none of its own | idempotent submission; a second validation of what the Master accepted | `WorkerTask`, `JobContract` |
| Extraction jobs of the Worker | `worker_agent/extraction_jobs.py` | extraction rows in the `tasks` table, their own queue | excluding captures and resumes of the source by looking at each other's rows; giving way between units | `ExtractionJobs` |
| Master dispatcher | `master_server/dispatcher.py` | entry queue, accepted jobs, futures, one pool per Worker, local variables of each `_run_target` | callbacks of several threads publish one row; calls are lost before or after taking effect; restarts repeat calls | `JobDispatch`, `JobLifecycle`, `ProgressFeed` |
| Master store and HTTP API | `master_server/store.py`, `app.py`, `schema.py` | jobs, executions, machines | conditional updates, aggregated status; creation and enqueuing are two steps | `JobDispatch`, `JobContract` |
| Master client of the Worker | `master_server/worker_client.py` | none | every failure is one exception | `JobDispatch`, `JobContract` |
| Capture process | `wiki_fetcher.py`, `capture_readiness.py` | unit directories, markers, progress file, capture tool, driver, profile | crash between artifacts and marker; the tool must listen before the browser starts | `CaptureRun`, `CaptureSession` |
| Extraction of PCAPs | `capture_extraction.py` | receipts, locks, the background queue and its record | evidence is deleted only after a verified receipt; bounded queue; consumer thread and processes | `ExtractReceipt`, `CaptureRun` |
| Processes, temporary files | `process_ownership.py`, `capture_temp_cleanup.py` | the identity of a child, registered profiles | process numbers are reused while `/proc` is read; stale registrations | `ProcessOwner`, `CaptureSession` |
| Browsers | `browser_loading.py`, `browser_cache.py`, `browser_firefox.py`, `browser_service.py` | request ledger, targets, observed responses | two event streams of one truth; three threads over one connection; late events of a page that is gone | `NetworkIdle`, `CachePolicy`, `FirefoxPolicy` |
| Analysis scripts | `analysis_scripts/` | flow tables; the results of a retried batch | ports and streams that are reused, packets in any order; threads, a shared stop flag, kills | `FlowTables`, `RetryRun` |
| Collections, result pages | `master_server/collection_queries.py`, `data_queries.py`, `extractions.py` | revisions, snapshots | | not modelled |
| Watchdog, frontend, legacy fetcher, deployment | `worker_agent/watchdog.py`, `frontend/`, root scripts | | | not modelled |

The Master and a Worker interact by HTTP calls only: submit, resume, cancel,
get, progress, result.  A Worker and its capture interact by the process (exit
code, signals) and by files (markers, progress, the record of the extraction
queue).  Inside each service threads share the database and the memory of the
process.  `PROJECT.json` lists the hazards, each at its line, with the properties
that would catch it, and says of every component what is left out.

## 2. Modules

| Module | Models | State |
|---|---|---|
| `WorkerTask` | `TaskManager` with `TaskStore` | rows, queue, consumer, handlers |
| `ExtractionJobs` | extraction jobs beside captures in the same `TaskManager` | source, job rows, two queues, consumer, cancel, files |
| `JobDispatch` | `JobDispatcher` with the rows of `MasterStore` and the job routes | rows, queue, router, pools, callbacks, Worker tasks behind lossy calls |
| `JobLifecycle` | what a client may rely on: the abstract specification of `JobDispatch` | phase, round, targets in flight |
| `JobContract` | the two validations of a job and the payload between them | job, rows, Workers, tasks |
| `ProgressFeed` | fetcher, Worker pages and Master cursor of the live progress | markers, progress file, page, cursor, rows |
| `CaptureRun` | runs of `wiki_fetcher.py` over one input with the `ExtractionQueue` | markers, receipts, record, main thread, consumer thread, extraction process |
| `CaptureSession` | the attempts at one unit | artifacts, marker, profile, registry, tool, browsers, cleaner |
| `ExtractReceipt` | the files of one unit: capture, `extract_one`, retirement | files, checkpoint, receipt, capture process, extractors |
| `ProcessOwner` | `LinuxProcessOwner.terminate` against a host that forks and reuses numbers | process table, binding, call |
| `NetworkIdle` | `NetworkIdleTracker`: is the page loaded? | browser, two streams, ledger |
| `CachePolicy` | `ChromiumCachePolicy`: every target without its caches | targets, connection, three threads |
| `FirefoxPolicy` | `FirefoxNetworkPolicy`: which cached image is excused | requests, documents, ledger |
| `FlowTables` | from packets to flow files, headers, sequences, verification | capture, tables, flows |
| `RetryRun` | `retry_failed.py`: a failed batch tried again | results, folders, threads, stop flag |
| `*_proofs` | theorems about `WorkerTask`, `JobDispatch` with `JobLifecycle`, `ProcessOwner`; `Unit_proofs` about `ExtractReceipt` and `NetworkIdle`, `Ends_proofs` about `ExtractionJobs` and `JobContract`, `Browser_proofs` about `FirefoxPolicy` and `CachePolicy`, `Capture_proofs` about `CaptureRun` and `CaptureSession`, `Results_proofs` about `RetryRun`, `ProgressFeed` and `FlowTables` | |
| `MCWorkerTask`, `MCJobDispatch`, `MCExtractionJobs`, `MCJobContract` | model values, symmetry, instances of one module | |
| `MCWorker`, `MCEnds`, `MCBrowser`, `MCFetcher`, `MCResults` | several components checked side by side | `component` |
| `ContractSamples`, `FlowSamples` | the bodies and Workers, and the packets, that are enumerated | |

The modules of the last group but one hold several components that share no
state in the model.  Their variable `component` is chosen in the initial
state and never changes; only the named component moves, the others stay as they
begin.  So a behaviour of the union is a behaviour of one component, each with
the constants that the configuration or its `INSTANCE` gives it, and the state space
is the sum of theirs, not the product.  A property of a component that does not move holds in its
initial state; liveness of it is vacuous, and fairness is of its own steps only.

### WorkerTask

The table is `status`, `cancelRequested`, `resumeToken`, `hasResult`,
`createdAt`; the file system is `taskDir`.  The process is `up`, `stopEvent`,
`queue`, `lock` (`_submission_lock`), `active` (`_active_task_id`) and
`process` (`_active_process`).  The consumer is a program counter `pc` with
`cur`, `cmd` (capture, drain of a pipelined capture, analysis) and `retries`;
each handler thread is a record `call[h]` with its next step and the status it
read.  A step is one call of the store with the local work beside it, so that
every interleaving of two calls is a behaviour: `CancelRead`, `CancelFlag`,
`CancelApply`, `CancelMark` and `CancelKill` are the five accesses of `cancel`;
`ResumeSelect` and `ResumeUpdate` are the two statements of `resume_task`, whose
SELECT runs in its own transaction.  `_run_task` is `Start` ... `Log` with the
exceptions as the steps `EndCanceled`, `EndFailed`, `EndPaused`; an exception in
one of these ends the thread (`pc = "dead"`).  `Exit` is a crash at any time or
the end of a shutdown; `Restart` is the constructor with
`recover_incomplete_tasks`.

Left out: extraction tasks (`ExtractionJobs`), the pages of progress
(`ProgressFeed`), pid columns, log contents, the status of single units inside a manifest.  After
`ShutdownBegin` no new request is accepted; handlers at work go on.

### JobDispatch

A job targets every machine, with one URL and one browser, so that a target has
one row `exec[j][m]` and one `evidence[j][m]` (the status in `result_json`).
`queued` is `_queued`, `futures` and `remaining` are the futures and the counter
of the callbacks, `router` the routing thread, `pool[m]` and `thread[m]` the
one-thread executor of a Worker with the local variables of `_run_target`
(`seen` is the status in `task`, `sent` is `cancel_sent`).  `work[j][m]` is the
Worker's task; a call (`Call`) may fail before or after it took effect.  ACTIVE
stands for every status of a Worker task that has not ended; `WorkerTask` says
how it ends.  A section under `_lock` is one step, except `cancel`, which is one
step per future because each `future.cancel()` runs a callback; `lock` keeps
others out meanwhile.  Writes of the executions that are not under the lock
(`TargetApply`, `Conclude`) are steps of their own, before the callback.

Left out: `probe` and the machine rows (a machine that is disabled or lacks a
browser is the constant `Unfit`), what a job contains (`JobContract`), the pages
of progress (`ProgressFeed`), names, time stamps.

### JobLifecycle

A job is ABSENT, ACTIVE or has an outcome; targets are handed out and settle;
an outcome appears with the last target or with none handed out; only a resume
takes it back, and starts a new round.  `JobDispatch` implements it under the
mapping `phase` = the status with all active statuses merged, `inFlight` = the
targets in a pool or on a pool thread (`FollowsLifecycle`).

### ExtractReceipt

One unit: a URL directory and a browser.  `pcap`, `keylog`, `marker`
(`capture_<browser>.complete.json`), `receipt` (`extraction_<browser>.json`) and
`results` are its files; `cap` is the next step of the capture process
(`_run_entry` with `_clear_incomplete_artifacts`, `_fetch_with` and
`_mark_complete`), `ext[e]` the local variables of an `extract_one` (`prev` is
whether `previous` holds, `missing` and `mem` are `missing` and `receipt`), and
`lock` the unit lock.  A file is the number of the capture that wrote it, its
*version*, and a state: `intact`, `altered` (same size, other contents) or `cut`.
So a checkpoint, which records sizes, and a signature, which records contents,
differ as they do in the code: `CheckpointValid` and `Verified(FALSE)` accept
what `Verified(TRUE)` does not.

Each program may be killed between two writes (`CaptureKilled`,
`ExtractKilled`), every write and check may fail (`Raise`), and files may be
damaged from outside, which `damaged` remembers by version.  The exception path
of `_extract_one` exists only after its `try` (`missing # {}`), as in the code.

Assumed: capture and extraction of one unit do not overlap, which is checked
elsewhere: within a task by `ExtractionApart` of `CaptureRun`, between tasks by
`UnitsStartAtRest` of `ExtractionJobs`; two extractions are kept apart by the
lock, which *is* modelled.  Nobody touches the PCAP between the check in
`retire_pcap` and its `unlink`.

Abstracted: an archive to `failed_captures` is a removal; the contents of a
failed receipt, which nothing reads, are one value; the progress record, the
result directories of single attempts and `body_<browser>.html` are left out; a
rename is atomic and durable.

### ExtractionJobs

One source (a capture task) and the extraction jobs made from it; the id of a
job is a function of source and steps, so a job *is* the set of its steps.
`Submit`, `Resubmit`, `ResumeJob`, `CancelRead`/`CancelRequest`/`CancelMark` (the
three accesses of `cancel`) and `ResumeSource` are the handlers.  Submit and resume
write the row and fill the queue in a second step (`PutJob`, `PutSource`), which may
raise (`mkdir`, the read of the row) and then leaves the row as it is; `submitter`
is the thread that holds `_submission_lock` between the two.  Captures arrive at any
time and any number of times (`SubmitOther`).  The consumer
takes a capture first (`TakeCapture`, `PollEmpty`, `Take`), and at every unit
gives way (`Yield`), stops (`RunStopped`, `RunCanceled`) or runs the command and
judges it (`StartUnit`, `Command`, `Judge`, `Finish`).  `Restart` recovers rows
and queues.  `row.keep` is the retention of the last *n* units.

### JobContract

A body (`Bodies`, what a client may post) is a record over classes of texts (a name
with a reserved word, a wide name, ...).  `MasterAccepts`/`MasterNormal` translate `validate_job`, `Payload`
the body `_run_target` builds, `WorkerAccepts`/`WorkerNormal`
`validate_task_payload`; one round of the submission loop is `TargetGone`,
`BrowserMissing`, `Taken` or `Waits`.  The Workers differ in what they have
installed, what they allow and their `max_items`.  `Dedupe` (`list(dict.fromkeys(s))`)
picks the first positions of equal elements and numbers them by `Rank`; written
this way it needs no recursion.

### ProgressFeed

The fetcher commits markers (`Fetch`) and records its position after each item
(`Entry`, `WriteProgress`); `StartRun` is a retry or resume, which begins at the
first item with a new run id; `RunBreaks` a kill between any two.  `Ask`,
`ReadMarker` and `Receive` are `capture_progress` and one turn of
`_sync_worker_capture_progress`, interleaved with the fetcher at every marker;
`Lost` a failed call, `MasterRestarts` a cursor that starts anew.  Left out: a task
that ends with a manifest, whose units replace the rows.

### CaptureRun

One input, `Plan`, that may name a unit twice.  `MainStep` is the main thread
(`Open`, `Skip`, `Capture`, `MarkComplete`, `CapturesRaise`, `Close`,
`CloseStop`, `Join`), `ConsumerStep` the thread of `ExtractionQueue` (`Loop`,
`Get`, `StartChild`, `Poll`, `Pause`/`Continue`, `Wait`, `Terminate`, `Release`,
`Judge`).  Ending an extraction may fail: the owner raises, or what it reports as
remaining is not looked at, or the wait that follows raises, which ends the consumer
with the extraction alive; `consumer.left` remembers a process that was left.
`record` is `extraction_progress.json`, by which the Worker decides whether it
still watches the run for progress.  `main.exit` is the exit code; `Killed` ends a
run between any two steps, and the next one continues from the checkpoints.

### CaptureSession

Attempts are numbered, and a file is known by the attempt that made it (for a
directory: its inode).  `ClearKeys` ... `CommitAttempt` follow `_run_entry` and
`_fetch_with` in order, each with its failure; `ToolWrites`, `ToolListens`,
`ToolNotifies`, `ToolDies` are `tshark` and `CaptureReadinessMonitor`.  `driver`
says that the browser was handed over to the attempt, `browsers` which attempts
have browser processes that still live.  `Survey`, `CleanMissing`,
`CleanProfile`, `CleanSkips` are the cleaner, which lists the processes once and
acts later.  `linked` are the profiles in which Chromium has left a link
(SingletonLock), as it does when it is killed; `MayRemove` skips those at every
pass.  A status file that cannot be written ends the run and is one of the
outcomes of `FetcherKilled`.

### ProcessOwner

A process is a record in `table[pid]` with an identity (its start time), a
session, parent and marker in its environment.  The host forks, exits, leaves a
session, retitles itself and reuses numbers; `terminate` lists `/proc`, reads
entries one after the other, pins and checks each process that it found before it
signals it, and looks again.  A process of ours that is `sealed` (its environment
cannot be read, as that of a sandboxed helper) makes the lookup, and with it
`terminate`, raise (`ReadFails`).  `hits` records each signalled process as it
then was, and whether it is the one that lookup had found: only a process that
took the number of the child, and opened a session of it, between the two reads
of one lookup (lines 58 and 66) may be signalled without being of the family.
The model assumes a kernel with `pidfd_open` (Linux 5.3 and Python 3.9), and that
no process of the family belongs to another user.

### NetworkIdle

`page` chooses among the requests a page makes (a document with an image, a
second document, an iframe, a request left over from the page before); only the
documents of `Redirected` pages are sent on to another address, which keeps the
others small.  Every event is put on both streams, `log` and `cdp`, and read late
from the first; `book` is the ledger the session keeps.  A round of
`_network_idle_session` is `ReadLog` (of the log, `due` events have come),
`GatherEvents` (the batch, and the navigation that it may begin), `EnterLog` or
`EnterCdp` for each event, and `Decide`; the batch is entered in no time, since what
happens meanwhile is only in the next one.  `Recheck` is the second `wait` before the
capture stops.
`truth` is what the browser really does, which only the properties read.

### CachePolicy

Targets are created stopped (`life`), and a session switches their caches off
(`applied`), installs the exclusions (`rules`) and lets them go.  `wire` and
`inbox` are the connection, `reply` what a waiting thread sees.  `main`, the
receiver and `init` are the three threads; `lock` is `_block_config_lock`.

### FirefoxPolicy

The browser sends the events of each request in order, those of several in any
order.  A navigation is announced first (`NavigationStarted`) and replaces the
document later (`Commit`), or never; until then the old document asks for more
(`Send`), and what it asked for is announced at any time (`BeforeRequestSent`).
`observed`, `downloaded`, `initializations` are the fields of
`FirefoxNetworkPolicy`; `doc`, `nav` and `epoch` of a request say which document
really asked for it, and after how many navigations and in which observation it was
announced; no code reads them.  `reuses` and `hits` record what the policy decided.

### FlowTables

A capture is built packet by packet from `FlowSamples` and passes the stages
`extract_features`, `classify_packets`, `infer_packets`, `extract_header_seqs`,
`verify_sequences`.  `up`, `tls` and the plaintext of the records are facts no script
can read; the properties compare the tables with them.  The length of a record on
the wire (`wire`) is any that TLS allows: at least the plaintext, the tag and, in TLS
1.3, the type (`LeastAdded`), with a nonce, a longer tag or padding on top.  What TShark dissects is
external (`PacketOK`).  The rows of a flow file are a function of the frame, by which
every script sorts them; a header column lists the set of its lengths by their ranks,
and a sum is a cardinality, so that nothing is computed by recursion.

### RetryRun

Each entry passes `Sign`, `MakeFolder`, `Prepare`, `RunStage`..., `Finally`; the
main thread `Collect`s; `stop` is the shared flag.  `Modify` changes a capture from
outside, `Kill` ends the retry and leaves stages running (`OrphanWrites`).

## 3. Runs

Passing runs:

| Run | Instance | Properties |
|---|---|---|
| `races` | 2 tasks (one pipelined, one analysed), 2 handlers, 1 token, 2 cancel/resume calls, 1 retry of the capture, deadline, failing writes, 1 stop | `NoQueuedTaskLost`, `RunningTaskHasRunner`, `TokenRestartsOnce` |
| `worker_live` | `WorkerTask` (2 tasks, 1 handler, 2 calls, 1 retry, 1 stop), `ProcessOwner` (2 numbers, 3 processes, 2 calls); fairness | `CancelEndsRun` (commands may hang), `AcceptedTaskEnds` (if commands end); `SignalsOnlyFamily`, `ClosedMeansGone` |
| `targets` | 1 job on 2 Workers, 1 resume, 1 stop | `RunIsCurrent`, `OutcomeAgrees`, and `FollowsLifecycle`: `JobDispatch` implements `JobLifecycle` |
| `jobs` | 2 jobs on 1 Worker, capacity 1, 1 lost call, 1 stop, targets that raise | `JobsAreTracked`, with refusals and recovery above the capacity |
| `ends` | `JobDispatch` (1 job, 1 resume, 1 lost call, 1 stop, raising targets), `ExtractionJobs` (2 units, 2 jobs that keep 1, capacity 1, 3 requests, captures without end, 1 stop, 1 failure), `JobContract` (2 machines); fairness | `JobEnds` (if Workers end their tasks), `CancelEnds` (if they end what they are told to cancel); `RowsTellTheFiles`, `NoExtractionLost`, `UnitsStartAtRest`, `ExtractionEnds`; `RefusalsAreTheWorkers`, `RowsAreUnits` |
| `browser` | `CachePolicy` (page, frame and worker, 2 of them, 1 fault, 2 calls), `FirefoxPolicy` (2 contexts, 2 requests, 1 navigation, 1 reset); fairness | `BareIsReported`, `PassedIsCovered`, `StoppedGoesOn`; `ReuseIsSameGeneration`, `CachedIsAccounted` |
| `fetcher` | `CaptureRun` (input a, b, a; 2 runs, 2 faults), `CaptureSession` (2 paths, 3 attempts, 2 faults, 1 kill); fairness | `RecordsAreTrue`, `QueueIsAccounted`, `RunEnds`; `CapturesAreWhole`, `ProfileOutlivesDriver`, `LeftProfilesGo` |
| `results` | `ExtractReceipt` (2 extractors, 2 captures, 4 runs, 2 damages), `ProgressFeed` (2 items in 2 browsers, pages of one item, 2 runs, 2 faults), `FlowTables` (up to 4 packets), `RetryRun` (2 entries, 1 thread, 2 runs, 2 faults), `NetworkIdle` (4 kinds of pages, time to 3, 2 waits) | `CommittedStaysValid`, `DeletionLeavesResults`, `KeepIsHonoured`; `CheckpointsAreReported`; `FilesHoldTheirConnections`, `LengthsAreTrue`; `SuccessIsWhole`; `BookIsTrue`, `IdleIsQuiet`, `LoadedIsComplete` |

A name such as `RecordsAreTrue` joins the invariants of one component that
belong together (`ExitIsHonest`, `RecordIsFinal`, `WatchedWhileCapturing` and the
types); its module says which.  The type invariants of `WorkerTask` and
`ExtractReceipt` are proved.

Runs that refute a statement of the repository (section 5): `kill`, `round`,
`extraction_cancel`, `contract_waiting`.

Bounds.  `MaxCalls`, `MaxStops`, `MaxRounds`, `MaxLosses`, `MaxRequests`,
`MaxFailures`, `MaxFaults`, `MaxAttemptFaults`, `MaxRetryFaults`, `MaxFeedFaults`,
`MaxKills`, `MaxDamages`, `MaxRuns`, `MaxRetries`, `MaxFetches`, `MaxAttempts`,
`MaxNavigations`, `MaxResets` and `MaxBorn` bound what clients, failures, the
browser and the host do, `MaxCaptures`, `MaxPackets`, `MaxTargets`, `MaxTime`
and `Waits` the length of what is observed, `Redirected` the pages with a redirect;
no guard of the code is bounded by them.  Two handlers are the smallest number with a race between two calls, two
machines with two callbacks, two jobs with one place the smallest with a refusal
and a recovery above the capacity.  A second capture replaces the files of the
first; four extraction runs extract one step, are killed in the deletion, are
asked to keep and extract the other step.  A unit that occurs twice in the input
meets its own extraction.  Three attempts over two paths reuse a path.  Two
numbers for three processes reuse a number.  Two items in pages of one, with two
runs, move a cursor between pages and between runs.  Four packets are two in each
direction of a connection, or two connections on the same ports.  Two contexts and
one navigation put a late answer behind the document it belongs to.  Deadlock is
not checked: with a bounded environment the system stops when all is done.

Symmetry is used for handlers, machines and jobs, in runs without liveness
properties only.

Fairness.  Threads that can run do run: the consumer and handlers of the Worker,
router and pool threads of the Master (`FairSpec`), consumer and cancel of
`ExtractionJobs`, both threads of `CaptureRun`, the attempt, the tool and the
cleaner of `CaptureSession` (each step there has a timeout), receiver,
initializer and main thread of `CachePolicy` with a browser that answers.  A
service that was told to stop ends and its supervisor starts it again (the README
of the repository requires one).  Time passes (`TimePasses`), so a timeout
expires.  `AcceptedTaskEnds` is stated under `CommandsEnd`: a command ends
(`capture_stall_seconds` is 600 by default, and extraction and analysis have
their own timeouts); `CancelEndsRun` needs no such premise.  `JobEnds` is stated
under `WorkersEnd`: a Worker ends every task.  `CancelEnds` is stated under
`WorkersCancel`: what a Worker is told to cancel ends; it may run for ever
otherwise.  `WorkerTask` shows both only in part.  `AcceptedTaskEnds` says that a
terminal status is reached and `CancelEndsRun` that the consumer is free again; but
`cancel` may overwrite the terminal status with CANCELING (`task_runner.py:187-196`,
the run `extraction_cancel`), the premises then fail, and the Master polls until the
Worker restarts.  `ExtractionEnds` has the premise that captures stop arriving: the
consumer takes captures first, so a steady stream of them starves every extraction.  No
fairness is assumed of clients, crashes, failing calls, extraction processes or
browsers that are left behind.  `CancelEnds` is checked with one job: with two
jobs on a machine, a cancel that comes before the router has put the targets into
the pool (`dispatcher.py:250-255`) leaves the canceled job queued behind the task
of another, which then has to end.

## 4. Proofs

Each theorem holds for every value of the constants that satisfies the named
assumption.

`WorkerTask_proofs` (`ConstantsAssumption`: finitely many tasks, the special
values are not tasks, tokens or handlers, the limits are naturals):
`TypeCorrect`, `QueuedTasksKept`, `RunningTasksRun` and `TokensRestartOnce`.  The
invariant is `IInv`: the properties alone are not inductive, because a step must
know that a thread past its first step holds a task, that only a stopping
service pauses a task (otherwise `EndPaused` would leave a QUEUED row without an
entry), and that a resume between SELECT and UPDATE holds the lock and still has
a new token.  `TypeStep`, `RunningStep`, `QueuedStep`, `PauseStep` and `LockStep`
each show that one part is kept, one step per action; `TokenStep` derives the
action property.

`Unit_proofs` (`ExtractAssumption`: the absent holder is no extractor, the bounds
are naturals; `NetworkIdleAssumption`: the names of the requests, every page has a
document, the times are positive).  Of `ExtractReceipt`: `TypeCorrect`, `InvariantHolds`,
`CommittedUnitsStayValid`, `DeletionsLeaveResults`, `DeletedPcapsAreGone` and
`KeepsAreHonoured`.  That a committed unit has its files or a receipt in place
of the PCAP (`UndamagedFiles`) is not inductive: the unlink needs that the
receipt on disk is verified and asks for the deletion (`UnlinkKnows`), the
verification that a receipt for an undamaged unit still describes its results
and its keylog (`UndamagedReceipt`), the publication that the receipt in memory
builds on the one on disk (`MakingKnows`, `SourcesKnown`), and the exception path
that it never replaces the record of a PCAP this run has retired
(`RetiredHere`).  `OneSteps` reduces a step of one extractor to its own part,
because nobody else is at the unit; `InvCapture`, `InvExtract` and `InvDamage`
have one step per action.  The last two theorems add `Decided` (an extractor that
is on its way to the deletion was asked for it) and that a good receipt names a
capture (`GoodHasVersion`).
Of `NetworkIdle`: `IdleInvariant` and `BookIsTrueAlways` (`BookIsTrue`).  A start that
the log tells late must not bring a request back that the policy connection has ended
long ago, and the leftover of the old page must not be entered because its event comes
before the batch that finds the navigation.  The invariant looks at each stream as a
set of events with a few that never come after others (`TooLate`: no start of a
request after its end, no start of another document's resource before the document's
own), says that each event is true of the browser (`Real`), that whatever happened is
in the book or still in both streams (`NothingMissed`), that the policy connection
tells the end of every request whose start it tells (`EndsTold`), and where the
navigation is found (`BookBegun`, `BookAhead`, `OldLeftOut`).  Then a request that is
over and pending has its end ahead on the policy connection (`PendingTold`).  What the
browser does only adds events (`GrowsBy`, `GrowsKeeps`), what the session enters only
takes the first one (`Enters`, `EntersKeeps`), so each action is looked at once.

`QuietInvariant` adds what the two action properties of `NetworkIdle` need, the
answers, the times and the order of the documents.  Its second part, `QuietInv`, says
what the browser's requests, answers, loader and iframe imply of each other
(`PageTrue`), that each event says what is so and when, and that the events of one
request agree (`EventsTrue`), that states and answers in the book are true
(`BookTrue`), that the document the book takes last is the one the browser was last
sent to (`DocumentsInOrder`), which starts came before the navigation
(`PriorStarts`), that whatever is entered has moved the time of the last activity
(`EnteredCounts`), and that the latest activity of the page is in that time, still
ahead on the policy connection, or a document is on its way (`ActivityTold`).  Again
the browser only adds (`QuietlyGrows`, `GrowsQuiet`), a step of the session either
leaves the streams alone (`StaysQuiet`) or takes the first event of one (`EntersQuiet`,
`AheadCounts`).  Where the wait decides, the policy connection is entered to its end, so
nothing is ahead: `LoadedIsCompleteAlways` and `IdleIsQuietAlways` read the two
properties off the book.

`ProcessOwner_proofs` (`ProcessOwnerAssumption`): `FamilyOnly` and `ClosedIsGone`.
The invariant relates what the lookup has read to the table as it is now: a
process that was found and still has the identity that was read is of the family
or late (`FoundKnown`), nobody of the family who is not late is passed over
(`NothingMissed`), the pinned process is the one that was found or the number has
gone to another before the check (`PinnedKnown`), and a session is trusted only
while nobody else has the number of the child (`TrustKnown`).

`Ends_proofs` (`ExtractionJobsAssumption`: a job is a nonempty set of steps, there is
at least one unit, a policy is at most the number of units; `JobContractAssumption`:
bodies and Workers have the JSON types).  Of `ExtractionJobs`: `InvariantHolds`, `ExtractionsKept` (`NoExtractionLost`), `SuccessesAreComplete`,
`RetentionsAreHonoured`, `RowsTell` (`RowsTellTheFiles`, which joins the two) and
`UnitsRest` (`UnitsStartAtRest`).  A success is
written from the consumer's own progress, and that progress began as what the row
said, so the invariant says of both that they are the truth about the results
(`ProgressIsTrue`), and that whoever works on a job, waits in the queue or is about to
be put there has a row (`JobsHaveRows`).  That a unit only starts at rest rests on `SourceWaits`: a
source that was resumed is in the queue of captures, which the consumer looks at
before the next unit, unless its resume is still between row and queue or has raised
there.  `ProgressKinds` and `ConsumerKinds` say once which few ways
a step can change a row and the consumer; `ProgressStep` goes through those and
not through the actions.  Of `JobContract`: `RefusalsOfWorkers`
(`RefusalsAreTheWorkers`) and `UnitsOfRows` (`RowsAreUnits`).  The invariant is that an
accepted job is in normal form (`NormalJob`), has the rows of that form, and that a
task is the Worker's normal form of the present payload (`After`).  Both theorems then
come down to normal forms being fixed points: what passed the Master's rules passes
the same rules of the Worker (`SecondGate`), and the Worker changes nothing
(`PayloadStays`).  For the lists this is `DedupeFacts` and `DedupeDistinct`, which rest
on `Ranks`: numbering positions by rank is one-to-one between finite sets of one size,
hence onto, so no induction over the list is needed.

`Browser_proofs` (`CachePolicyAssumption`: finitely many targets, the pages and the
first page among them, the bounds are naturals).  Of `FirefoxPolicy`:
`InvariantHolds`, `ReusesAreSound`, `CachedAreAccounted`.  The policy only sees
navigations as they are announced; the invariant (`ObservedIsTrue`) says that the
scope noted for a request is as far behind the generation of now as the request is
behind the navigations announced, so that equal scopes are equal generations, and
`DocumentsFollow` that no document comes before its announcement, so that requests of
one generation that no navigation has overtaken are of one document.  Of `CachePolicy`: `CacheInvariant`
(`BareIsReported`) and `ChecksCover` (`PassedIsCovered`).  What is promised holds
while no error was met and the policy is open (`Sound`), and it rests on the order
of three queues.  A target that runs before the sessions attach is only reported
once: the reports come before the reply to the command that switches attachment on
(`Attached`), so after that reply every target that runs is known (`RunningTold`,
`SeenFirst`).  A known target is initialized only after its caches went off
(`CacheOff`), and only then, or with an error, is it let run.  A command that sets
exclusions outlives the request that was given up for it, so the invariant says of
every such command on the wire that it belongs to the thread that holds the lock and
sets what is wanted now, or that an error covers it (`RuleCommands`), which makes the
exclusions of each initialized page the wanted ones whenever nobody is at them
(`RulesKept`).  A thread that waits has one command or one message, never both
(`Once`); without it a late reply could be taken for the answer to the next request.
`InitStep` states once what all steps of the initializer have in common.

`JobDispatch_proofs` (`ConstantsAssumption`: finitely many jobs and machines, at
least one machine, the bounds are naturals): `InvariantHolds`, `RunsAreCurrent`
(`RunIsCurrent`), `OutcomesAgree` (`OutcomeAgrees`), `JobsTracked`
(`JobsAreTracked`) and `LifecycleFollowed` (`FollowsLifecycle`, the refinement).
None of the properties is inductive alone.  `Pools` says that a machine has a job
at most once and of its present round, `Counted` that the counter of the
callbacks is the number of targets in flight and that `futures` are the jobs that
have any, so that the callback that finds 1 is the last; `Entry` that a job is in
one place only, `Accepted` that whatever is in memory is active and not deleted,
so that a resume never meets an old run, and `Tracked` that nothing active is out
of memory unless the service stops.  The outcome is the aggregate because of
`Settled`: a target of a dispatched job that is not in flight any more has its
terminal row, also where the future raised or was canceled.  The proof sorts the
steps into kinds before it goes through the parts: a step inside `_run_target`
(`Inner`: one thread moves, one row is written, no outcome appears), a target that
leaves (`Leaves`: `CancelPending`, `PoolDrain` and `TargetFinish`), and steps that
touch no target (`Calm`).  The refinement (`NextMaps`) uses the same kinds.
`EndedJobsQuiet`: whatever implements the lifecycle never has a target in flight
for a job with an outcome.  With `LifecycleFollowed` this is what the comment in
`_sync_job_status_locked` asks for.

`Capture_proofs` (`CaptureRunAssumption`: the input is not empty, None is no unit;
`SessionAssumption`: finitely many paths, at least one, the bounds are naturals).
Of `CaptureRun`: `RunInvariantHolds`, `RecordsTellTheTruth` (`RecordsAreTrue`) and
`QueueAccounts` (`QueueIsAccounted`).  That exit code 0 means files for every unit
needs that the units the captures have passed are offered if they have a checkpoint
(`Offered`), that the end which `close` puts in the queue is taken last (`Ordered`),
and that each unit offered waits, is worked on, or is counted as finished or failed,
unless the consumer thread itself has failed (`Accounted`); `Watched` says that an
extraction process works on a unit with a checkpoint, which is not captured again,
that only a consumer that failed leaves one alive, and that what else could not be
ended belongs to a unit that has failed, which the exit code tells.  Of `CaptureSession`: `SessionInvariantHolds`,
`CheckpointsAreWhole` (`CapturesAreWhole`) and `ProfilesOutliveDrivers`
(`ProfileOutlivesDriver`).  The checkpoint is removed after the artifacts, so that
between the removals an old one is only seen by the next run when one of its files is
missing (`FilesOfAttempt`); an attempt without an error has a tool that was ready and
listened when the browser was launched (`ToolOfAttempt`); a directory on an attempt's
path is the attempt's own, whatever was registered under that name before
(`ProfileOfAttempt`); and the cleaner only works between attempts and removes only if
it saw no browser, of which none can have been started since (`CleanerApart`).

`Results_proofs` (`RetryAssumption`: what a capture is; `FeedAssumption`: the items
are a natural number, a page has at least one; `FlowTablesAssumption`: what TCP and
TLS say of the packets).  Of `RetryRun`: `RetryInvariant` and
`SuccessesAreWhole` (`SuccessIsWhole`).  Stages of a killed retry go on writing while
the next one runs, so the invariant says where: in a folder that is not the one its
entry's row names (`OrphanApart`), while a thread works in the newest folder, which
neither a row nor such a stage knows (`Newest`); and while the capture is the one of
the old batch that folder holds what the stages so far have written (`Progressed`),
which the comparison in the finally clause turns into a fact about the row
(`RowTrue`).  The proof changes one entry at a time (`OthersKept`).  Of
`ProgressFeed`: `FeedInvariant` and `CheckpointsReachTheRows`
(`CheckpointsAreReported`).  That nothing recorded is left behind the cursor is not
inductive: a unit behind it could be committed later.  The invariant excludes it
because every position that is recorded or that the Master holds was left behind by
the fetcher in that run (`PositionsReached`), a unit of a later run is not `Recorded`
for an older cursor, and a page that is being read accounts for each of its units
(`CallIsTrue`); a page ends before the file it was made from only if it got further
(`PageInFile`), and the last look sees the file as it stays (`LastLook`).
Of `FlowTables`: `FlowInvariant`, `FilesHoldTheirConnectionsAlways`
(`FilesHoldTheirConnections`), `LengthsAreTrueAlways` (`LengthsAreTrue`) and
`SequencesInOrder` (the column of a listed connection enumerates what its ends sent,
each length once and in the order of the capture).  The invariant says that each stage left behind what it computes from
the capture and the stages before it; the work is in what these functions compute.  A
name stands for one flow key (`NamedFacts`) and the direction is the true one, also
between two ports 443 (`DirectionIsTrue`), so that a packet is a row of one file
(`RowFacts`) and the files of a connection are those of its two sides (`GroupFacts`).
The flow table lists every packet of a stream or none (`ListedStream`), hence the two
files hold together what the ends sent (`MergedIsSent`); the column lists them by rank,
and the ranks of n lengths are 0 to n - 1 (`ColumnInOrder`).  For the verification:
two connections never have the same ports and suffix (`TagsDiffer`), and no frame is
in both files, so that lengths and counts add up (`PairSums`).

Model-checked only: liveness under fairness (`CancelEndsRun`, `AcceptedTaskEnds`,
`JobEnds`, `CancelEnds`, `ExtractionEnds`, `StoppedGoesOn`, `RunEnds`,
`LeftProfilesGo`), which is out of the prover's reach, and `FailedResumeIsRetried`,
which the code breaks.  Every safety invariant and action property of the passing runs
is a theorem.

## 5. Where the code does not do what a text says

| Run | Text | Code |
|---|---|---|
| `kill` | `worker_agent/README.md:124`: cancels the task and its process tree | `cancel_active_process` kills the child of whatever task runs by then |
| `round` | `master_server/README.md:90-92`: keeps retrying, one failed connection does not end the experiment | when the resume call fails, the submission loop ends because `task` holds the answer of submit, and the result of the round before is applied |
| `extraction_cancel` | `task_runner.py:206`: cancel the extraction first, then the source can be resumed | a cancel that overlaps the end of the extraction overwrites its final status with CANCELING, which nothing ends until the Worker restarts |
| `contract_waiting` | `master_server/README.md:90-92`: WAITING_FOR_WORKER is for a Worker that is offline or times out | a Worker that answers with a refusal is waited for in the same way, for ever (its `max_items` is 10000 in the example configuration, the Master's 100000) |

Seen while reading and modelling, without a run of its own:

- `task_runner.py:225`: an exception in an except clause of the consumer loop
  (a full disk) ends the only consumer, although `task_runner.py:226` says that the
  failure of one task does not end the Worker.
- `task_runner.py:380`: an analysis killed by a shutdown counts as failed and the
  task is published, although `worker_agent/__main__.py:24-25` says it is put back.
- `dispatcher.py:398`: a target concluded before the Master has an answer leaves
  the Worker's task at work, although `openapi.yaml:601` says it is canceled.
- `task_runner.py:187-196`: `cancel` writes on a status it has read earlier, so a
  task that ended in between is shown as CANCELED.
- `capture_extraction.py:318-328`: a progress record that cannot be written after
  an extraction that keeps its PCAP lets the exception path replace the good
  receipt by a failed one; this costs an extraction and no evidence.
- `dispatcher.py:543`, "include the last committed URL": the last sync misses a
  unit that was committed by a run killed before it recorded its position;
  `EndIncludesRecorded` is therefore about what was recorded.
- `wiki_fetcher.py:1315-1319`: a profile is removed after a driver that failed to
  start, whose browser may still be ending; `ProfileOutlivesDriver` is about
  browsers that were handed over.
- `extraction_jobs.py:88-90`: when `mkdir` or the read of the row raises after the row
  is written, the job stays QUEUED without an entry, is not taken up by a repeated
  submit (line 66) and blocks every resume of its source until it is canceled or the
  Worker restarts; `TaskManager.submit` marks such a row FAILED
  (`task_runner.py:163-175`).  `NoExtractionLost` excepts the jobs of such a call.
- `task_runner.py:206-215`: while a resume of the source has written its row and not
  its queue entry, neither the check of `run` before a unit nor the queue of captures
  tells the consumer; a stale cancel that frees the extraction's row lets such a
  resume pass `blocks_resume`.  `UnitsStartAtRest` excepts that window.
- `capture_temp_cleanup.py:159-172, 188-192`: a profile in which a killed Chrome left
  its SingletonLock is skipped at every pass and never removed; only Firefox's links
  are allowed.  `LeftProfilesGo` excepts such profiles.
- `capture_extraction.py:388-389, 414`: what `owner.terminate` reports as remaining is
  not looked at, and a wait that raises ends the consumer with the extraction alive:
  a run may leave one behind then, and its exit code is not 0.
- `browser_firefox.py:37-42`, "Allow only images fully downloaded in this observed
  document": a request that the old document makes after `navigationStarted` and
  before the new document is there counts for the new one (lines 44-58), and its
  download excuses a cached image of the new document.  `ReuseIsSameGeneration` is
  about generations and names this exception (`Overtaken`); without it TLC finds the
  case in ten states.
- `extract_header_seqs.py:201`: the two directions of a connection that was
  captured in one direction only are not joined; `flow_validation.py:58` takes the
  highest version any hello mentions for the negotiated one: with a client that
  offers 1.3 to a server of 1.2 the ranges of `infer_packets.py` are one byte low, so
  `RangesHold` is about connections whose hellos mention nothing higher.
- `infer_packets.py:61-65`: TLS_OVERHEAD is 16 bytes for TLS 1.2 and 17 for 1.3.  A
  record of AES-GCM in TLS 1.2 has 24 more than its plaintext, one of CBC more, and
  TLS 1.3 may pad: an inferred length is too long there by the difference, which is
  what `RangesHold` says; it is true for ChaCha20-Poly1305 and unpadded TLS 1.3.

## 6. Not modelled

- *Collections and result pages*, the copies of extraction rows in
  `master_server/extractions.py`: each is a SQL statement over finished rows, with
  cursors; no step of another actor changes what they promise.
- *Watchdog*: one thread that asks `/health` and tells systemd; what acts on it is
  not in the repository.  *Frontend*: view state of what the Master answers.
- *Windows owner* of processes: one kernel job object does all the work.
- *Browser discovery, proxy, request policy tables, Selenium*: they compute
  arguments or drive a page and keep no state of the protocol.
- *Feature statistics, alignment, merging, plotting* in `analysis_scripts/`: tables
  from tables.  The scripts at the top of the repository and
  `wiki_legacy_2874751.py` are older copies of what is modelled.
- *Configuration, deployment, log files, uploads*: no protocol.

What could follow: one composition in which the lossy calls of `JobDispatch` meet a
`WorkerTask` that is up or down.
