# TLA+ models of neo-pkg-dbus

This directory holds a verification development for the package in `src/`: TLA+
modules translated from its code, TLC configurations that check them on small
instances, and theorems checked by the TLA+ proof system (`tlapm`).

`PROJECT.json` lists the components, the runs, the source lines every definition
stands for (`map`), the mutants that show each property can fail, the hazards and
the findings.

    tlc -workers 2 -config <run>.cfg <module>.tla
    tlapm <module>Proofs.tla

## 1. The system

neo-pkg-dbus reads values from DBus methods at a fixed interval and stores them in
a Machbase TAG table. It has two products: *generic*, in which each Job is a JSH
process managed by the service controller, and *LS*, in which one Go daemon
collects every Job. The HTTP API is served by CGI scripts: **every request is a
process of its own**, so what requests share is files. The frontend is one React
application in two documents, a side with the list of Jobs and a main one.

| component | state | operations | who calls it |
|---|---|---|---|
| Operation lock `cgi-bin/src/jobs/operation-lock.js` | `<name>.lock`, `<name>.lock.reclaim/` | acquire, heartbeat, release, assertOwned, assertAvailable | every mutation; package scripts |
| LS collector, data plane `collector-go/.../main.go` | bounded queue, reservations, row buffers, one writer with one stream, pending batches | read cycle, enqueue, append, flush, table switch, drain | goroutines of the daemon |
| LS collector, control plane, same file | `d.jobs`, runtime states, active file, runtime checkpoint | start, stop, reload, status, refresh-log, clear-overrun, restore, shutdown | control socket, signals |
| LS runtime adapter `collector/ls-runtime.js` | none (reads the daemon's files) | start, stop, inspect, databaseChangeBlockers, syncConfig | Job manager, DB API |
| Job manager `jobs/manager.js` | Job documents and, for LS, index files | create, update, updateLog, install, start, stop, delete, package session | Job API, package scripts |
| Interface manager `interfaces/` | Interface documents, fences, reader locks | Discover, create, rename, Methods, remove under `guard` | Interface API |
| Profile manager `profiles/` | the older Profile documents and fences | create, update, remove of Profiles and Methods | Profile API |
| DBus types and arguments `dbus/` | none | parse a signature, judge a value, build a call's arguments | Interface and Job API, collector |
| DB profile of LS `cgi/db-api.js` | the server document, the collector's copy | PUT server | DB API |
| Servers, settings and tables `db/server-store.js`, `config/` | server documents, `settings.json`, the database's tables | create, update, remove, list; settings; a table made by a save | DB, settings and Job API |
| Package lifecycle `scripts/lifecycle.js` | stop checkpoint `package-stop-state.json` | install, start, stop, uninstall | package manager |
| Generic collector `collector/{entry,cycle,scheduler}.js`, `db/appender.js` | connections, appender, last result, log summary | one cycle after another with back-off | service controller |
| Viewer API `db/data-viewer.js` | none | rows by page, time ranges, lists of Tags, for one stored Job | data viewer page |
| Logs `log/` | log files of each Job | write and turn over, list, read, tail | collectors; Live Logs, Logs page |
| Data viewer page | inputs, pinned range, pages, split charts, requests in flight | select, page, shift, zoom, refresh | user |
| Side and main documents `App.jsx` | Job list, selection, route, save lease | choose, start, stop, delete, save; messages to one another | user |
| Job detail page `App.jsx` | status as loaded, the level in the select, mutations in flight | poll, apply a Log level, clear skipped cycles | user |
| Job form | configuration and drafts, Calls, Tags, mappings | edit, import, validate, save | user |
| Cycle timer, value codec, TAG registry (Go) | deadlines; TAG indexes | SkipPast, decode, bind | reader |

What is hard in it:

* **Interleaving of processes**: the lock is built from `open(O_EXCL)`, `rename`,
  `unlink`, `mkdir` and `rmdir`; between any two calls another request may run, or
  the process may die. Settings, servers and Jobs are three sets of files with locks of their own.
* **Interleaving of goroutines**: a Job's reader, the writer, the commands of the
  control socket and shutdown share the queue and the table of Jobs.
* **Partial failure**: every write of a file and every call of the database or of
  DBus may fail in the middle of an operation that has other effects.
* **Restart**: the daemon restores its Jobs from the active file, requests act on
  its checkpoint; commands that the client gave up are still carried out.
* **Late answers**: a page asks while its inputs change; an answer may come after the
  next question, after the page has moved on, or never.
* **Two judges**: form, validator and collector each decide what a value, a mapping or
  a type is, at different times, while Interface, server and table may be edited.

The correctness properties per component: the lock excludes, is never stuck for
good, and is released by its owner only; the data plane answers every accepted
batch exactly once, in order, never loses a queue place or a buffer, and stops; the
control plane keeps file, table and goroutines consistent, so that a stop is final,
a start survives a restart, and a database profile is not changed under a Job; the
managers keep documents, indexes and references consistent across crashes; what was
accepted can be called, decoded and stored, and what a cycle reports is true; a page
shows what answers its present inputs, stores what it showed, and does not wait for
ever.

## 2. Modules

| module | models | state ↔ code |
|---|---|---|
| `OperationLock` | the lock, one file-system call per action | `guardDir`, `guardDoc`: the `.reclaim` directory and its entries; `lock`: the canonical file; `pc`, `local`: a request inside `acquireGuard`/`acquire`; `handle`: the object `acquire` returned; `guardStale`, `lockStale`: a lease (30 s) without activity |
| `OperationLockProofs` | theorems about `OperationLock` | |
| `MCOperationLock`, `MCLockRecovery` | instances; initial states in which one process has died before a given call | |
| `BatchLedger` | *abstract*: what a batch is promised | `log`, `collecting` |
| `CollectorPipeline` | the data plane; refines `BatchLedger` | `reader[j]`: where the Job's goroutine is; `slots`: `reserveQueue`; `queue`, `hand`, `pending`: the channel, the batch `runAppender` works on, its `pending` slice; `stream`: `active` of the writer; `work`, `leased`: the wait group and the row buffers of an activeJob; `stopper`: a stop command waiting for `done` |
| `CollectorPipelineProofs` | theorems about `CollectorPipeline`, with the refinement | |
| `MCCollectorPipeline` | two Jobs, each on a table of its own | |
| `CollectorDaemon` | the control plane and the two files | `table`: `d.jobs`; `command[j]`: the command of a Job and its next critical section; `worker[j]`: the goroutine of the newest activeJob; `active`, `checkpoint`: the files; `state`: runtime states |
| `CollectorDaemonProofs` | theorems about `CollectorDaemon` and `GenericCollector` | |
| `MCCollectorDaemon` | two interchangeable Jobs | |
| `JobMutations` | the generic product's Job mutations, package scripts and Interface mutations, between which the operation locks stand | `doc`, `iface`: the stored Jobs and the Interface; `svc`: the controller's services; `startFile`: `package-stop-state.json`; `fence`, `jobLock`, `ifaceFence`, `reader`: the four kinds of lock; `req[p]`: a request inside `withMutation`; `pkg`: a script of `lifecycle.js` and its session; `admin`: `InterfaceManager.guard` |
| `JobMutationsProofs` | theorems about `JobMutations` | |
| `MCJobMutations` | two Jobs, one API request, beside the package script or beside the Interface API | |
| `LsControl` | the LS Jobs as requests, the client and the daemon share them | `doc`, `idx`: documents and indexes; `table`, `secret`: the stored profile and the collector's copy; `active`, `state`, `conf`: what the daemon wrote and loaded; `commands`: control commands in the socket; `ops[o]`: a request and its next write |
| `LsControlProofs` | theorems about `LsControl` | |
| `GenericCollector` | one collector process of the generic product | `at`: the call of the cycle; `buffer`: rows of `afterAllMethods`; `stream`, `bus`: the appender and the kept connection; `results`, `last`, `summary`, `told`: what it reports and logs |
| `Servers` | servers, the default one, tables, and the save of a Job that makes one | `servers`, `default`, `jobs`: the three kinds of files; `tables`: the database; `lock`: `db-server-<name>`; `request[p]`: what a process has read |
| `ServersProofs` | theorems about `Servers`, `Profiles` and `ViewerApi` | |
| `MethodCalls` | a Method from its signature to the call of a cycle | `iface`, `job`: the documents; `sent`: the call made last |
| `Profiles` | the earlier contract's Profiles, its versions | `profiles`, `docs`: the documents; `fence`, `jobLock`: the locks; `runtime`: the server's version |
| `ViewerApi` | the queries of the viewer against a changing Job | `job`, `server`: the documents; `stored`: rows of each table; `walk`: a client between two pages; `listing`: a list of Tags |
| `DataViewer` | the viewer's page | `view`: its inputs; `pinned`: the resolved range; `result`: the grid; `calls`: requests whose number is current; `split`: the other charts |
| `ChartZoom` | the gestures on a chart | `nav`, `view`: navigator and shown window; `drag` |
| `Surfaces` | both documents of the app | per document `jobs`, `selected`, `asked`, `lease`, `deferred`; `wire`: messages on their way; `saves`: calls of `JobForm.save` |
| `JobPage` | the detail page of an LS Job | `index`, `runtime`, `up`: what the server reads, in that order; `data`, `asked`: `useLoad`; `logLevel`, `waiting`: the select and the two switches; `active`, `late`: `useRouteMutation`, the mutation waited for and aborted ones still on their way |
| `Logs` | log files, their reader, Live Logs and the Logs page | `dir`, `size`: files and the writer's idea of their length; `panel`, `reqs`; `page`, `reads` |
| `PanelFrame` | the Live Logs window along one axis | `view`, `size`, `pos`, `grip` |
| `SurfacesProofs` | theorems about `Surfaces`, `JobPage` and `DataViewer` | |
| `LogsProofs` | theorems about `Logs` and `PanelFrame` | |
| `LsCalls` | Method Calls and Tags of an LS Job | `calls`, `selected`, `file`: the import; `stored` |
| `TagCsv` | the CSV reader, character by character | the locals of `parseCsvRows` |
| `JobForm` | an LS Job's form with the PLC's interval | `form`, `draft`, `asked`, `policy`, `approval`, `saving` |
| `OutputForm` | output mappings of a generic Job | `stored`, `interface`: at the server; `details`, `form`, `dialog` |
| `MCBackend` | seven of them side by side: `LsControl`, `GenericCollector`, `Servers`, `MethodCalls`, `Profiles` (twice), `ViewerApi` | `part` picks one at the start, `v1`, `v2`, ... are its variables in the order of the INSTANCE |
| `MCFrontend` | the pages side by side: `DataViewer`, `ChartZoom`, `Surfaces`, `JobPage`, `Logs`, `PanelFrame`, `LsCalls`, `TagCsv`, `JobForm`, `OutputForm` | the same |

One action is one atomic step of the code: a system call in `OperationLock`, a
critical section or a channel operation in the Go modules, one lock operation, file
operation or controller call in `JobMutations`. A comment over each
action names the function; `map` names the lines. Operators with an underscore and
a suffix (`StopPersist_Late`, `Reclaimable_NoLease`) are mutants, used by no
specification.

History variables record facts that the code does not keep: `stolen` (a rename
moved another file than was inspected), `ledger` (all batches ever accepted),
`accepted`, `stopped`, `late`, `undone` (what a client was told, and when), `overtaken`
(requests that were past their second look when the package took the fence).

Modules that meet only in files, or only at the server, are checked by one run without being
multiplied with one another: a behaviour of `MCBackend` and `MCFrontend` belongs to one part, and
their properties are those of the parts, `part = ... => ...`. Fairness is stated over all parts at once.

The modules meet as follows. `CollectorPipeline` implements `BatchLedger`. `LsControl` takes what a
command does inside the daemon from `CollectorDaemon`, in one step, and adds the socket between.
`OutputForm` and `JobForm` contain what the server accepts, `LsCalls` what the LS rules do; what
they store is what `GenericCollector` and the daemon decode. `DataViewer` asks with the window and time
cursors, `ViewerApi` with the name cursors of the same server code.
`CollectorDaemon` abstracts the pipeline to one state per worker. `JobMutations`
uses a lock as `ExclusiveUnlessStolen`, `OnlyOwnerReleases` and
`SurvivorAcquires` of `OperationLock` promise it: one live owner, others refused at
once, a dead owner's lock refused until its lease is over and reclaimed after. The
exception of finding 1 is not carried over.

### Abstractions

* A document is its author and whether its content is complete. Tokens are random;
  the author stands for the token, and only dead authors' documents meet again.
* **Timing assumption of the lock**: no live process spends a whole lease inside one
  guard attempt (a few system calls). Otherwise leases expire at any moment, also
  while their owner lives: heartbeats may come too late.
* Directory locks of older releases (`legacy` paths of `operation-lock.js`) are left out.
* A batch is its Job; rows, timings, counters, log lines and performance records are
  left out, except for the buffers and reservations that carry them.
* The database and DBus answer or fail, at any call. TAG registration is part of the
  preparation of a Job.
* In `CollectorPipeline`, `Start` is atomic and does not race with shutdown: that
  race is the subject of `CollectorDaemon`, which in turn abstracts collecting to
  `worker[j] = "running"`.
* In `CollectorDaemon`, status, refresh-log (see `LsControl`) and clear-overrun (see `JobPage`), which change
  nothing that start, stop and restore read, are left out. The per-Job mutex of `handleConnection` gives
  each Job one command at a time.
* In `JobMutations`, the revision check of a save always agrees, because the document
  is only changed under the Job lock. `STARTING`, `RUNNING` and `STOPPING` of a service
  are one state, busy: every guard of the code treats them alike. A call
  of the service controller may fail, without effect or after it took effect, and a
  service may stop or be removed from outside. An inspection that only decides the
  reply of `start` or `stop` is part of the call before it.
* In `JobMutations` there is one Interface. A Job's configuration is the form of the
  Interface it was validated against, or plain; every form stands for a set of Methods.
  The list a script reads is one step. Read-only requests are left out.
* `LsControl`: the run has one Job (the theorems any set of Jobs), whose configuration is a number; a table is made or refused at once; a
  request's locks are held until it ends or dies. Ghosts name the exceptions that the code
  allows: `cut` and `split` (a save that broke off between its writes), `unguarded` (a command
  carried out after its client gave up), `unheard` (a log level nobody could tell).
* `GenericCollector`: numbers are counted in quarters, so that biases and multipliers of one half show;
  strings are text or the JSON of a value; a cycle runs to its end before a signal is heard.
* `Servers`: a profile is a table with its columns; credentials and addresses are left out.
* `MethodCalls`: widths and the nesting limit are scaled down; names and descriptions are left out.
* `DataViewer`, `Surfaces`, `JobPage`, `JobForm`: a handler is one step with the effects it triggers; an answer whose
  number is not current, which the code ignores, is forgotten when the number changes.
  The page shows cut milliseconds, the server compares full precision (`Tick`).
* `Logs`: every line takes the same place; `size` differs from the file as in the code, where the
  writer counts on its own. A file's name is the Job's and the date at which it was turned over; what the code reads from
  names is in three constants: which Job's name begins with another's (`Shares`), on which side of the dates it sorts
  (`Later`), and what a Job's name has before a date at its end (`Stem`): the reader takes the active file of
  `line_20250101_101010`, a name that validator.js:9 allows, for a file of `line` that was turned over (reader.js:22-29), and
  so does the model. Left out: a turn-over at the very millisecond that ends the name of a Job which has not written yet.
* `PanelFrame`: one axis; both are computed alike.

## 3. Runs

| run | checks | shows |
|---|---|---|
| `lock_safety` | `IInv`, `ExclusiveUnlessStolen`, `GuardExclusive`, `GuardNeverAmbiguous`, `OnlyOwnerReleases` | three processes, three guard attempts each, dying at any call: exclusion, with the one exception below; the invariant that the proofs use |
| `lock_recovery` | `SurvivorAcquires` | whatever two dead processes left, a third that keeps asking gets the lock |
| `lock_exclusion` | `MutualExclusion` *violated* | the exception, finding 1 |
| `pipeline_safety` | `Balanced`, `StopDrains`, `NoSendAfterClose`, `AnsweredOnceInOrder` | no place, buffer or batch is lost or answered twice; refinement of `BatchLedger` |
| `pipeline_liveness` | `StopReturnsInTheEnd`, `ShutdownEnds` | stop and shutdown end even when only the ticker flushes |
| `daemon_safety` | `StateTellsTruth`, `StopIsFinal`, `SurvivesUnlessLate`, `WaitsForAWorker` | files, table and goroutines agree through failures, shutdown, crash and restore |
| `jobs_package` | `AloneUnlessOvertaken`, `LocksAreSound`, `DeleteLeavesNoService` | the package script against an API request: the fence keeps requests out but those already past it, nothing leaves a lock without work, and a service is not forgotten by a delete |
| `jobs_interface` | `ReferencesHold`, `RunningIsFixed` | an Interface's change against Job mutations: the fence, the readers' locks and the second look keep every stored Job valid; a running Job's document stays |
| `backend` | `ControlInForce` | what runs is what is stored: profile, document, log level; the index tells the document |
| | `NameNeverLost` | a Job stays registered through every death |
| | `CycleTellsTruth` | a cycle's result, counts and log are true of the rows it left; no value lacks a column |
| | `TablesFit` | tables, profiles and stored Jobs fit, whatever overlaps; no server comes back |
| | `CallsStayCallable` | a type is written back as it was announced; a stored Job can be called as it was saved |
| | `ProfilesKept` | references keep Methods; edits do not undo one another; an upgrade keeps a Profile usable |
| | `ViewerTellsTruth` | a walk is whole and of one source, a list says when it is limited |
| `frontend` | `GridTellsTruth`, `SplitRowsInStep`, `ChartKeepsItsWord` | grid and charts show the rows of the window they name; gestures keep inside the data |
| | `WaitingEnds` | neither the grid, the Job dialog nor an Apply of the detail page that is not aborted waits for ever |
| | `DocumentsSettle` | after any crossing of messages, saves and lists, both documents agree; the detail page shows its route's Job and settles on nothing older than a level that was applied |
| | `LinesAreTheirs`, `PanelCatchesUp` | a panel shows its Job's lines, not what was cleared, and in the end the newest; the page shows one file of its list, its Job's own or the active one of a Job named like it with a date |
| | `PanelReachable` | the panel is never out of reach |
| | `CallsStoredAsShown`, `ReadAsWritten`, `SavedWasShown`, `OutputsStoredAsShown` | what was typed, imported or shown is what is stored, and the server and the collector take it |
| `unreadable_jobs` | `StoredIsReadable` *violated* | finding 2 |
| `default_server` | `DefaultRegistered` *violated* | finding 3 |

### Bounds

* Lock: three processes, because a takeover needs a dead owner and two contenders;
  `MaxAttempts` is 3 where the code has 8 (operation-lock.js:10): enough to lose the guard to another contender and to find it
  gone before one gets it, and to run out of attempts; 2 in the recovery run, where what matters is that they
  may run out. The theorems are about any number. Requests repeat without bound and processes may die at any call.
* Pipeline: two Jobs on two tables are the least that makes table switches and
  competing reservations happen. `Capacity` is 1 for safety, so that the queue is full often,
  and 2 for liveness; `MaxBatches` bounds the batches accepted (3 and 2), the
  only counter of the model. `PeriodicOnly` selects the native backend, which ignores forced flushes.
* Daemon: two Jobs; there is no counter. Jobs are symmetric.
* Job mutations: two Jobs, so that a session holds some locks when it is refused one and a
  create may name a Job that is not on the list; one API request at a time beside one script,
  because requests of different Jobs share nothing but the fence and those of one Job
  exclude each other by its lock. `Scripts` chooses the script, the package's or the
  Interface API's; the package run has no Interface, the Interface run has one with two forms, so that it
  can change. `NoneDead` lets a process die only while no earlier one's lock is left: one leftover at
  a time, as often as wanted. There is no counter.
* `MCBackend`. Control: three requests and one death, so that a request that gave up, one that
  came since and a profile change overlap. Collector: two cycles (what is kept between them matters
  once), one call of every kind and pairs with several Tags. Servers: three requests by two
  processes, which is one to begin with, and two that race. Methods: five requests, enough to discover,
  save, edit, save and call. Profiles: two requests on one Profile. Viewer: walks of one row to the page
  over two Tags and two instants, one edit.
* `MCFrontend`. Grid: five rows of two Tags, pages of at most three, three operations (a choice of Tags or a
  range, a move, and one before the answer to it); two clock instants, so that a range anchored on the clock moves. Chart: nine instants, three gestures.
  Documents: two Jobs, none or the second of which is there at first, so that a new one may come first in the list;
  one save and two inputs, which is one that is deferred and one that overtakes it. Its part about the last choice,
  which is not proved, was explored further once: two saves with two inputs and one save with three hold, the
  latter and one save with four inputs (68 million states, not exhausted) without a violation. The choice that it
  speaks of is given up when the side falls back to another Job, when it is known to be old, and when a deferred one is
  crossed by a list.
  Detail: two Jobs, three inputs, which is two mutations and a choice or a route between them, one change by others.
  Logs: two Jobs, of which one has the other's name and a date, two lines each, a file that turns over after one, one fault,
  one Clear, two reads of the page at a time. Panel: six viewports from too small
  to ample. Calls: two Calls, five edits. CSV: up to two rows with every kind of cell. Job form: a fast and a slow
  PLC and a malformed name, five operations, one other user. Outputs: every type and the older formats,
  seven operations, which is to open, change, confirm and save.

`CHECK_DEADLOCK FALSE` is used where the system may really stop: every process has
died (lock), the daemon has exited (pipeline), or the requests of the bound are spent (`MCBackend`, `MCFrontend`).

### Fairness

Safety runs assume none. `MCLockRecovery` assumes that the survivor goes on with its
request, asks again, and that leases expire. `CollectorPipeline!Fairness` assumes weak
fairness of the goroutines of a Job that is being stopped (a cancelled DBus call
returns), of the writer and of shutdown, and strong fairness of the flush tick: Go's `select` chooses among ready
cases at random and the ticker keeps ticking, so a tick that is ready again and
again is taken. Nothing is assumed of a Job that nobody stops.

`MCFrontend!Fairness` is weak and of three things only: a request of the viewer or the Job form, or a mutation of
the detail page, is answered or fails (`fetch` settles), the timer of the live panel fires, and a request of the panel is served and heard.
The user is never assumed to do anything.

### Statements that do not hold

Statements of documents or tests that the code does not keep, beside the three of the runs. Each stays in
its module as a definition; to see it violated, give it to the module's configuration as the only
`INVARIANT` or `PROPERTY`.

* `CollectorPipeline!StoppingUntilStopped` — `recordError` (main.go:3025) sets the state to `running` whenever
  a batch fails, also during the drain of a stop; DBUS_SDD.md:289 shows STOPPING until STOPPED.
* `CollectorDaemon!StartSurvivesExit` — `start` checks `closed` before persisting, not when it publishes (928); the
  preparation then fails because the collector shuts down, and `failStart` removes the Job from the active
  file. The comment at main.go:922 says that the Job is restored.
* `CollectorDaemon!StoppedIsPublished` — a start undone because its checkpoint failed (956) leaves the runtime
  state `starting`; a later `stop` publishes nothing, and the Job blocks changes of the profile.
* `JobMutations!PackageAlone` — a create past its second look at the fence (manager.js:275) goes on while the package
  script works; DBUS_SDD.md:304 says it is refused.
* `Servers!ServerInUseStays` — references are read before the removal (server-store.js:271-278) and a Job may be
  saved between; cgi-bin/tests/db-server-store-api.test.cjs:128 expects the refusal.
* `Logs!OthersKept` — a Job's purge counts the files of a Job whose name begins with its own and `_`
  (logger.js:92), against docs/DEVELOPMENT.md:20.
* `Logs!ListsItsOwn` — the reader refuses a file that is not of the selected Job (reader.js:27), but the active file of
  a Job named `line_20250101_101010` passes for one of `line`: the page of `line` lists and shows it, and All Logs counts it there.
* `Logs!NewLinesShown` — Clear remembers the file's name and length, and a file that turned over has the same name:
  once it is as long as the cleared one, its first lines are hidden (liveLogsModel.js:30), against
  frontend/tests/live-logs.test.mjs:368.
* `Surfaces!HighlightAligned` — the comment at App.jsx:1453 says that a save keeps the side's highlight on the Job that main
  shows; a choice whose message crosses the save's leaves them on different Jobs.
* `JobPage!StaysUsable` — the comment at App.jsx:41 says that the detail stays usable when the last run cannot be had for a
  moment; it comes with the Job now, `useLoad` drops both on any failure, and without them the poll ends.
* `LsControl!TestNeverReturns` — a Job stored with TEST after a profile change listed the Jobs, or a change that died before it
  cleared them, keeps TEST; the comment at test-mode-normalizer.js:43 says it can never come back.
* `JobForm!StaleFormRefused` — the revision that the form sends is not compared for LS Jobs
  (manager.js:907), against docs/superpowers/plans/2026-08-04-job-mutation-serialization.md:67.

## 4. Proofs

A run shows a property on one small instance, a theorem for every value of the constants: any set of
processes or Jobs, any number of requests, batches, retries and crashes. Each module of proofs defines an inductive
invariant `IInv`, shows `Init => IInv` and that every action keeps it, and derives the
properties from it. Each `IInv` was checked by TLC before it was proved; that of the lock is checked by
`lock_safety` still.

| module | theorem | property |
|---|---|---|
| `OperationLockProofs` | `TypeCorrect` | `Spec => []TypeOK` |
| | `Inductive` | `Spec => []IInv` |
| | `Exclusive` | `Spec => []ExclusiveUnlessStolen` |
| | `ExclusiveGuard` | `Spec => []GuardExclusive` |
| | `NeverAmbiguous` | `Spec => []GuardNeverAmbiguous` |
| | `OwnerReleases` | `Spec => OnlyOwnerReleases` |
| `CollectorPipelineProofs` | `Inductive` | `Spec => []IInv` |
| | `BooksBalance` | `Spec => []Balanced` |
| | `StopLeavesNothing` | `Spec => []StopDrains` |
| | `NothingSentAfterClose` | `Spec => []NoSendAfterClose` |
| | `PipelineImplementsLedger` | `Spec => AnsweredOnceInOrder`, the refinement of `BatchLedger` |
| `CollectorDaemonProofs` | `TypeCorrect` | `Spec => []TypeOK` |
| | `FilesAndTableTellTruth` | `Spec => []StateTellsTruth` |
| | `StopHolds` | `Spec => []StopIsFinal` |
| | `StartSurvives` | `Spec => []SurvivesUnlessLate` |
| | `WaitsEnd` | `Spec => []WaitsForAWorker` |
| `JobMutationsProofs` | `Inductive` | `Spec => []IInv` |
| | `ConfigurationsFit` | `Spec => []ReferencesHold` |
| | `NoLockIsLeft` | `Spec => []LocksAreSound` |
| | `ScriptIsAlone` | `Spec => []AloneUnlessOvertaken` |
| | `RunningStays` | `Spec => RunningIsFixed` |
| | `DeleteIsLast` | `Spec => DeleteLeavesNoService` |
| `LsControlProofs` | `Inductive` | `Spec => []IInv` |
| | `InForce` | `Spec => [](ProfileInForce /\ RunsWhatIsStored /\ LogLevelInForce /\ IndexTellsDocument)` |
| | `OneAtATime` | `Spec => []Alone` |
| | `NamesStay` | `Spec => NameNeverLost` |
| `ServersProofs` | `Inductive` | `ConstantsFit /\ Spec => []IInv` |
| | `SavedJobsFit` | `ConstantsFit /\ Spec => []MappingFits` |
| | `ProfilesFit` | `ConstantsFit /\ Spec => []ProfileFits` |
| | `RemovedStays` | `ConstantsFit /\ Spec => NeverResurrected` |
| `ServersProofs`, part `Profiles` | `ReferencesAreKept` | `ConstantsFit /\ Spec => []ReferencedStays` |
| | `EditsCount` | `ConstantsFit /\ Spec => EveryEditCounts` |
| | `UpgradeIsSafe` | `ConstantsFit /\ Spec => UpgradeKeepsCompatible` |
| `ServersProofs`, part `ViewerApi` | `PagesOfOneTable` | `ConstantsFit => (Spec => []OneSource)` |
| | `WalksAreWhole` | `ConstantsFit => (Spec => []WalkIsWhole)` |
| `CollectorDaemonProofs`, part `GenericCollector` | `CyclesTellTheirRows` | `ConstantsFit => (Spec => []ResultTellsRows)` |
| | `TheLogTellsAll` | `ConstantsFit => (Spec => []FailuresTold)` |
| | `NoValueIsLost` | `ConstantsFit => (Spec => []NothingDropped)` |
| | `WholeTables` | `ConstantsFit => (Spec => []WholeNumbersStayWhole)` |
| `SurfacesProofs` | `StaleListsAreAnnounced` | `ConstantsFit /\ Spec => []IInv` |
| | `ListsSettle` | `ConstantsFit /\ Spec => []ListSettles` |
| `SurfacesProofs`, part `JobPage` | `PageShowsItsJob` | `ConstantsFit /\ Spec => [](ShowsItsJob /\ AppliedIsShown)` |
| `SurfacesProofs`, part `DataViewer` | `GridShowsItsWindow` | `ConstantsFit /\ Spec => [](ShownInStep /\ NewestRowShown)` |
| | `PagesAreThosePages` | `ConstantsFit /\ WholeMilliseconds /\ Spec => []PageIsThatPage` |
| | `ChartsShowTheirWindow` | `ConstantsFit /\ Spec => SplitRowsInStep` |
| `LogsProofs` | `LinesAreOfTheList` | `ConstantsFit /\ Spec => [](ClearedStayHidden /\ LinesFromItsFiles)` |
| `LogsProofs`, part `PanelFrame` | `NeverOutOfReach` | `ConstantsFit /\ Spec => []PanelReachable` |

The runs `backend` and `frontend` put several modules side by side, so their properties are conjunctions over the
parts. The theorems prove these parts of them:

* `ControlInForce`, `NameNeverLost`: those of `LsControl`; `TablesFit`: those of `Servers`.
* `ProfilesKept`: those of `Profiles`; `ViewerTellsTruth`: those of `ViewerApi`, all but `LimitedTellsTruth`.
* `CycleTellsTruth`: those of `GenericCollector`, all of it.
* `DocumentsSettle`: those of `Surfaces` and `JobPage`, all but `LastChoiceShown`.
* `GridTellsTruth`, `SplitRowsInStep`: those of `DataViewer`, all of them.
* `LinesAreTheirs`: that of `Logs`, all of it; `PanelReachable`: that of `PanelFrame`, all of it.

`ConstantsFit` is in each of these modules what their constants are in the program: which sets are finite, which
values are numbers, that names differ. `MCBackend` and `MCFrontend` assert it of their constants, so TLC evaluates it.

### Operation lock

Assumptions: `AttemptsAssumption` (at least one attempt) and `NamesAssumption` (the
constants denote different things).

Exclusion alone is not inductive: that two processes do not both hold the
lock depends on who may create the lock file, which depends on who owns the guard,
which depends on what the processes looking at the guard have in mind. `IInv` is
`TypeOK /\ (~stolen => GuardInv /\ LockInv)`:

* `GuardInv` says that a process past the creation of its guard entry finds that entry,
  alone, in the directory, and that a process about to clear an entry has
  inspected one whose author is dead or which never was completed.
* `LockInv` says that a handle is backed by the process's own complete lock file or the
  process is dead, and that a process between inspecting and unlinking the lock is
  looking at a dead process's document.

Everything is conditional on `~stolen`, because of finding 1.

### Data plane

Assumption: `PipelineAssumption` (finitely many Jobs, each with a database, a queue of at least one place).

`IInv` says where every batch is. The batches of the ledger are answered up to `Answered`, and the writer is done
with them up to `Processed`; what the stream has pending, what the writer has in hand and the queue are the rest, three consecutive intervals in the
order of acceptance (`Ordered`). The code's counters are cardinalities: a place of the queue for every batch in it and every
reader in a cycle, a buffer for every batch of the Job that is not processed and one that its reader
holds, a unit of work for every unanswered batch and one that the reader has added already (`Counted`). The
priming batch, which is answered over a channel instead, is its Job's only one and its reader waits for it (`Priming`); a reader
at rest has no unanswered batch (`Rested`). The lemmas about intervals and cardinalities say what one more batch, or one
fewer, does to these sets.

The refinement takes `ledger` for the log and the Jobs whose reader has started and not ended for those collecting. `Begin` is
the start of a Job, `Accept` an enqueue, `Answer(n)` the step of the writer that settles the next `n` batches,
`End` the end of a reader; every other step leaves both unchanged.

### Control plane

No assumption. The properties speak of files, table and goroutines; what a command will make of them depends on where it is. `IInv` says,
for every step a command has reached, what it has done to the goroutine, the table, the state and the files
(`StartsInOrder`, `StopsInOrder`), that a goroutine that has not ended is in the table until the daemon drains and
both its states are busy (`TableKnows`), and which Jobs shutdown has found and which starts
it missed (`ShutdownKnows`): this last is what makes `SurvivesUnlessLate` hold with its exception and no
more.

### Job mutations

Assumptions: `JobsAssumption` (Jobs are a finite set of numbers, the order of the list) and `NamesAssumption`.

`IInv` says which steps a request's operation goes through (`Paths`), which lock it holds at each (`Holding`, `Reading`),
what a package session has locked (`Session`) and that every request at work
while it holds the fence is one that was past its second look (`Passed`); that a configuration that names the
Interface is under a reader's lock from its validation to its writing, so that a change of the Interface has not
looked at this Job or waits for it (`Guarded`); and that what the last inspection of the service
showed is still so (`Services`), which is where the controller may interfere: a service may stop or vanish
by itself, never appear.

### LS Jobs

No assumption. `IInv` has one conjunct for each of the reasons why what runs is what is stored: one request at a time works
on a Job (`Alone`), on a document that is there (`There`); document and index differ only after a save that broke off
(`Indexed`); a Job that runs was started from its document (`Stored`) and does not run while it is replaced
(`Replaced`); a log level is told before its request ends (`Relogged`, `Heard`); the collector's copy is the
profile unless a save of it is under way or broke off (`Published`). The exceptions are the four ghosts of the model. What any step may do to the requests, a document, a running Job and the levels
that are on their way is proved once over all actions (`RequestsStep`, `Files`, `Running`, `Tell...`); every
conjunct follows from these.

### Servers and tables

Assumption: `ConstantsFit` (localhost is a name, a table that was there has columns, and that of localhost, if it was
there, has the column a Job makes), which `MCBackend` asserts of its constants.

A step of a process does to the files only what `Effects` says: it takes a free lock or gives its own
back, removes a server whose lock it has, leaves every table that is there, and writes profiles and Jobs that name columns of
their tables. What `Clauses` say of another process then stays true (`OthersStep`): that it has the lock between taking
and releasing it, that the server an update found under the lock is still there, that a Job about to be
stored names columns that are there. So each action needs only its effects and the clauses of the process that took it (`Kept`).

### Live Logs panel

Assumption: `ConstantsFit` (extents are numbers, the safe minimum is not above the
minimum), which `MCFrontend` asserts of its constants. That the panel lies inside the margins is
not inductive while an edge is dragged, because the new size is computed from where the drag began. `Held` says
that the drag began from a panel inside the margins that has not moved since, in the viewport as it is.

### Profiles

Assumption: `ConstantsFit` (the mark of a free lock is not a process; versions are semantic versions, of numbers and
identifiers). `ProfilesInv` says that a process past the fence is alone on its Profile, and that what it will save is
made from the Profile that is there and keeps every Method that a readable Job names. So its save changes what the request
names and nothing else. That a later server may use every Profile an earlier one could is the transitivity of
`compareSemVer`: it compares versions at the first place where they differ, and so do the proofs. TLC checked the
invariant on 5.3 million states first.

### Generic collector

Assumption: `ConstantsFit` (calls and selections as `validateMethodCall` accepts them, answers of the declared types,
whole numbers as the comment at storage-policy.js:34 says of PLC values). `CycleInv` says that while a cycle runs what is counted is
in the table, and what is due is in the table or in the buffer (`Running`); that the failures
told and those the summary has yet to tell are the failed cycles (`Tells`); and that table and buffer hold whole
numbers only if the Job was saved so (`Numbers`). TLC checked it on 206,595 states first. `NoValueIsLost` has
a premise, `FirstSpeaks`: see the notes of section 5.

### Viewer API

Assumption: `ConstantsFit` (pages of at least one row, windows of numbers, documents that name tables and columns). `ViewerInv` says
that each page of a walk is a slice, by numbers, of the table the client asked for as it was at some moment, and that these
moments are in the order of the pages (`History`). As rows are only added, a row's place in the order of the walk only moves back;
so the first page that ends beyond its place shows it, and when the walk goes up in time, or nothing is
stored, its place does not change and no other page does.

### Side and main documents

Assumptions: `ConstantsFit` of each (Jobs are positive numbers, some of which are there at first; the detail page has a Job to show).
`IInv` says of each document that its list, with the result of its own mutation merged, is the server's, or that something
under way will make it so: its request, a refresh in a message, the other's mutation, a save that has written. When
nothing is under way, only the first is left. The handlers are operators from a state to a state; each is shown once to keep
this, and every action follows from theirs. `PageInv` says of the detail page that all it shows or waits for is a
reading of the one index at some moment, and no earlier than the level applied last.

### Data Viewer page

Assumption: `ConstantsFit` (finitely many Tags and rows, of numbers; pages of at least one row). `GridInv` says that a request which counts
was made from the inputs of the moment and the pinned window (`Fetching`, `Asking`), that the rows shown were too
(`Showing`), that the bounds of the page are those of the rows shown (`ShownBounds`) and lie, like a request made from
them, in the pinned window (`Window`), and that a window resolved against the data is what the data still say (`OfData`).
`FetchFits` and `RenderFits` show it of the effects once, for every handler.

That a page is that page needs more: `ExactInv` says that a page asked for by a cursor is the slice with its number, and
that the bounds a total will be applied to are those of the slice with theirs (`Turned`, `Placed`), as long as the window
is the one they were taken from (`Steady`). It rests on facts about the queries: rows are totally ordered, the rows after the
last one of a page begin the next page and those before its first one end the one before (`NextPage`,
`PreviousPage`), which is arithmetic on how many rows come before another. A cursor is a time cut to its millisecond, so
`PagesAreThosePages` has the premise `WholeMilliseconds`; TLC refutes `PageIsThatPage` on a table without it (section 5).

Of the charts, `SplitInv` says that at most one request counts and that it is for the windows its charts show or for ranges yet
to be resolved. TLC checked the three on 709,239 states first.

### Logs

Assumption: `ConstantsFit` (the lengths of the tails are numbers, what a name has before a date is where it begins, `"none"` is no
Job). `IInv` says that files hold lines of their own Job, in order, also
when another Job's name begins alike (`FilesFit`); that the page reads files of its list and shows what it read of one of them, its
Job's own or that of a Job named like it with a date (`PageFits`); that the panel has one request of its current run at a time, or its timer
(`OneAtATime`); and that what it has heard, what it has cleared and an answer on its way are snapshots in the
order of the file (`InOrder`), so that what Clear hid stays before what is shown.

### Only model-checked

* Liveness, which is out of the prover's reach: `SurvivorAcquires`, `StopReturnsInTheEnd`, `ShutdownEnds`,
  `PanelCatchesUp`, `WaitingEnds`.
* `CallsStayCallable` and `ReadAsWritten`: `MethodCalls` recurses over types and `TagCsv` over characters, on
  which no installed prover can induct.
* `Surfaces!LastChoiceShown`: its invariant would have to relate every pair of messages under way.
* `ViewerApi!LimitedTellsTruth`, which compares folds over sorted sequences.
* The gestures on a chart (`ChartKeepsItsWord`) and the forms (`CallsStoredAsShown`, `SavedWasShown`,
  `OutputsStoredAsShown`), whose properties compare what one event reads with what the next one stores.

## 5. Findings

1. **The lock may be held twice** (`lock_exclusion`). Two contenders inspect the same stale guard; the
   first takes it over, finishes and a third creates a fresh `owner.json`; the second's
   `renameSync(owner.json)` moves that one. `BE_DESIGN.md` 6.1 says exactly one
   contender gets the guard.
2. **A Job with output selections is an invalid document** (`unreadable_jobs`) to the Interface manager: `validCall`
   lists six fields, the Job validator stores a seventh. Such a Job blocks the changes of every Interface.
3. **The default server may be removed** (`default_server`). DELETE compares with settings read before the lock; PUT
   settings looks the server up before it writes. Each may look before the other writes.

Noted while modelling, and contradicted by no document:

* `stop` of the package collects the names to restart before it has the Job locks and replaces the checkpoint on
  every run, so that a second `stop` after a partial one forgets the Jobs the first one stopped.
* A create that dies between `open('wx')` and its content leaves a document that can be neither read nor deleted
  and counts as a reference of every Interface.
* A controller that installs a service but fails to say so leaves it installed after create has discarded the configuration.
* `updateLog` does not compare the revision it is sent; that of a Job that is STARTING is stored but not told to the collector; a profile save that meets a held Job
  lock while it clears TEST flags (db-api.js:231) leaves the profile stored and the collector's copy old.
* `list()` of the servers restores `localhost` without its lock; a settings update of limits writes back the default it read.
* An optional input may be left out of a Job, and `buildTypedArguments` refuses the call of every cycle.
* `jobNeedsStringValueColumn` looks only at output 0 of a first-version call: with outputs (double, string) the Job
  gets no column for strings and the collector drops the string. `NothingDropped` therefore has the premise `FirstSpeaks`.
* The viewer's cursor holds the time cut to its millisecond: of rows that differ by less, the next page may skip some or
  repeat some. `PageIsThatPage` holds for times of whole milliseconds, which is what the run has.
* A broken append (appender.js:97) leaves rows of a cycle that is reported as failed.
* The dialog keeps several Tags when an array mapping becomes a scalar; the server refuses the save. A legacy selection that
  is saved again is stored with its older fields.
* One request number serves all split charts: an answer for one chart that another chart's request overtakes is dropped.
* The Logs page does not number its reads (App.jsx:2058): a slow answer for a file left before replaces the newer one.
* A second form's save is refused without a word while the lease of the first holds; `logSaving` and `overrunClearing`
  of a superseded action stay set (App.jsx:631), and the button stays disabled until the page is left (`JobPage!ApplyingEnds` without
  `~strayed`).
* Polls every 5 seconds abort an answer that takes longer.

Documents that differ from the code where no property is about it: docs/DEVELOPMENT.md:97 and 409 contradict each other;
`previous` in BE_DESIGN.md:214 is null after a collector restart (entry.js:110); DBUS_SDD.md:35 says the Profiles
contract is gone while `api/profile.js` serves it, and a generic Job, which names no Profile, makes its creates and updates refuse.

## 6. Not modelled

* **LS package scripts** (`servicectl` calls without a lock); the `status` command and `lastRun`, which only read. `recordSuccess` does not clear `LastError`, so a recovered Job still
  shows the last failure; performance records are deleted by name (main.go:1041).
* **TAG registration** is part of a Job's preparation in `CollectorPipeline`; the goroutine that keeps a stream which
  the writer closes meanwhile (main.go:2034) is not.
* **Cycle timer, value codec, TAG registry**: `SkipPast` is a division next to the system's clock (cycle_timer.go:56), the decoder
  a table of widths with limits at 2^31, 2^63 and NaN (main.go:2298), the registry a list that grows (1072).
  A model of them would repeat the code.
* **Formats**: numbers in text, path syntax of selectors, names, schedules, colours, drawing.
* **Pages of settings, servers and Interfaces** in `App.jsx`: forms with one request each.
* **`cgi-bin/runtime.js`** is a generated bundle of `cgi-bin/src`, which is modelled instead.
* Launcher, benchmarks, product build, operating-system scheduling, C bindings of the native appender (a
  stream that may fail), the `legacy` branch of the operation lock.

Next in the plan: registration as an action of its own in `CollectorPipeline`; proofs about the forms.
