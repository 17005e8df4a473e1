# Verification of the CEF core

TLA+ models of the parts of this repository (the Chromium Embedded Framework
with an agent runtime and Rust crates added to it) whose correctness depends on
what happens between threads, processes and crashes, TLC runs that check them on
small instances, and TLAPS proofs for every instance. `PROJECT.json` maps every
definition that models code to its lines and lists runs, mutants, findings,
hazards and theorems.

## 1. Inventory

CEF wraps Chromium for embedders. A browser process owns browsers, request
contexts and the client's callbacks; renderer processes run pages; they talk
over Mojo pipes. `libcef/` is the implementation, `libcef_dll/` the C API glue
and a wrapper library that embedders link (message router, resource manager).
The agent runtime in `libcef/browser` adds a task scheduler, an evaluation
loop, a state journal, a session pool, caches and stores. `rust/cef-rs` binds
the C API to Rust: generated bindings over a reference counting layer, ports of
the wrapper library, and the tools that install the CEF binaries for a build.

| Component | State | Operations | Interacts with | What is hard | Correct when |
|---|---|---|---|---|---|
| State journal (`state_journal.cc`) | dictionary, count of operations since the last snapshot, a file of JSON lines | Initialize, Set, Delete, Compact, SetCompactionThreshold, Close, replay | the storage state manager owns one | crash inside an append or between append and compaction, short writes, failed reads and renames | what was acknowledged survives; recovery time is bounded |
| Agent task scheduler (`agent_scheduler.cc`) | priority queue, slots, per-agent counts, limits, paused flag | ScheduleTask, CancelTask, Pause, Resume, SetConfig, OnTaskComplete | thread pool, reply sequence, embedder's closures | completions on another sequence race every other call | limits and order hold, no task is lost, the queue drains |
| Evaluation loop (`EvalLoopRunner`) | counters, results, summaries | DispatchNextBatch, OnTaskComplete, OnIterationComplete | thread pool; started by the scheduler | replies in any order; counters reset between iterations | each iteration has every result once; the loop completes |
| Frame connection (`frame_impl.cc`, `frame_host_impl.cc`, `browser_frame.cc`) | connection state, retry count and queue of the renderer; binding and queue of the host | connect, ack, deny, disconnect with a reason, retry, send, back/forward cache, detach | Mojo, the page life cycle, browser info | two processes, two unordered pipes per attempt, retries, intentional detach | both sides agree, messages arrive at most once, attempts settle |
| Rust message router (`message_router.rs`) | pending requests in each renderer, pending queries and the deque of handlers in the browser, ID generators, mutexes | cefQuery, cefQueryCancel, success, failure, add_handler, remove_handler, cancel_pending, navigation, process death | frame connections carry its messages | cancellations cross responses; callbacks on any thread; a thread that locks a mutex twice | every query ends once; nobody waits for nobody |
| Resource manager (`cef_resource_manager.cc`) | list of providers, requests pending with each, handlers to be served, posted tasks | AddProvider, RemoveProviders, RemoveAllProviders, OnBeforeResourceLoad, Continue, Stop, GetResourceHandler, destructor, archive loading | network stack, client's providers, IO and FILE threads | iterators kept across callbacks and tasks, removal while requests wait, destruction | no stale iterator, removed providers are silent, every request continues |
| Rust reference counting (`rc.rs`) | an atomic counter in each object; guards and raw pointers | add_ref, release, has_one_ref, clone, drop, from_raw, into raw, Send | every generated binding; CEF calls it through function pointers | memory order: the last release frees what other threads used | the object lives while referenced, is freed once, after all uses |
| Rust installation (`download-cef`, `export-cef-dir`, `sys/build.rs`) | archives, directories of binaries and their `archive.json` in three places; `CEF_PATH` | download with retries, verify, extract by renames, stamp, export with `--force`, resolve the directory of a build | the file system, the CDN, cargo | a run killed at any step, and the next run that finds what it left | a stamp never lies, a build links complete binaries, the next run repairs |
| Browser info registry and manager | frames of a browser; pending NewBrowserInfo requests and popups | CreateFrame, RemoveFrame, OnGetNewBrowserInfo, timeouts | frame hosts, client | timeout against late answer, popups that look alike | one answer per request, notifications alternate |
| Session pool, page model cache | idle contexts; snapshots with generations | Acquire, Release, Prewarm; Get, Put, Bump | request contexts; frame connections | callback under the lock; stale put | one owner per context; no old snapshot |
| Storage state, auth vault, hang monitor | journal, files, one callback | Save, Load; unresponsive, answer | journal, client | two managers on one file; answer against recovery | old or new state on disk; one answer |
| Rust: resource manager, external pump, strings, agent API, generator, samples | see section 8 | | | | not modelled |
| Hosts, request interception, DevTools, off-screen rendering, views, V8, C API glue | mostly Chromium's | | | | not modelled, see section 8 |

## 2. Modules

State variables carry the names of the members they model and actions the names
of the methods. An action is what happens under one lock, in one task of a
thread or in one call to the file system; calls of client code are where an
action ends and another may begin. Definitions marked `Mutant:` are not part of
a model: each is a plausible bug of the definition behind it, and a run must
fail when it takes the definition's place.

- `StateJournal` models `CefStateJournal`. `file` is the sequence of lines of a
  journal file, with a flag for a last line that lacks its newline; `Faults`
  selects which of short appends, failed appends, failed compactions and
  failed reads occur. `Commit` and `AppendFails` are the two outcomes of `Set`
  and `Delete`, `Crash` and `CrashDuring` are deaths between and inside
  operations. `acked` is a history of what callers were told.
  `StateJournalProofs` holds its theorems.
- `AgentScheduler` models `CefAgentScheduler`. Every method holds `lock_` and is
  one action, with the dispatch loop it ends with stated by what the loop
  achieves (`LoopTakes`). The work, its reply and `OnTaskComplete` are three
  further steps of a task. `AgentSchedulerProofs` holds its theorems.
- `EvalLoop` models `EvalLoopRunner`; `EvalLoopProofs` holds its theorems.
- `FrameConnection` models one frame in its renderer, its host in the browser,
  and the two pipes of each connection attempt. `FrameConnectionProofs` holds its
  theorems.
- `MessageRouter` models both sides of the Rust crate's router and the channels
  between them. The crate guards its maps with `std::sync::Mutex`, which a
  thread cannot lock twice: a call that does so puts its thread into `blocked`
  and nothing of that process runs any more. A handler that calls the router from
  `on_query` does so (`HandlerReenters`); if the call is `remove_handler`, the
  handler has left the deque before the thread blocks, and its queries are still
  in the map. `MCMessageRouter` gives the model
  frames, processes and handlers. The router of the C++ wrapper, which the crate
  ports, is not modelled beside it: it has no mutexes, it drops a persistent
  query that its handler failed, and it lets a handler change the list of
  handlers while it is asked. `MessageRouterProofs` holds its theorems.
- `ResourceManager` models the C++ manager, its tasks and `ArchiveProvider`.
  Client code that runs inside `OnRequest` is an interleaving point (`sending`),
  which is how reentrant removals come about. `MCResourceManager` gives it
  providers; `ResourceManagerProofs` holds its theorems.
- `SharedObject` is an abstract specification: an object lives while there is a
  reference to it, references are made from references, and when the last one
  is given up the object is destroyed, once. `RefCount` models `RcImpl`,
  `RefGuard` and the conversions of the bindings, with the counter's memory
  orders, and instantiates `SharedObject` with the refinement mapping
  `refs <- Held, alive <- ~freed`. `unseen[t]` are the threads whose latest use
  of the object does not happen before what `t` does next; a Release decrement
  publishes what its thread has seen, the Acquire fence takes over what was
  published, and handing a reference over synchronizes giver and taker.
  `RefGuard` is `Sync` too: `borrowers[r]` are the threads that may use and clone
  a guard through a shared reference while its holder keeps it (`Lend`,
  `GiveBack`); a guard is moved or dropped only when nobody has it borrowed.
  `RefCountProofs` holds its theorems.
- `CefInstall` models a sequence of runs of build scripts and of
  `export-cef-dir`: the state is the disk (archives, directories with the number
  of parts that have been renamed into them and the version these are of, the
  stamp `archive.json`, left-overs of `remove_dir_all`) and the step the run
  under way is at. `Interrupt` kills it, or gives it an error, before any step;
  `scars` is the history of where that happened. `CefInstallProofs` holds its
  theorems.

The modules are independent of each other: the code joins them only through
the calls listed above (a journal in the storage state manager, the router's
messages on frame connections, reference counts of the objects that cross the
C API). Compositions are in the plan.

## 3. Runs and what they show

Passing runs:

- `journal` (StateJournal): with failed appends and any placing of crashes,
  acknowledged operations are durable and read back (`AckedIsDurable`,
  `ReadYourWrites`); `Consistent` joins the type invariant with two facts that
  it would be wrong without: `pending_ops_` counts what a replay would redo, and
  compaction bounds the file.
- `journal_torn` (StateJournal): with torn appends, failed reads and failed
  compactions, operations appended behind a complete line are still durable
  (`CleanAckIsDurable`). Together with `journal_torn_ack` it draws the exact
  border of the durability the code gives.
- `scheduler` (AgentScheduler): the bookkeeping is exact (`Bookkeeping`: a slot
  is held from the dispatch of a task until its `OnTaskComplete`, hence still when
  its `on_complete` has run, and counts are the slots of an agent), no
  task is lost, limits and order are kept by every step, including bursts after
  `Resume` and `SetConfig`, a queue that may be served has somebody who will
  serve it, and it drains.
- `eval_loop` (EvalLoop): concurrency stays in its bound, iterations do not mix,
  summaries are complete, on_complete_ runs once, and the loop completes.
- `frame_connection` (FrameConnection): `EndsAgree` (the ack finds the state its
  CHECK demands, both sides agree on a connection or the news is under way, a
  detached host is never bound, denial is final), messages arrive at most once
  over any number of reconnects, a connection that the browser answered is retried
  only when its CefBrowserFrame is gone (`RetriedOnlyAfterClosure`: not when the
  page enters the back/forward cache), attempts settle.
- `router` (MessageRouter): a query ends once for its handler, unless it is a
  persistent one that its handler failed (`EndsOnceOrFailed`), JavaScript sees a
  legal sequence of replies, a page that waits can be answered, a query whose
  page left is being canceled, and the ID in a pending query stands for the
  handler that took the query (`HandlerIsRegistered`). The last one and
  `PendingIsAnswerable` except what follows when a handler has stopped the UI
  thread: an ID may then stand for no handler, never for another one, and the
  pages that wait for that thread are not answered.
- `resource_manager` (ResourceManager): positions never dangle and removed
  entries wait for posted tasks only (`PositionsAreValid`), canceled providers
  are ignored, requests go through providers in order, and each is continued in
  the end.
- `refcount` (RefCount): the crate implements `SharedObject`, its liveness
  included (`OwnershipSpec`); every use of the object happens before it is freed
  (`UsesHappenBeforeFree`: a Relaxed decrement or a missing fence would break
  it); and a thread that `has_one_ref` told that it is alone, while nobody had
  borrowed its guard, stays alone until it acts itself, by lending it for one
  (`SoleIsAlone`), although the load is Relaxed. With a borrower the answer is
  worth nothing: the other thread may clone at any time.
- `install` (CefInstall): wherever runs are interrupted, a readable
  `archive.json` lies in a complete directory of the version it names
  (`StampMeansComplete`); a build goes on with complete binaries and an export
  is what was asked for (`UsedIsComplete`), but for a build in `OUT_DIR` after
  one that was interrupted between two renames, whose directory `resolve_cef_dir`
  takes without looking into it; a run without an error of its own fails only
  after the interruptions listed in `Irreparable` (`NoCauselessFailure`), among
  them a versioned directory of `CEF_PATH` that was left without its stamp, which
  no later build repairs; and every run ends (`RunsEnd`).

Runs that exhibit a disagreement between the code and what the repository says
about it (details and quotations in `PROJECT.json`, findings):

- `journal_torn_ack`: after a torn append, the next operation that returns true
  is written onto the torn line and lost with it at the next replay.
- `router_isolated_frames`: request and context IDs are unique in one renderer
  process only; with frames of one browser in two processes a cancellation by
  one removes the query of the other, whose page waits for ever.
- `router_cancel`: `cefQueryCancel` locks `browser_request_info_map` twice on the
  renderer's main thread and never returns.

Six more formulas are stated in the modules and refuted by TLC without a run
that is kept for them; each is a promise of a comment, a header or a test that
the code does not keep:

- `AgentScheduler!FreeAfterOnComplete` (the constants of `scheduler`):
  `agent_scheduler_unittest.cc:308-312` waits for the `on_complete` of all tasks
  and then expects a running count of 0, but the reply runs `on_complete` before
  `OnTaskComplete` gives the slot back; refuted after three steps.
- `FrameConnection!NoRetryAfterDeletion` (the constants of `frame_connection`):
  `frame_impl.cc:673-683` means not to retry after an intentional detach, but the
  deletion of a frame closes the CefBrowserFrame pipe as well, without a reason,
  and a renderer that sees that closure first retries; refuted after five steps.
- `FrameConnection!NoCrashWhenDeclined` (`Kinds = {"main"}`, `RetryMax = 3`,
  `MaxConn = 4`, `MaxSends = 0`, `MaxEvents = 4`): the disconnect handlers report
  MOJO_RESULT_OK, so an intentional decline is not recognised and a main frame
  that was never connected crashes when its retries run out.
- `FrameConnection!ReconnectsAfterRestore` (`FairSpec`, `RetryMax = 3`,
  `MaxConn = 6`, `MaxEvents = 2`): a page that leaves the back/forward cache
  before its renderer handled the detach is never reconnected.
- `ResourceManager!RemovalReturns`: a second removal, or the destructor, while
  an entry removed before waits for its requests loops for ever on the IO thread.
- `MessageRouter!EndsOnce`: a persistent query that its handler failed stays in
  the map and may be canceled later.

Observed while modelling, without a formula of their own: `ArchiveProvider`
never continues a request that waited for the archive and whose file is not in
it (the `Stranded` case that `RequestsSettle` excepts); `Initialize` of a closed
journal on a path without a file keeps the dictionary of the old one; the second
and later iterations of an evaluation loop find their OnceCallbacks consumed and
report failures; with a limit of zero neither the scheduler nor the loop
progresses, which is why their liveness properties ask for positive limits; the
storage state manager flushes a journal that nobody writes to; a handler of the
Rust router that calls the router back from `on_query` blocks the UI thread
(`HandlerReenters`).

## 4. Bounds

Every bound is a constant and a guard of the actions it bounds.

- `journal`: two keys, two values, five operations, two crashes. A lost update
  needs two operations on one key, a snapshot, and an operation after it; five
  operations allow two compactions and an operation behind the second, and two
  crashes allow one during the recovery from another. One path: the object's
  path changes only in Initialize. The proofs keep the one path and lift the
  rest.
- `journal_torn`: the same with fewer operations, since each has more outcomes.
- `scheduler`: three tasks, two agents, two priorities, limits 0 to 2, changed
  at any time. Order needs two queued tasks and one that starts, the per-agent
  limit needs two tasks of an agent and one of another. The proofs lift these.
- `eval_loop`: four tasks, two iterations, limits 0, 1, 2 and 4: limits that
  divide, exceed and equal what is left of an iteration. The proofs lift these.
- `frame_connection`: five attempts, two messages each way, three changes of the
  page, one retry; all three kinds of frame. An attempt that goes wrong in each
  way, a retry of it, and a reconnect after the cache fit into five. The real
  number of retries, 3, is only the length of the same cycle. The proofs lift
  all of these for the safety properties.
- `router`: two frames in one process, two handlers, two queries, two calls of
  callbacks and two events of the browser; frames and handlers are symmetric.
  Two queries are enough to confuse their IDs, responses and cancellations. The
  violation runs use one or two queries and, for `router_isolated_frames`, two
  processes. The proofs lift these, to any number of processes but for
  `PendingIsAnswerable`.
- `resource_manager`: two requests, two additions out of three shapes of
  provider (two orders, two identifiers, both kinds), one answer under way from
  another thread. Two entries with two requests give the cases of a request
  that moves past, from and to an entry that is pending deletion because of the
  other request. That a request passes no entry that is there needs a third one:
  for that part of `OfferedInOrder` see its theorem.
- `refcount`: three threads, one that frees, one whose use it must have seen, and
  one through whom it learns of it, and two references, each of which may be lent
  to all of them. The proofs lift these.
- `install`: three versions around the expected one (older, equal, newer), two
  parts, one retry, three runs of which two may be interrupted. One run leaves a
  state, the next is interrupted while it meets it, the third shows what follows.
  The proofs lift all of these.

The passing runs reach between 73 thousand and 3.0 million distinct states.
`CHECK_DEADLOCK FALSE` is set where the system may really stop: all bounded
operations used and nothing under way, or a process that is blocked.

## 5. Fairness

Only what the platform guarantees is fair, always weakly and never an action of
the embedder or the page:

- scheduler, evaluation loop: the thread pool runs posted work and the sequence
  runs replies;
- frame connection: Mojo delivers messages and disconnects, posted tasks and the
  retry timer run;
- resource manager: the IO thread runs its tasks, `OnRequest` returns, archives
  are loaded by the FILE thread, and a client's provider answers what it
  accepted, which is the contract of `cef_resource_manager.h:196`;
- reference counting: a thread that has begun to release the object goes on;
  nothing makes anybody drop a reference, so `SharedObject` only promises that
  the object is destroyed once all are dropped;
- installation: a run that is not killed goes on to its next step. For a download
  this assumes that the network answers or reports an error: the request sets no
  read timeout (`download-cef/src/lib.rs:277`), and on a connection that stays
  silent a run waits for ever.

The journal and the router are checked for safety; the router's waiting is
expressed as safety (`PendingIsAnswerable`: whoever waits has an answer under
way or somebody who owes one), because handlers need not answer.

## 6. Proofs

Eight proof modules prove, for all values of the constants that satisfy the
named assumptions of the module proved about, every safety property (invariants
and action properties) that the passing runs check. The assumptions say that
bounds are natural numbers, that the values that stand for nothing are not among
the others, and that there are finitely many contexts (`MessageRouter`) and at
least one shape of provider (`ResourceManager`). Five theorems have a hypothesis
of their own, stated in the theorem and explained below: `OnePath` and a
restriction of `Faults` for the journal, `SharedProcess` for one theorem of the
router. The runs of those properties satisfy the hypotheses.

`AgentSchedulerProofs`: the inductive invariant is `IInv`, the conjunction of
`TypeOK`, the two parts of `Bookkeeping`, `NoTaskLost` and `QueueHasDriver`. None
is inductive alone: the exact counts need the slots to be the tasks in progress
(otherwise a completion could decrement a count twice), and `QueueHasDriver`
needs both to conclude that a loop that stopped at a limit stopped because a
slot is held. The heart is the lemma `DispatchCorrect`: from any queue, slots and
counts that fit together the dispatch loop ends in such a state again, within
the limits, in order, and with a slot held if anything is left that could run.
`NextIInv` then has one step per action. `Invariance` gives `TypeCorrect`,
`BookkeepingExact`, `TasksAccounted` and `QueueDriven`; `LimitsRespected` and
`OrderRespected` are the two action properties, again by `DispatchCorrect`.

`EvalLoopProofs`: the inductive invariant `Inv` says that the loop is running
or finished and, while it runs, that an `Account` holds: the tasks dispatched in
this iteration are an interval of indices, each is in exactly one of pool,
replies and results, and the counters are the sizes of these. Lemmas state how
dispatching a batch, running a task and taking a reply change an account, and
that a full account makes a complete summary. `InvHolds` gives `TypeCorrect` (no
`size_t` counter wraps), `ConcurrencyIsBounded`, `IterationsAreSeparate`,
`SummariesAreComplete` and `LoopIsDriven`.

`RefCountProofs`: `TypeOK` is not inductive because a decrement could take the
counter below zero; `Counted` (the counter is the number of references) and
`Releasing` (at most one thread is on its way to free the object, and then there
is no reference) exclude that; `LoansOfHeld` says that only guards that somebody
holds are lent. `UsesHappenBeforeFree` needs `HolderHasSeen`: a use that is not
published was seen by the holder of some reference, whose Release decrement is
still to come, or by one who has it borrowed and must give it back first. When the last reference goes nothing is left
unpublished, and the fence of the thread that saw 1 takes over everything.
`Invariance` gives `TypeCorrect`, `FreeIsSynchronized` and `SoleHolds`;
`StepRefines` shows that every step is `Share`, `GiveUp`, `Destroy` or a stutter
of `SharedObject`, from which `OwnershipSafe` follows, the safety part of the
refinement.

`CefInstallProofs`: the inductive invariant adds to the three properties what a
run may assume at each of its steps (`JobOK`, `ArchiveOK`, `FillOK`), that the
directory of a version has content only where it exists (`VersionedOK`), and that
whatever is incomplete or left over is either being worked on or has left its
scar (`LeftOK`, `TrashOK`). The last two are what makes an exception in
`UsedIsComplete` and `NoCauselessFailure` exact: a state that a run without
faults cannot produce has a cause in `scars`. One lemma per group of actions and
conjunct; `Invariance` gives `TypeCorrect`, `StampTruthful`, `UseIsSafe` and
`FailuresHaveCauses`.

`StateJournalProofs`: what a replay computes is an induction over the lines of a
file. It is carried out over sets of numbers, a set that is not empty having a
least element (`LeastNumber`, from the well-foundedness of the natural numbers),
because the provers cannot instantiate the induction rules of the library.
`ReplayAppend` and its companions then say how one more line, or a snapshot,
changes the result. The inductive invariant `IInv` has, beside the types, that
the file replays to what was promised (`FileOK`), that a last line without its
newline carries no promise (`TornOK`: it would be lost with the next append), and
that the dictionary of an open object keeps the same promises (`MemoryOK`). It
needs `OnePath`: `Initialize` on a path without a file keeps the dictionary of
the journal before, so that with two paths the two mix, which is one of the
observations of section 3. `CleanAckHolds` and `ReadYourWritesHolds` then hold
under all faults. `AckedIsDurableHolds` excludes torn appends and failed reads, as
its run does, because `journal_torn_ack` shows it false with them; it needs in
addition that every file ends with a newline and every acknowledgement was given
behind a complete line (`Whole`). `ConsistentHolds` allows failed appends only: a
compaction that fails leaves a file that grows beyond the threshold. It adds
`CountInv`, which relates `pending_ops_`, the file and the number of crashes.

`FrameConnectionProofs`: the parts of `EndsAgree` are not inductive because they
do not speak of messages. The invariant adds where FrameAttached may be on a pipe
and what the browser has not done while it is there (`AttachOK`), that only the
latest attempt asks (`LatestAsks`), that attempts to come are untouched
(`FreshOK`), that an answer is on its way to the renderer exactly when the
browser has given one (`AnswerOK`), and which hosts can be found (`HostOK`).
`Invariance` gives `EndsAgreeHolds` and the action property
`RetriedOnlyAfterClosureHolds`: a renderer that the browser has answered goes to
RECONNECT_PENDING only once the CefBrowserFrame of the attempt is gone. `AtMostOnceHolds` has an invariant of its own, the same in both
directions (`Once`): queue, pipes and what was received are disjoint, and nothing
is in any of them twice.

`MessageRouterProofs`: a base invariant `BaseInv` has the types, that no query is
sent twice and IDs stay within what was asked (`CountOK`), that context IDs of a
process differ (`ContextOK`), the life of a query ID (`EndsOK`) and the deque of
handlers (`HandlersOK`: without empty ends, the ID of a handler is its place and
an offset). It gives `TypeCorrectness`, `EndsOnceOrFailedHolds` and
`HandlerIsRegisteredHolds`. The other properties are about one call of cefQuery
as it moves: `TraceOK` says that whatever is left of a call, in the page, on a
channel or in the browser, has the same IDs, and that other calls of the process
have others; `RequestOK` and `StageOK` that it is in one place only; `FinalOK` that
nothing follows its last response; `CancelOK` that a cancellation under way names
a context that is gone; `AbandonOK` that it comes behind the queries it cancels.
These give `RepliesInProtocolHolds` and `AbandonedIsCanceledHolds` for any
assignment of contexts to processes. `PendingIsAnswerableHolds` has the hypothesis
`SharedProcess` (the frames of a browser are in one renderer process): without
it the property is false, as `router_isolated_frames` shows.

`ResourceManagerProofs`: first, what the lists are made of: `FlattenSpreads` and
`OnlyInPicks` say which places of a list a traversal takes and in which order, by
the same induction over sets. The inductive invariant has that the list of
providers is sorted (`OrderOK`), that a request is in the list of an entry
exactly as long as its position is there (`ListOK`, `PlaceOK`), that a removed
entry has requests and none with its state (`RemovedOK`), that the states in the
queue are exactly those that no Request object has (`QueueOK`), that nothing of
the client runs within the OnRequest of an archive (`SendingOK`), that a handler
is recorded for finished requests only (`HandlerOK`) and that a request canceled
at an entry cannot come back to it and is in the queue only with an answer that
brings no handler (`CancelOK`). The last one is what the two obvious invariants
lack: a handler could be recorded by an answer that is still in the queue.
`Invariance` gives `PositionsAreValidHolds` and `CanceledIsIgnoredHolds`;
`OfferedInOrderHolds` is the action property: `IncrementProvider` is the only step
that takes a request from entry to entry, it goes to a later place of a sorted
list, and the places it skips are removed.

Only model-checked: the liveness properties (`QueueDrains`, `LoopCompletes`,
`AttemptsSettle`, `RequestsSettle`, `RunsEnd`, and that `SharedObject` is
destroyed in the end), which need fairness and `ENABLED`. The journal with several
paths is neither checked nor proved.

## 7. Abstractions to be aware of

- Time is not modelled. A timer may fire at any time after it is set. In
  `FrameConnection` a retry is taken to arrive after the host has noticed the
  closure of the pipe before (`render_frame_ = 0` when an attempt connects):
  the code relies on its three-second delay for this, nothing orders the two.
- Mojo pipes are FIFO, messages sent before a closure arrive before it, pipes
  are not ordered with each other. A renderer's messages to a host that is gone
  are lost.
- An append to the journal reaches the disk completely, in part, without its
  newline or not at all; a rename is atomic; a line with anything missing or
  anything added does not parse.
- Payloads, URLs, JSON and error texts are model values or left out. The ID
  generators of the router do not wrap in the bounds used.
- `SendQuery` always sends its message. `build_renderer_message` may yield none,
  when the list or the region for the message cannot be built
  (`message_router.rs:1220-1228`); the request then waits in the renderer until
  its context goes.
- While `remove_handler` waits for itself it holds the mutex of the deque, so that
  a thread that calls `cancel_pending` with an ID waits with it; in the model it
  posts its task, which never runs.
- The destructor of the resource manager runs in a task of its own. A client that
  drops the last reference within `OnRequest` destroys the manager under the
  `SendRequest` that called it, which the model does not follow.
- `OnRequestCanceled` and `on_query_canceled` are taken not to call back into the
  object that calls them.
- The destruction of the scheduler while tasks run is not modelled: its tasks
  hold an unretained pointer, and the embedder must outlive them.
- `RefCount` models one object, and of the memory model the happens-before order
  that one counter and the handing over of references create. The counter itself
  is one atomic, whose modifications are totally ordered; that `has_one_ref`
  cannot read an outdated 1 is argued beside the action. The end of a loan is the
  moment when the holder learns of it (`GiveBack`), by whatever carries that news,
  which is what the borrow checker asks for before a guard is moved or dropped. The counter's width
  (`usize`) is out of reach of the number of references a process can hold.
- `CefInstall` takes runs as sequential, which cargo's lock guarantees for one
  target directory and nothing for two of them that share `CEF_PATH`. A crash of
  the machine that reorders writes is not modelled; a killed process is. The
  FLATPAK branch, the copying of files for CMake and the download of the index
  are left out, except that reading the index may fail. The output of
  `export-cef-dir` is taken to be another directory than the one it unpacks to;
  where they are the same nothing is renamed (`export-cef-dir/src/main.rs:130`). The archive's hash is
  collision-free.

## 8. Not modelled

The browser info registry and manager, session pool, page model cache, storage
state manager, auth vault and hang monitor are planned below. Browser hosts,
request interception and request contexts are large adapters whose decisions
are Chromium's; part of them may follow. DevTools, media router, off-screen
rendering, views, dialogs, downloads, printing, V8 and DOM wrappers, the HTTP
server, process start and shutdown keep their state in Chromium, whose code is
not part of this repository. The C API glue is generated. Tests and samples are
no part of the system.

Of the 607,639 lines of Rust about 592,000 are the generated bindings, one copy
for each target; their only state is the reference count, which
`RefCount` models through the conversions they all share. The map therefore
covers a small share of the Rust lines, although most of the hand-written Rust
that has state (the router, `rc.rs`, the installation) is in it. The rest of the
hand-written Rust: the resource manager, a port that cannot serve a request as
it stands (`on_before_resource_load` holds the mutex that `send_request` locks
again, `resource_manager.rs:149`); the agent API, stubs that return errors; the
binding generator and the string conversions, sequential and without state
that outlives a call; the external message pump and the samples.

Hazards that were met and have no model yet, and are therefore not in the list of
`PROJECT.json`:

- a task's timeout is stored and never enforced (`agent_scheduler.cc:216`); the
  reply holds an unretained scheduler (`:370`); `GetEvalHistory` returns a
  reference after it released the lock (`:456`);
- a FrameAttached that arrives before the closure of the pipe before
  (`frame_host_impl.cc:932`);
- the session pool runs a callback under its lock (`session_pool.cc:33`), accepts
  a context twice (`:91`) and loops while contexts cannot be made (`:197`);
- a snapshot computed before a bump and put after it (`page_model_cache.cc:59`);
- the timeout of a NewBrowserInfo request against a late response
  (`browser_info_manager.cc:856`), popups that look alike (`:712`);
- two storage state managers on one file (`storage_state_manager_impl.cc:311`), a
  crash while the vault is written (`auth_vault_impl.cc:352`);
- Rust: the external pump asserts a positive delay that `set_timer` may not get
  and locks again in a callback; `close_all_browsers` of the sample holds its
  mutex over a call that may come back; the clone of an owned string shares its
  buffer.

## 9. Plan

Order of what is to come, most important first:

1. Abstract specifications, and proofs that the modules refine them: a durable
   map with an explicit set of lost updates (`StateJournal`), a one-shot request
   and response service (`MessageRouter`), a chain of responsibility
   (`ResourceManager`).
2. `BrowserInfoManager`: the NewBrowserInfo handshake, its timeout and the
   pending popups; then `BrowserInfo`, frames and their notifications, composed
   with an abstract frame connection that `FrameConnection` refines.
3. `SessionPool` and `PageModelCache`: small, concurrent, with the hazards
   listed above; both are in reach of the prover.
4. Concurrent runs of `CefInstall` that share `CEF_PATH`; the external message
   pump of the Rust samples.
5. `StorageState`: storage state manager over the journal, with two managers on
   one file; auth vault writes; `HangMonitor`.
