# Vindicate in TLA+

Vindicate lets a coding agent drive a real browser and turns what it did into
Playwright tests. This directory holds a formal model of its runtime: the
parts that keep state while several clients, a browser, pages and a file system
act at the same time, and the parts whose output others have to rely on
(locators, generated files). The modules are checked with TLC on small
instances; the theorems of the `*Proofs` modules are proved with TLAPS for every
instance. `PROJECT.json` lists components, runs, mutants, hazards and theorems,
and maps every definition to the lines it models.

## 1. The system

Three kinds of processes on one machine, one of them shared:

    editor window 1 ── extension ──spawns──> runtime-mcp 1 ──HTTP──┐
         (any number)                  agent ──MCP──^              v
    editor window 2 ── extension ──spawns──> runtime-mcp 2 ──> runtime-worker ──> Chromium
                            └──spawns or attaches─────────────────^   │              └─> pages
                                                                      └─> ~/.vindicate/sessions,
                                                                          the project's recordings
    every client of the worker also keeps a stream on GET /events

### Inventory

| Component | State it keeps | Operations | What is hard | What makes it correct |
|---|---|---|---|---|
| Async lock (`shared/async-lock.ts`) | a promise tail per key | `run` | calls queue and finish in any order | one call of a key at a time |
| Session store (`session.store.ts`, `session.state-machine.ts`) | map id → record | create, applyTrigger, abandon, cleanup, flush, initializeFromDisk, list, get | only applyTrigger takes the lock; every method awaits the disk | status moves along the table; closed stays closed; the map is on disk; the sweep takes only what has expired |
| Disk store (`session-disk-store.ts`) | a blob per session | write, read, delete, listings | `writeFile` truncates in place | an acknowledged record is readable after a crash |
| Browser bridge (`playwright-bridge.ts`) | pool mode → browser, map id → context, marks of deliberate closes | createContext, ensureHealthyContext, destroyContext, closeAll, `close` and `disconnected` handlers | browsers and contexts die at any time, events come late | no death goes unnoticed; no dead browser is handed out |
| Session routes, dead handler (`session.routes.ts`, `main.ts`) | requests under way | POST, DELETE, resume, resume_from_pause, commands, onContextDead | every handler awaits between reading and writing | store and bridge agree |
| Command queue (`browser.queue.ts`) | a lock per session | tryAcquire, release, dropSession, drainAll | the queue is dropped while held | one command per session; drain waits for all |
| Command executor, interactions, tabs | the active tab | the steps of a batch | a batch that pauses itself, tabs the site opens and closes | a step acts on the tab and the page the agent was told of |
| Snapshot engine (`snapshot/`) | cache of the last read, ids, descriptors of refs | read, delta, resolve a ref | navigations and deaths between the waits of a read | deltas and refs are true |
| Element and frame capture (in the page) | none | rows, refs, locators, overlays, frames | shadow roots, look-alikes, frames that come and go | a unique locator finds its element; no two rows share a ref |
| Shutdown (`shutdown.ts`), idle shutdown | a flag; last activity | drain, close, flush, exit | races with everything | nothing acknowledged is lost |
| Resource governor | normal / warning / reject | tick | hysteresis | no flapping |
| Event bus, `GET /events` | last number, ring buffer, subscribers | publish, replay, subscribe | replay against live, overflow, clock | no silent loss, numbers grow |
| Recording service and store | a recording per session | start, page events, screenshots, stop | page events, frame paths and screenshots interleave | steps, pages and pictures belong together; listeners can rebuild the list |
| Recorder script in the pages | flags of each document | capture, pause, stop, banner | messages cross, documents are replaced | all pages show the same pause; every open page reports |
| Recordings and their index | a file each, one index | finalize, refinalize, annotate, delete, discard | read-modify-write, failing writes, shared slugs | files and index agree |
| Worker client (`worker-client.ts`) | circuit state, streaks, sessions believed dead | every request, waitForRecovery | concurrent calls, a retry of what was done | nothing is done twice unless its answer was lost |
| Worker events subscriber | a stream | read, reconnect | replays old events | what it marks is true, or can be undone |
| Code generation (`codegen/`) | project files | eight modes of `vindicate_generate_code` | files written one by one, calls that overlap | what a create ends with runs; other features stand |
| Extension: managers, lifecycle, shared key | child processes, a key file | start, stop, attach, retry | several editors at once, late exits | one key; no process forgotten |
| Extension: recording controller; webview editor | step buffer, saved status, the edited list | load, edit, stop, finalize, discard | three processes look at one recording | no step unseen; what is finalized is what was edited |
| Files, api-request, health, capabilities, config, auth, crypto; MCP sessions, tools, stories, scaffold, content; views, analyzers, telemetry, `vindicate-ui`; packages | little or none | — | — | — |

How they interact: `runtime-mcp` and the extension call the worker over HTTP and
each keep a stream on `/events`. Inside the worker the routes call store,
bridge and queue directly; the bridge calls back (`onContextDead`) when a context
dies, the callback applies `crash` to the store and publishes `session_dead`;
the subscriber in `runtime-mcp` marks the session, and the client refuses
commands for it until a resume succeeds. The recording service is called by
routes and by bindings of the pages, and is heard of through the bus. The
store, the recordings and the key file are what outlives a process.

The code is JavaScript: between two awaits nothing else runs, and at an await
anything may. So **an action of a model is what runs between two awaits**, and the
interesting behaviours are the interleavings of such pieces with each other, with
the events of Playwright and of pages, and with the death of a process.

## 2. The modules

| Module | Models | Composed from |
|---|---|---|
| `AsyncLock` | `async-lock.ts` | — |
| `SessionLifecycle` | abstract: what callers of the store may rely on | — |
| `SessionStore` | `session.store.ts` on `session-disk-store.ts` | instantiates `AsyncLock`; refines `SessionLifecycle` |
| `BrowserPool` | `playwright-bridge.ts`, with Playwright as environment | — |
| `WorkerSessions` | routes, dead handler, queue, shutdown | coarse store and bridge, see below |
| `ResourceGovernor` | `computeGovernorState` | — |
| `EventDelivery` | `event-bus.ts`, `events.routes.ts`, subscriber, marks of the client | — |
| `WorkerClient` | the circuit breaker of `worker-client.ts`, with the worker as environment | — |
| `CommandRun` | executor, tabs, snapshot engine, ref resolver, `browser_read` | — |
| `PageCapture` | what a read makes of one document | `LocatorSource` |
| `FrameRead` | a read of a page with frames | `PageCapture` |
| `RecorderPages` | the recorder in the pages against the recording service | — |
| `RecordingService` | how the list of steps is built and told | — |
| `RecordingLibrary` | artifact files and index | — |
| `RecordingView` | worker, extension and webview around one recording | — |
| `EditorRuntime` | editors, their managers, the processes, the key file | — |
| `LocatorSource` | the vocabulary of locators, in capture and in generated code | — |
| `PageSchema`, `ClientSchema` | validators and writers of the two layers of codegen | `LocatorSource`; `PageSchema` |
| `Codegen` | the modes of `vindicate_generate_code` over a project's files | `ClientSchema` |
| `*Proofs` | theorems, see 4 | the modules they are about |
| `MC*` | instances for TLC: symmetry sets, constant values | the module they are named after |

A proof module may be about several components, none of which touches the others' state:
`McpProofs` is about `EventDelivery`, `WorkerClient` and `Codegen`, `BrowserProofs` about `BrowserPool` and
`CommandRun`, `RecordingProofs` about `RecordingLibrary` and `RecordingView`,
`WorkerSessionsProofs` about `WorkerSessions` and `ResourceGovernor`, and
`PagesProofs`, like `MCSessionPages`, about `RecorderPages` and `FrameRead` (with `PageCapture`).
`SessionStoreProofs`, `RecordingServiceProofs` and `EditorRuntimeProofs`
are about the module they are named after.

A definition whose comment begins with "A slip" is a plausible bug of the
definition that follows it. It is not part of the specification: `PROJECT.json`
lists it as a mutant, which a property must refute.

### AsyncLock

`run(key, fn)` chains promises. A call's tail resolves when every gate chained
before it is open and its own is, so a promise is represented by the set of calls
whose gates it still waits for (`ahead`), and the map entry by the call that
installed it (`tail`). `Request` is `run` up to `await prev`, `Release` the
`finally` block with its test whether the tail in the map is still its own.

### SessionStore

* `memory` is the map, `disk` the blobs; a blob is a record, absent, or `Torn`.
* A store method under way is a member of `Calls` with a program counter.
  `persist` is three steps, `OpenFile` (truncates), `LandWrite`, `Commit`; a
  second write to the same file may leave a mixture, an unlinked file takes
  the content with it (`linked`). `WriteFails` is a persist that rejects.
* `Create`, `ApplyTrigger`, `Abandon`, `Decide`, `Unlink`, `Remove` are the pieces
  of the methods of that name; only `applyTrigger` goes through the lock.
* `cleanup()` is a separate actor: it reads the blobs one by one, then deletes
  and forgets one by one, then judges a copy of the map.
* `ProcessGone` (crash, exit) keeps only `disk`; `Boot` is `initializeFromDisk`.
* Which trigger a queued call carries is chosen when it runs (nothing looks at it
  before), which keeps the state small and loses no behaviour.
* History variables: `ended` (closed since start), `touched` and `doubt` (sessions the
  code does not keep consistent: a failed write, or a write or delete outside
  the lock beside another call). They are read by properties only.

### BrowserPool

`browser` and `context` are Playwright's objects, `pool`, `sessions` and
`intentional` the bridge's three collections. A browser or a context may go at any
moment; its event is pending (`down`, `closed`) until a handler step takes it.
Playwright's own promises that the model uses: a context's close event comes
before `close()` resolves; with a browser go its contexts. Objects that nobody
refers to any more are reused as new ones.

### WorkerSessions

The handlers of the routes against the dead handler, the queue and the shutdown.
To keep this small, `applyTrigger` is two steps (decided and on disk, installed in
the map), one at a time per session, and the bridge's entry for a session is
there, being closed, or absent; the detail of both is in the two modules before.
Disk writes succeed here. Every session has one dead handler besides the
requests; a second death cannot come while the first is being handled without a
new context, and a new context needs a resume, which needs the first to be over
or refused.

### EventDelivery

`wire` is what was written to a client's stream and not yet read: a TCP stream, in
order, cut by `Drop`. Requests and replies use connections of their own, so a
reply may overtake an event. `NextSeq` is the clock with its bump: the clock
reads anything. `Connect` is the whole handler of `GET /events`, which has no await.

### WorkerClient

The shutdown notice comes from outside `src/`: nothing in it posts to `/worker-shutdown-imminent`.
A call is a member of `Calls` that stands before, in, or after `waitForRecovery`
(`wait`, `probing`, `found`, `ready`) or has its request out (`sent`). `attempt` counts
its sendings and `fate` says what the client learnt of each: an answer, an error, a
refusal that becomes `WorkerUnavailableError`, a broken connection, an abort by the
timer of `runSteps`. `Hear` is the body of `withCircuitBreaker` after `fn()` settles; its
`IsConnectionError` decides between a second sending and the end. `state`, `slowStreak`,
`fastStreak` and `shuttingDown` are the fields of that name. `throttledUntil` is looked at
once per command and moved by events and the clock at any time, so `Begin` may find it
either way. `jobs` and `runs` are what the worker still has to do and what it has done: an
aborted request, or one whose connection broke, may still be done. `workerReady` is left
out (it is reported and never read by a decision), and so are the recording requests,
which do not pass the breaker. `fastRun`, `trouble` and `announced` are history.

### CommandRun

`run` has the batch of a session and the one read that does not queue
(`resume_from_pause` with a snapshot). A read is three pieces, as the code waits
twice: `Read` takes the URL and the id, `Captures` the elements, `Commits` merges the
descriptors, computes the delta and commits to `SnapshotMemoryTable`. `memory`
and `descs` are that table and `refDescriptors`; `agent` is what `browser_read`
remembers. `PageMoves`, `PopupOpens`, `PopupCloses`, `ContextEnds` are the site and
the person at the window. A page shows any set of elements at any time, and of
an action in it only that it ends is modelled. History: `chosen`, `flaws` (a page
moved between the two waits of a read; a read committed after its session died).

### PageCapture, FrameRead and LocatorSource

`PageCapture` is the evaluate script as operators on an abstract document: which
elements get a row, overlays, folded lists, scopes, refs, the tiers of locators
(`Derive`), and `Found`, what the worker's resolver makes of an XPath. A digest
is the identity of what it is taken of; the 80-character truncation, slots, the
landmark of a row, values and aria flags are left out; `aria-labelledby` leads
to one element; an attribute that is blank is absent; `GeneratedIds` stands for
the patterns of generated ids and names; a `testid_xpath` or `dom_id` locator carries
only its XPath. What documents are is `DocumentOK`, and `DocumentsAssumption` says that the ones given are:
elements are numbered in the order of the walk, so that parent and host come before; a child is in
the shadow root of its parent; outside of shadow roots there is one root.

`FrameRead` is one read over the frames of a page (`captureFramesBreadthFirst`) while frames are
detached at any wait. A host
locator is the identity of its host, the documents of all frames are alike, a
blank frame shows nothing, and the listing of a frame may name any attached frame.
`CaptureOf` is a constant so that the walk over frames can be explored and proved
about for any capture; the run gives it `Capture` of `PageCapture`, which the theorem
`ReadsAreFit` has as its hypothesis `Captured`.

### RecorderPages

`page` has the flags of each document, `up` and `down` what is under way between it
and the worker, in order. `status`, `paused`, `starting`, `setup`, `scripted`, `bound` are
the worker's and the bridge's. A new document loses what was on its way. `ending` has, for each
recording, how far its `stop()` has come: it ends the recording at once (`Ends`), then waits for the
pause of the session (`Pauses`) and for a page, its settling, its snapshot and its screenshot, and only
then tells that page, in whatever document it shows by then, and answers the one it was asked
from (`Pictured`). Meanwhile a recording may be discarded and another begin. `remade` (history) notes that the
context was replaced after the setup of the recording, `stale` that a document was stopped before
the recording began, or since by an earlier one's stop.

### RecordingService

A report of a page may come at any time from any page (`HearsDom`, `HearsSnapshot`,
`HearsPaused`, `Navigates`); it runs to its next wait: the path to a nested frame
(`FramePathKnown`) and the capture (`ShotDone`). `rec` is the store's entry, `told` what
listeners last heard for each number. `doubled`, `missed`, `strayed` are history: a
double click, a change of page noted while nothing could be recorded, and a step of a
discarded recording that was published.

### RecordingLibrary

`art` and `idx` are the artifact files and the index, `Slug` maps a name to its index
entry (two names may share one). An operation (finalize, refinalize, annotate,
delete, discard) is a slot that goes from wait to wait; `queue` is the promise
chain of `recordings-index.service.ts`, with what the write under way has read: the index, or
`Torn` for a read that failed, which `getAll()` takes for an empty index. A write that fails
ends the operation and not the chain. `upset` and `lone` are history: names whose operations crossed.

### RecordingView

`rec`, `file` are the worker's; `events` what is on its way to the extension; `saved`, `buf`,
`told` the controller's; `view` the webview's store; `jobs` the messages of the webview that
are being handled, and the files that a finalization writes. The controller that hears of a stop asks the worker for
the state (`HearsState`) and saves "review" and shows it after that and two more waits (`ShowsStopped`). An agent may
finalize, discard or close in any state (`AgentFinalizes`, `AgentDiscards`, `AgentCloses`). A finalization sets the
status, then writes the file (`Saved`, `SaveFails`). What the editor sends is `Visible`, less its first step if that is an
explicit navigation and other recordings come before this one (`FirstNavigate`); whether they do, the session or the file says,
so either may be the case at each click. `cut` has what the user removed and what was left out so. A recording is opened by its saved status, and then the session is asked
(`load`), or from the index, and then the file is read (`read`). One session is looked at, a step is
a number, and a message to the webview is applied as it is posted. `Put` says what `appendSteps` makes of a list:
of each number the latest step, with the latest picture; the sort by number is in the
list being a function of the numbers, and `Nth` numbers what is left of it. `flaws`
(history) notes what the code does not make good: a step that a list on screen, or one that a load
is about to show, does not get any more (`missed`); a status that nobody was there to be told, that
a late picture, a failed stop or a failed writing of the file leaves behind, or that is saved over a later one (`astray`); an update under a number that
has been given anew (`mixed`); an answer nobody hears any more (`deaf`).

### EditorRuntime

`kind` says which of the two services a behaviour is about. `mgr` is the
`BaseProcessManager` of each editor, `flow` a call of `start()` or `stop()` under way, `procs`
the processes (by whom spawned, with which key or folder), `file` the shared key file,
which is `Torn` between its creation and its content. A process ends by itself
(`Ceases`), its end is heard of later (`ExitHeard`); one that could not be spawned is a `Ghost` that never
ends. The health of the port is probed twice, and either probe may be too slow for its time-out (`Probes`). Retry
calls `start()` in any state. `flaws` (history): `torn` (an editor read
the file in that moment), `overlap` (two calls of one editor at once), `killed` (a process
was given up before it had ended).

### Codegen

`Inputs` are calls of `vindicate_generate_code`; `PageSchema` and `ClientSchema` say which the
validators accept and what each writer's file is to the compiler and to other files
(fields, methods, imports, calls, keys of `expected`). `Codegen` runs calls over `files`, one
read or write at a time; `doing` is what each call is at, `met` in it that another call came beside. A write is two steps, as
`writeFile` works in place: `Open` empties the file, which is `torn` until `Write`, and stays so if the call is cut short
(`Fault`) or another call has it open too. What is read from a torn loader or config is refused for a missing
anchor or relied on no further (`notes[c].cut`), and what is made of it is torn. What is accepted and yet cannot work is a definition that the properties
except: `PageUnlooked` and `BuilderUnlooked` (what the validators do not look at), `MistakenPages`
and `MistakenClients` (names that two things have), `BindsAnew` (a fixture that gets another class). Of an
API test's builder there is only that the import of its client is there; the imports of a config are
taken with its entries. The names of features and their
exports, and which export's text is inside another's (`SaidInside`), are constants.

### ResourceGovernor

`computeGovernorState` as a function of the last state and a sample.

## 3. What is checked

| Run | Instance | States | Properties |
|---|---|---|---|
| `session_store` | 1 session, 2 calls, TTL 1, clock 0..2 | 530 927 | `StoreInv` (types, exclusion, the inductive invariant), `ClosedStaysClosed`, `MapIsOnDisk`, `SweepTakesOnlyExpired`, `ImplementsLifecycle` |
| `browser_pool` | 2 sessions, 2 browsers, 2 contexts, 2 calls, 1 mode, `close()` may reject | 442 067 | `NoUnnoticedDeath`, `PoolHandsOutLive` |
| `worker_sessions` | 1 session, 2 requests | 49 033 | `StoreMatchesBridge`, `DrainedBeforeClosing`, `DeathReachesStore` (liveness) |
| `event_delivery` | 1 client, 1 session, buffer 2, numbers to 4, any `?since` | 190 499 | `NothingMissed`, `NumbersGrow`, `DeathIsHeard` (liveness) |
| `worker_client` | 2 calls, one with a timer, streak 2, 2 worker processes | 539 734 | `ClientInv`, `DoneTwiceOnlyIfLost`, `UnavailableIsTrue`, `DegradedIsLeftByStreak`, `EveryCallEnds` (liveness) |
| `command_run` | 2 tabs, 2 URLs, 1 ref, batches of 2, 3 snapshots, cache and descriptors of 1 | 1 247 293 | `RunInv`, `DeltaIsTrue`, `ActsWhereRead` |
| `session_pages` | a page and a popup, 2 recordings, 1 report and 2 messages per page; 5 229 documents read in 2 ways, one with 3 frames, depth 2 | 374 808 | `PausedAgrees`, `RunsEverywhere`, `FramesInv`, `FitForUse` |
| `recording_service` | a page and a popup, 1 target, 2 addresses, 3 steps, 1 frame path and 2 captures under way | 2 004 764 | `RecordingInv`, `PageChangesAreSaid`, `ListIsTold` |
| `recording_library` | 3 names of which 2 share an entry, 2 operations | 2 625 322 | `LibraryInv`, `OthersKeepTheirEntry` |
| `recording_view` | 2 steps, the first a navigation with a picture, 1 event and 1 message under way | 850 407 | `ViewInv`, `SavedIsTrue`, `FinalizedIsEdited`, `StopEnds` (liveness) |
| `editor_runtime` | 2 editors, 3 processes, 2 calls, 2 folders | 210 408 | `RuntimeInv`, `NothingLost`, `RunningIsTrue` |
| `codegen` | 3 calls, 2 at once, 1 fault; 13 good and 36 flawed schemas over 3 features | 544 745 | `CodegenInv`, `EndsResolved`, `OthersStand` |

Each property has a mutant of the code that refutes it in its run.

**Bounds.** Nothing in the store or the routes relates two sessions except the order
in which sweep and flush visit them, so one session and two concurrent calls (plus
sweep, flush, crash) give every pairwise race; TTL 1 with a clock to 2 has records
younger than, at, and past the boundary. The pool needs two sessions of one mode
(the last user of a browser against a new one) and two browsers (an old one
whose event is late and its successor); two modes share nothing but code. For events,
a buffer of two and numbers to four give overflow, bursts and gaps. Two calls race for the
circuit, and a streak of two tells a kept streak from a reset one; one restart (`MaxGen` 2) is
enough for a notice, a probe or a request to outlive its worker. In `command_run` a cache and
descriptors of one make eviction of the cache happen at the second read; with a single ref the
descriptor cap is reached and never evicts, which is a matter of `Merged` alone. Three snapshots
are one before, one that races, and one that is compared with it; `Small` lets the third be taken
only alone and at the end of a batch, and follows no behaviour in which a page moved under a
read or a read outlived its session; what is proved needs no such constraint. `session_pages` is the sum of two components: `MCNext` lets
one move while the other is at rest. `MaxDepth` 2 and `MaxFrames` 3 are below the code's 3 and 12 so that
three frames meet both limits; `FewMessages` allows two messages of the worker at a time and follows the last recording for as long as it runs. The documents are
every nesting of three elements under a body, in and out of shadow roots, with each mark that
the tiers look at, two rows that may be alike, and a dialog over a page. In `recording_service`
three steps are a click, a click and what a double click leaves; `FewWaits` allows two waits
at a time. In `recording_library` one of the names has two different edits to tell a stale write
from the last one. In `recording_view` the first step
is the entry navigation and gets a picture; `Followed` follows no behaviour that has a flaw, has left out both steps, or
whose recording is gone while no stop is awaited; what is proved needs no such constraint. `editor_runtime` has two editors that race for file and
port and a third process left over from before; the constraint `Orderly` follows no behaviour
in which calls of one editor overlapped or a process was given up, which `NothingLost` and
`RunningIsTrue` except; what is proved needs no such constraint. In `codegen` two calls of three may overlap (the last begins alone: `LastAlone`), one may be cut
short, in the middle of a file or between two, and every flaw the validators know is in one schema. Symmetry is used where the
elements of a set are interchangeable and no property is a liveness property. Runs have no
deadlock check because these systems do stop at their bounds, or when nobody asks for anything.

**Fairness.** `WorkerSessions!FairSpec`: pieces of handlers that have begun go on (the
event loop runs, disk and browser operations finish): weak fairness. A queued trigger
gets strong fairness, because the model lets the calls of a session run in any
order where the lock is first-come-first-served. Nothing obliges a client to send
a request, a command to end, a browser to die or a worker to restart.
`EventDelivery!FairDelivery`: a client reads what its stream holds (the subscriber
loops over it). `WorkerClient!FairSpec`: a call that can go on does, which includes that the
deadline of `waitForRecovery` passes once a probe has failed; a request that the worker has is
answered, or its connection given up, as `fetch` does after its own timeouts. In `RecordingView`
the handlers go on: a stop that has begun ends (`WorkerEnds`), the extension handles the events it has
(`Handles`) and the messages of the webview (`Works`); that a human clicks is not assumed.
Nothing else is fair.

## 4. What is proved

The theorems below hold for every value of the constants that the named assumption of the
module allows; no bound of a run is assumed. The assumptions only say that values of
different kinds differ (`None` is none of the others), that caps and bounds are naturals, and
that sets the code keeps finite are finite.

**Session store** (`SessionStoreProofs`, from `StoreAssumption`): `StoreCorrect`, `LockExcludes`,
`ClosedForGood`, `StatusesMoveLegally`, `MapOnDisk` (`MapIsOnDisk`), `SweepSpares`
(`SweepTakesOnlyExpired`), `StoreImplementsLifecycle` (`ImplementsLifecycle`).
`Exclusive` is not inductive: what makes it so is that the calls queued
on a key are totally ordered by `ahead` and the tail in the map is behind all
of them (`QueueOrdered`). With it, at most one trigger of a session is past its `await`
(`OneDecides`), so what it read is still what the map holds when it installs its outcome,
unless the record has been dropped (`DecisionsAreLegal`). `StoreInv` is the conjunction and is an
invariant of the run as well. For the disk, `DiskInv` adds the write-ahead rule: at each program
counter of a call it says what the blob holds, and that outside the sessions in doubt
nobody else is busy with the session. For the sweep, `SweepInv` adds that a session nobody
touched since the sweep began has no call, that map and disk agree on it while the sweep lists, and
that what the sweep has condemned is as old as it was found. The refinement maps the abstract decision of
a session to that of the one call that is past its wait; every action is then a step of
`SessionLifecycle` or leaves it alone.

**Worker client** (`McpProofs`, from `ClientAssumption`): `ClientCorrect`, `TwiceOnlyIfLost`,
`UnavailableIsNoRumour`, `DegradedUntilStreak` (`DegradedIsLeftByStreak`). That a request was done twice says nothing by itself about its first
sending; the invariant adds that sendings are numbered and nothing is known of one that was
not made (`Numbered`), that a call sends at most twice (`Counted`), that whoever waits for, or has
made, a second sending heard of the first that it was broken or refused (`SecondForLost`), and
that what was refused is neither pending nor done (`RefusedIsUndone`). `TroubleIsNoted` says
that a call in whose time the worker is down, or whose probe or request failed, is in `trouble`.
The streak the code counts never exceeds the run of fast answers since the last slow one (`StreakIsRun`).

**Event delivery** (`McpProofs`, from `DeliveryAssumption`): `DeliveryCorrect`, `NoEventIsMissed`,
`StreamsAreInOrder`. `DeliveryInv`: the ring buffer holds every number given out since its oldest, in
order (`BusInv`); a stream holds, in order, what was published since the number it owes, or begins
with the word that it does not (`LinkInv`).

**Browser bridge** (`BrowserProofs`, from `PoolAssumption`): `BridgeCorrect`, `PoolIsLive`, `NoDeathUnnoticed`.
`BridgeInv`: an entry that is being closed has a call that closes it, every other entry has a context
that is open or whose end is still to be heard, a context in the making is known to its call
alone, and a browser in the pool has not been reported.

**Sessions of the worker** (`WorkerSessionsProofs`, from `WorkerAssumption`): `SessionsCorrect`, `StoreAgrees`,
`DrainsFirst`. `SessionsInv` says, for an active session without a context, who answers for it
(`Served`): the handler of its death, the request that makes its context, or the one that closes it;
and what is known of the record and the context at each program counter (`Handlers`, `Known`,
`Closers`). `Down` says that a worker that is down is in the middle of nothing. The same module
proves of `ResourceGovernor` that a second sample of the same load changes nothing
(`SteadyLoadSettles`) and that of two samples the heavier is never judged the milder (`HeavierLoadIsNotMilder`).

**Commands** (`BrowserProofs`, from `CommandAssumption`): `CommandsCorrect` (`RunInv`), `DeltasAreTrue`
(`DeltaIsTrue`), `RefsHitTheirPage` (`ActsWhereRead`). `RunInv` says that a batch has a tab that is open or has
lost it (`TabsKnown`), what is known at each wait (`ReadsKnow`), that the URL of a read and of a ref is
the one of the page where the elements were found, unless a page has moved under a read
(`PlacesAgree`), and, unless a read outlived its session, that an id stands for one read since the
last death and that the cache holds under it what the agent was told (`Remembered`). What makes
deltas true is that ids are not given out again by a navigation, which clears the cache, but only by
a death, which also makes what the agent knows stale. That the descriptors stay well formed when seen
refs are taken out of their middle is `NthIsOne`: a set of n places has an m-th one for
each m up to n, found as the least number up to which there are m of them.

**Recordings** (`RecordingServiceProofs`, from `RecordingAssumption`): `RecordingCorrect` (`RecordingInv`), `ChangesAreSaid`
(`PageChangesAreSaid`), `EventsTellTheList` (`ListIsTold`). Whatever one report does to the list, each step stays where
it is unless it is a click at the element double-clicked, and new steps have no picture (`Evolves`, `Handled`).
On that rest:
a capture under way is for the step that has its number (`CapturesFit`); what is told of a number is the
list's, or a capture that will tell it is under way (`TellsSteps`); the steps after the last switch are of the
page that was noted last (`PagesAreSaid`); and what waits for a frame's path knows the page it is from (`WaitsAreRight`).

**Pages of a session** (`PagesProofs`, from `PagesAssumption` and `FramesAssumption`): `AllPagesReport`
(`RunsEverywhere`): `RunsInv` says of each page whether its document has the script and the
bindings and what it was told to do (`SetUp`, `Scripted`), that a `stop()` which has not ended is of a recording
that is over (`Earlier`), and that while one runs a page is stopped, or will be, only by its own button or as `stale` (`MayStop`). `PagesAgreeOnPause` (`PausedAgrees`): `PausedInv` says that the last word about the pause that
is on its way to a page is the recording's. Of the walk over frames: `FramesAreWalked` (`FramesInv`), with what
is captured once (`Onces`), by the way that leads to it (`Ways`), level after level (`Levels`) and within the
budgets (`Limits`), for any tree of frames that come and go and any capture.

**What a read reports** (`PagesProofs`, from `DocumentsAssumption` and `CaptureAssumption`): `ReadsAreFit`
(`FitForUse`), for any document, any options and any frames that come and go: the locators of the answer lead back to their
elements and can be written, and no two rows share a ref. Its hypotheses are that a read calls
`Capture` (`Captured`) and that `None`, which stands for what is absent, is no role a tag implies and no
record (`NoneIsNothing`). The invariant `ReadFit` says that of the rows of the main frame, of each
captured frame, and of the answer. What makes it true is in four groups of lemmas. The position
tier: `PathTo` is a recursive function over the tree; that it has a value (`RecursionGives`), that it is the parent's
value and a position (`PathsFollow`), and that two elements never share one (`PathsApart`) is shown by the
least element for which it would fail, as parents come before their children. The tiers: whichever
`Derive` chooses leads back (`DerivedHits`) and can be written (`DerivedIsWritten`). The rows: folding
lists, overlays and sorting leave rows of the document, each once (`RowsAreListed`, `CollapsedIsListed`,
`OverlayIsListed`, `SortedIsListed`). The answer: putting frames behind one another and numbering what
is there twice (`FlattenedIsOf`, `NumberedAreFit`). Of one document by itself: `UniqueLocatorsHit`
(a locator of the tiers by test-id, id, attributes or sibling leads to its own element and to no
other), `ShadowGetsNoXPath`, `AnswersKeepRefsApart`.

**Code generation** (`McpProofs`, from `InputsAssumption` and `NamesAssumption`), for any schemas, any number of
calls side by side, of writes that fail and of calls cut short:
`WrittenCodeCompiles` (`CodegenInv`): `CodegenInd` says of every file that was written to its end, and of every write a call still has
before it, that it is what its path is for (`Fits`): code compiles; a loader exports code
that is there; a spec has its builders. "There" means on disk or earlier among the call's own writes, which is
why the order of the writes matters. What is accepted compiles because each check of the validators
answers to a clause of the compiler's; the two places where one does not are `PageUnlooked`
and `BuilderUnlooked`, which the attempt to prove it without them found. Of a torn file nothing is claimed.
`DiskInd` says who has which file open, and that what is open is torn.
`CreatedSpecsRun` (`EndsResolved`) needs in addition `AloneInd`: a call
that nobody came beside is the only one; the paths it found free are still free and nothing refers to them
(`Unused`); the loader it read is still the loader; what it is about to write adds to loader and
config (`Adds`); its writes come in the order code, loader, config, spec, then data and auth set-up (`Ranked`); and each of
its files is on disk, whole unless it was made of what was read torn, or still to be written (`Delivered`). At the last write all of it
is there, whatever else earlier calls left half done. `SpecsOfOthersStand` (`OthersStand`) compares the beginning of a call with
its end, so `StandInd` follows every spec that ran when the call began: all it is loaded with is whole, but for the
loader or config that the call has open now and the `expected.json` that it has still to write (`Due`), and no code that
the call has still to write is among it (`Good`).

**Library of recordings** (`RecordingProofs`, from `LibraryAssumption`): `LibraryCorrect` (`LibraryInv`),
`EntriesAreKept` (`OthersKeepTheirEntry`). One write of the index is past its reading at a time, and what it
has read is still the index, or it could not read it (`Queued`); what an operation holds at each wait (`Shapes`); how far an
operation that is alone on its name has brought file and entry (`Lones`); and what nobody works
on agrees (`LeftAlone`).

**A recording in the editor** (`RecordingProofs`, from `ViewAssumption`): `ViewCorrect` (`ViewInv`), `SavedIsTrueHolds`
(`SavedIsTrue`), `FinalizedHasAll` (`FinalizedIsEdited`). `ViewInv` says what may be under way before, during
and after the recording (`Unstarted`, `WhileRecording`, `AfterRecording`), that the start is heard before
all else (`StartFirst`), and that steps and numbers agree wherever a step is on its way (`Numbered`). The saved
status is the recording's or the event that will make it so is still to come (`SavedFollows`). A list shown
of a running recording, or read by a load and about to be shown, has each step or will get it
before the editor is told of the end (`StepsComing`), and has only steps under their own numbers
(`OwnNumbers`): so once the end is told it is whole, and from there editing, finalizing and
reading back keep it so (`AllWhole`). The proof for any number of events showed three ways for a step to
go unseen that one event and one message under way hide, and that `missed` now notes: a buffer that
is thrown away, for nobody is there at the stop, while a load has its answer; a load that is
ended by a stop that failed; and a recording finalized elsewhere while the editor's last steps are in the buffer.
An agent may finalize while the list is shown as running, so what a list must have is said by `made` and `cut` and not by the recording's
status (`Complete`, `Whole`). That the list left after removals has each step once, under the numbers from 1, is `NthIsOne`.

**Editors and processes** (`EditorRuntimeProofs`, from `RuntimeAssumption`): `OneKey` (`RuntimeInv`),
`NoneIsForgotten` (`NothingLost`), `RunningIsNoRumour` (`RunningIsTrue`). `EditorInv`: nobody has a key that is not
the file's, and at most one call is about to fill the file it has created (`Keyed`). In a behaviour
without overlapping calls and early kills, each editor has one call (`Alone`); what its manager
is at each point of that call (`AtPoint`); a process of an open editor is its manager's, or one
that a stopping call waits for and that is on its way out (`Known`); the manager's process is the
editor's own (`Mine`); and a manager that says "running" has one, or a `Ghost`, or is being stopped (`Backed`).

The inductive invariants were checked with TLC on the runs' instances too (`LibraryIInv` with one content per
name), but for two parts that TLC cannot evaluate: `Delivered` in `AloneInd`, which asks for some loader
and config, and the form of digests in `ReadFit`. The proofs have one
lemma per action, or per group of actions that change the same things, and lemmas for what
the actions are built from (sequences, records, the queue of a lock).

**Only model-checked**, and why:

* liveness (`DeathReachesStore`, `DeathIsHeard`, `EveryCallEnds`, `StopEnds`): the installed provers
  do not reason about fairness and ENABLED.

Every other property of the runs is stated by a theorem. Where a definition is recursive over the
numbers (`PathTo`, folds of sequences), the theorems of the library about induction cannot be used, as they
have an operator as parameter; the proofs take the least counterexample instead.

## 5. Known disagreements

While modelling, the code turned out to differ from what a comment or document says, or from
what its neighbours rely on. The models do what the code does; where a property would fail on
such a behaviour, it excepts it, through a history variable that notes it.

| Where | What the code does | What it is at odds with | Excepted in |
|---|---|---|---|
| `session-disk-store.ts:88` | the sweep takes a blob that a write has truncated for unreadable and removes an active session | `session-disk-store.interface.ts:9`, "`dead` records … past TTL" | `SweepTakesOnlyExpired` |
| `playwright-bridge.ts:87` | two sessions created together launch two browsers | the comment on line 2, at most one of each mode | — |
| `session.store.ts:69` | after a restart an active session is active without context; resume refuses it | `docs/ARCHITECTURE.md:88-89` | — |
| `session.store.ts:166` | a trigger under way puts an abandoned session back | `session.store.ts:143` | `StoreMatchesBridge`, `DeathReachesStore` |
| `session.store.ts:134` | create puts the record into the map before it is written; a rejected write leaves an active session without context | the caller, which is told that it failed | `MapIsOnDisk` |
| `worker-events-subscriber.ts:49` | a replayed `session_dead` marks a resumed session; commands and resume are refused | `error-mapper.ts:69` | — |
| `core/server.ts:67` (mcp) | nothing resets `shuttingDown`: the client refuses the restarted worker too | `error-mapper.ts:52` | `UnavailableIsTrue` |
| `extension.ts:258`, `BaseProcessManager.ts:131-134` | closing the window that spawned the worker ends it for all | `ARCHITECTURE.md:175`, `RuntimeLifecycle.ts:115-117` | — |
| `sharedWorkerKey.ts:68` | the key file exists before its content does; who reads it then writes a second key | the one shared key | `RuntimeInv` (`torn`) |
| `BaseProcessManager.ts:71` | two starts of one editor that overlap both spawn | one process per manager | `NothingLost`, `RunningIsTrue` (`overlap`) |
| `RuntimeLifecycle.ts:76-80,150-152`, `WorkerManager.ts:55-64` | Retry calls `start()` while the own worker runs: when that is too slow for the first probe and answers the second it is attached, and `stop()` no longer kills it; in the catch of `start()` the call is still under way, so Retry of its message is skipped | `stop()` ends what the editor has spawned | — (`NothingLost` has it as the manager's) |
| `BaseProcessManager.ts:33-36,66-69` | a `ChildProcess` that could not be spawned stays in the field; once the editor has attached to another's service and that has gone, the next start spawns nothing and still says "running" | — | `RunningIsTrue` (`Ghost`) |
| `playwright-bridge.ts:308` | `recordingSetupSessions` is kept after an unexpected death: the next context runs the recorder and nobody hears it | — | `RunsEverywhere` (`remade`) |
| `recording.service.ts:212` | the recording is registered before `setupRecording` has ended; a context recreated under it, or a second recording on a stopped document, is deaf | — | `RunsEverywhere` |
| `recording.service.ts:764-816` | `stop()` tells a page "stopped" after the screenshot, in whatever document it then shows: after a discard and a second start that document records nothing until it is reloaded | — | `RunsEverywhere` (`stale`) |
| `recording.service.ts:353` | a document opened or navigated while the recording is paused shows "Recording…" and its events are dropped, until the next click on a banner | `recording.service.ts:341-347`, so that no banner misleads | `PausedAgrees` (`fresh`) |
| `recording.service.ts:424` | a change of page is noted while nothing can be recorded, or during the wait for a frame's path: later steps of that page come without the switch | — | `PageChangesAreSaid` (`missed`) |
| `recording.service.ts:738` | a picture is attached by number after numbers were given out again | — | `RecordingInv` (clicks a double click removed) |
| `recording-controller.ts:237` | a stop is answered 200, the worker dies, and the editor waits for ever | — | `StopEnds` (`deaf`) |
| `recordings-index.service.ts:33-42,53-73` | a read of the index that fails, or does not parse, is taken for an empty index; the next finalize or annotate writes it back without the other recordings | the index of all recordings | `OthersKeepTheirEntry`, `LibraryInv` (`upset`) |
| `recording-controller.ts:178-229` | a `recording_finalized` heard between the question for the state and the saving of "review" is overwritten | — | `SavedIsTrue` (`astray`) |
| `recording.service.ts:627` | a capture that ends after the finalization publishes its step again: "recording" is saved over "finalized" | — | `SavedIsTrue` (`astray`) |
| `recording.store.ts:91-98` | the status is "finalized" before the file is written; a write that fails leaves it so, without file and event | — | `SavedIsTrue`, `StopEnds` (`astray`) |
| `recordingStore.ts:155-178,561-564` | after other recordings the editor leaves out the first explicit navigation it would show, and sends the list without it: every further finalize leaves out another one that has come to the front | — | `ViewInv`, `FinalizedIsEdited` (`cut`) |
| `recordingStore.ts:122` | removed numbers survive the renumbering of finalize: kept steps vanish, and a late update under an old number overwrites another step | — | `FinalizedIsEdited` (`mixed`) |
| `browser-navigate-tool.ts:66`, `tab.handlers.ts:88` | `browser_navigate` with a URL and without `wait_until` navigates only if a tab matches | its description | — |
| `ref-resolver.ts:58`, `interactive-capture.evaluate.ts:838` | a test-id in a shadow root is rendered as an XPath, which finds nothing or its twin outside | — | `FitForUse`, `UniqueLocatorsHit` |
| `validate-codegen.ts:255-380` | keys of `expected` in the arguments of a dynamic element, and placeholders of a container or frame, are not looked at: the page reads what is not bound | the checks of the same for other elements | `CodegenInv` (`PageUnlooked`) |
| `api-client.ts:97-103` | a builder's default that reads `expected.` is accepted, as is an identifier where the field is no string; the builder's file binds neither | `api-validate-codegen.ts:157-159`, `expected.key` is a legitimate default | `CodegenInv` (`BuilderUnlooked`) |
| `project-fs.ts:66-74`, `codegen-fs.ts:14-21` | a file is written in place: a write that fails leaves half a file. Half a loader or config breaks every spec of its layer; a config cut after the type entry passes `isConfigFixtureRegistered` (`api-generator.ts:57-60,197-200`) and is written back torn; the loader exports an `expected.json` before it is there | `generate.md:117,129,176`, "atomically" | `EndsResolved` (`cut`, `Lame`), `OthersStand` (`CutShort`), `CodegenInv` (`torn`) |
| `generate.md:117,129,176`, `codegen-fs.ts:14` | files are written one by one with no way back, and calls that overlap lose each other's entries | "atomically" | `OthersStand` |

Smaller ones, not excepted because no property is about them. *Recording*: `stop()` throws when the
pause trigger is illegal, and `recording_stopped` is never published; a finalized recording keeps its
store entry, so that a later start is ignored; discard and teardown delete an older artifact of the
same name; an index entry without a file cannot be deleted; the saved status stays "recording" when nobody
is there at the stop; a review of an ended session cannot be finalized; messages to pages carry no
session; the recorder reports Enter in a changed field before the fill it commits; a native
drop leaves a flag that swallows the next keyboard click; `agent-step-builder.ts:36` writes a `testid_xpath` locator so
that playback reads it as an XPath, and a role alone as a name that `parseRoleName` refuses;
`browser_record_start` (`recording-tools.ts:116`) takes any `recording_finalized` of the session out of the replayed buffer.
*Commands*: `computeSupersedes` marks wrong replacements after a scoped read; a read of
`resume_from_pause` does not queue; the governor breaking off a batch is reported as step −1; from
"reject" inside the warning margin the governor goes straight to normal; `close_tab` moves the active
tab. *Code generation*: only `-` is folded in `spec-writer.ts:31` and `[-_]` elsewhere; `includes("authExpected")` is a test
on text; `create` and `create_api` of one feature overwrite each other's `expected.json`; any later feature
overwrites `auth.setup.ts`; `add_test_cases` validates nothing; a page that reads `expected.` is always refused by
`register_page` though `generator.ts:326-329` prepares for it; a page and a panel of one class leave the loader with the
other path. *Stories*: `approve-story.ts` replaces only the first `status:` line, loses an update made while it awaits,
and takes one FA tag per line. *Extension*: a worker that lost the port lingers, and its flush writes stale
sessions; Retry is skipped while a start is under way; `POST recording/stop` always answers 200.

## 6. Not modelled

Encryption, logs, highlight, file and api-request routes, configuration, health, views, analyzers,
telemetry and the packages keep no state that a decision rests on, or are conversions of text.
Recording playback reads a file and posts a batch. Of the MCP server, its HTTP sessions and
the progress bridge, stories, scaffold and content are left out: files for one request, and a map of
transports. `ttl_elapsed` and `paused_ttl_elapsed` are rows of the table that no code applies. The
`worker_throttled` event and the progress stream of a command only delay or display. Which element a
recorded event is about, and the way from a recorded frame up and down again, are DOM inspection.
`revertToSavedArtifact` and `deleteSavedRecording` of the webview's store are used by no component.
`PROJECT.json` says of each component what is left out of it.

## 7. Plan

Every invariant and every action property of the runs is stated by a theorem; liveness is not. Next, in this
order: `McpSessions`, the transports of the MCP server closed from two sides, and the governor's gate in
the command queue; then the values and aria flags of rows in `PageCapture`.
