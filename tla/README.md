# TLA+ verification of WebUI

WebUI compiles templates at build time, renders them on a server from a compact
protocol, hydrates them in the browser, and ships a desktop SDK that puts such
an application into a native web view. This project models the parts of it
whose correctness depends on the order in which threads, callbacks, messages
and edits meet: the desktop IPC on both of its ends, the desktop's task driver
and executor, the client router, streaming hydration from the server's session
to the page, lazy regions, render completion, and the dev server. Paths are
relative to the repository root.

## 1. Inventory

### 1.1 The parts, their state and their operations

| Part | State | Operations | Module |
|---|---|---|---|
| IPC host engine (`crates/webui-desktop/src/ipc/engine.rs`, `session.rs`, `bridge.rs`) | `Core.state`, one mutex per window: closed / admitted / generation, and the current `Document` with its ids, pending calls, incoming requests, outbound queue, control slots and byte counters | `prepare`, the outgoing task, `cancel_local`, `timeout`, `submit`, `complete_incoming`, `drain`, `retire_matching` | `IpcEngine` |
| IPC admission (`ipc/admission.rs`, `document.rs`, `linux/ipc.rs`, `ipc_message.rs`) | activation proof, epochs of the shown document, readiness waiters, the adapter's session | load started / committed, probe, activate, hello, the worker, delivery, expiry, undo, `ready()`, close | `IpcAdmission` |
| IPC wake-up (`ipc/engine.rs` `signal`, `bridge.rs` `take_control` / `drain`, `linux/ipc_wake.rs`, `packages/webui-desktop/src/transport.ts`) | `ready`, `wake_pending`, `closed_control`, `drain_inflight`; the idle callback's `queued`; held controls; the page's `dirty` flag and pull loop | produce, signal, wake, the UI callback's loop, control scripts, GET | `IpcWake` |
| IPC notifications (`bridge.rs` `notify`, `session.rs` `SubscriptionSlot`) | subscriptions of a document, one chain of deliveries per subscription, permits | receive, acknowledge, spawn, wait, call back, subscribe, close, retire | `IpcNotify` |
| Page connection (`packages/webui-desktop/src/connection.ts`, `queue.ts`, `budget.ts`, `transport.ts`) | call and handler tables, the serialised POST queue with its control reserve, the byte ledger | invoke, cancel, settle, serve, answer, pump, post, fail | `PageConnection` |
| Task driver (`native_tasks.rs`, `macos/tasks.rs`) | tasks, polling and deferred flags, ready flags, the queued drain | spawn, wake, poll_ready, close | `NativeTasks` |
| Application executor (`execution.rs`) | a bounded channel, permits, result slots with wakers | submit, run, publish, release, panic, close | `AppExecutor` |
| Scheme handler (`macos/scheme.rs`, `response.rs`) | live flags of requests, what WebKit was told | start, refuse, stop, await, write chunk by chunk | `SchemeRequests` |
| Client router (`packages/webui-delivery/src/router-core.ts`, `streaming.ts`, `cache.ts`, `preload.ts`, ...) | generation, active page, request controllers, pending and error boundaries, navigation cache | navigate, hover, fetch, read, load, mount, commit, fail, time out, destroy, start | `RouterNavigation`, `NavigationCache` |
| Streaming session (`crates/webui-handler/src/streaming/`) | continuation, revisions and key sets of the state, spans, updatable boundaries | start, resume, advance, update, fail | `StreamingSession` |
| Streaming hydration (`packages/webui-framework/src/streaming-*.ts`, `lifecycle.ts`, activation hook of `template-element.ts`) | sentinel queue, open spans, record states, deferred and barred roots, the completion gate | feed, drain, commit a range / an update / the terminal record, define, upgrade, complete, halt | `StreamingPage` |
| Lazy regions (`lazy-runtime.ts`, `lazy-scripts.ts`, `lazy-entry.ts`, `template-cache.ts`) | packs, scripts, activations, the template registry with its weak references, the inventory, the failed hosts | render, dispose, prefetch, retry, install, release, collect | `LazyRegions` |
| Render scheduler and completion (`render-scheduler.ts`, `render-completion.ts`) | the queue of components with its cursor, open requests, sets of observers, gated mounts, activations | write, flush, drain, refresh, call back, mount, `$whenRendered`, dispose, move, throw | `RenderCompletion` |
| Dev server (`crates/webui-dev-server/src/watch.rs`, `worker.rs`, the rebuild closures of `webui serve` and `webui press serve`) | debounce windows, content hashes, watches of exact files, the tick channel, the build under way, what is served | edit, touch, ask, filter, send, receive, reload, read, publish, retarget, shut down | `DevServer` |
| IPC executor, timer thread, budgets (`ipc/executor.rs`, `limits.rs`) | a thread pool, the deadline thread's ordered map and condition variable, permits on tasks and bytes | spawn, arm, fire, reserve, release | assumed by the IPC modules |
| IPC bootstrap and native binary lane (`bootstrap.ts`, `native-carrier.ts`, `ipc/native_data.rs`) | connection epochs, cursors, unacknowledged frames | connect, offer, acknowledge, resend | none yet |
| Wire format, registry, parser, discovery, handler, protocol, expressions, tokens, generators | none that outlives a call | conversions | section 7 |
| Windows, dialogs, updates, packaging, local server, bindings, CLI | platform objects and files | I/O | section 7 |

### 1.2 How they interact

On the desktop host everything meets at one mutex, but nobody holds it while
working. Application threads start calls and leave; a worker encodes the frame,
waits its turn and comes back to queue it; the deadline thread removes what is
late; the thread that carries a POST decodes outside the lock and enters it two
or three times; the UI thread is woken through a callback, reads controls and
injects them into the page; the page pulls frames by GET, one at a time, and
posts its own through one serialised queue. A navigation retires the document
under all of them, and the replacement reuses the same ids. Resource requests
of the page take another way: the scheme handler submits a job to the
application executor and spawns a future on the UI thread's task driver, which
WebKit may re-enter from any call made to it.

In the browser there is one thread, and all the trouble is in what runs between
two of its turns: a fetch that ends after a newer navigation, a definition that
arrives after its element's range was committed, a collection of templates
during the awaits of an install, a render that removes the component whose
render somebody waits for. The server's streaming session and the page never
talk back to each other: the page must be able to trust the order of the
records alone.

The dev server is a chain of threads (debouncer, worker, main) connected by a
channel that drops, with a file system that changes while a build reads it.

### 1.3 What is hard here

- a thread or a turn that comes back finds another document, another
  generation, or the same id in the hands of somebody else;
- several parties race to settle one thing (a call, a request, an admission, a
  navigation, an activation, a completion);
- order on a pool: ids reach the wire in the order they were handed out by
  parallel workers, callbacks of a subscription run in the order of receipt;
- wake-ups are coalesced (three times on the way to the page, twice in the task
  driver, by a full channel in the dev server), each time with a window in
  which one could be lost;
- counters with an asymmetric charge and refund (control slots, byte ledgers,
  failure lists, task counts);
- re-entrance: WebKit's callbacks, navigations from inside a commit or a mount,
  flushes from inside a drain or a render;
- a stream that is cut off, or one whose parts go live in another order than
  they came.

`PROJECT.json` lists the sharpest of these one by one, at their line, with the
property that covers each; section 6 has further places the same properties
reach, section 5 what no property covers.

### 1.4 What makes each part correct

- engine: a call is settled once and eventually; a request is answered at most
  once and leaves the table; slots and bytes are conserved; wire order;
- admission: one session per navigation, for the page that is shown, never
  orphaned, never ended by somebody else's clean-up;
- wake-up: nothing queued is forgotten, the page learns of the end, its pulls
  do not collide;
- notifications: order, no overlap while the document lives, no stall, no
  survivors;
- page connection: credits balance, a cancellation or an error always finds
  room, calls settle behind a POST that never returns;
- desktop requests: WebKit is never called out of order, nor after a stop by a
  request that was accepted; no future is left without a waker, every request
  ends;
- router: a page is given the states of its own response and no other's, what
  the cache serves is whole; whoever commits is still the latest navigation and
  has the boundary; nothing is left over;
- streaming: completion means everything is live, each root shows the state of
  its own range with every update (but for the roots of section 5), and no
  response leaves the page waiting;
- lazy regions: the inventory the server relies on is true, an opened region is
  shown or reports its failure;
- render completion: neither early nor never;
- dev server: what is served is what is on disk once edits stop.

## 2. Modules

```
IpcOutbox  <-- implemented by --  IpcEngine
   ^ extends
 IpcWake

 IpcAdmission    IpcNotify    PageConnection    LazyRegions
 RenderCompletion    DevServer

 SchemeRequests  -- INSTANCE -->  NativeTasks, AppExecutor
 RouterNavigation -- INSTANCE --> NavigationCache
 StreamingPage   -- EXTENDS  -->  StreamingSession

 proofs, each extending the module it is about:
 IpcEngineProofs  IpcWakeProofs  RenderCompletionProofs
 PageConnectionProofs  SchemeRequestsProofs  DevServerProofs
 IpcSessionProofs -- EXTENDS --> IpcAdmission, IpcNotify
 ClientProofs  -- EXTENDS -->  RouterNavigation, LazyRegions
```

`MC*` modules declare the model values, documents and scenes of the
configurations.

**IpcEngine** is the host engine. One action is one critical section of
`Core.state` with the thread-local work around it; what a thread has still to
do after unlocking is kept in a variable (`failing`: calls somebody has
undertaken to settle with an error; `exhausting`: a thread that found the ids
used up; `post`: a submission between its critical sections) and is an action
of its own. A call is named `<<generation, id>>`, so a stale task really can
meet the tables of a later document; `Document(g)` is the engine's check
against it. `task` follows the outgoing task: `gate` (waiting for its
predecessor's turn), `reply` (sent), `finish` (a reply has arrived), `owner` (it
removed the entry), `end`. `Retire` is `retire_matching` with every reset it
makes.

| Action | Code |
|---|---|
| `Admit`, `Navigate`, `Disconnect`, `Close` | the outcome of `admission.rs`, `bridge.rs` navigate / disconnect / close, all through `retire_matching` |
| `Prepare`, `FindExhausted`, `RetireExhausted` | `session.rs` `prepare` |
| `SendRequest`, `SendRequestFails`, `ReceiveReply`, `DropEntry`, `TakeOwnership`, `FinishLocal`, `SettleResult` | the outgoing task of `session.rs` |
| `CancelLocal`, `SettleFailure` | `engine.rs` `cancel_local`, `timeout` for local calls |
| `Authenticate`, `PostIgnored`, `PostCancel`, `PostReply`, `PostInvoke`, `PostDenied`, `ServeRequest`, `ServeNotify` | `bridge.rs` submit |
| `CompleteIncoming`, `TimeoutIncoming`, `Acknowledge` | completion of a handler, its deadline, the acknowledgement of a notification |
| `Drain` | `bridge.rs` drain |

**IpcOutbox** is what the rest relies on of the engine: a sequence of documents,
one admission per navigation, and a queue that is discarded with its document.
`IpcEngine` implements it (`ImplementsOutbox`, with `length <- Len(queue)`).

**IpcWake** extends `IpcOutbox` with the wake-up fields and the two other
parties, the GTK adapter on the UI thread and the page. Each iteration of the
UI thread's `take_control` loop is a step of its own, because other threads run
between two of them. Several threads may be about to call `signal()` or
`wake()`; a flag stands for "at least one".

**IpcAdmission** models the way to a session: document epochs, probe and
activation, hello, the worker that consumes the proof, and every way the
request can fail in between. One attempt per navigation, named after it.
`Undo` is the `Drop` of an undelivered admission; the explicit clean-up of the
adapter and this second line of defence are both there.

**IpcNotify** models a notification from its receipt to the last callback. A
delivery holds the receiver of its predecessor and the sender of its own end;
dropping the latter signals as well. The end of the document is two-phase, as
in the code: the document is taken under the lock, its subscriptions are closed
one by one afterwards.

**PageConnection** is the page's half. A step is a turn of the event loop; what
the code runs at the end of a turn (the pump of an idle queue, the failure a
refused control frame brings about in a microtask) is an action that no other
turn may precede (`TurnOver`). A control credit of the code is a closure that
gives its slot back once; here it is membership in `held`, with `reserved` and
`controls` counted beside it, so that a double or a missing refund shows.

**NativeTasks**, **AppExecutor** and **SchemeRequests** are one system. The
driver's `poll_ready` is split at every point where the native toolkit may come
back into it: `batch` is what the loop has still to visit, `current` the task
whose poll has not returned. A worker's way through a job is split at every
effect another thread can see, in the order of the code's drops: result,
running half of the permit, slot marked closed, wakers. `SchemeRequests` is the
future that ties the two together; every call it makes into WebKit is an action
during which `Start` and `Stop` may happen. A refused request is answered by
`startURLSchemeTask` itself, with three calls that any callback may interrupt,
another refusal included: `refusals` is the stack of those that have not returned.

**RouterNavigation** treats a navigation as a process whose phases are the
awaits of `navigate` (`fetching`, `loading`, `transition`, `committed` or
`abandoned`), and two in which component code is on the stack and may navigate:
`inside` the commit, and `failing` while the error boundary is mounted. The mount
of a pending element is a third such place (`PendingTimer`, `PendingMounted`);
`inside` says whose code runs. A mount records its element when the code has
returned, whatever has happened since. A response is `<<path, job>>`, so that two
responses for one path differ. `given` is history: the responses whose states
components may have been given since the last commit, and those among them of
commits that threw half-way. A new navigation or hover takes the lowest job that
is free (`IsNext`). Its cache, **NavigationCache**, is a value with an operator per
method.

**StreamingSession** is the server: the constructs of the compiled template
that end in a record, the revisions and key sets from which `checkpoint.rs`
decides that a record may refer to an earlier state, and a writer that may fail
after any of them. **StreamingPage** extends it with the page. The wire keeps,
beside what is in a record, what its range was really rendered with (`want`);
`RightState` compares it with what the page made of the references. What a host
may give a session is the constant `Given`: states with other keys than before
among them, so that a key set may lag behind its revision. Custom
element upgrades follow the HTML standard, one element at a time.

**LazyRegions** has one record `page` for what the runtime keeps, and `waits`
for the promise reactions that are still to run. A template is in the registry,
alive behind a weak reference, or gone; the garbage collector is an action.

**RenderCompletion** has an explicit `stack` of frames (a drain, a render, a
refresh, a callback, a mount, an activation's continuation), microtasks in
order, and the sets of observers as shared objects: a frame holds a reference
(`refs`) to the set that was active when it began, which others may change. A
flush is unconditional, as in the code: from a callback inside a drain it starts
another drain on top (`render-scheduler.test.ts:114`).
What bindings and authors do inside a frame is chosen from the steps of the
*scene*. `cause` and `loss` are history: what each request is owed, and who has
lost something of it.

**DevServer** has the threads of both hosts; which one it is (`press`) is
chosen in `Init`. A content is a kind and a number, so that a build's reading of
the files one by one, while they change, leaves a mixture that can be told from
what is on disk. A build of `press` that cannot reload its configuration, or
whose watches cannot be set again, returns early with an error (`EndBuild`,
`WatchFails`).

### Abstractions

Payloads, method tables, error codes, texts, HTML and styles are dropped, and a
check on them that may fail is a choice. Time is dropped: a deadline may pass at
any moment. Byte counts are in units (a data frame or a large reply weighs
one). The peer of the host engine may submit anything the wire format admits:
any kind, any id up to `MaxPeerId`, repeated or out of order.
`AbortHandle::abort` is not represented in `IpcEngine`: every caller removes the
entry first, and a task without its entry ends in the same state whether it is
aborted or runs on. What a particular module leaves out is in its header.

Many actions are whole synchronous handlers that call other functions of the
code; such functions are operators on records (`SettleRequest`, `Release`, `Include`
of `RenderCompletion`; `Retire` of `IpcEngine`; `Store`, `Evict` of
`NavigationCache`), applied one after the other as the code calls them.

## 3. Runs

| Run | Instance | Distinct states | Properties |
|---|---|---|---|
| `engine` | 1 document with 3 calls, 2 calls and their replies, or 1 call and 2 requests; 2 documents with 2 calls or requests, no 2 calls in one (`Bounded`); 2 control slots, a queue of 1 | 640 k | `TypeOK`, `Accounting`, `WireOrder`, `OneOwner`, `AnsweredOnce`, `OpenUntilAnswered`, `ImplementsOutbox` |
| `engine_live` | 1 document, 1 call, 2 requests, fairness | 93 k | `CallSettles`, `RequestResolves` |
| `wake` | 2 documents, 3 frames each, fairness | 22 k | `NoLostWake`, `PullIsAlone`, `Delivered`, `ClosedTold` |
| `admission` | 3 navigations, 2 applications waiting, 1 place, fairness | 93 k | `DocumentIsShown`, `NobodyOverlooked`, `EndsKnowingly`, `NoOrphan` |
| `notify` | 3 notifications, 2 subscriptions (1 at a time), 2 callbacks, fairness | 232 k | `InOrderWhileLive`, `NoSlotOutlives`, `ChainAdvances` |
| `page` | 3 calls, 2 host requests, 2 control slots, a queue of 2, fairness | 510 k | `CreditAccounting`, `CompletionFits`, `WireOrder`, `CallSettles` |
| `requests` | 2 requests of 2 chunks, 1 worker, three pairs of limits, panics, fairness | 505 k | `NativeProtocol`, `NoRequestStranded`, `RequestEnds` |
| `router` | 3 jobs (the start, then navigations or hovers), 2 paths, a cache of 1, one destroy and restart, fairness | 283 k | `GivenIsOwn`, `NothingLeftOver`, `LatestCommits`, `NavigationEnds` |
| `stream` | 4 documents (flat, one span, nested spans, a component in itself), 2 keys, 1 update, 1 change of state, 1 lost or repeated record in two of them | 1.10 M | `CompleteMeansSettled`, `RightState`, `StreamEnds` |
| `lazy` | 1 region shown by 2 bindings of a host, a shared template, 3 renders, 1 collection, fairness | 253 k | `BooksHonest`, `OpenIsServed` |
| `render` | 3 components, 1 activation, 2 overlapping requests, 5 scenes of up to 4 steps, a stack of 4 | 728 k | `ResolvedIsRendered`, `NobodyHangs` |
| `dev` | both hosts; 1 source, 1 include, 1 manifest; 2 edits, 1 failing build or watch, a channel of 1, fairness | 619 k | `NothingForgotten`, `Settles` |

Several properties are conjunctions of named parts that answer one question
together: `Accounting` of slots and of bytes, `GivenIsOwn` of what was compared,
given and served, `RightState` of the state a root began with and the updates
it has seen, `NobodyHangs` of what requests wait for and what the scheduler
keeps, `BooksHonest` of the inventory and the failure list.

Deadlock is checked in `stream` and `lazy`; the others really stop (a closed
window, a destroyed router, a server shut down, a page at rest, a bound reached).
`StreamingPage` stutters explicitly where nothing more can happen (`Quiet`), and
`StreamEnds` says what must hold there.

**Why the bounds are enough.** Interference between calls is pairwise (a gate
has one predecessor, an entry one racing remover), so three calls contain every
pair with a third on either side of it; the slots are fewer than the calls and
requests that ask for them and the queues shorter than what is sent, so that
refusals happen. Two documents are the least with a stale task in them, and a
third one is met by the same check on the generation. Three notifications are
the pattern of the delivery chain (unfinished, skipped, waiting). Three
navigations put a stale, a current and a next page beside each other, in the
router as in the admission. A file of two chunks has a chunk that is followed
by another. The four documents of `stream` have these relations of two roots:
siblings in different ranges, a root in a root of its own range, in a span host,
in two span hosts, in a root that is itself in two span hosts (the case section
5 (c) is about), of the same tag as an earlier root, and of the same tag as the
root around it. Deeper nests and longer responses are not checked. Two keys and
ranges that want different ones of them let a key set lag behind a revision.
Two bindings are what it takes
to share an activation, and to retry one failure of two. A scene of `render` is
a set of steps that interact; all of them together are out of TLC's reach.
Parameters that select a variant of the code are chosen in `Init` rather than
by configuration, so that one run covers them: the limits of `SchemeRequests`,
the program of `StreamingSession`, the scene of `RenderCompletion`, the host of
`DevServer`. For the properties that are proved the bounds do not matter.

**Fairness.** All of it is weak, on steps that the code cannot refuse. In
`IpcEngine` only the deadline thread and a thread that has already taken a
settlement upon itself make progress; workers may block in application code,
the renderer may hang, the UI loop may stop, and calls still settle. `IpcWake`
assumes that a thread inside `signal()` finishes it, that GTK runs scheduled
callbacks, and that the page's event loop turns; nobody has to produce or to
navigate. `IpcAdmission` assumes that the worker finishes a grant and that the
UI loop polls a finished future. `IpcNotify` assumes a free worker for the
SDK's own steps, and never that a callback of the application returns.
`PageConnection` assumes that the event loop turns and timers fire; no handler
has to return and no POST has to end. `SchemeRequests` assumes the main queue
and the executor's threads run. `RouterNavigation` has one fairness condition,
on the event loop as a whole: a request, a module or a view transition that can
go on or fail does one of the two. `LazyRegions` assumes that requests,
imports and their reactions settle. `DevServer` assumes that windows close,
builds end and threads run; nobody has to edit or to stop. `StreamingPage` and
`RenderCompletion` have no fairness: a page that is stuck is stated as an
invariant there (`StreamEnds` where nothing can happen any more; `NobodyHangs`
as the fact that whatever is waited for is there to be done), which finds the
same mistakes in far larger instances.

## 4. Proofs

TLAPS proves the following for every value of the constants. The assumptions are
the named `ASSUME`s of the modules: bounds and limits are naturals (those of
which the code needs at least one, at least one), sets of slots and waiters are
finite, as are the requests and workers of a page, the bindings of a lazy
region and the components, activations and requests of a render, no component is
an activation and `Nobody` is neither, a template is shared or a region's own, the document's path is a path,
and `None` is no response. No assumption relates two limits to each other, and
TLC evaluates all of them in the runs.

| Module | Theorem | Property |
|---|---|---|
| `IpcEngineProofs` | `TypeCorrect` | `TypeOK` |
| | `EngineImplementsOutbox` | `ImplementsOutbox` (refinement) |
| | `CallsHaveOneOwner` | `OneOwner` |
| | `RequestsAnsweredOnce`, `RequestsStayOpen` | `AnsweredOnce`, `OpenUntilAnswered` (action) |
| | `InvocationsInOrder` | `WireOrder` |
| | `BudgetsBalance` | `Accounting` |
| `IpcWakeProofs` | `WakesNotLost`, `PullsAlone` | `NoLostWake`, `PullIsAlone` |
| `IpcSessionProofs` | `ServesWhatIsShown`, `WaitersServed` | `DocumentIsShown`, `NobodyOverlooked` |
| | `EndsOnlyKnowingly` | `EndsKnowingly` (action) |
| | `CallbacksInOrder`, `SubscriptionsEnd` | `InOrderWhileLive`, `NoSlotOutlives` |
| `PageConnectionProofs` | `PageTypeCorrect` | (type correctness; every counter a natural number) |
| | `PageCreditsBalance` | `CreditAccounting` |
| | `CompletionsFit`, `PageKeepsOrder` | `CompletionFits`, `WireOrder` |
| `SchemeRequestsProofs` | `RequestTypesHold` | (type correctness of the composition) |
| | `ProtocolKept`, `NobodyStranded` | `NativeProtocol`, `NoRequestStranded` |
| `ClientProofs` | `PageGivenItsOwn`, `NavigationsCleanUp` | `GivenIsOwn`, `NothingLeftOver` |
| | `LatestNavigationCommits` | `LatestCommits` (action) |
| | `BooksStayHonest` | `BooksHonest` |
| `RenderCompletionProofs` | `NothingHangs` | `NobodyHangs` |
| `DevServerProofs` | `EditsReachTheServer` | `NothingForgotten` |

Each of the proof modules also has the type correctness of its module, as a
theorem or as part of the invariant. A preservation proof has one step per
action. Where an action is made of operators that several share (`Retire`,
`Enqueue`, `Departs`, `Invalidate`), what the operator does is a lemma.

**The engine.** `EngineImplementsOutbox` needs `LifeInv` (a live document implies
an open window and a used admission; no document, no queue): without it an
admission could take over an old queue. `OneOwner` speaks of started calls only;
`OwnershipInv` adds that a call not started has no owner, that a started id was
handed out by its own document (so `Prepare` never meets a used one), and that a
task on its way to settle has an outcome. `AnswerInv` adds what happens between
the two critical sections of a submission: it has consumed an id that nobody
holds yet. Whoever holds an id (the table, a pending acknowledgement, a
submission, a cancellation) holds it alone, unanswered, and it is not above the
last id accepted; so a fresh id is free of all of them. `InvocationsInOrder`
rests on the gates: the predecessor that a gate waits for is the call before it,
a gate that is open has no earlier call of its document still before its own
gate, and so what is appended comes after all that was sent. `BudgetsBalance`
needs both at once: the slots in use are those held by entries of the tables and
those of control frames in the queue, and no frame in the queue belongs to an
entry that still holds its slot. Lemmas on the number of frames of a kind in a
queue (appending, taking the head, cutting out one place) come first, here and
for the page's ledger.

**Wake-up.** `NoLostWake` is not inductive: a pull that is about to be told that
nothing is left would count as one. `WakeInv` leaves it out (`FramesInv`), and
adds that a pending wake-up is on its way (`WakesInv`), that a session and the
offer of one are of the latest document (`SessionInv`), and that the end of an
older document is taken before the living one is announced (`ControlInv`), so
that the two places for held controls push no announcement out. The guard of a
pull is held only while a pull is answered (`PullInv`).

**Admission.** `Epochs` orders the three counters of engine and adapter;
`Documents` and `Sessions` tie documents and sessions to them; `Granted` and
`Untold` say of every attempt on its way which generation its own page was
granted, and that the adapter does not know it yet, so that undoing it takes
nothing away that a page was told about.

**Notifications.** `InOrderWhileLive` says nothing of deliveries that are over,
and so nothing of the one whose end lets the next begin. `ChainInv` adds them
(`OverInOrder`) and what `Notify` makes of a chain (`Chained`): a delivery's
predecessor is the last one of its subscription before it. `SlotInv` says that an
active subscription is known to the document or to the thread that retires it.

**Page connection.** `PageInv` has the books as they stand inside a turn: what
the queue, the frame in flight and the held credits add up to (`Counters`,
`Ledger`, `Input`, `Reserve`), which call or task each control frame belongs to
(`Once`, `Results`, `WireCalls`), what a turn that refused a frame leaves behind
(`Ended`, `Fits`), and the order of the ids in the queue and on the wire
(`Order`, `OnWire`). A frame may be cut out of the middle of the queue, so order
is stated of places, not of the tail.

**Requests of a page.** Driver and executor are proved about by themselves, and
meet in what ties a future to its job. `ExecInv`: a job that somebody holds has a
result, lost it, or is still on its way through channel and worker (`Slotted`), and
a job beyond that has no waker left (`Silenced`). `DriverInv`: the task count is
that of the futures (`Counted`), nothing is being visited while the loop rests
(`Rests`), and a ready task is still going to be looked at (`Kept`). `Holding` says
that a future that waits holds the slot of the job it waits for, `Present` that a
request without an answer has a future, and `Told` in which state of a future, or of
a refusal, WebKit has been told what: a future never goes on with a request that was
stopped, a refusal may, and `NativeProtocol` says no more than that. A request can be stranded
only if neither its future is ready nor its job will wake it; each step of a worker
keeps the job `Underway` or moves its waker into the set it is about to call.

**Router.** `RouterInv` rests on numbers: every navigation has a generation and,
until it has ended, a boundary generation of its own (`Numbered`). Then the
latest navigation has the boundary until it commits (`Bounded`), and whoever
takes the boundary down had it; `LatestCommits` follows. An element that is
recorded late, after the code of its component has navigated, is under a
navigation that has just begun and has the boundary: it will take the element
down, which is what `NothingLeftOver` asks. The requests that may
deliver are of the latest navigation or of a hover over another path
(`Requested`), so that a navigation and a reset, which abort all that are
tracked, leave none behind, and the states that arrive are those of the page on
display (`Showing`). A commit or a mount is alone on the stack, and what it started
is still fetching or loading (`Stacked`), so that nobody has compared his chain with the
page it is about to replace. `Staged` and `Fitting` say how far the request of a
navigation is; `Served` says that what the cache would serve has arrived.

**Lazy regions.** `BooksHonest` is strengthened by what the runtime's tables say
about each other: an activation id is not newer than the counter (`Dated`), what is
in the inventory is in the registry, and what is in the registry is alive (`Backed`);
a region that is loaded, and no longer installing, has its templates or lost them
to a collection (`Published`, `Uncollected`). The memory of failed hosts is exact
(`Remembered`), but not while `retry` runs through the failed bindings of a host,
where one host is remembered that has no failure left: hence its second argument.
`retry` is a fold over a set of bindings. There is no induction over the fold, so
`Least` takes the smallest subset for which a claim would fail; with it `FoldExists`
and `RetriesAll` are first-order.

**Render completion.** `RenderInv` has two halves that meet in what is pending.
`SchedInv`: a component's index is its slot, or it is being rendered from a slot
that the drain has passed (`Slotted`); what was written has an index or is being
rendered (`Written`); a drain is coming for the slots (`Scheduled`). `Good` is about
the books: the two tables (who observes a piece of work, what a request waits for)
mirror each other (`Mirror`), only open requests wait (`Living`), a request's number
of activations is that of the jobs that are activations (`Tallied`), and an open
request has something to wait for (`Waits`). The last part of `RenderInv`: each job of each
request is work that something will end. In the middle of a handler the books are
not good: the set of observers is gone before the requests in it are told, so
`SoundBook` names the work that is being taken out and the requests still to be told.
The handlers go through sets of requests and activations with folds. A fold is a
function on the subsets of its set that takes one element at a time (`FoldSolved`),
and what holds of the empty set, and of a subset whenever it holds of it without
its next element, holds of the set (`OneByOne`, again from `Least`); each fold then
needs a lemma about one element (`DetachRun`, `DoneRun`, `CancelRun`, ...).

**Dev server.** `NothingForgotten` speaks of a server at rest. `DevInv` follows
the edit on its way there (`Fresh`): a rebuild is coming, or every file the
running or the last build has read is as it was read, or an event of it will pass
the filter, or the comparison after the build will find it. The filter lets an
event pass because an edit brings content that no hash knows; `Flow` says which
step of the worker goes with which state of the build and of the watch, and
`Retried` follows a save that asked for a retry. Exact files may be left
unwatched only while an error is shown that no watch would clear, or one of a
source, which is always watched; and a build that returns before its comparison
has read nothing but a source.

**Only model-checked.** Liveness is out of the prover's reach: `CallSettles`,
`RequestResolves`, `Delivered`, `ClosedTold`, `NoOrphan`, `ChainAdvances`,
`RequestEnds`, `NavigationEnds`, `OpenIsServed`, `Settles`. The invariants of
`StreamingPage` (`CompleteMeansSettled`, `RightState`, `StreamEnds`) and one of
`RenderCompletion` are not proved. `ResolvedIsRendered` speaks of `cause`, a
history of what each request is owed; its inductive form would have to say, of
every frame and every shared set of observers, that whoever is owed a piece of
work observes it or has lost it, and is open.
`StreamingPage` uses a RECURSIVE operator (`Released`, the walk over released
roots), so nothing about it can be proved as it stands.

## 5. Observations

The properties hold in the models, some of them because they except what the
code does. This section lists those exceptions, the places where a comment or a
document reads stronger than the code, and what was seen beside the models. The
runs check the properties with their exceptions; no run asserts the stronger
statement.

- **Notifications.** A rejected notification waits for its predecessor
  ("prevents a skipped middle node from releasing successors past an unfinished
  predecessor", `bridge.rs:923`); one whose validating task finds the document
  gone (`bridge.rs:895`) does not, and since retirement takes the document before
  it closes the subscriptions (`engine.rs:503`), a successor may start beside an
  unfinished callback then. Hence *WhileLive* in `InOrderWhileLive`. And a queued
  callback may start just after `close()` of its subscription returned: the last
  look at `active` (`bridge.rs:940`) and the call are two steps
  (`specs/desktop-ipc.md:221`).
- **Engine.** Id exhaustion retires whatever document is current after the
  unlock (`session.rs:384`). A Cancel between the two critical sections of its
  request is ignored (`bridge.rs:636`); the page serialises its POSTs, so it does
  not occur with this client.
- **Page connection.** An error that refuses a request before it got a credit
  (`connection.ts:262`) may find the control reserve full, and a refused control
  frame ends the connection (`:339`).
- **Scheme handler.** A request that is refused is answered with three calls into
  WebKit (response, data, end) by the function that refuses it
  (`scheme.rs:138`, `:180`, `:213`) with `is_live` fixed to true
  (`response.rs:51`): stopped during the first, it gets the others all the same,
  against "Only live tasks on their main thread reach these callbacks"
  (`response.rs:66`). `NativeProtocol` excepts exactly these requests.
- **Executor.** A result is published (`execution.rs:112`) before the running
  reservation is released, although the comment at `:118` gives the reason for
  the opposite order: at the limit, the next chunk of a file can be refused. The
  request then ends in an error (`RequestEnds`).
- **Router.** `setActionController` (`router-core.ts:313`) keeps one controller:
  with two forms submitted, a navigation aborts the later one only
  (`types.ts:236`). Form actions are not in the model. A pending or error element
  is recorded after the code of its component has run (`pending.ts:49`, `:76`): if
  that code navigates, the old element is recorded under the newer navigation,
  whose end removes it. A commit that throws half-way (`router-core.ts:1022`) may
  have given its states to components that stay, while `activeChain` is the old
  chain; the next commit compares with that chain. And a component that is reused,
  or kept alive, and is given no state keeps what it had from an earlier response
  (`cache.ts:56`, `route-element.ts:293`), so that a page on display need not be
  of one response: `GivenIsOwn` speaks of what components are given, not of what
  they show. Without the Navigation API, or without a signal, a navigation that
  loads a document instead goes on to its error boundary (`router-core.ts:577`);
  the model ends it there.
- **Streaming.** (a) A component inside one of its own kind, defined late: the
  outer element's walk reaches the inner one before the browser has upgraded it,
  finds no hook and halts a whole response (`streaming-deferred.ts:656`,
  `docs/build/hydration.md:369`); `StreamEnds` excepts such documents. (b) An
  ancestor that is neither upgraded nor has its template is no barrier
  (`template-element.ts:1143`), so that a root within two hosts may go live before
  the outer one (comment at `:1107`). (c) A root nested in a root
  that waits behind a barrier is passed over by the walk of its own range and
  hydrated by the walk over an enclosing span, with the span's state and without
  the updates of its own boundary (`streaming-deferred.ts:322`), which
  `hydration.md:400` promises it. The documents checked have such a root (`cell`);
  `RightState` excepts these roots (`PassedOver`), allows them the state of a host
  and all updates or none, and fails without the exception. (d) With a slice budget,
  `DOMContentLoaded` may come while the terminal record is still queued, and the
  guard gives the stream up (`streaming-coordinator.ts:698`, `hydration.md:365`);
  the sliced drain is not in the model.
- **Render completion.** A render that is captured while it runs keeps its old
  set of observers, so what it queues afterwards is not observed
  (`render-completion.ts:315`, `specs/hydration.md:101`). `cause` follows what the
  code captures.
- **Dev server.** A retarget takes the bytes of that moment as the baseline of
  exact files (`watch.rs:181`): an edit of a projection manifest that falls into a
  build of `webui press serve` is forgotten (comment at `watch.rs:56`), which
  `NothingForgotten` excepts. A change that is undone within one debounce window
  while a build reads the file is filtered out (`watch.rs:424`); in the model
  every edit brings new content. A watched root that is deleted and recreated
  between two retargets is kept as registered (`watch_subscriptions.rs:52`); the
  table of subscriptions is not in the model. When a watch cannot be set, the
  build of `webui press serve` has written its output and reports an error, and its
  includes are not compared until the next build (`press serve.rs:264`).

## 6. Further hazards

Besides the list of `PROJECT.json`, the same properties meet these:

| Where | What | Property |
|---|---|---|
| `ipc/bridge.rs:593` | a large reply is a control frame that is charged to the data bytes | `Accounting` |
| `ipc/bridge.rs:718` | an invocation that comes twice | `AnsweredOnce` |
| `ipc/engine.rs:338` | a cancellation before and after its frame was queued | `WireOrder` |
| `ipc/bridge.rs:419`, `linux/ipc_wake.rs:57` | flags cleared before, not after, the look | `NoLostWake` |
| `linux/ipc.rs:119`, `document.rs:20` | controls routed by a copied session; epochs at their end | `DocumentIsShown` |
| `queue.ts:72`, `:81` | removal of the frame in flight; close under an awaited POST | `CreditAccounting` |
| `pending.ts:49`, `:76` | an element recorded after its component has navigated | `NothingLeftOver` |
| `router-core.ts:150` | the set of controllers each request joins and leaves | `NothingLeftOver` |
| `streaming-coordinator.ts:113`, `:606`, `:698` | the queue at its limit; the terminal record before deferred roots; the guard | `StreamEnds`, `RightState` |
| `lazy-runtime.ts:337`, `:371`, `:650` | half an install; one retry of several; release while bindings open | `BooksHonest`, `OpenIsServed` |
| `render-completion.ts:445`, `render-scheduler.ts:42`, `:76` | expected losses; flushes that overtake their slot; jobs that throw | `ResolvedIsRendered`, `NobodyHangs` |
| `dev-server worker.rs:38` | a dropped tick | `NothingForgotten` |

## 7. Not modelled

`PROJECT.json` lists every part with its reason. By lines, most of the
repository is not modelled, and deliberately so:

- **compilers and renderers**: the template parser and its plugins, discovery,
  the build API, the render handler and its route handler, expressions, tokens,
  the static site generator, the binding generators. They are sequential, pure
  functions from text to text, run to the end or to an error; their state does
  not outlive a call and their data is the whole of HTML and CSS. A bounded
  instance would check a toy of each. (The handler's streaming session, which
  does keep state between calls, is modelled.)
- **platform code**: windows, dialogs, menus, capture, packaging, updates, the
  Windows SDK bindings (generated), sockets and processes: calls into toolkits
  and the file system whose meaning is theirs.
- **adapters that repeat a modelled contract**: the macOS and Windows IPC
  adapters (as GTK's), the Linux and Windows scheme handlers (as macOS's), the
  FFI, Node, Python, WASM and .NET bindings.
- **the DOM side of the client framework**: decorators, bindings, DOM patches,
  hydration of markup.
- tests (a large part of the lines, often inside the source files), examples,
  build tooling and documentation.

Inside modelled parts, what is left out is in the notes of `PROJECT.json`: the
bootstrap and the native binary lane of the desktop connection, the
worker pool and the deadline thread of the IPC, form actions and cache tags of the router, the
sliced drain, styles of lazy regions, and the table of watch subscriptions.

## 8. Plan

Done: the IPC modules, the page connection, task driver, executor and scheme
requests, the router, streaming, lazy regions, render completion and the dev
server; theorems about all of them but streaming.

Next theorems: `ResolvedIsRendered` of `RenderCompletion`, and those of
`StreamingPage`, with `Released` written as a recursive function first.

Next modules: the native binary lane as an implementation of an ordered channel;
the bootstrap's epochs; the IPC's deadline thread with its condition variable; watch
subscriptions; form actions.
