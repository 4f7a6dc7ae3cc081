--------------------------- MODULE SchemeRequests ---------------------------
(***************************************************************************)
(* How the macOS adapter answers the page's resource requests: the scheme  *)
(* handler (macos/scheme.rs) submits the work to the AppExecutor and       *)
(* spawns on the NativeTasks driver a future that awaits it and then       *)
(* streams the answer (macos/response.rs), a file as one executor job per  *)
(* chunk.  Linux and Windows drive the same two components.                *)
(*                                                                         *)
(* The driver's tasks are the requests, its waking threads the executor's  *)
(* workers, and job <<r, k>> is the k-th submission of request r: 0 is     *)
(* the application's handler, the others are the file's chunks.  Every     *)
(* call into WebKit may come back with a new request, a stopped request or *)
(* a drain before it returns, so a poll is one action per call, and so is  *)
(* a refusal: startURLSchemeTask answers it itself with three calls.  The  *)
(* UI thread's stack is the driver's loop, the refusals it was called from *)
(* and the refusals its current poll's calls came back with.               *)
(*                                                                         *)
(* Abstractions.  Headers and bytes are left out, and a request may be     *)
(* refused for its address or its body whatever they are.                  *)
(* The handler's Rc keeps the driver from being dropped while it drains,   *)
(* so the driver closes between drains only.                               *)
(***************************************************************************)
EXTENDS Naturals, Sequences, FiniteSets, SequencesExt

CONSTANTS
  Request,     \* requests of the page
  Worker,      \* WORKERS
  MaxWork,     \* MAX_WORK
  Limits,      \* the pairs of limits a window may be built with: the
               \* driver's, and the handler's on unanswered requests
  MaxChunks,   \* bound: chunks of a file, end of file included
  MayPanic     \* whether the application's code may panic

ASSUME RequestAssumption ==
  /\ MaxWork \in Nat \ {0} /\ Limits \subseteq (Nat \ {0}) \X Nat
  /\ MaxChunks \in Nat \ {0} /\ MayPanic \in BOOLEAN /\ Worker # {}
  /\ "none" \notin Request

Job == Request \X (0 .. MaxChunks)

VARIABLES
  maxTasks, unspawned, tasks, batch, current, looping, deferred, alive, count,
  ready, active, queued, posting,
  shut, chan, held, running, result, hollow, waker, worker,
  maxPending,  \* the handler's limit
  step,        \* per request: where its future is
  chunk,       \* per request: the number of its latest job
  listed,      \* SchemeHandlerIvars.pending: requests with a live flag
  refusals,    \* requests whose refusal has not returned, innermost last
  beneath,     \* how many of these called the driver's loop that is running
  native,      \* per request: what WebKit was told
  misused      \* requests on which WebKit was called when it must not be

Driver == INSTANCE NativeTasks WITH
            Task <- Request, Thread <- Worker
Exec == INSTANCE AppExecutor

driverVars == <<maxTasks, unspawned, tasks, batch, current, looping, deferred,
                alive, count, ready, active, queued, posting>>
executorVars == <<shut, chan, held, running, result, hollow, waker, worker>>
stackVars == <<refusals, beneath>>
requestVars == <<maxPending, step, chunk, listed, native, misused, stackVars>>
vars == <<driverVars, executorVars, requestVars>>

\* turned, closing, refused: a refusal with its data and its end to come, with
\* its end to come, and done
Refusal == {"turned", "closing", "refused"}
Steps ==
  {"new", "await", "head", "bytes", "finish", "file", "over"} \cup Refusal
NativeState == {"unseen", "open", "headed", "over", "stopped"}

Init ==
  /\ \E l \in Limits : maxTasks = l[1] /\ maxPending = l[2]
  /\ unspawned = Request /\ Driver!DriverInit /\ Exec!ExecutorInit
  /\ step = [r \in Request |-> "new"] /\ chunk = [r \in Request |-> 0]
  /\ listed = {} /\ native = [r \in Request |-> "unseen"]
  /\ misused = {} /\ refusals = <<>> /\ beneath = 0

-----------------------------------------------------------------------------
(* WebKit's side of a request *)

\* A WKURLSchemeTask takes a response, then data, then one end, and nothing
\* once it was stopped.
Legal(r, from) == native[r] = from

Tell(r, from, to) ==
  /\ native' = [native EXCEPT ![r] = IF @ = from THEN to ELSE @]
  /\ misused' = IF Legal(r, from) THEN misused ELSE misused \cup {r}

Silent == UNCHANGED <<native, misused>>

\* MUTANT: nothing is rechecked after a call or an await.
LiveAtStart(r) == TRUE

\* The live flag: cleared by stop together with the entry that holds it.
Live(r) == r \in listed

\* webView:startURLSchemeTask: refuses: send_response calls WebKit at once,
StartRefused(r) ==
  /\ unspawned' = unspawned \ {r}
  /\ step' = [step EXCEPT ![r] = "turned"]
  /\ native' = [native EXCEPT ![r] = "headed"]
  /\ refusals' = Append(refusals, r)
  /\ UNCHANGED <<maxTasks, maxPending, tasks, batch, current, looping,
                 deferred, alive, count, ready, active, queued, posting,
                 chunk, listed, misused, beneath>>

\* and twice more, with is_live fixed to true: nobody asks whether the request
\* was stopped during the call before.  Only the innermost call of the UI
\* thread goes on.
Innermost(r) ==
  /\ refusals # <<>> /\ Last(refusals) = r
  /\ looping => Len(refusals) > beneath

RefusalData(r) ==
  /\ Innermost(r) /\ step[r] = "turned"
  /\ Tell(r, "headed", "headed") /\ step' = [step EXCEPT ![r] = "closing"]
  /\ UNCHANGED <<driverVars, executorVars, chunk, listed, maxPending,
                 stackVars>>

RefusalFinish(r) ==
  /\ Innermost(r) /\ step[r] = "closing"
  /\ Tell(r, "headed", "over") /\ step' = [step EXCEPT ![r] = "refused"]
  /\ UNCHANGED <<driverVars, executorVars, chunk, listed, maxPending,
                 stackVars>>

RefusalReturns(r) ==
  /\ Innermost(r) /\ step[r] = "refused"
  /\ refusals' = Front(refusals)
  /\ UNCHANGED <<driverVars, executorVars, step, chunk, listed, native, misused,
                 maxPending, beneath>>

Refuse(r) == RefusalData(r) \/ RefusalFinish(r) \/ RefusalReturns(r)

Crowded == Cardinality(listed) >= maxPending

Start(r) ==
  /\ Driver!UiFree /\ alive /\ r \in unspawned
  /\ \/ StartRefused(r)
        /\ UNCHANGED executorVars
     \/ /\ ~Crowded /\ Exec!Admits /\ ~Driver!CanSpawn
        /\ StartRefused(r)
        /\ Exec!SubmitAbandoned(<<r, 0>>)
     \/ /\ ~Crowded /\ Exec!Admits
        /\ Driver!Spawn(r)
        /\ Exec!Submit(<<r, 0>>)
        /\ step' = [step EXCEPT ![r] = "await"]
        /\ native' = [native EXCEPT ![r] = "open"]
        /\ listed' = listed \cup {r}
        /\ UNCHANGED <<chunk, misused, maxPending, stackVars>>

\* webView:stopURLSchemeTask:
Stop(r) ==
  /\ Driver!UiFree
  /\ native[r] \in {"open", "headed"}
  /\ native' = [native EXCEPT ![r] = "stopped"]
  /\ listed' = listed \ {r}
  /\ UNCHANGED <<driverVars, executorVars, step, chunk, misused, maxPending,
                 stackVars>>

-----------------------------------------------------------------------------
(* The request's future; every action is a part of the poll of current *)

Awaited(r) == <<r, chunk[r]>>
Go(r, to) == step' = [step EXCEPT ![r] = to]

\* The poll goes on once the refusals its last call came back with are over.
OnTop == Len(refusals) = beneath
Polling(r, at) == current = r /\ OnTop /\ step[r] = at

\* work.await: no outcome yet, the poll returns Pending
AwaitPending(r) ==
  /\ Polling(r, "await") /\ Exec!StillPending(Awaited(r))
  /\ Exec!Register(Awaited(r))
  /\ Driver!PollReturns(FALSE)
  /\ UNCHANGED <<unspawned, shut, chan, running, worker, requestVars>>

\* The application answered with bytes or a file, or will not answer at all,
\* which is a 503 with a body.
AwaitAnswer(r) ==
  /\ Polling(r, "await") /\ chunk[r] = 0 /\ ~Exec!StillPending(Awaited(r))
  /\ Exec!Forget({Awaited(r)})
  /\ Go(r, "head")
  /\ UNCHANGED <<driverVars, shut, chan, running, worker, chunk, listed,
                 native, misused, maxPending, stackVars>>

\* begin_response; what follows depends on the body
HeadBytes(r) ==
  /\ Polling(r, "head") /\ Live(r)
  /\ Tell(r, "open", "headed") /\ Go(r, "bytes")
  /\ UNCHANGED <<driverVars, executorVars, chunk, listed, maxPending,
                 stackVars>>

HeadFile(r) ==
  /\ Polling(r, "head") /\ Live(r)
  /\ Tell(r, "open", "headed") /\ Go(r, "file")
  /\ UNCHANGED <<driverVars, executorVars, chunk, listed, maxPending,
                 stackVars>>

SendBytes(r) ==
  /\ Polling(r, "bytes") /\ Live(r)
  /\ Tell(r, "headed", "headed") /\ Go(r, "finish")
  /\ UNCHANGED <<driverVars, executorVars, chunk, listed, maxPending,
                 stackVars>>

SendFinish(r) ==
  /\ Polling(r, "finish") /\ Live(r)
  /\ Tell(r, "headed", "over") /\ Go(r, "over")
  /\ UNCHANGED <<driverVars, executorVars, chunk, listed, maxPending,
                 stackVars>>

\* is_live() is false wherever it is looked at: the future ends.
NotLive(r) ==
  /\ current = r /\ OnTop /\ ~Live(r)
  /\ step[r] \in {"head", "bytes", "finish", "file"}
  /\ Go(r, "over")
  /\ UNCHANGED <<driverVars, executorVars, chunk, listed, native, misused,
                 maxPending, stackVars>>

\* The loop of send_application_response submits the next chunk, and awaits
\* it in the same poll.
NextChunk(r) ==
  /\ Polling(r, "file") /\ Live(r) /\ Exec!Admits
  /\ Exec!Submit(<<r, chunk[r] + 1>>)
  /\ chunk' = [chunk EXCEPT ![r] = @ + 1] /\ Go(r, "await")
  /\ UNCHANGED <<driverVars, listed, native, misused, maxPending, stackVars>>

ChunkRefused(r) ==
  /\ Polling(r, "file") /\ Live(r) /\ ~Exec!Admits
  /\ Tell(r, "headed", "over") /\ Go(r, "over")
  /\ UNCHANGED <<driverVars, executorVars, chunk, listed, maxPending,
                 stackVars>>

\* A chunk arrived: WebKit gets it, or the end of the file, or an error, if
\* it still wants any.
ChunkRead(r) ==
  /\ Polling(r, "await") /\ chunk[r] > 0 /\ Exec!HasResult(Awaited(r))
  /\ Exec!Forget({Awaited(r)})
  /\ \/ ~Live(r) /\ Silent /\ Go(r, "over")
     \/ Live(r) /\ Tell(r, "headed", "over") /\ Go(r, "over")
     \/ /\ Live(r) /\ chunk[r] < MaxChunks
        /\ Tell(r, "headed", "headed") /\ Go(r, "file")
  /\ UNCHANGED <<driverVars, shut, chan, running, worker, chunk, listed,
                 maxPending, stackVars>>

\* The executor will not read it any more: fail_response.
ChunkLost(r) ==
  /\ Polling(r, "await") /\ chunk[r] > 0 /\ Exec!HasNone(Awaited(r))
  /\ Exec!Forget({Awaited(r)})
  /\ IF Live(r) THEN Tell(r, "headed", "over") ELSE Silent
  /\ Go(r, "over")
  /\ UNCHANGED <<driverVars, shut, chan, running, worker, chunk, listed,
                 maxPending, stackVars>>

\* The future returns, after taking its request off the list.
PollDone(r) ==
  /\ Polling(r, "over")
  /\ listed' = listed \ {r}
  /\ Driver!PollReturns(TRUE)
  /\ UNCHANGED <<unspawned, executorVars, step, chunk, native, misused,
                 maxPending, stackVars>>

Poll(r) ==
  \/ AwaitPending(r) \/ AwaitAnswer(r) \/ HeadBytes(r) \/ HeadFile(r)
  \/ SendBytes(r) \/ SendFinish(r) \/ NotLive(r) \/ NextChunk(r)
  \/ ChunkRefused(r) \/ ChunkRead(r) \/ ChunkLost(r) \/ PollDone(r)

-----------------------------------------------------------------------------
(* The driver's loop, the workers and the ends of both *)

\* A drain that comes in a refusal's call runs the loop on top of it.
DrainMain ==
  /\ Driver!Drain
  /\ beneath' = IF looping THEN beneath ELSE Len(refusals)
  /\ UNCHANGED <<executorVars, maxPending, step, chunk, listed, native, misused,
                 refusals>>

VisitMain ==
  /\ OnTop
  /\ Driver!VisitIdle \/ Driver!PollBegin \/ Driver!EndLoop
  /\ UNCHANGED <<executorVars, requestVars>>

\* The handler is freed: the futures, and the Completions in them, go.
DropDriver ==
  /\ ~looping /\ Driver!Close
  /\ Exec!Forget({Awaited(tasks[i]) : i \in DOMAIN tasks})
  /\ UNCHANGED <<shut, chan, running, worker, requestVars>>

CloseExecutor == Exec!ExecutorClose /\ UNCHANGED <<driverVars, requestVars>>

Work(w) ==
  /\ posting[w] = "none"
  /\ \/ Exec!TakeCancelled(w) \/ Exec!Take(w) \/ Exec!TakeClosed(w)
     \/ Exec!Disconnect(w) \/ Exec!Publish(w) \/ Exec!Release(w)
     \/ Exec!MarkClosed(w) \/ Exec!DropReceiver(w) \/ Exec!Finish(w)
  /\ UNCHANGED <<driverVars, requestVars>>

WorkPanics(w) ==
  MayPanic /\ Exec!Panic(w) /\ UNCHANGED <<driverVars, requestVars>>

\* wake.wake(): the waker of the request whose job ended
CallWaker(w) ==
  /\ posting[w] = "none" /\ worker[w].phase \in {"tail", "dying"}
  /\ \E j \in worker[w].wakes :
        /\ Driver!Raise(w, j[1])
        /\ worker' = [worker EXCEPT ![w].wakes = @ \ {j}]
  /\ UNCHANGED <<maxTasks, unspawned, tasks, batch, current, looping,
                 deferred, alive, count, active, queued, shut, chan, held,
                 running, result, hollow, waker, requestVars>>

PostDrain(w) == Driver!Post(w) /\ UNCHANGED <<executorVars, requestVars>>

Ui == DrainMain \/ VisitMain \/ \E r \in Request : Poll(r) \/ Refuse(r)
Thread(w) == Work(w) \/ CallWaker(w) \/ PostDrain(w)

Next ==
  \/ \E r \in Request : Start(r) \/ Stop(r)
  \/ Ui \/ DropDriver \/ CloseExecutor
  \/ \E w \in Worker : Thread(w) \/ WorkPanics(w)

\* The main queue runs, and the application's code returns or panics.
Fairness ==
  WF_vars(Ui) /\ \A w \in Worker : WF_vars(Thread(w))

Spec == Init /\ [][Next]_vars /\ Fairness

-----------------------------------------------------------------------------
(* Properties *)

TypeOK ==
  /\ Driver!TypeOK /\ Exec!ExecutorTypeOK
  /\ step \in [Request -> Steps] /\ chunk \in [Request -> 0 .. MaxChunks]
  /\ listed \subseteq Request /\ native \in [Request -> NativeState]
  /\ misused \subseteq Request
  /\ refusals \in Seq(Request) /\ beneath \in Nat

\* WebKit raises an exception in the host when a scheme task is called after
\* it was stopped or finished.  Whatever WebKit does while it is being called,
\* and however late a worker answers, response, data and the end go to every
\* task in that order, and none of them after a stop (macos/response.rs
\* is_live checks, scheme.rs live flag).  A refusal does not keep to the
\* last part: its data and its end are sent though the request was stopped
\* during the call before (response.rs send_response, is_live fixed to true).
NativeProtocol ==
  \A r \in misused : step[r] \in Refusal /\ native[r] = "stopped"

\* A request that still wants its answer is never left alone: its future is
\* being polled, or it is ready and a drain will come for it, also when a
\* nested drain found the driver busy (native_tasks.rs deferred_drain), or a
\* worker is about to wake it, or its Completion has the waker and its job is
\* still in the channel or in a worker's hands (execution.rs JobCompletion).
NoRequestStranded ==
  alive =>
    \A r \in listed :
      \/ r = current
      \/ r \in ready /\ Driver!WakeKept(r)
      \/ \E w \in Worker : Awaited(r) \in worker[w].wakes
      \/ Awaited(r) \in waker \cap Exec!Underway

\* Every request is answered or stopped, or the window is gone: also when the
\* executor closes, or its threads die of panics, with the job queued, running
\* or published.
RequestEnds ==
  \A r \in Request :
    native[r] \in {"open", "headed"} ~>
       native[r] \in {"over", "stopped"} \/ ~alive
=============================================================================
