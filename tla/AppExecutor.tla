----------------------------- MODULE AppExecutor -----------------------------
(***************************************************************************)
(* The application executor of a desktop frame (crates/webui-desktop/src/  *)
(* execution.rs): two worker threads behind a bounded channel, the permit  *)
(* shared by a job and its Completion, and the slot through which a worker *)
(* hands a result, or the fact that there will be none, to the UI thread.  *)
(*                                                                         *)
(* A worker's way through a job is one action per effect another thread    *)
(* can see: the result is published, the running half of the permit is     *)
(* released, the slot is marked closed and the waker is called, in that    *)
(* order.  Submissions come from the UI thread, which SchemeRequests adds. *)
(*                                                                         *)
(* Abstractions.  A result is its presence.  Spawning a worker thread      *)
(* succeeds.  submit is one action: close() stores its flag outside the    *)
(* sender's lock, but a worker looks at the flag only once it has a job.   *)
(***************************************************************************)
EXTENDS Naturals, Sequences, FiniteSets, SequencesExt

CONSTANTS
  Job,       \* the jobs that may be submitted, each at most once
  Worker,    \* the worker threads (WORKERS)
  MaxWork    \* MAX_WORK

VARIABLES
  shut,      \* ApplicationExecutor.closed; the sender goes with it
  chan,      \* the channel
  held,      \* jobs whose Completion, and so whose slot, exists
  running,   \* jobs whose closure still holds its half of the permit
  result,    \* slots with a result
  hollow,    \* slots marked closed: JobCompletion was dropped
  waker,     \* slots with a waker
  worker     \* per thread: what it is doing, with which job, whom to wake

executorVars == <<shut, chan, held, running, result, hollow, waker, worker>>
slotVars == <<held, result, hollow, waker>>

\* unborn: the threads start with the first submission; tail: the job is over
\* but for calling wakers; dying: the same, and the thread ends then
WorkerPhase == {"unborn", "idle", "work", "published", "released", "tail",
                "dying", "dead"}

NoJob == <<>>
At(w, phase) == worker[w].phase = phase
Move(w, phase) == [worker EXCEPT ![w].phase = phase]

ExecutorInit ==
  /\ shut = FALSE /\ chan = <<>>
  /\ held = {} /\ running = {} /\ result = {} /\ hollow = {} /\ waker = {}
  /\ worker = [w \in Worker |-> [phase |-> "unborn", job |-> NoJob, wakes |-> {}]]

-----------------------------------------------------------------------------
(* Submission and the Completion, on the UI thread *)

\* ApplicationExecutor.count: a permit is released with its last owner.
Count == Cardinality(held \cup running)

\* All receivers are gone once every worker thread has ended.
Orphaned == \A w \in Worker : At(w, "dead")

Admits == ~shut /\ Count < MaxWork /\ ~Orphaned

Submit(j) ==
  /\ chan' = Append(chan, j)
  /\ held' = held \cup {j} /\ running' = running \cup {j}
  /\ worker' = [w \in Worker |-> IF At(w, "unborn")
                                 THEN [worker[w] EXCEPT !.phase = "idle"]
                                 ELSE worker[w]]
  /\ UNCHANGED <<shut, result, hollow, waker>>

\* A submission whose Completion is dropped at once, with the future that was
\* to own it: the job is left in the channel.
SubmitAbandoned(j) ==
  /\ chan' = Append(chan, j) /\ running' = running \cup {j}
  /\ worker' = [w \in Worker |-> IF At(w, "unborn")
                                 THEN [worker[w] EXCEPT !.phase = "idle"]
                                 ELSE worker[w]]
  /\ UNCHANGED <<shut, held, result, hollow, waker>>

\* Dropping Completions drops their slots, unless a worker is about to.
Forget(jobs) ==
  /\ held' = held \ jobs /\ result' = result \ jobs
  /\ hollow' = hollow \ jobs /\ waker' = waker \ jobs

\* Completion::poll: a result wins over the closed mark.
HasResult(j) == j \in result
HasNone(j) == j \in hollow \ result
StillPending(j) == j \notin result \cup hollow

Register(j) == waker' = waker \cup {j} /\ UNCHANGED <<held, result, hollow>>

ExecutorClose == ~shut /\ shut' = TRUE /\ UNCHANGED <<chan, slotVars, running, worker>>

-----------------------------------------------------------------------------
(* Worker threads *)

\* MUTANT: a job dropped unrun leaves its slot as it is.
AbandonSilently(w, jobs) ==
  /\ running' = running \ jobs
  /\ worker' = [worker EXCEPT ![w] = [phase |-> "dying", job |-> NoJob, wakes |-> {}]]
  /\ UNCHANGED <<shut, held, result, hollow, waker>>

\* JobCompletion::drop for jobs that will not run to their end: the permit,
\* the closed mark, and the wakers the thread is going to call.
Abandon(w, jobs) ==
  /\ running' = running \ jobs
  /\ hollow' = hollow \cup (jobs \cap held)
  /\ waker' = waker \ jobs
  /\ worker' = [worker EXCEPT ![w] = [phase |-> "dying", job |-> NoJob,
                                      wakes |-> jobs \cap waker]]
  /\ UNCHANGED <<shut, held, result>>

\* A job whose Completion is gone is not run.
TakeCancelled(w) ==
  /\ At(w, "idle") /\ chan # <<>> /\ ~shut /\ Head(chan) \notin held
  /\ chan' = Tail(chan) /\ running' = running \ {Head(chan)}
  /\ UNCHANGED <<shut, slotVars, worker>>

Take(w) ==
  /\ At(w, "idle") /\ chan # <<>> /\ ~shut /\ Head(chan) \in held
  /\ chan' = Tail(chan)
  /\ worker' = [worker EXCEPT ![w] = [phase |-> "work", job |-> Head(chan), wakes |-> {}]]
  /\ UNCHANGED <<shut, slotVars, running>>

\* The channel still hands out what it holds after close(); the worker drops
\* that job and ends.
TakeClosed(w) ==
  /\ At(w, "idle") /\ chan # <<>> /\ shut
  /\ chan' = Tail(chan)
  /\ Abandon(w, {Head(chan)})

\* recv fails: the sender is gone and the channel is empty.
Disconnect(w) ==
  /\ At(w, "idle") /\ chan = <<>> /\ shut
  /\ worker' = Move(w, "dead")
  /\ UNCHANGED <<shut, chan, slotVars, running>>

\* The application's code panics: the thread unwinds and ends.
Panic(w) ==
  /\ At(w, "work")
  /\ UNCHANGED chan
  /\ Abandon(w, {worker[w].job})

\* work() returned; result and waker change hands under the slot's lock.
Publish(w) ==
  LET j == worker[w].job IN
  /\ At(w, "work")
  /\ result' = result \cup ({j} \cap held)
  /\ waker' = waker \ {j}
  /\ worker' = [worker EXCEPT ![w].phase = "published", ![w].wakes = {j} \cap waker]
  /\ UNCHANGED <<shut, chan, held, running, hollow>>

\* drop(running)
Release(w) ==
  /\ At(w, "published")
  /\ running' = running \ {worker[w].job}
  /\ worker' = Move(w, "released")
  /\ UNCHANGED <<shut, chan, slotVars>>

\* drop(completion)
MarkClosed(w) ==
  LET j == worker[w].job IN
  /\ At(w, "released")
  /\ hollow' = hollow \cup ({j} \cap held)
  /\ waker' = waker \ {j}
  /\ worker' = [worker EXCEPT ![w].phase = "tail",
                              ![w].wakes = @ \cup ({j} \cap waker)]
  /\ UNCHANGED <<shut, chan, held, running, result>>

\* The last thread to end drops the receiver, and the jobs still queued.
LastOut(w) == \A v \in Worker \ {w} : At(v, "dead")

DropReceiver(w) ==
  /\ At(w, "dying") /\ worker[w].wakes = {} /\ LastOut(w) /\ chan # <<>>
  /\ chan' = <<>>
  /\ Abandon(w, ToSet(chan))

\* Every waker was called: the thread goes back to the channel or ends.
Finish(w) ==
  /\ \/ At(w, "tail") \/ (At(w, "dying") /\ (LastOut(w) => chan = <<>>))
  /\ worker[w].wakes = {}
  /\ worker' = [worker EXCEPT ![w].phase = IF @ = "tail" THEN "idle" ELSE "dead",
                              ![w].job = NoJob]
  /\ UNCHANGED <<shut, chan, slotVars, running>>

-----------------------------------------------------------------------------
ExecutorTypeOK ==
  /\ shut \in BOOLEAN /\ chan \in Seq(Job)
  /\ held \subseteq Job /\ running \subseteq Job /\ result \subseteq held
  /\ hollow \subseteq held /\ waker \subseteq held
  /\ worker \in [Worker -> [phase : WorkerPhase, job : Job \cup {NoJob},
                            wakes : SUBSET Job]]

\* Jobs that the executor has still to finish.
Busy == {worker[w].job : w \in {v \in Worker : At(v, "work")}}
Underway == ToSet(chan) \cup Busy
=============================================================================
