------------------------ MODULE SchemeRequestsProofs ------------------------
(* Proofs about the requests of a page, for every number of requests,       *)
(* workers and chunks, and every limit of the driver and the executor.      *)
(*                                                                          *)
(* What concerns the executor only (ExecInv) or the driver only (DriverInv) *)
(* is proved of its operators alone; the two and the request's own state    *)
(* meet in Holding, Present and NoRequestStranded.                          *)
EXTENDS SchemeRequests, TLAPS

-----------------------------------------------------------------------------
(* The inductive invariant *)

DriverTypes == Driver!TypeOK
ExecTypes == Exec!ExecutorTypeOK
RequestTypes ==
  /\ step \in [Request -> Steps] /\ chunk \in [Request -> 0 .. MaxChunks]
  /\ listed \subseteq Request /\ native \in [Request -> NativeState]
  /\ misused \subseteq Request

\* The futures the driver has, the one that is being polled included
Futures == ToSet(tasks) \cup ToSet(batch) \cup {current}

\* A request that was not started is unknown; a listed one was told what its
\* future has got to, and one that is being refused was told the response.
Answering(r) == step[r] = "head" \/ (step[r] = "await" /\ chunk[r] = 0)
Streaming(r) == step[r] \in {"bytes", "finish", "file"} \/ (step[r] = "await" /\ chunk[r] > 0)
Told ==
  \A r \in Request :
    /\ r \in unspawned => step[r] = "new" /\ chunk[r] = 0 /\ r \notin listed
    /\ step[r] = "head" => chunk[r] = 0
    /\ step[r] = "file" => chunk[r] < MaxChunks
    /\ step[r] \in {"turned", "closing"} => native[r] \in {"headed", "stopped"}
    /\ r \in listed => /\ Answering(r) => native[r] = "open"
                       /\ Streaming(r) => native[r] = "headed"

\* Between drains there is nothing to visit, and a drain keeps the driver.
Rests == /\ ~looping => batch = <<>> /\ current = "none"
         /\ looping => alive

\* count is the number of futures.
Counted == count = Len(tasks) + Len(batch) + (IF current = "none" THEN 0 ELSE 1)

\* A future that awaits a job holds its Completion.
Holding == alive => \A r \in Request : r \in Futures /\ step[r] = "await" => Awaited(r) \in held

\* A listed request has a future that may be woken, and unless that is being
\* polled it awaits a job.
Present ==
  alive => \A r \in listed : /\ r \in active /\ r \in Futures
                             /\ r # current => step[r] = "await"

\* A future that is ready has a drain coming.
Kept == alive => \A t \in ready : t \in Futures => Driver!WakeKept(t)

\* A Completion has its outcome, or its job is still to be finished.
Slotted == held \subseteq result \cup hollow \cup Exec!Underway

\* A thread that is not past its job has nobody to wake.
Silenced ==
  \A w \in Worker : worker[w].phase \in {"unborn", "idle", "work"} => worker[w].wakes = {}

RequestInv ==
  /\ DriverTypes /\ ExecTypes /\ RequestTypes
  /\ Told /\ NativeProtocol
  /\ Rests /\ Counted /\ Kept
  /\ Slotted /\ Silenced
  /\ Holding /\ Present
  /\ NoRequestStranded

-----------------------------------------------------------------------------
(* The executor's side of a step *)

Settled == UNCHANGED <<shut, chan, running, worker>>

WorkerStep(w) ==
  \/ Exec!TakeCancelled(w) \/ Exec!Take(w) \/ Exec!TakeClosed(w)
  \/ Exec!Disconnect(w) \/ Exec!Publish(w) \/ Exec!Release(w)
  \/ Exec!MarkClosed(w) \/ Exec!DropReceiver(w) \/ Exec!Finish(w)
  \/ Exec!Panic(w)

-----------------------------------------------------------------------------
(* Sequences and their elements *)

LEMMA SameToSet == \A s : Driver!ToSet(s) = ToSet(s) /\ Exec!ToSet(s) = ToSet(s)
BY DEF Driver!ToSet, Exec!ToSet, ToSet

LEMMA Elements ==
  ASSUME NEW S, NEW s \in Seq(S), NEW e \in S
  PROVE /\ ToSet(s) \subseteq S /\ ToSet(<<>>) = {}
        /\ Append(s, e) \in Seq(S) /\ ToSet(Append(s, e)) = ToSet(s) \cup {e}
        /\ Len(Append(s, e)) = Len(s) + 1
<1>1. ToSet(s) \subseteq S /\ ToSet(<<>>) = {}
  BY DEF ToSet
<1>2. Append(s, e) \in Seq(S) /\ Len(Append(s, e)) = Len(s) + 1
  OBVIOUS
<1>3. ASSUME NEW x \in ToSet(s) PROVE x \in ToSet(Append(s, e))
  BY DEF ToSet
<1>4. e \in ToSet(Append(s, e))
  <2>1. Len(s) + 1 \in DOMAIN Append(s, e) /\ Append(s, e)[Len(s) + 1] = e
    OBVIOUS
  <2> QED BY <2>1 DEF ToSet
<1>5. ASSUME NEW x \in ToSet(Append(s, e)) PROVE x \in ToSet(s) \cup {e}
  BY DEF ToSet
<1> QED BY <1>1, <1>2, <1>3, <1>4, <1>5

LEMMA HeadAndTail ==
  ASSUME NEW S, NEW s \in Seq(S), s # <<>>
  PROVE /\ Head(s) \in S /\ Tail(s) \in Seq(S) /\ Len(Tail(s)) = Len(s) - 1 /\ Len(s) \in Nat
        /\ Len(s) > 0
        /\ ToSet(s) = {Head(s)} \cup ToSet(Tail(s))
<1>1. Head(s) \in S /\ Tail(s) \in Seq(S) /\ Len(Tail(s)) = Len(s) - 1 /\ Len(s) \in Nat /\ Len(s) > 0
  OBVIOUS
<1>2. Head(s) \in ToSet(s)
  BY DEF ToSet
<1>3. ASSUME NEW x \in ToSet(Tail(s)) PROVE x \in ToSet(s)
  BY DEF ToSet
<1>4. ASSUME NEW x \in ToSet(s) PROVE x = Head(s) \/ x \in ToSet(Tail(s))
  <2>1. PICK i \in 1 .. Len(s) : x = s[i]
    BY DEF ToSet
  <2>2. CASE i = 1
    BY <2>1, <2>2
  <2>3. CASE i # 1
    <3>1. i - 1 \in DOMAIN Tail(s) /\ Tail(s)[i - 1] = s[i]
      BY <2>3
    <3> QED BY <2>1, <3>1 DEF ToSet
  <2> QED BY <2>2, <2>3
<1> QED BY <1>1, <1>2, <1>3, <1>4
-----------------------------------------------------------------------------
(* The executor *)

\* What a worker's step does to the workers: one of them goes on.
LEMMA WorkerMoves ==
  ASSUME ExecTypes, NEW w \in Worker, NEW v \in [phase : Exec!WorkerPhase,
                                                 job : Job \cup {Exec!NoJob},
                                                 wakes : SUBSET Job],
         worker' = [worker EXCEPT ![w] = v]
  PROVE /\ worker' \in [Worker -> [phase : Exec!WorkerPhase, job : Job \cup {Exec!NoJob},
                                   wakes : SUBSET Job]]
        /\ worker'[w] = v /\ \A u \in Worker : u # w => worker'[u] = worker[u]
BY DEF ExecTypes, Exec!ExecutorTypeOK

\* A phase change is such a step.
LEMMA PhaseMoves ==
  ASSUME ExecTypes, NEW w \in Worker, NEW ph \in Exec!WorkerPhase
  PROVE /\ [worker[w] EXCEPT !.phase = ph] \in [phase : Exec!WorkerPhase,
                                                job : Job \cup {Exec!NoJob}, wakes : SUBSET Job]
        /\ Exec!Move(w, ph) = [worker EXCEPT ![w] = [worker[w] EXCEPT !.phase = ph]]
        /\ worker[w].job \in Job \cup {Exec!NoJob} /\ worker[w].wakes \in SUBSET Job
        /\ worker[w].phase \in Exec!WorkerPhase
BY DEF ExecTypes, Exec!ExecutorTypeOK, Exec!Move

\* Submitting wakes the threads up and touches nothing else of them.
LEMMA Waking ==
  ASSUME ExecTypes,
         worker' = [w \in Worker |-> IF Exec!At(w, "unborn")
                                     THEN [worker[w] EXCEPT !.phase = "idle"]
                                     ELSE worker[w]]
  PROVE /\ worker' \in [Worker -> [phase : Exec!WorkerPhase, job : Job \cup {Exec!NoJob},
                                   wakes : SUBSET Job]]
        /\ \A w \in Worker : /\ worker'[w].job = worker[w].job /\ worker'[w].wakes = worker[w].wakes
                             /\ \/ worker'[w].phase = worker[w].phase
                                \/ worker'[w].phase = "idle" /\ worker[w].phase = "unborn"
BY DEF ExecTypes, Exec!ExecutorTypeOK, Exec!At, Exec!WorkerPhase

\* A worker runs a job.
Working(w) == worker[w].phase = "work"
LEMMA UnderwayParts ==
  ASSUME ExecTypes
  PROVE /\ \A j \in ToSet(chan) : j \in Exec!Underway
        /\ \A w \in Worker : Working(w) => worker[w].job \in Exec!Underway
        /\ \A j \in Exec!Underway : j \in ToSet(chan) \/ \E w \in Worker : Working(w) /\ j = worker[w].job
BY SameToSet DEF Exec!Underway, Exec!Busy, Working, Exec!At

\* Somebody will come for j: a thread is about to call its waker, or the
\* waker is there and the job is still to end.
Wanted(j) == (\E w \in Worker : j \in worker[w].wakes) \/ j \in waker \cap Exec!Underway

ExecInv == ExecTypes /\ Slotted /\ Silenced

LEMMA SubmitKeeps ==
  ASSUME ExecInv, NEW j \in Job, Exec!Submit(j) \/ Exec!SubmitAbandoned(j)
  PROVE ExecInv' /\ \A i : Wanted(i) => Wanted(i)'
<1>0. /\ ExecTypes /\ Slotted /\ Silenced
      /\ chan \in Seq(Job) /\ chan' = Append(chan, j)
      /\ running' = running \cup {j} /\ held \subseteq held' /\ held' \subseteq held \cup {j}
      /\ UNCHANGED <<shut, result, hollow, waker>>
  BY DEF ExecInv, ExecTypes, Exec!ExecutorTypeOK, Exec!Submit, Exec!SubmitAbandoned
<1>1. worker' = [w \in Worker |-> IF Exec!At(w, "unborn")
                                  THEN [worker[w] EXCEPT !.phase = "idle"]
                                  ELSE worker[w]]
  BY DEF Exec!Submit, Exec!SubmitAbandoned
<1>2. /\ worker' \in [Worker -> [phase : Exec!WorkerPhase, job : Job \cup {Exec!NoJob},
                                 wakes : SUBSET Job]]
      /\ \A w \in Worker : /\ worker'[w].job = worker[w].job /\ worker'[w].wakes = worker[w].wakes
                           /\ \/ worker'[w].phase = worker[w].phase
                              \/ worker'[w].phase = "idle" /\ worker[w].phase = "unborn"
  BY <1>0, <1>1, Waking
<1>3. chan' \in Seq(Job) /\ ToSet(chan') = ToSet(chan) \cup {j}
  BY <1>0, Elements
<1>4. ExecTypes'
  BY <1>0, <1>2, <1>3 DEF ExecTypes, Exec!ExecutorTypeOK
<1>5. \A i \in Exec!Underway : i \in Exec!Underway'
  <2> SUFFICES ASSUME NEW i \in Exec!Underway PROVE i \in Exec!Underway'
    OBVIOUS
  <2>1. CASE i \in ToSet(chan)
    BY <2>1, <1>3, <1>4, UnderwayParts, SameToSet DEF Exec!Underway
  <2>2. ASSUME NEW w \in Worker, Working(w), i = worker[w].job PROVE i \in Exec!Underway'
    <3>1. worker'[w].phase = "work" /\ i = worker'[w].job
      BY <1>2, <2>2 DEF Working
    <3> QED BY <3>1 DEF Exec!Underway, Exec!Busy, Exec!At
  <2> QED BY <2>1, <2>2, <1>0, UnderwayParts
<1>6. j \in Exec!Underway'
  BY <1>3, SameToSet DEF Exec!Underway
<1>7. Slotted'
  BY <1>0, <1>5, <1>6 DEF Slotted
<1>8. Silenced'
  BY <1>0, <1>2 DEF Silenced
<1>9. \A i : Wanted(i) => Wanted(i)'
  BY <1>0, <1>2, <1>5 DEF Wanted
<1> QED BY <1>4, <1>7, <1>8, <1>9 DEF ExecInv

LEMMA ForgetKeeps ==
  ASSUME ExecInv, NEW jobs, Exec!Forget(jobs), Settled
  PROVE ExecInv' /\ \A i : Wanted(i) /\ i \notin jobs => Wanted(i)'
<1>1. Exec!Underway' = Exec!Underway
  BY DEF Settled, Exec!Underway, Exec!Busy, Exec!At
<1> QED BY <1>1 DEF ExecInv, ExecTypes, Exec!ExecutorTypeOK, Slotted, Silenced, Wanted,
                    Exec!Forget, Settled

LEMMA RegisterKeeps ==
  ASSUME ExecInv, NEW j \in held, Exec!Register(j), Settled
  PROVE ExecInv' /\ \A i : Wanted(i) => Wanted(i)'
<1>1. Exec!Underway' = Exec!Underway
  BY DEF Settled, Exec!Underway, Exec!Busy, Exec!At
<1> QED BY <1>1 DEF ExecInv, ExecTypes, Exec!ExecutorTypeOK, Slotted, Silenced, Wanted,
                    Exec!Register, Settled

LEMMA CloseKeeps ==
  ASSUME ExecInv, UNCHANGED executorVars \/ Exec!ExecutorClose
  PROVE ExecInv' /\ \A i : Wanted(i) => Wanted(i)'
<1>1. UNCHANGED <<chan, held, running, result, hollow, waker, worker>> /\ shut' \in BOOLEAN
  BY DEF executorVars, Exec!ExecutorClose, Exec!slotVars, ExecInv, ExecTypes, Exec!ExecutorTypeOK
<1>2. Exec!Underway' = Exec!Underway
  BY <1>1 DEF Exec!Underway, Exec!Busy, Exec!At
<1> QED BY <1>1, <1>2 DEF ExecInv, ExecTypes, Exec!ExecutorTypeOK, Slotted, Silenced, Wanted

LEMMA CallKeeps ==
  ASSUME ExecInv, NEW w \in Worker, NEW j, worker' = [worker EXCEPT ![w].wakes = @ \ {j}],
         UNCHANGED <<shut, chan, held, running, result, hollow, waker>>
  PROVE ExecInv' /\ \A i : Wanted(i) /\ i # j => Wanted(i)'
<1>0. ExecTypes /\ Slotted /\ Silenced
  BY DEF ExecInv
<1> DEFINE v == [worker[w] EXCEPT !.wakes = @ \ {j}]
<1>1. /\ v \in [phase : Exec!WorkerPhase, job : Job \cup {Exec!NoJob}, wakes : SUBSET Job]
      /\ v.phase = worker[w].phase /\ v.job = worker[w].job /\ v.wakes = worker[w].wakes \ {j}
  BY <1>0 DEF ExecTypes, Exec!ExecutorTypeOK
<1>2. worker' = [worker EXCEPT ![w] = v]
  OBVIOUS
<1> HIDE DEF v
<1>3. /\ worker' \in [Worker -> [phase : Exec!WorkerPhase, job : Job \cup {Exec!NoJob},
                                 wakes : SUBSET Job]]
      /\ worker'[w] = v /\ \A u \in Worker : u # w => worker'[u] = worker[u]
  BY <1>0, <1>1, <1>2, WorkerMoves
<1>4. \A u \in Worker : worker'[u].phase = worker[u].phase /\ worker'[u].job = worker[u].job
  BY <1>1, <1>3
<1>5. Exec!Underway' = Exec!Underway
  BY <1>4 DEF Exec!Underway, Exec!Busy, Exec!At
<1>6. ExecTypes'
  BY <1>0, <1>3 DEF ExecTypes, Exec!ExecutorTypeOK
<1>7. \A u \in Worker : worker'[u].wakes = worker[u].wakes \ (IF u = w THEN {j} ELSE {})
  BY <1>1, <1>3
<1>8. Slotted' /\ Silenced'
  BY <1>0, <1>4, <1>5, <1>7 DEF Slotted, Silenced
<1> QED BY <1>5, <1>6, <1>7, <1>8 DEF ExecInv, Wanted

\* A worker's step, by what it leaves behind: every job it takes off the
\* channel or out of its hands gets an outcome, and its waker will be called.
LEMMA WorkerGoesOn ==
  ASSUME ExecInv, NEW w \in Worker,
         NEW v \in [phase : Exec!WorkerPhase, job : Job \cup {Exec!NoJob}, wakes : SUBSET Job],
         worker' = [worker EXCEPT ![w] = v],
         UNCHANGED <<shut, held>>, chan' \in Seq(Job), running' \subseteq Job,
         result \subseteq result', result' \subseteq held,
         hollow \subseteq hollow', hollow' \subseteq held, waker' \subseteq waker,
         v.phase \in {"unborn", "idle", "work"} => v.wakes = {},
         worker[w].wakes \subseteq v.wakes, waker \subseteq waker' \cup v.wakes,
         \A j \in ToSet(chan) \cup (IF Working(w) THEN {worker[w].job} ELSE {}) :
            \/ j \in ToSet(chan') \/ (v.phase = "work" /\ j = v.job)
            \/ (j \in held => j \in result' \cup hollow') /\ (j \in waker => j \in v.wakes)
  PROVE ExecInv' /\ \A i : Wanted(i) => Wanted(i)'
<1>0. ExecTypes /\ Slotted /\ Silenced
  BY DEF ExecInv
<1>1. /\ worker' \in [Worker -> [phase : Exec!WorkerPhase, job : Job \cup {Exec!NoJob},
                                 wakes : SUBSET Job]]
      /\ worker'[w] = v /\ \A u \in Worker : u # w => worker'[u] = worker[u]
  BY <1>0, WorkerMoves
<1>2. ExecTypes'
  BY <1>0, <1>1 DEF ExecTypes, Exec!ExecutorTypeOK
<1>3. \A j \in Exec!Underway :
         \/ j \in Exec!Underway'
         \/ (j \in held => j \in result' \cup hollow') /\ (j \in waker => j \in v.wakes)
  <2> SUFFICES ASSUME NEW j \in Exec!Underway, j \notin Exec!Underway'
               PROVE (j \in held => j \in result' \cup hollow') /\ (j \in waker => j \in v.wakes)
    OBVIOUS
  <2>1. j \notin ToSet(chan')
    BY SameToSet DEF Exec!Underway
  <2>2. \A u \in Worker : ~(worker'[u].phase = "work" /\ j = worker'[u].job)
    BY DEF Exec!Underway, Exec!Busy, Exec!At
  <2>3. j \in ToSet(chan) \/ \E u \in Worker : Working(u) /\ j = worker[u].job
    BY <1>0, UnderwayParts
  <2>4. ASSUME NEW u \in Worker, Working(u), j = worker[u].job PROVE u = w
    BY <1>1, <2>2, <2>4 DEF Working
  <2>5. j \in ToSet(chan) \cup (IF Working(w) THEN {worker[w].job} ELSE {})
    BY <2>3, <2>4
  <2> QED BY <1>1, <2>1, <2>2, <2>5
<1>4. Slotted'
  BY <1>0, <1>3 DEF Slotted
<1>5. Silenced'
  BY <1>0, <1>1 DEF Silenced
<1>6. ASSUME NEW i, Wanted(i) PROVE Wanted(i)'
  <2>1. ASSUME NEW u \in Worker, i \in worker[u].wakes PROVE i \in worker'[u].wakes
    BY <1>1, <2>1
  <2>2. CASE i \in waker \cap Exec!Underway
    <3>1. CASE i \in v.wakes
      BY <1>1, <3>1 DEF Wanted
    <3>2. CASE i \notin v.wakes
      BY <1>3, <2>2, <3>2 DEF Wanted
    <3> QED BY <3>1, <3>2
  <2> QED BY <1>6, <2>1, <2>2 DEF Wanted
<1> QED BY <1>2, <1>4, <1>5, <1>6 DEF ExecInv

LEMMA AbandonKeeps ==
  ASSUME ExecInv, NEW w \in Worker, NEW jobs, Exec!Abandon(w, jobs),
         worker[w].wakes = {}, chan' \in Seq(Job),
         \A j \in ToSet(chan) : j \in ToSet(chan') \/ j \in jobs,
         Working(w) => worker[w].job \in jobs
  PROVE ExecInv' /\ \A i : Wanted(i) => Wanted(i)'
<1> DEFINE v == [phase |-> "dying", job |-> Exec!NoJob, wakes |-> jobs \cap waker]
<1>1. /\ v \in [phase : Exec!WorkerPhase, job : Job \cup {Exec!NoJob}, wakes : SUBSET Job]
      /\ v.phase = "dying" /\ v.wakes = jobs \cap waker
  BY DEF Exec!WorkerPhase, ExecInv, ExecTypes, Exec!ExecutorTypeOK
<1>2. worker' = [worker EXCEPT ![w] = v]
  BY DEF Exec!Abandon
<1>3. /\ running' \subseteq Job /\ UNCHANGED <<shut, held, result>>
      /\ hollow' = hollow \cup (jobs \cap held) /\ waker' = waker \ jobs
      /\ result \subseteq held /\ hollow \subseteq held
  BY DEF Exec!Abandon, ExecInv, ExecTypes, Exec!ExecutorTypeOK
<1> HIDE DEF v
<1>4. \A j \in ToSet(chan) \cup (IF Working(w) THEN {worker[w].job} ELSE {}) :
         \/ j \in ToSet(chan')
         \/ (j \in held => j \in result' \cup hollow') /\ (j \in waker => j \in v.wakes)
  BY <1>1, <1>3
<1> QED BY <1>1, <1>2, <1>3, <1>4, WorkerGoesOn

LEMMA WorkerKeeps ==
  ASSUME ExecInv, NEW w \in Worker, WorkerStep(w)
  PROVE ExecInv' /\ \A i : Wanted(i) => Wanted(i)'
<1>0. ExecTypes /\ Slotted /\ Silenced /\ chan \in Seq(Job) /\ running \subseteq Job
      /\ result \subseteq held /\ hollow \subseteq held /\ waker \subseteq held
  BY DEF ExecInv, ExecTypes, Exec!ExecutorTypeOK
<1>p. /\ worker[w].job \in Job \cup {Exec!NoJob} /\ worker[w].wakes \in SUBSET Job
      /\ worker[w].phase \in Exec!WorkerPhase
  BY <1>0 DEF ExecTypes, Exec!ExecutorTypeOK
<1>h. chan # <<>> => /\ Head(chan) \in Job /\ Tail(chan) \in Seq(Job)
                     /\ ToSet(chan) = {Head(chan)} \cup ToSet(Tail(chan))
  BY <1>0, HeadAndTail
<1>1. CASE Exec!TakeCancelled(w)
  <2>1. UNCHANGED <<worker, shut, held, result, hollow, waker>> /\ Head(chan) \notin held
        /\ chan # <<>> /\ chan' = Tail(chan) /\ running' = running \ {Head(chan)}
        /\ worker[w].phase = "idle"
    BY <1>1 DEF Exec!TakeCancelled, Exec!slotVars, Exec!At
  <2>2. worker' = [worker EXCEPT ![w] = worker[w]] /\ worker[w].wakes = {}
    BY <1>0, <2>1 DEF ExecTypes, Exec!ExecutorTypeOK, Silenced
  <2>3. worker[w] \in [phase : Exec!WorkerPhase, job : Job \cup {Exec!NoJob}, wakes : SUBSET Job]
    BY <1>0 DEF ExecTypes, Exec!ExecutorTypeOK
  <2>4. \A j \in ToSet(chan) : j \in ToSet(chan') \/ (j \notin held /\ j \notin waker)
    BY <1>0, <1>h, <2>1
  <2> QED BY <1>0, <1>h, <2>1, <2>2, <2>3, <2>4, WorkerGoesOn DEF Working
<1>2. CASE Exec!Take(w)
  <2> DEFINE v == [phase |-> "work", job |-> Head(chan), wakes |-> {}]
  <2>1. UNCHANGED <<shut, held, result, hollow, waker, running>> /\ worker[w].phase = "idle"
        /\ chan # <<>> /\ chan' = Tail(chan) /\ worker' = [worker EXCEPT ![w] = v]
    BY <1>2 DEF Exec!Take, Exec!slotVars, Exec!At
  <2>2. /\ v \in [phase : Exec!WorkerPhase, job : Job \cup {Exec!NoJob}, wakes : SUBSET Job]
        /\ v.phase = "work" /\ v.job = Head(chan) /\ v.wakes = {} /\ worker[w].wakes = {}
    BY <1>0, <1>h, <2>1 DEF Exec!WorkerPhase, Silenced
  <2> HIDE DEF v
  <2>3. \A j \in ToSet(chan) : j \in ToSet(chan') \/ (v.phase = "work" /\ j = v.job)
    BY <1>h, <2>1, <2>2
  <2> QED BY <1>0, <1>h, <2>1, <2>2, <2>3, WorkerGoesOn DEF Working
<1>3. CASE Exec!TakeClosed(w)
  <2>1. worker[w].phase = "idle" /\ chan # <<>> /\ chan' = Tail(chan)
        /\ Exec!Abandon(w, {Head(chan)})
    BY <1>3 DEF Exec!TakeClosed, Exec!At
  <2>2. worker[w].wakes = {} /\ {Head(chan)} \in SUBSET Job /\ chan' \in Seq(Job)
        /\ \A j \in ToSet(chan) : j \in ToSet(chan') \/ j \in {Head(chan)}
    BY <1>0, <1>h, <2>1 DEF Silenced
  <2> QED BY <2>1, <2>2, AbandonKeeps DEF Working
<1>4. CASE Exec!Disconnect(w)
  <2> DEFINE v == [worker[w] EXCEPT !.phase = "dead"]
  <2>1. UNCHANGED <<shut, held, result, hollow, waker, running, chan>> /\ worker[w].phase = "idle"
        /\ worker' = [worker EXCEPT ![w] = v]
    <3>1. "dead" \in Exec!WorkerPhase
      BY DEF Exec!WorkerPhase
    <3>2. Exec!Move(w, "dead") = [worker EXCEPT ![w] = v]
      BY <1>0, <3>1, PhaseMoves
    <3> QED BY <1>4, <3>2 DEF Exec!Disconnect, Exec!slotVars, Exec!At
  <2>2. v \in [phase : Exec!WorkerPhase, job : Job \cup {Exec!NoJob}, wakes : SUBSET Job]
        /\ v.phase = "dead" /\ v.wakes = worker[w].wakes
    BY <1>0 DEF ExecTypes, Exec!ExecutorTypeOK, Exec!WorkerPhase
  <2> HIDE DEF v
  <2> QED BY <1>0, <2>1, <2>2, WorkerGoesOn DEF Working
<1>5. CASE Exec!Publish(w)
  <2> DEFINE j == worker[w].job
             v == [worker[w] EXCEPT !.phase = "published", !.wakes = {j} \cap waker]
  <2>1. UNCHANGED <<shut, held, chan, running, hollow>> /\ worker[w].phase = "work"
        /\ result' = result \cup ({j} \cap held) /\ waker' = waker \ {j}
        /\ worker' = [worker EXCEPT ![w] = v]
    BY <1>0, <1>5 DEF Exec!Publish, Exec!At, ExecTypes, Exec!ExecutorTypeOK
  <2>2. {j} \cap waker \in SUBSET Job
    BY <1>0 DEF ExecTypes, Exec!ExecutorTypeOK
  <2>3. v \in [phase : Exec!WorkerPhase, job : Job \cup {Exec!NoJob}, wakes : SUBSET Job]
        /\ v.phase = "published" /\ v.wakes = {j} \cap waker
    BY <1>0, <2>2 DEF ExecTypes, Exec!ExecutorTypeOK, Exec!WorkerPhase
  <2>4. worker[w].wakes = {}
    BY <1>0, <2>1 DEF Silenced
  <2> HIDE DEF v
  <2>5. \A i \in ToSet(chan) \cup (IF Working(w) THEN {worker[w].job} ELSE {}) :
           \/ i \in ToSet(chan')
           \/ (i \in held => i \in result' \cup hollow') /\ (i \in waker => i \in v.wakes)
    BY <2>1, <2>3
  <2>6. waker \subseteq waker' \cup v.wakes /\ waker' \subseteq waker
    BY <2>1, <2>3
  <2> QED BY <1>0, <2>1, <2>3, <2>4, <2>5, <2>6, WorkerGoesOn
<1>6. CASE Exec!Release(w)
  <2> DEFINE v == [worker[w] EXCEPT !.phase = "released"]
  <2>1. UNCHANGED <<shut, held, result, hollow, waker, chan>> /\ worker[w].phase = "published"
        /\ worker' = [worker EXCEPT ![w] = v] /\ running' \subseteq Job
    <3>1. "released" \in Exec!WorkerPhase
      BY DEF Exec!WorkerPhase
    <3>2. Exec!Move(w, "released") = [worker EXCEPT ![w] = v]
      BY <1>0, <3>1, PhaseMoves
    <3> QED BY <1>0, <1>6, <3>2 DEF Exec!Release, Exec!slotVars, Exec!At
  <2>2. v \in [phase : Exec!WorkerPhase, job : Job \cup {Exec!NoJob}, wakes : SUBSET Job]
        /\ v.phase = "released" /\ v.wakes = worker[w].wakes
    BY <1>0 DEF ExecTypes, Exec!ExecutorTypeOK, Exec!WorkerPhase
  <2> HIDE DEF v
  <2> QED BY <1>0, <2>1, <2>2, WorkerGoesOn DEF Working
<1>7. CASE Exec!MarkClosed(w)
  <2> DEFINE j == worker[w].job
             v == [worker[w] EXCEPT !.phase = "tail", !.wakes = @ \cup ({j} \cap waker)]
  <2>1. UNCHANGED <<shut, held, chan, running, result>> /\ worker[w].phase = "released"
        /\ hollow' = hollow \cup ({j} \cap held) /\ waker' = waker \ {j}
        /\ worker' = [worker EXCEPT ![w] = v]
    BY <1>0, <1>7 DEF Exec!MarkClosed, Exec!At, ExecTypes, Exec!ExecutorTypeOK
  <2>2. worker[w].wakes \cup ({j} \cap waker) \in SUBSET Job
    BY <1>0 DEF ExecTypes, Exec!ExecutorTypeOK
  <2>3. v \in [phase : Exec!WorkerPhase, job : Job \cup {Exec!NoJob}, wakes : SUBSET Job]
        /\ v.phase = "tail" /\ v.wakes = worker[w].wakes \cup ({j} \cap waker)
    BY <1>0, <2>2 DEF ExecTypes, Exec!ExecutorTypeOK, Exec!WorkerPhase
  <2> HIDE DEF v
  <2>4. \A i \in ToSet(chan) \cup (IF Working(w) THEN {worker[w].job} ELSE {}) : i \in ToSet(chan')
    BY <2>1 DEF Working
  <2>5. waker \subseteq waker' \cup v.wakes /\ waker' \subseteq waker
        /\ hollow' \subseteq held /\ hollow \subseteq hollow' /\ worker[w].wakes \subseteq v.wakes
    BY <1>0, <2>1, <2>3
  <2> QED BY <1>0, <2>1, <2>3, <2>4, <2>5, WorkerGoesOn
<1>8. CASE Exec!DropReceiver(w)
  <2>1. worker[w].phase = "dying" /\ worker[w].wakes = {} /\ chan' = <<>>
        /\ Exec!Abandon(w, Exec!ToSet(chan))
    BY <1>8 DEF Exec!DropReceiver, Exec!At
  <2>2. Exec!ToSet(chan) = ToSet(chan) /\ ToSet(chan) \in SUBSET Job /\ chan' \in Seq(Job)
    BY <1>0, <2>1, SameToSet DEF ToSet
  <2> QED BY <2>1, <2>2, AbandonKeeps DEF Working
<1>9. CASE Exec!Finish(w)
  <2> DEFINE v == [worker[w] EXCEPT !.phase = IF @ = "tail" THEN "idle" ELSE "dead", !.job = Exec!NoJob]
  <2>1. UNCHANGED <<shut, held, result, hollow, waker, running, chan>>
        /\ worker[w].phase \in {"tail", "dying"} /\ worker[w].wakes = {}
        /\ worker' = [worker EXCEPT ![w] = v]
    BY <1>0, <1>9 DEF Exec!Finish, Exec!slotVars, Exec!At, ExecTypes, Exec!ExecutorTypeOK
  <2>2. v \in [phase : Exec!WorkerPhase, job : Job \cup {Exec!NoJob}, wakes : SUBSET Job]
        /\ v.wakes = {}
    BY <1>0, <2>1 DEF ExecTypes, Exec!ExecutorTypeOK, Exec!WorkerPhase
  <2> HIDE DEF v
  <2> QED BY <1>0, <2>1, <2>2, WorkerGoesOn DEF Working
<1>10. CASE Exec!Panic(w)
  <2>1. worker[w].phase = "work" /\ chan' = chan /\ Exec!Abandon(w, {worker[w].job})
    BY <1>10 DEF Exec!Panic, Exec!At
  <2>2. worker[w].wakes = {} /\ chan' \in Seq(Job)
    BY <1>0, <2>1 DEF Silenced
  <2> QED BY <2>1, <2>2, AbandonKeeps
<1> QED BY <1>1, <1>2, <1>3, <1>4, <1>5, <1>6, <1>7, <1>8, <1>9, <1>10 DEF WorkerStep

-----------------------------------------------------------------------------
(* The driver *)

DriverInv == DriverTypes /\ Rests /\ Counted /\ Kept

\* Of a request that the driver knows, and whose flag is up
LEMMA KeptWhen ==
  ASSUME alive' =>
           \/ Driver!DrainComing'
           \/ \A t \in ready' : t \in Futures' => t \in ToSet(batch)'
  PROVE Kept'
BY SameToSet DEF Kept, Driver!WakeKept

LEMMA KeptMeans ==
  ASSUME Kept, alive, NEW t \in ready, t \in Futures
  PROVE t \in ToSet(batch) \/ Driver!DrainComing
BY SameToSet DEF Kept, Driver!WakeKept

LEMMA StartKeeps ==
  ASSUME DriverInv, NEW r \in Request, Driver!Spawn(r)
  PROVE DriverInv' /\ Futures' = Futures \cup {r}
<1>0. /\ DriverTypes /\ Rests /\ Counted /\ tasks \in Seq(Request)
      /\ tasks' = Append(tasks, r) /\ count' = count + 1 /\ unspawned' = unspawned \ {r}
      /\ active' = active \cup {r} /\ ready' = ready \cup {r} /\ queued' = TRUE
      /\ UNCHANGED <<batch, current, looping, deferred, alive, posting>>
  BY DEF DriverInv, DriverTypes, Driver!TypeOK, Driver!Spawn
<1>1. /\ tasks' \in Seq(Request) /\ ToSet(tasks') = ToSet(tasks) \cup {r}
      /\ Len(tasks') = Len(tasks) + 1
  BY <1>0, Elements
<1>2. DriverTypes'
  BY <1>0, <1>1 DEF DriverTypes, Driver!TypeOK
<1>3. Rests'
  BY <1>0 DEF Rests
<1>4. Counted'
  <2>1. Len(tasks) \in Nat /\ Len(batch) \in Nat /\ count \in Nat
    BY <1>0 DEF DriverTypes, Driver!TypeOK
  <2> QED BY <1>0, <1>1, <2>1 DEF Counted
<1>5. Kept'
  <2>1. Driver!DrainComing'
    BY <1>0 DEF Driver!DrainComing
  <2> QED BY <2>1, KeptWhen
<1>6. Futures' = Futures \cup {r}
  BY <1>0, <1>1 DEF Futures
<1> QED BY <1>2, <1>3, <1>4, <1>5, <1>6 DEF DriverInv

LEMMA ReturnKeeps ==
  ASSUME DriverInv, NEW complete \in BOOLEAN, Driver!PollReturns(complete), UNCHANGED unspawned
  PROVE /\ DriverInv' /\ current' = "none" /\ current \in Request /\ alive /\ alive'
        /\ complete => Futures' \cup {current} = Futures \cup {"none"} /\ active' = active \ {current}
        /\ ~complete => Futures' = Futures \cup {"none"} /\ active' = active
<1>0. /\ DriverTypes /\ Rests /\ Counted /\ Kept /\ current # "none" /\ current' = "none"
      /\ UNCHANGED <<unspawned, batch, looping, deferred, alive, ready, queued, posting>>
      /\ current \in Request /\ tasks \in Seq(Request)
  BY DEF DriverInv, DriverTypes, Driver!TypeOK, Driver!PollReturns, Driver!None
<1>1. alive /\ looping
  BY <1>0 DEF Rests, DriverTypes, Driver!TypeOK
<1>2. IF complete THEN count' = count - 1 /\ active' = active \ {current} /\ tasks' = tasks
                  ELSE /\ tasks' = Append(tasks, current)
                       /\ count' = count /\ active' = active
  BY <1>1 DEF Driver!PollReturns
<1>3. CASE complete
  <2>1. Len(tasks) \in Nat /\ Len(batch) \in Nat /\ count \in Nat
    BY <1>0 DEF DriverTypes, Driver!TypeOK
  <2>2. Counted' /\ count' \in Nat
    BY <1>0, <1>2, <1>3, <2>1 DEF Counted
  <2>3. DriverTypes'
    BY <1>0, <1>2, <1>3, <2>2 DEF DriverTypes, Driver!TypeOK, Driver!None
  <2>4. Futures' \cup {current} = Futures \cup {"none"}
    BY <1>0, <1>2, <1>3 DEF Futures
  <2>5. Kept'
    <3>1. Driver!DrainComing' = Driver!DrainComing
      BY <1>0 DEF Driver!DrainComing
    <3>2. ASSUME NEW t \in ready, t \in Futures' PROVE t \in ToSet(batch) \/ Driver!DrainComing
      <4>1. t \in Request
        BY <1>0 DEF DriverTypes, Driver!TypeOK
      <4>2. t \in Futures
        BY <2>4, <3>2, <4>1, RequestAssumption
      <4> QED BY <1>0, <1>1, <4>2, KeptMeans
    <3> QED BY <1>0, <3>1, <3>2, KeptWhen
  <2>6. Rests'
    BY <1>0, <1>1 DEF Rests
  <2> QED BY <1>0, <1>1, <1>2, <1>3, <2>2, <2>3, <2>4, <2>5, <2>6 DEF DriverInv
<1>4. CASE ~complete
  <2>1. Len(tasks) \in Nat /\ Len(batch) \in Nat /\ count \in Nat
    BY <1>0 DEF DriverTypes, Driver!TypeOK
  <2>2. /\ tasks' \in Seq(Request) /\ ToSet(tasks') = ToSet(tasks) \cup {current}
        /\ Len(tasks') = Len(tasks) + 1
    <3>1. tasks' = Append(tasks, current)
      BY <1>2, <1>4
    <3> QED BY <1>0, <3>1, Elements
  <2>3. DriverTypes'
    BY <1>0, <1>2, <1>4, <2>2 DEF DriverTypes, Driver!TypeOK, Driver!None
  <2>4. Futures' = Futures \cup {"none"}
    BY <1>0, <2>2 DEF Futures
  <2>5. Kept'
    <3>1. Driver!DrainComing' = Driver!DrainComing
      BY <1>0 DEF Driver!DrainComing
    <3>2. ASSUME NEW t \in ready, t \in Futures' PROVE t \in ToSet(batch) \/ Driver!DrainComing
      <4>1. t \in Request
        BY <1>0 DEF DriverTypes, Driver!TypeOK
      <4>2. t \in Futures
        BY <2>4, <3>2, <4>1, RequestAssumption
      <4> QED BY <1>0, <1>1, <4>2, KeptMeans
    <3> QED BY <1>0, <3>1, <3>2, KeptWhen
  <2>6. Rests' /\ Counted'
    BY <1>0, <1>1, <1>2, <1>4, <2>1, <2>2 DEF Rests, Counted
  <2> QED BY <1>0, <1>1, <1>2, <1>4, <2>3, <2>4, <2>5, <2>6 DEF DriverInv
<1> QED BY <1>3, <1>4

LEMMA DrainKeeps ==
  ASSUME DriverInv, Driver!Drain
  PROVE DriverInv' /\ Futures' = Futures /\ UNCHANGED <<alive, active, ready, current>>
<1>0. /\ DriverTypes /\ Rests /\ Counted /\ queued' = FALSE
      /\ UNCHANGED <<unspawned, current, alive, count, ready, active, posting>>
      /\ tasks \in Seq(Request) /\ batch \in Seq(Request)
  BY DEF DriverInv, DriverTypes, Driver!TypeOK, Driver!Drain
<1>1. CASE looping
  <2>1. alive /\ deferred' = TRUE /\ UNCHANGED <<tasks, batch, looping>>
    BY <1>0, <1>1 DEF Rests, Driver!Drain, Driver!NestedDrain
  <2>2. Driver!DrainComing'
    BY <2>1 DEF Driver!DrainComing
  <2>3. Kept'
    BY <2>2, KeptWhen
  <2>4. DriverTypes' /\ Rests' /\ Counted' /\ Futures' = Futures
    BY <1>0, <2>1 DEF DriverTypes, Driver!TypeOK, Rests, Counted, Futures
  <2> QED BY <1>0, <2>3, <2>4 DEF DriverInv
<1>2. CASE ~looping /\ alive
  <2>1. batch' = tasks /\ tasks' = <<>> /\ looping' = TRUE /\ UNCHANGED deferred
        /\ batch = <<>> /\ current = "none"
    BY <1>0, <1>2 DEF Rests, Driver!Drain
  <2>2. ToSet(<<>>) = {}
    BY DEF ToSet
  <2>3. Futures' = Futures /\ Futures = ToSet(tasks) \cup {"none"}
    BY <1>0, <2>1, <2>2 DEF Futures
  <2>4. Kept'
    <3>1. ASSUME NEW t \in ready', t \in Futures' PROVE t \in ToSet(batch)'
      <4>1. t \in Request
        BY <1>0 DEF DriverTypes, Driver!TypeOK
      <4> QED BY <2>1, <2>3, <3>1, <4>1, RequestAssumption
    <3> QED BY <3>1, KeptWhen
  <2>5. DriverTypes' /\ Rests'
    BY <1>0, <1>2, <2>1 DEF DriverTypes, Driver!TypeOK, Rests
  <2>6. Counted'
    <3>1. Len(tasks) \in Nat /\ Len(<<>>) = 0
      BY <1>0
    <3> QED BY <1>0, <2>1, <3>1 DEF Counted
  <2> QED BY <1>0, <2>3, <2>4, <2>5, <2>6 DEF DriverInv
<1>3. CASE ~looping /\ ~alive
  <2>1. UNCHANGED <<tasks, batch, looping, deferred>>
    BY <1>3 DEF Driver!Drain
  <2>2. DriverTypes' /\ Rests' /\ Counted' /\ Futures' = Futures /\ Kept'
    BY <1>0, <1>3, <2>1 DEF DriverTypes, Driver!TypeOK, Rests, Counted, Futures, Kept
  <2> QED BY <1>0, <2>2 DEF DriverInv
<1> QED BY <1>0, <1>1, <1>2, <1>3 DEF DriverTypes, Driver!TypeOK

LEMMA VisitKeeps ==
  ASSUME DriverInv, Driver!VisitIdle
  PROVE DriverInv' /\ Futures' = Futures /\ UNCHANGED <<alive, active, ready, current>>
<1>0. /\ DriverTypes /\ Rests /\ Counted /\ Kept
      /\ looping /\ current = "none" /\ batch # <<>> /\ alive /\ Head(batch) \notin ready
      /\ batch' = Tail(batch) /\ tasks' = Append(tasks, Head(batch))
      /\ UNCHANGED <<unspawned, current, looping, deferred, alive, count, ready, active, queued, posting>>
      /\ tasks \in Seq(Request) /\ batch \in Seq(Request)
  BY DEF DriverInv, DriverTypes, Driver!TypeOK, Driver!VisitIdle, Driver!AtVisit, Driver!None
<1>1. /\ Head(batch) \in Request /\ Tail(batch) \in Seq(Request) /\ Len(Tail(batch)) = Len(batch) - 1
      /\ Len(batch) \in Nat /\ ToSet(batch) = {Head(batch)} \cup ToSet(Tail(batch))
  BY <1>0, HeadAndTail
<1>2. /\ tasks' \in Seq(Request) /\ ToSet(tasks') = ToSet(tasks) \cup {Head(batch)}
      /\ Len(tasks') = Len(tasks) + 1
  BY <1>0, <1>1, Elements
<1>3. Futures' = Futures
  BY <1>0, <1>1, <1>2 DEF Futures
<1>4. DriverTypes' /\ Rests'
  BY <1>0, <1>1, <1>2 DEF DriverTypes, Driver!TypeOK, Rests
<1>5. Counted'
  <2>1. Len(tasks) \in Nat /\ count \in Nat
    BY <1>0 DEF DriverTypes, Driver!TypeOK
  <2> QED BY <1>0, <1>1, <1>2, <2>1 DEF Counted
<1>6. Kept'
  <2>1. Driver!DrainComing' = Driver!DrainComing
    BY <1>0 DEF Driver!DrainComing
  <2>2. ASSUME NEW t \in ready, t \in Futures PROVE t \in ToSet(batch') \/ Driver!DrainComing
    <3>1. t \in ToSet(batch) \/ Driver!DrainComing
      BY <1>0, <2>2, KeptMeans
    <3> QED BY <1>0, <1>1, <2>2, <3>1
  <2> QED BY <1>0, <1>3, <2>1, <2>2, KeptWhen
<1> QED BY <1>0, <1>3, <1>4, <1>5, <1>6 DEF DriverInv

LEMMA BeginKeeps ==
  ASSUME DriverInv, Driver!PollBegin
  PROVE /\ DriverInv' /\ Futures' \cup {"none"} = Futures
        /\ UNCHANGED <<alive, active>> /\ current' \in Request /\ current' \in Futures
        /\ current = "none" /\ alive /\ ready' = ready \ {current'}
<1>0. /\ DriverTypes /\ Rests /\ Counted /\ Kept
      /\ looping /\ current = "none" /\ batch # <<>> /\ alive
      /\ batch' = Tail(batch) /\ current' = Head(batch) /\ ready' = ready \ {Head(batch)}
      /\ UNCHANGED <<unspawned, tasks, looping, deferred, alive, count, active, queued, posting>>
      /\ tasks \in Seq(Request) /\ batch \in Seq(Request)
  BY DEF DriverInv, DriverTypes, Driver!TypeOK, Driver!PollBegin, Driver!AtVisit, Driver!None
<1>1. /\ Head(batch) \in Request /\ Tail(batch) \in Seq(Request) /\ Len(Tail(batch)) = Len(batch) - 1
      /\ Len(batch) \in Nat /\ ToSet(batch) = {Head(batch)} \cup ToSet(Tail(batch))
  BY <1>0, HeadAndTail
<1>2. Futures' \cup {"none"} = Futures /\ current' \in Futures
  BY <1>0, <1>1 DEF Futures
<1>3. DriverTypes' /\ Rests'
  BY <1>0, <1>1 DEF DriverTypes, Driver!TypeOK, Rests, Driver!None
<1>4. Counted'
  <2>1. Len(tasks) \in Nat /\ count \in Nat
    BY <1>0 DEF DriverTypes, Driver!TypeOK
  <2> QED BY <1>0, <1>1, <2>1, RequestAssumption, SMTT(30) DEF Counted
<1>5. Kept'
  <2>1. Driver!DrainComing' = Driver!DrainComing
    BY <1>0 DEF Driver!DrainComing
  <2>2. ASSUME NEW t \in ready', t \in Futures' PROVE t \in ToSet(batch') \/ Driver!DrainComing
    <3>1. t \in ready /\ t \in Futures /\ t # Head(batch)
      BY <1>0, <1>2, <2>2
    <3>2. t \in ToSet(batch) \/ Driver!DrainComing
      BY <1>0, <3>1, KeptMeans
    <3> QED BY <1>0, <1>1, <3>1, <3>2
  <2> QED BY <1>0, <2>1, <2>2, KeptWhen
<1> QED BY <1>0, <1>1, <1>2, <1>3, <1>4, <1>5 DEF DriverInv

LEMMA EndKeeps ==
  ASSUME DriverInv, Driver!EndLoop
  PROVE DriverInv' /\ Futures' = Futures /\ UNCHANGED <<alive, active, ready, current>>
<1>0. /\ DriverTypes /\ Rests /\ Counted /\ Kept
      /\ looping /\ current = "none" /\ batch = <<>>
      /\ looping' = FALSE /\ deferred' = FALSE /\ queued' = (queued \/ Driver!Reschedule)
      /\ UNCHANGED <<unspawned, tasks, batch, current, alive, count, ready, active, posting>>
      /\ tasks \in Seq(Request) /\ batch \in Seq(Request) /\ queued \in BOOLEAN
  BY DEF DriverInv, DriverTypes, Driver!TypeOK, Driver!EndLoop, Driver!None
<1>1. Futures' = Futures
  BY <1>0 DEF Futures
<1>2. DriverTypes' /\ Rests' /\ Counted'
  <2>1. queued' \in BOOLEAN
    BY <1>0 DEF Driver!Reschedule
  <2> QED BY <1>0, <2>1 DEF DriverTypes, Driver!TypeOK, Rests, Counted
<1>3. Kept'
  <2> SUFFICES ASSUME alive', NEW t \in ready', t \in Futures' PROVE Driver!DrainComing'
    BY KeptWhen
  <2>1. t \in Request /\ ToSet(batch) = {}
    BY <1>0 DEF DriverTypes, Driver!TypeOK, ToSet
  <2>2. t \in ToSet(tasks)
    BY <1>0, <1>1, <2>1, RequestAssumption DEF Futures
  <2>3. Driver!DrainComing
    BY <1>0, <1>1, <2>1, KeptMeans
  <2>4. CASE deferred
    <3>1. \E i \in DOMAIN tasks : tasks[i] \in ready
      BY <1>0, <2>2 DEF ToSet
    <3>2. queued'
      BY <1>0, <2>4, <3>1 DEF Driver!Reschedule
    <3> QED BY <3>2 DEF Driver!DrainComing
  <2>5. CASE ~deferred
    BY <1>0, <2>3, <2>5 DEF Driver!DrainComing
  <2> QED BY <2>4, <2>5
<1> QED BY <1>0, <1>1, <1>2, <1>3 DEF DriverInv

LEMMA DropKeeps ==
  ASSUME DriverInv, Driver!Close
  PROVE DriverInv' /\ ~alive' /\ UNCHANGED <<ready, current>>
<1>0. /\ DriverTypes /\ Rests /\ Counted /\ ~looping /\ alive' = FALSE /\ deferred' = FALSE
      /\ tasks' = <<>> /\ active' \subseteq active /\ count' = count - Len(tasks)
      /\ UNCHANGED <<unspawned, batch, current, looping, ready, queued, posting>>
      /\ tasks \in Seq(Request) /\ batch = <<>> /\ current = "none"
  BY DEF DriverInv, DriverTypes, Driver!TypeOK, Driver!Close, Driver!DropWaiting, Rests
<1>1. count' = 0 /\ Counted'
  <2>1. Len(tasks) \in Nat /\ count \in Nat /\ Len(<<>>) = 0
    BY <1>0 DEF DriverTypes, Driver!TypeOK
  <2> QED BY <1>0, <2>1 DEF Counted
<1>2. DriverTypes'
  <2>1. /\ unspawned' \subseteq Request /\ batch' \in Seq(Request)
        /\ looping' \in BOOLEAN /\ queued' \in BOOLEAN
        /\ ready' \subseteq Request /\ active' \subseteq Request
        /\ posting' \in [Worker -> Request \cup {Driver!None}]
    BY <1>0 DEF DriverTypes, Driver!TypeOK
  <2>2. tasks' \in Seq(Request) /\ current' \in Request \cup {Driver!None}
    BY <1>0 DEF Driver!None
  <2>3. alive' \in BOOLEAN /\ deferred' \in BOOLEAN
    BY <1>0
  <2>4. count' \in Nat
    BY <1>1
  <2> QED BY <2>1, <2>2, <2>3, <2>4 DEF DriverTypes, Driver!TypeOK
<1>3. Rests' /\ Kept'
  BY <1>0 DEF Rests, Kept
<1> QED BY <1>0, <1>1, <1>2, <1>3 DEF DriverInv

LEMMA RaiseKeeps ==
  ASSUME DriverInv, NEW w \in Worker, NEW r \in Request, Driver!Raise(w, r),
         posting[w] = "none",
         UNCHANGED <<unspawned, Driver!loopVars, active, queued>>
  PROVE /\ DriverInv' /\ Futures' = Futures /\ UNCHANGED <<alive, active, current>>
        /\ alive /\ r \in active => r \in ready'
        /\ ready \subseteq ready'
<1>0. /\ DriverTypes /\ Rests /\ Counted /\ Kept
      /\ UNCHANGED <<unspawned, tasks, batch, current, looping, deferred, alive, count, active, queued>>
      /\ posting \in [Worker -> Request \cup {"none"}]
  BY DEF DriverInv, DriverTypes, Driver!TypeOK, Driver!loopVars, Driver!None
<1>1. Futures' = Futures /\ Rests' /\ Counted'
  BY <1>0 DEF Futures, Rests, Counted
<1>2. CASE alive /\ r \in active /\ r \notin ready
  <2>1. ready' = ready \cup {r} /\ posting' = [posting EXCEPT ![w] = r]
    BY <1>2 DEF Driver!Raise
  <2>2. posting' \in [Worker -> Request \cup {"none"}] /\ posting'[w] = r
    BY <1>0, <2>1
  <2>3. DriverTypes'
    BY <1>0, <2>1, <2>2 DEF DriverTypes, Driver!TypeOK, Driver!None
  <2>4. Driver!DrainComing'
    BY <2>2, RequestAssumption DEF Driver!DrainComing, Driver!None
  <2>5. Kept'
    BY <2>4, KeptWhen
  <2> QED BY <1>0, <1>1, <2>1, <2>3, <2>5 DEF DriverInv
<1>3. CASE ~(alive /\ r \in active /\ r \notin ready)
  <2>1. UNCHANGED <<ready, posting>>
    BY <1>3 DEF Driver!Raise
  <2>2. DriverTypes'
    BY <1>0, <2>1 DEF DriverTypes, Driver!TypeOK
  <2>3. Kept'
    <3>1. \A t : Driver!WakeKept(t)' = Driver!WakeKept(t)
      BY <1>0, <2>1 DEF Driver!WakeKept, Driver!DrainComing
    <3> QED BY <1>0, <1>1, <2>1, <3>1 DEF Kept
  <2> QED BY <1>0, <1>1, <1>3, <2>1, <2>2, <2>3 DEF DriverInv
<1> QED BY <1>2, <1>3

LEMMA PostKeeps ==
  ASSUME DriverInv, NEW w \in Worker, Driver!Post(w)
  PROVE DriverInv' /\ Futures' = Futures /\ UNCHANGED <<alive, active, ready, current>>
<1>0. /\ DriverTypes /\ Rests /\ Counted
      /\ UNCHANGED <<unspawned, tasks, batch, current, looping, deferred, alive, count, active, ready>>
      /\ posting \in [Worker -> Request \cup {"none"}] /\ queued' = TRUE
      /\ posting' = [posting EXCEPT ![w] = "none"]
  BY DEF DriverInv, DriverTypes, Driver!TypeOK, Driver!loopVars, Driver!None, Driver!Post
<1>1. Futures' = Futures /\ Rests' /\ Counted'
  BY <1>0 DEF Futures, Rests, Counted
<1>2. DriverTypes'
  <2>1. posting' \in [Worker -> Request \cup {"none"}]
    BY <1>0
  <2> QED BY <1>0, <2>1 DEF DriverTypes, Driver!TypeOK, Driver!None
<1>3. Kept'
  <2>1. Driver!DrainComing'
    BY <1>0 DEF Driver!DrainComing
  <2> QED BY <2>1, KeptWhen
<1> QED BY <1>0, <1>1, <1>2, <1>3 DEF DriverInv

LEMMA IdleKeeps ==
  ASSUME DriverInv, UNCHANGED <<Driver!loopVars, ready, active, queued, posting>>, unspawned' \subseteq unspawned
  PROVE DriverInv' /\ Futures' = Futures /\ UNCHANGED <<alive, active, ready, current>>
<1>0. UNCHANGED <<tasks, batch, current, looping, deferred, alive, count, active, ready, queued, posting>>
  BY DEF Driver!loopVars
<1>1. Futures' = Futures /\ \A t : Driver!WakeKept(t)' = Driver!WakeKept(t)
  BY <1>0 DEF Futures, Driver!WakeKept, Driver!DrainComing
<1> QED BY <1>0, <1>1 DEF DriverInv, DriverTypes, Driver!TypeOK, Rests, Counted, Kept

-----------------------------------------------------------------------------
(* A request and what attends to it *)

\* NoRequestStranded, short of the drain that Kept promises
Attended(r) == r = current \/ r \in ready \/ Wanted(Awaited(r))

LEMMA Parts ==
  ASSUME RequestInv
  PROVE /\ DriverInv /\ ExecInv /\ RequestTypes /\ Told /\ NativeProtocol /\ Holding /\ Present
        /\ DriverTypes /\ ExecTypes
        /\ alive => \A r \in listed : Attended(r) /\ r \in active /\ r \in Futures
BY DEF RequestInv, DriverInv, ExecInv, Present, NoRequestStranded, Attended, Wanted

LEMMA Whole ==
  ASSUME DriverInv', ExecInv', RequestTypes', Told', NativeProtocol', Holding', Present',
         alive' => \A r \in listed' : Attended(r)'
  PROVE RequestInv'
<1>1. DriverTypes' /\ Rests' /\ Counted' /\ Kept' /\ ExecTypes' /\ Slotted' /\ Silenced'
  BY DEF DriverInv, ExecInv
<1>2. NoRequestStranded'
  <2> SUFFICES ASSUME alive', NEW r \in listed'
               PROVE \/ r = current'
                     \/ r \in ready' /\ Driver!WakeKept(r)'
                     \/ \E w \in Worker : Awaited(r)' \in worker'[w].wakes
                     \/ Awaited(r)' \in waker' \cap Exec!Underway'
    BY DEF NoRequestStranded
  <2>1. r = current' \/ r \in ready' \/ Wanted(Awaited(r))'
    BY DEF Attended
  <2>2. CASE r \in ready'
    BY <1>1, <2>2 DEF Present, Kept
  <2> QED BY <2>1, <2>2 DEF Wanted
<1> QED BY <1>1, <1>2 DEF RequestInv

\* The executor does something, and no Completion is gone.
LEMMA ExecutorOnly ==
  ASSUME RequestInv, ExecInv', \A i : Wanted(i) => Wanted(i)', held' = held,
         UNCHANGED <<driverVars, requestVars>>
  PROVE RequestInv'
<1>1. /\ DriverInv /\ RequestTypes /\ Told /\ NativeProtocol /\ Holding /\ Present
      /\ alive => \A r \in listed : Attended(r)
  BY Parts
<1>2. UNCHANGED <<unspawned, tasks, batch, current, looping, deferred, alive, count, ready, active,
                  queued, posting, step, chunk, listed, native, misused>>
      /\ UNCHANGED <<Driver!loopVars>>
  BY DEF driverVars, requestVars, Driver!loopVars
<1>3. DriverInv' /\ Futures' = Futures
  BY <1>1, <1>2, IdleKeeps
<1>4. RequestTypes' /\ Told' /\ NativeProtocol'
  BY <1>1, <1>2 DEF RequestTypes, Told, Answering, Streaming, NativeProtocol
<1>5. Holding' /\ Present'
  BY <1>1, <1>2, <1>3 DEF Holding, Present, Awaited
<1>6. ASSUME alive', NEW r \in listed' PROVE Attended(r)'
  <2>1. Attended(r) /\ Awaited(r)' = Awaited(r)
    BY <1>1, <1>2, <1>6 DEF Awaited
  <2>2. CASE Wanted(Awaited(r))
    <3>1. PICK i : i = Awaited(r)
      OBVIOUS
    <3>2. Wanted(i)'
      BY <2>2, <3>1
    <3> QED BY <2>1, <3>1, <3>2 DEF Attended, Wanted
  <2> QED BY <1>2, <2>1, <2>2 DEF Attended
<1> QED BY <1>3, <1>4, <1>5, <1>6, Whole

\* The driver does something between two steps of its futures.
LEMMA DriverOnly ==
  ASSUME RequestInv, DriverInv', UNCHANGED <<executorVars, unspawned, alive, active>>,
         UNCHANGED <<step, chunk, listed, native, misused>>,
         \A q \in Request : /\ q \in Futures' <=> q \in Futures
                            /\ q \in ready => q \in ready' \/ q = current'
                            /\ q = current => q = current'
  PROVE RequestInv'
<1>1. /\ ExecInv /\ RequestTypes /\ Told /\ NativeProtocol /\ Holding /\ Present
      /\ alive => \A r \in listed : Attended(r)
  BY Parts
<1>2. UNCHANGED <<unspawned, alive, active, held, waker, worker, chan, step, chunk, listed, native, misused>>
  BY DEF executorVars
<1>3. ExecInv'
  BY <1>1, CloseKeeps
<1>4. RequestTypes' /\ Told' /\ NativeProtocol'
  BY <1>1, <1>2 DEF RequestTypes, Told, Answering, Streaming, NativeProtocol
<1>5. Holding'
  BY <1>1, <1>2 DEF Holding, Awaited
<1>6. Present'
  BY <1>1, <1>2 DEF Present, RequestTypes
<1>7. ASSUME alive', NEW r \in listed' PROVE Attended(r)'
  <2>1. Attended(r) /\ r \in Request
    BY <1>1, <1>2, <1>7 DEF RequestTypes
  <2>2. Wanted(Awaited(r)) => Wanted(Awaited(r))'
    BY <1>2 DEF Wanted, Awaited, Exec!Underway, Exec!Busy, Exec!At
  <2> QED BY <2>1, <2>2 DEF Attended
<1> QED BY <1>3, <1>4, <1>5, <1>6, <1>7, Whole

\* A step inside the poll of r's future: whatever it does to the job of r, the
\* other futures and their jobs are left alone.
LEMMA PollGoesOn ==
  ASSUME RequestInv, NEW r \in Request, current = r, UNCHANGED <<driverVars, listed>>,
         NEW to \in Steps, Go(r, to), ExecInv', RequestTypes', Told', NativeProtocol',
         \A q \in Request : q # r => /\ chunk'[q] = chunk[q]
                                     /\ Wanted(<<q, chunk[q]>>) => Wanted(<<q, chunk[q]>>)'
                                     /\ <<q, chunk[q]>> \in held => <<q, chunk[q]>> \in held',
         to = "await" => <<r, chunk'[r]>> \in held'
  PROVE RequestInv'
<1>1. /\ DriverInv /\ RequestTypes /\ Holding /\ Present
      /\ alive => \A q \in listed : Attended(q)
  BY Parts
<1>2. UNCHANGED <<unspawned, tasks, batch, current, looping, deferred, alive, count, ready, active,
                  queued, posting, Driver!loopVars>>
  BY DEF driverVars, Driver!loopVars
<1>3. DriverInv' /\ Futures' = Futures
  BY <1>1, <1>2, IdleKeeps
<1>4. step'[r] = to /\ \A q \in Request : q # r => step'[q] = step[q]
  BY <1>1 DEF Go, RequestTypes
<1>5. Holding'
  <2> SUFFICES ASSUME alive', NEW q \in Request, q \in Futures', step'[q] = "await"
               PROVE <<q, chunk'[q]>> \in held'
    BY DEF Holding, Awaited
  <2>1. CASE q = r
    BY <1>4, <2>1
  <2>2. CASE q # r
    BY <1>1, <1>2, <1>3, <1>4, <2>2 DEF Holding, Awaited
  <2> QED BY <2>1, <2>2
<1>6. Present'
  BY <1>1, <1>2, <1>3, <1>4 DEF Present, RequestTypes
<1>7. ASSUME alive', NEW q \in listed' PROVE Attended(q)'
  <2>1. Attended(q) /\ q \in Request
    BY <1>1, <1>2, <1>7 DEF RequestTypes
  <2>2. CASE q = r
    BY <1>2, <2>2 DEF Attended
  <2>3. CASE q # r
    <3>1. Wanted(Awaited(q)) => Wanted(Awaited(q))'
      BY <2>1, <2>3 DEF Wanted, Awaited
    <3> QED BY <1>2, <2>1, <3>1 DEF Attended
  <2> QED BY <2>2, <2>3
<1> QED BY <1>3, <1>5, <1>6, <1>7, Whole

-----------------------------------------------------------------------------
(* The future's own steps *)

LEMMA ToldStep ==
  ASSUME RequestTypes, Told, NEW r \in Request, step[r] # "new", UNCHANGED <<unspawned, listed, misused>>,
         NEW to \in Steps \ Refusal, step' = [step EXCEPT ![r] = to],
         NEW c \in 0 .. MaxChunks, chunk' = [chunk EXCEPT ![r] = c],
         NEW n \in NativeState, native' = [native EXCEPT ![r] = n],
         to = "head" => c = 0, to = "file" => c < MaxChunks,
         r \in listed => /\ (to = "head" \/ (to = "await" /\ c = 0)) => n = "open"
                         /\ (to \in {"bytes", "finish", "file"} \/ (to = "await" /\ c > 0)) => n = "headed"
  PROVE RequestTypes' /\ Told'
<1>1. RequestTypes'
  BY DEF RequestTypes
<1>2. /\ step'[r] = to /\ chunk'[r] = c /\ native'[r] = n
      /\ \A q \in Request : q # r => step'[q] = step[q] /\ chunk'[q] = chunk[q] /\ native'[q] = native[q]
  BY DEF RequestTypes
<1>3. r \notin unspawned
  BY DEF Told
<1> QED BY <1>1, <1>2, <1>3 DEF Told, Answering, Streaming, Refusal

LEMMA TellKeeps ==
  ASSUME RequestTypes, NEW r \in Request, NEW from, NEW to, native[r] = from, Tell(r, from, to)
  PROVE native' = [native EXCEPT ![r] = to] /\ misused' = misused
BY DEF Tell, Legal

\* Whatever an accepted request is told, its future has not misused it.
LEMMA StillKept ==
  ASSUME RequestTypes, NativeProtocol, NEW r \in Request, step[r] \notin Refusal,
         NEW to, step' = [step EXCEPT ![r] = to],
         NEW n, native' = [native EXCEPT ![r] = n], misused' = misused
  PROVE NativeProtocol'
<1>1. ASSUME NEW q \in misused PROVE q # r /\ q \in Request
  BY <1>1 DEF NativeProtocol, RequestTypes
<1>2. \A q \in misused : step'[q] = step[q] /\ native'[q] = native[q]
  BY <1>1 DEF RequestTypes
<1> QED BY <1>2 DEF NativeProtocol

\* A step that submits nothing: the Completion is kept or was used up.
LEMMA AnswerGoesOn ==
  ASSUME RequestInv, NEW r \in Request, current = r, UNCHANGED <<driverVars, chunk, listed>>,
         UNCHANGED executorVars \/ (Exec!Forget({Awaited(r)}) /\ Settled),
         step[r] # "new", step[r] \notin Refusal,
         NEW to \in Steps \ Refusal, to # "await", Go(r, to),
         NEW n \in NativeState, native' = [native EXCEPT ![r] = n], misused' = misused,
         to = "head" => chunk[r] = 0, to = "file" => chunk[r] < MaxChunks,
         r \in listed => /\ to = "head" => n = "open"
                         /\ to \in {"bytes", "finish", "file"} => n = "headed"
  PROVE RequestInv'
<1>1. ExecInv /\ RequestTypes /\ Told /\ NativeProtocol
  BY Parts
<1>2. unspawned' = unspawned
  BY DEF driverVars
<1>3. chunk[r] \in 0 .. MaxChunks /\ chunk' = [chunk EXCEPT ![r] = chunk[r]]
  BY <1>1 DEF RequestTypes
<1>4. RequestTypes' /\ Told'
  BY <1>1, <1>2, <1>3, ToldStep DEF Go
<1>5. NativeProtocol'
  BY <1>1, StillKept DEF Go
<1>6. ExecInv' /\ \A q \in Request : q # r =>
         /\ chunk'[q] = chunk[q]
         /\ Wanted(<<q, chunk[q]>>) => Wanted(<<q, chunk[q]>>)'
         /\ <<q, chunk[q]>> \in held => <<q, chunk[q]>> \in held'
  <2>1. CASE UNCHANGED executorVars
    <3>1. ExecInv' /\ \A i : Wanted(i) => Wanted(i)'
      BY <1>1, <2>1, CloseKeeps
    <3>2. held' = held
      BY <2>1 DEF executorVars
    <3>3. ASSUME NEW q \in Request
          PROVE Wanted(<<q, chunk[q]>>) => Wanted(<<q, chunk[q]>>)'
      <4>1. PICK i : i = <<q, chunk[q]>>
        OBVIOUS
      <4>2. Wanted(i) => Wanted(i)'
        BY <3>1
      <4> QED BY <4>1, <4>2 DEF Wanted
    <3> QED BY <3>1, <3>2, <3>3
  <2>2. CASE Exec!Forget({Awaited(r)}) /\ Settled
    <3>0. \A q \in Request : q # r => <<q, chunk[q]>> \notin {Awaited(r)}
      BY DEF Awaited
    <3>1. ExecInv' /\ \A i : Wanted(i) /\ i \notin {Awaited(r)} => Wanted(i)'
      BY <1>1, <2>2, ForgetKeeps
    <3>2. held' = held \ {Awaited(r)}
      BY <2>2 DEF Exec!Forget
    <3>3. ASSUME NEW q \in Request, q # r
          PROVE Wanted(<<q, chunk[q]>>) => Wanted(<<q, chunk[q]>>)'
      <4>1. PICK i : i = <<q, chunk[q]>>
        OBVIOUS
      <4>2. Wanted(i) => Wanted(i)'
        BY <3>0, <3>1, <3>3, <4>1
      <4> QED BY <4>1, <4>2 DEF Wanted
    <3> QED BY <3>0, <3>1, <3>2, <3>3
  <2> QED BY <2>1, <2>2
<1> QED BY <1>4, <1>5, <1>6, PollGoesOn

LEMMA TellingSteps ==
  ASSUME RequestInv, NEW r \in Request,
         \/ HeadBytes(r) \/ HeadFile(r) \/ SendBytes(r) \/ SendFinish(r) \/ NotLive(r) \/ ChunkRefused(r)
  PROVE RequestInv'
<1>0. RequestTypes /\ Told
  BY Parts
<1>s. /\ {"bytes", "finish", "file", "over"} \subseteq Steps \ Refusal
      /\ {"headed", "over"} \subseteq NativeState
      /\ {"head", "bytes", "finish", "file"} \cap Refusal = {}
  BY DEF Steps, NativeState, Refusal
<1>c. chunk[r] \in 0 .. MaxChunks /\ native[r] \in NativeState /\ MaxChunks \in Nat \ {0}
  BY <1>0, RequestAssumption DEF RequestTypes
<1>1. CASE HeadBytes(r)
  <2>1. native[r] = "open" /\ current = r /\ step[r] = "head"
    BY <1>0, <1>1 DEF HeadBytes, Polling, Live, Told, Answering
  <2>2. native' = [native EXCEPT ![r] = "headed"] /\ misused' = misused
    BY <1>0, <1>1, <2>1, TellKeeps DEF HeadBytes
  <2>3. Go(r, "bytes") /\ UNCHANGED <<driverVars, executorVars, chunk, listed>>
    BY <1>1 DEF HeadBytes
  <2> QED BY <1>s, <2>1, <2>2, <2>3, AnswerGoesOn
<1>2. CASE HeadFile(r)
  <2>1. native[r] = "open" /\ current = r /\ step[r] = "head" /\ chunk[r] < MaxChunks
    BY <1>0, <1>2, <1>c DEF HeadFile, Polling, Live, Told, Answering
  <2>2. native' = [native EXCEPT ![r] = "headed"] /\ misused' = misused
    BY <1>0, <1>2, <2>1, TellKeeps DEF HeadFile
  <2>3. Go(r, "file") /\ UNCHANGED <<driverVars, executorVars, chunk, listed>>
    BY <1>2 DEF HeadFile
  <2> QED BY <1>s, <2>1, <2>2, <2>3, AnswerGoesOn
<1>3. CASE SendBytes(r)
  <2>1. native[r] = "headed" /\ current = r /\ step[r] = "bytes"
    BY <1>0, <1>3 DEF SendBytes, Polling, Live, Told, Streaming
  <2>2. native' = [native EXCEPT ![r] = "headed"] /\ misused' = misused
    BY <1>0, <1>3, <2>1, TellKeeps DEF SendBytes
  <2>3. Go(r, "finish") /\ UNCHANGED <<driverVars, executorVars, chunk, listed>>
    BY <1>3 DEF SendBytes
  <2> QED BY <1>s, <2>1, <2>2, <2>3, AnswerGoesOn
<1>4. CASE SendFinish(r)
  <2>1. native[r] = "headed" /\ current = r /\ step[r] = "finish"
    BY <1>0, <1>4 DEF SendFinish, Polling, Live, Told, Streaming
  <2>2. native' = [native EXCEPT ![r] = "over"] /\ misused' = misused
    BY <1>0, <1>4, <2>1, TellKeeps DEF SendFinish
  <2>3. Go(r, "over") /\ UNCHANGED <<driverVars, executorVars, chunk, listed>>
    BY <1>4 DEF SendFinish
  <2> QED BY <1>s, <2>1, <2>2, <2>3, AnswerGoesOn
<1>5. CASE NotLive(r)
  <2>1. current = r /\ step[r] # "new" /\ step[r] \notin Refusal /\ Go(r, "over")
        /\ UNCHANGED <<driverVars, executorVars, chunk, listed, native, misused>>
    BY <1>s, <1>5 DEF NotLive
  <2>2. native' = [native EXCEPT ![r] = native[r]]
    BY <1>0, <2>1 DEF RequestTypes
  <2> QED BY <1>s, <1>c, <2>1, <2>2, AnswerGoesOn
<1>6. CASE ChunkRefused(r)
  <2>1. native[r] = "headed" /\ current = r /\ step[r] = "file"
    BY <1>0, <1>6 DEF ChunkRefused, Polling, Live, Told, Streaming
  <2>2. native' = [native EXCEPT ![r] = "over"] /\ misused' = misused
    BY <1>0, <1>6, <2>1, TellKeeps DEF ChunkRefused
  <2>3. Go(r, "over") /\ UNCHANGED <<driverVars, executorVars, chunk, listed>>
    BY <1>6 DEF ChunkRefused
  <2> QED BY <1>s, <2>1, <2>2, <2>3, AnswerGoesOn
<1> QED BY <1>1, <1>2, <1>3, <1>4, <1>5, <1>6

LEMMA AwaitingSteps ==
  ASSUME RequestInv, NEW r \in Request, AwaitAnswer(r) \/ ChunkRead(r) \/ ChunkLost(r)
  PROVE RequestInv'
<1>0. RequestTypes /\ Told
  BY Parts
<1>s. /\ {"head", "file", "over"} \subseteq Steps \ Refusal /\ "await" \notin Refusal
      /\ {"headed", "over"} \subseteq NativeState
  BY DEF Steps, NativeState, Refusal
<1>c. chunk[r] \in 0 .. MaxChunks /\ native[r] \in NativeState /\ native = [native EXCEPT ![r] = native[r]]
  BY <1>0 DEF RequestTypes
<1>p. /\ current = r /\ step[r] = "await" /\ Exec!Forget({Awaited(r)}) /\ Settled
      /\ UNCHANGED <<driverVars, chunk, listed>>
  BY DEF AwaitAnswer, ChunkRead, ChunkLost, Polling, Settled
<1>1. CASE AwaitAnswer(r)
  <2>1. Go(r, "head") /\ native' = native /\ misused' = misused /\ chunk[r] = 0
    BY <1>1 DEF AwaitAnswer
  <2>2. r \in listed => native[r] = "open"
    BY <1>0, <1>p, <2>1 DEF Told, Answering
  <2> QED BY <1>s, <1>c, <1>p, <2>1, <2>2, AnswerGoesOn
<1>2. CASE ~Live(r) /\ Silent /\ Go(r, "over")
  BY <1>s, <1>c, <1>p, <1>2, AnswerGoesOn DEF Silent
<1>3. ASSUME chunk[r] > 0, Live(r) PROVE native[r] = "headed"
  BY <1>0, <1>p, <1>3 DEF Told, Streaming, Live
<1>4. CASE chunk[r] > 0 /\ Live(r) /\ Tell(r, "headed", "over") /\ Go(r, "over")
  <2>1. native' = [native EXCEPT ![r] = "over"] /\ misused' = misused
    BY <1>0, <1>3, <1>4, TellKeeps
  <2> QED BY <1>s, <1>p, <1>4, <2>1, AnswerGoesOn
<1>5. CASE chunk[r] > 0 /\ Live(r) /\ chunk[r] < MaxChunks /\ Tell(r, "headed", "headed") /\ Go(r, "file")
  <2>1. native' = [native EXCEPT ![r] = "headed"] /\ misused' = misused
    BY <1>0, <1>3, <1>5, TellKeeps
  <2> QED BY <1>s, <1>p, <1>5, <2>1, AnswerGoesOn
<1> QED BY <1>1, <1>2, <1>4, <1>5 DEF ChunkRead, ChunkLost

LEMMA NextChunkKeeps ==
  ASSUME RequestInv, NEW r \in Request, NextChunk(r)
  PROVE RequestInv'
<1>0. ExecInv /\ RequestTypes /\ Told /\ NativeProtocol
  BY Parts
<1>1. /\ current = r /\ step[r] = "file" /\ r \in listed /\ Go(r, "await")
      /\ Exec!Submit(<<r, chunk[r] + 1>>) /\ chunk' = [chunk EXCEPT ![r] = chunk[r] + 1]
      /\ UNCHANGED <<driverVars, listed, native, misused>>
  BY DEF NextChunk, Polling, Live
<1>2. chunk[r] + 1 \in 0 .. MaxChunks /\ chunk[r] + 1 > 0 /\ native[r] = "headed" /\ native[r] \in NativeState
  BY <1>0, <1>1, RequestAssumption DEF Told, Streaming, RequestTypes
<1>3. "await" \in Steps \ Refusal /\ "file" \notin Refusal
  BY DEF Steps, Refusal
<1>4. native' = [native EXCEPT ![r] = "headed"] /\ unspawned' = unspawned
  BY <1>0, <1>1, <1>2 DEF RequestTypes, driverVars
<1>5. RequestTypes' /\ Told'
  <2> DEFINE c == chunk[r] + 1
  <2>1. /\ c \in 0 .. MaxChunks /\ c # 0 /\ chunk' = [chunk EXCEPT ![r] = c]
        /\ step[r] # "new" /\ step' = [step EXCEPT ![r] = "await"]
    BY <1>1, <1>2 DEF Go
  <2> HIDE DEF c
  <2>2. "headed" \in NativeState /\ UNCHANGED <<unspawned, listed, misused>>
    BY <1>1, <1>4 DEF NativeState
  <2> QED BY <1>0, <1>3, <1>4, <2>1, <2>2, ToldStep
<1>6. NativeProtocol'
  BY <1>0, <1>1, <1>3, <1>4, StillKept DEF Go
<1>7. <<r, chunk[r] + 1>> \in Job
  BY <1>2 DEF Job
<1>8. ExecInv' /\ \A i : Wanted(i) => Wanted(i)'
  BY <1>0, <1>1, <1>7, SubmitKeeps
<1>9. held' = held \cup {<<r, chunk[r] + 1>>}
  BY <1>1 DEF Exec!Submit
<1>10. chunk'[r] = chunk[r] + 1 /\ \A q \in Request : q # r => chunk'[q] = chunk[q]
  BY <1>0, <1>1 DEF RequestTypes
<1>11. ASSUME NEW q \in Request, q # r PROVE Wanted(<<q, chunk[q]>>) => Wanted(<<q, chunk[q]>>)'
  <2>1. PICK i : i = <<q, chunk[q]>>
    OBVIOUS
  <2>2. Wanted(i) => Wanted(i)'
    BY <1>8
  <2>3. Wanted(<<q, chunk[q]>>) => (\E w \in Worker : i \in worker'[w].wakes) \/ i \in waker' \cap Exec!Underway'
    BY <2>1, <2>2 DEF Wanted
  <2> QED BY <1>10, <1>11, <2>1, <2>3 DEF Wanted
<1> QED BY <1>1, <1>3, <1>5, <1>6, <1>8, <1>9, <1>10, <1>11, PollGoesOn

LEMMA PendingKeeps ==
  ASSUME RequestInv, NEW r \in Request, AwaitPending(r)
  PROVE RequestInv'
<1>0. /\ ExecInv /\ DriverInv /\ RequestTypes /\ Told /\ NativeProtocol /\ Holding /\ Present
      /\ alive => \A q \in listed : Attended(q)
  BY Parts
<1>1. /\ current = r /\ step[r] = "await" /\ Awaited(r) \notin result \cup hollow
      /\ Exec!Register(Awaited(r)) /\ Settled /\ Driver!PollReturns(FALSE)
      /\ UNCHANGED <<unspawned, step, chunk, listed, native, misused>>
  BY DEF AwaitPending, Polling, Exec!StillPending, Settled, requestVars
<1>2. /\ DriverInv' /\ current' = "none" /\ alive /\ alive' /\ Futures' = Futures \cup {"none"}
      /\ active' = active
  BY <1>0, <1>1, ReturnKeeps
<1>3. ready' = ready
  BY <1>1 DEF Driver!PollReturns
<1>4. r \in Futures
  BY <1>1 DEF Futures
<1>5. Awaited(r) \in held
  BY <1>0, <1>1, <1>2, <1>4 DEF Holding
<1>6. ExecInv' /\ \A i : Wanted(i) => Wanted(i)'
  BY <1>0, <1>1, <1>5, RegisterKeeps
<1>7. held' = held /\ waker' = waker \cup {Awaited(r)} /\ Exec!Underway' = Exec!Underway
      /\ worker' = worker
  BY <1>1 DEF Exec!Register, Settled, Exec!Underway, Exec!Busy, Exec!At
<1>8. RequestTypes' /\ Told' /\ NativeProtocol'
  BY <1>0, <1>1 DEF RequestTypes, Told, Answering, Streaming, NativeProtocol
<1>9. Holding'
  BY <1>0, <1>1, <1>2, <1>7, RequestAssumption DEF Holding, Awaited
<1>10. Present'
  BY <1>0, <1>1, <1>2 DEF Present
<1>11. ASSUME NEW q \in listed PROVE Attended(q)'
  <2>1. Awaited(q)' = Awaited(q)
    BY <1>1 DEF Awaited
  <2>2. CASE q = r
    <3>1. Awaited(r) \in Exec!Underway
      BY <1>0, <1>1, <1>5 DEF ExecInv, Slotted
    <3> QED BY <1>7, <2>1, <2>2, <3>1 DEF Attended, Wanted
  <2>3. CASE q # r
    <3>1. q \in ready \/ Wanted(Awaited(q))
      BY <1>0, <1>1, <1>2, <2>3 DEF Attended
    <3>2. CASE Wanted(Awaited(q))
      BY <1>7, <2>1, <3>2 DEF Attended, Wanted
    <3> QED BY <1>3, <3>1, <3>2 DEF Attended
  <2> QED BY <2>2, <2>3
<1> QED BY <1>1, <1>2, <1>6, <1>8, <1>9, <1>10, <1>11, Whole

LEMMA DoneKeeps ==
  ASSUME RequestInv, NEW r \in Request, PollDone(r)
  PROVE RequestInv'
<1>0. /\ ExecInv /\ DriverInv /\ RequestTypes /\ Told /\ NativeProtocol /\ Holding /\ Present
      /\ alive => \A q \in listed : Attended(q)
  BY Parts
<1>1. /\ current = r /\ Driver!PollReturns(TRUE) /\ listed' = listed \ {r}
      /\ UNCHANGED <<unspawned, executorVars, step, chunk, native, misused>>
  BY DEF PollDone, Polling
<1>2. /\ DriverInv' /\ current' = "none" /\ alive /\ alive' /\ Futures' \cup {r} = Futures \cup {"none"}
      /\ active' = active \ {r}
  BY <1>0, <1>1, ReturnKeeps
<1>3. ready' = ready
  BY <1>1 DEF Driver!PollReturns
<1>4. ExecInv'
  BY <1>0, <1>1, CloseKeeps
<1>5. UNCHANGED <<held, waker, worker, chan>>
  BY <1>1 DEF executorVars
<1>6. RequestTypes' /\ Told' /\ NativeProtocol'
  BY <1>0, <1>1 DEF RequestTypes, Told, Answering, Streaming, NativeProtocol
<1>7. Holding'
  <2>1. \A q \in Request : q \in Futures' => q \in Futures
    BY <1>2, RequestAssumption
  <2> QED BY <1>0, <1>1, <1>2, <1>5, <2>1 DEF Holding, Awaited
<1>8. Present'
  BY <1>0, <1>1, <1>2 DEF Present
<1>9. ASSUME NEW q \in listed' PROVE Attended(q)'
  <2>1. q # r /\ q \in listed
    BY <1>1, <1>9
  <2>2. q \in ready \/ Wanted(Awaited(q))
    BY <1>0, <1>1, <1>2, <2>1 DEF Attended
  <2>3. Wanted(Awaited(q)) => Wanted(Awaited(q))'
    BY <1>1, <1>5 DEF Wanted, Awaited, Exec!Underway, Exec!Busy, Exec!At
  <2> QED BY <1>3, <2>2, <2>3 DEF Attended
<1> QED BY <1>2, <1>4, <1>6, <1>7, <1>8, <1>9, Whole

LEMMA StopKeeps ==
  ASSUME RequestInv, NEW r \in Request, Stop(r)
  PROVE RequestInv'
<1>0. /\ ExecInv /\ DriverInv /\ RequestTypes /\ Told /\ NativeProtocol /\ Holding /\ Present
      /\ alive => \A q \in listed : Attended(q)
  BY Parts
<1>1. /\ native' = [native EXCEPT ![r] = "stopped"] /\ listed' = listed \ {r}
      /\ UNCHANGED <<driverVars, executorVars, step, chunk, misused>>
  BY DEF Stop
<1>2. UNCHANGED <<unspawned, tasks, batch, current, looping, deferred, alive, count, ready, active,
                  queued, posting, Driver!loopVars>>
  BY <1>1 DEF driverVars, Driver!loopVars
<1>3. DriverInv' /\ Futures' = Futures
  BY <1>0, <1>2, IdleKeeps
<1>4. ExecInv'
  BY <1>0, <1>1, CloseKeeps
<1>5. UNCHANGED <<held, waker, worker, chan>>
  BY <1>1 DEF executorVars
<1>6. RequestTypes'
  BY <1>0, <1>1 DEF RequestTypes, NativeState
<1>n. native'[r] = "stopped" /\ \A q \in Request : q # r => native'[q] = native[q]
  BY <1>0, <1>1 DEF RequestTypes
<1>7. Told'
  BY <1>0, <1>1, <1>2, <1>n DEF Told, Answering, Streaming
<1>8. NativeProtocol'
  BY <1>0, <1>1, <1>n DEF NativeProtocol, RequestTypes
<1>10. Holding' /\ Present'
  BY <1>0, <1>1, <1>2, <1>3, <1>5 DEF Holding, Present, Awaited
<1>9. ASSUME alive', NEW q \in listed' PROVE Attended(q)'
  <2>1. Attended(q)
    BY <1>0, <1>1, <1>2, <1>9
  <2>2. Wanted(Awaited(q)) => Wanted(Awaited(q))'
    BY <1>1, <1>5 DEF Wanted, Awaited, Exec!Underway, Exec!Busy, Exec!At
  <2> QED BY <1>2, <2>1, <2>2 DEF Attended
<1> QED BY <1>3, <1>4, <1>6, <1>7, <1>8, <1>9, <1>10, Whole

-----------------------------------------------------------------------------
(* Requests come, and the ends of the driver and the executor *)

LEMMA StartedKeeps ==
  ASSUME RequestInv, NEW r \in Request, r \in unspawned, Driver!Spawn(r), Exec!Submit(<<r, 0>>),
         step' = [step EXCEPT ![r] = "await"], native' = [native EXCEPT ![r] = "open"],
         listed' = listed \cup {r}, UNCHANGED <<chunk, misused>>
  PROVE RequestInv'
<1>0. /\ ExecInv /\ DriverInv /\ RequestTypes /\ Told /\ NativeProtocol /\ Holding /\ Present
      /\ alive => \A q \in listed : Attended(q)
  BY Parts
<1>1. DriverInv' /\ Futures' = Futures \cup {r}
  BY <1>0, StartKeeps
<1>2. /\ unspawned' = unspawned \ {r} /\ active' = active \cup {r} /\ ready' = ready \cup {r}
      /\ UNCHANGED <<current, alive>>
  BY DEF Driver!Spawn
<1>3. <<r, 0>> \in Job
  BY RequestAssumption DEF Job
<1>4. ExecInv' /\ \A i : Wanted(i) => Wanted(i)'
  BY <1>0, <1>3, SubmitKeeps
<1>5. held' = held \cup {<<r, 0>>}
  BY DEF Exec!Submit
<1>6. chunk[r] = 0 /\ r \notin listed
  BY <1>0 DEF Told
<1>7. /\ step'[r] = "await" /\ native'[r] = "open"
      /\ \A q \in Request : q # r => step'[q] = step[q] /\ native'[q] = native[q]
  BY <1>0 DEF RequestTypes
<1>8. RequestTypes' /\ NativeProtocol'
  <2>1. step[r] \notin Refusal
    BY <1>0 DEF Told, Refusal
  <2>2. NativeProtocol'
    BY <1>0, <2>1, StillKept
  <2> QED BY <1>0, <2>2 DEF RequestTypes, Steps, NativeState
<1>9. Told'
  BY <1>0, <1>2, <1>6, <1>7 DEF Told, Answering, Streaming
<1>10. Holding'
  BY <1>0, <1>1, <1>2, <1>5, <1>6, <1>7 DEF Holding, Awaited
<1>11. Present'
  BY <1>0, <1>1, <1>2, <1>7 DEF Present, RequestTypes
<1>12. ASSUME alive', NEW q \in listed' PROVE Attended(q)'
  <2>1. CASE q = r
    BY <1>2, <2>1 DEF Attended
  <2>2. CASE q # r
    <3>1. Attended(q) /\ Awaited(q)' = Awaited(q)
      BY <1>0, <1>2, <1>12, <2>2 DEF Awaited
    <3>2. CASE Wanted(Awaited(q))
      <4>1. PICK i : i = Awaited(q)
        OBVIOUS
      <4>2. Wanted(i)'
        BY <1>4, <3>2, <4>1
      <4> QED BY <3>1, <4>1, <4>2 DEF Attended, Wanted
    <3> QED BY <1>2, <3>1, <3>2 DEF Attended
  <2> QED BY <2>1, <2>2
<1> QED BY <1>1, <1>4, <1>8, <1>9, <1>10, <1>11, <1>12, Whole

LEMMA RefusedKeeps ==
  ASSUME RequestInv, NEW r \in Request, r \in unspawned, StartRefused(r),
         UNCHANGED executorVars \/ Exec!SubmitAbandoned(<<r, 0>>)
  PROVE RequestInv'
<1>0. /\ ExecInv /\ DriverInv /\ RequestTypes /\ Told /\ NativeProtocol /\ Holding /\ Present
      /\ alive => \A q \in listed : Attended(q)
  BY Parts
<1>1. /\ unspawned' = unspawned \ {r} /\ step' = [step EXCEPT ![r] = "turned"]
      /\ native' = [native EXCEPT ![r] = "headed"]
      /\ UNCHANGED <<Driver!loopVars, ready, active, queued, posting, chunk, listed, misused>>
  BY DEF StartRefused, Driver!loopVars
<1>2. DriverInv' /\ Futures' = Futures /\ UNCHANGED <<alive, active, ready, current>>
  BY <1>0, <1>1, IdleKeeps
<1>3. <<r, 0>> \in Job
  BY RequestAssumption DEF Job
<1>4. ExecInv' /\ \A i : Wanted(i) => Wanted(i)'
  BY <1>0, <1>3, SubmitKeeps, CloseKeeps
<1>5. held' = held
  BY DEF Exec!SubmitAbandoned, executorVars
<1>6. r \notin listed
  BY <1>0 DEF Told
<1>7. /\ step'[r] = "turned" /\ native'[r] = "headed"
      /\ \A q \in Request : q # r => step'[q] = step[q] /\ native'[q] = native[q]
  BY <1>0, <1>1 DEF RequestTypes
<1>8. RequestTypes' /\ NativeProtocol'
  <2>1. step[r] \notin Refusal
    BY <1>0 DEF Told, Refusal
  <2>2. NativeProtocol'
    BY <1>0, <1>1, <2>1, StillKept
  <2> QED BY <1>0, <1>1, <2>2 DEF RequestTypes, Steps, Refusal, NativeState
<1>9. Told'
  BY <1>0, <1>1, <1>6, <1>7 DEF Told, Answering, Streaming
<1>10. Holding'
  BY <1>0, <1>1, <1>2, <1>5, <1>7 DEF Holding, Awaited
<1>11. Present'
  BY <1>0, <1>1, <1>2, <1>6, <1>7 DEF Present, RequestTypes
<1>12. ASSUME alive', NEW q \in listed' PROVE Attended(q)'
  <2>1. Attended(q) /\ Awaited(q)' = Awaited(q)
    BY <1>0, <1>1, <1>2, <1>12 DEF Awaited
  <2>2. CASE Wanted(Awaited(q))
    <3>1. PICK i : i = Awaited(q)
      OBVIOUS
    <3>2. Wanted(i)'
      BY <1>4, <2>2, <3>1
    <3> QED BY <2>1, <3>1, <3>2 DEF Attended, Wanted
  <2> QED BY <1>2, <2>1, <2>2 DEF Attended
<1> QED BY <1>2, <1>4, <1>8, <1>9, <1>10, <1>11, <1>12, Whole

\* A refusal goes on: whatever WebKit did meanwhile, the request is told, and
\* misused only if it was stopped.
LEMMA RefuseKeeps ==
  ASSUME RequestInv, NEW r \in Request, Refuse(r)
  PROVE RequestInv'
<1>0. /\ ExecInv /\ DriverInv /\ RequestTypes /\ Told /\ NativeProtocol /\ Holding /\ Present
      /\ alive => \A q \in listed : Attended(q)
  BY Parts
<1>1. UNCHANGED <<driverVars, executorVars, chunk, listed>>
  BY DEF Refuse, RefusalData, RefusalFinish, RefusalReturns
<1>2. UNCHANGED <<unspawned, tasks, batch, current, looping, deferred, alive, count, ready, active,
                  queued, posting, Driver!loopVars>>
  BY <1>1 DEF driverVars, Driver!loopVars
<1>3. DriverInv' /\ Futures' = Futures
  BY <1>0, <1>2, IdleKeeps
<1>4. ExecInv'
  BY <1>0, <1>1, CloseKeeps
<1>5. UNCHANGED <<held, waker, worker, chan>>
  BY <1>1 DEF executorVars
<1>6. PICK to \in Refusal \ {"turned"} :
         /\ step[r] \in Refusal /\ step' = [step EXCEPT ![r] = to]
         /\ \/ UNCHANGED <<native, misused>> /\ step[r] = "refused" /\ to = "refused"
            \/ Tell(r, "headed", "headed") /\ step[r] = "turned" /\ to = "closing"
            \/ Tell(r, "headed", "over") /\ step[r] = "closing" /\ to = "refused"
  <2>1. CASE RefusalData(r)
    BY <2>1 DEF RefusalData, Refusal
  <2>2. CASE RefusalFinish(r)
    BY <2>2 DEF RefusalFinish, Refusal
  <2>3. CASE RefusalReturns(r)
    <3>1. step' = [step EXCEPT ![r] = "refused"]
      BY <1>0, <2>3 DEF RefusalReturns, RequestTypes
    <3> QED BY <2>3, <3>1 DEF RefusalReturns, Refusal
  <2> QED BY <2>1, <2>2, <2>3 DEF Refuse
<1>7. /\ step'[r] = to /\ \A q \in Request : q # r => step'[q] = step[q] /\ native'[q] = native[q]
      /\ step[r] # "new" /\ r \notin unspawned
  BY <1>0, <1>6 DEF RequestTypes, Tell, Told, Refusal
<1>8. \/ native'[r] = native[r] /\ misused' = misused
      \/ native[r] = "headed" /\ misused' = misused /\ (to = "closing" => native'[r] = "headed")
      \/ native[r] = "stopped" /\ native'[r] = "stopped" /\ misused' = misused \cup {r}
  <2>1. CASE UNCHANGED <<native, misused>>
    BY <2>1
  <2>2. CASE step[r] \in {"turned", "closing"}
    <3>1. native[r] \in {"headed", "stopped"}
      BY <1>0, <2>2 DEF Told
    <3>2. CASE native[r] = "headed"
      BY <1>0, <1>6, <3>2 DEF Tell, Legal, RequestTypes, Refusal
    <3>3. CASE native[r] = "stopped"
      BY <1>0, <1>6, <3>3 DEF Tell, Legal, RequestTypes
    <3> QED BY <3>1, <3>2, <3>3
  <2> QED BY <1>6, <2>1, <2>2
<1>9. RequestTypes'
  <2>1. native' \in [Request -> NativeState]
    BY <1>0, <1>6 DEF RequestTypes, Tell, NativeState
  <2>2. misused' \subseteq Request
    BY <1>0, <1>8 DEF RequestTypes
  <2> QED BY <1>0, <1>1, <1>6, <2>1, <2>2 DEF RequestTypes, Steps
<1>10. NativeProtocol'
  <2>1. ASSUME NEW q \in misused' PROVE step'[q] \in Refusal /\ native'[q] = "stopped"
    <3>1. CASE q = r
      BY <1>0, <1>6, <1>7, <1>8, <2>1, <3>1 DEF NativeProtocol
    <3>2. CASE q # r
      <4>1. q \in misused /\ q \in Request
        BY <1>0, <1>8, <2>1, <3>2 DEF RequestTypes
      <4> QED BY <1>0, <1>7, <3>2, <4>1 DEF NativeProtocol
    <3> QED BY <3>1, <3>2
  <2> QED BY <2>1 DEF NativeProtocol
<1>11. Told'
  <2>1. to = "closing" => native'[r] \in {"headed", "stopped"}
    BY <1>0, <1>6, <1>8 DEF Told, Refusal
  <2>2. to \in {"closing", "refused"}
    BY DEF Refusal
  <2> QED BY <1>0, <1>1, <1>2, <1>7, <2>1, <2>2 DEF Told, Answering, Streaming
<1>12. Holding'
  BY <1>0, <1>1, <1>2, <1>3, <1>5, <1>6, <1>7 DEF Holding, Awaited, Refusal
<1>13. Present'
  <2>1. r \in listed => r = current \/ ~alive
    BY <1>0, <1>6 DEF Present, Refusal
  <2> QED BY <1>0, <1>1, <1>2, <1>3, <1>7, <2>1 DEF Present, RequestTypes
<1>14. ASSUME alive', NEW q \in listed' PROVE Attended(q)'
  <2>1. Attended(q)
    BY <1>0, <1>1, <1>2, <1>14
  <2>2. Wanted(Awaited(q)) => Wanted(Awaited(q))'
    BY <1>1, <1>5 DEF Wanted, Awaited, Exec!Underway, Exec!Busy, Exec!At
  <2> QED BY <1>2, <2>1, <2>2 DEF Attended
<1> QED BY <1>3, <1>4, <1>9, <1>10, <1>11, <1>12, <1>13, <1>14, Whole

LEMMA StartAllKeeps ==
  ASSUME RequestInv, NEW r \in Request, Start(r)
  PROVE RequestInv'
<1>1. r \in unspawned
  BY DEF Start
<1>2. CASE StartRefused(r) /\ (UNCHANGED executorVars \/ Exec!SubmitAbandoned(<<r, 0>>))
  BY <1>1, <1>2, RefusedKeeps
<1>3. CASE /\ Driver!Spawn(r) /\ Exec!Submit(<<r, 0>>)
           /\ step' = [step EXCEPT ![r] = "await"] /\ native' = [native EXCEPT ![r] = "open"]
           /\ listed' = listed \cup {r} /\ UNCHANGED <<chunk, misused, maxPending, stackVars>>
  BY <1>1, <1>3, StartedKeeps
<1> QED BY <1>2, <1>3 DEF Start

LEMMA DropDriverKeeps ==
  ASSUME RequestInv, DropDriver
  PROVE RequestInv'
<1>0. ExecInv /\ DriverInv /\ RequestTypes /\ Told /\ NativeProtocol
  BY Parts
<1>1. /\ Driver!Close /\ Exec!Forget({Awaited(tasks[i]) : i \in DOMAIN tasks}) /\ Settled
      /\ UNCHANGED <<step, chunk, listed, native, misused>>
  BY DEF DropDriver, Settled, requestVars
<1>2. DriverInv' /\ ~alive' /\ unspawned' = unspawned
  BY <1>0, <1>1, DropKeeps DEF Driver!Close
<1>3. ExecInv'
  BY <1>0, <1>1, ForgetKeeps
<1>4. RequestTypes' /\ Told' /\ NativeProtocol'
  BY <1>0, <1>1, <1>2 DEF RequestTypes, Told, Answering, Streaming, NativeProtocol
<1>5. Holding' /\ Present'
  BY <1>2 DEF Holding, Present
<1> QED BY <1>2, <1>3, <1>4, <1>5, Whole

LEMMA CallWakerKeeps ==
  ASSUME RequestInv, NEW w \in Worker, CallWaker(w)
  PROVE RequestInv'
<1>0. /\ ExecInv /\ DriverInv /\ RequestTypes /\ Told /\ NativeProtocol /\ Holding /\ Present
      /\ ExecTypes
      /\ alive => \A q \in listed : Attended(q)
  BY Parts
<1>1. PICK j \in worker[w].wakes :
        Driver!Raise(w, j[1]) /\ worker' = [worker EXCEPT ![w].wakes = @ \ {j}]
  BY DEF CallWaker
<1>2. j \in Job /\ j[1] \in Request
  BY <1>0 DEF ExecTypes, Exec!ExecutorTypeOK, Job
<1>3. /\ posting[w] = "none"
      /\ UNCHANGED <<unspawned, Driver!loopVars, active, queued, step, chunk, listed, native, misused>>
      /\ UNCHANGED <<shut, chan, held, running, result, hollow, waker>>
  BY DEF CallWaker, Driver!loopVars, requestVars
<1>4. /\ DriverInv' /\ Futures' = Futures /\ UNCHANGED <<alive, active, current>>
      /\ (alive /\ j[1] \in active => j[1] \in ready')
      /\ ready \subseteq ready'
  BY <1>0, <1>1, <1>2, <1>3, RaiseKeeps
<1>5. ExecInv' /\ \A i : Wanted(i) /\ i # j => Wanted(i)'
  BY <1>0, <1>1, <1>3, CallKeeps
<1>6. RequestTypes' /\ Told' /\ NativeProtocol'
  BY <1>0, <1>3 DEF RequestTypes, Told, Answering, Streaming, NativeProtocol
<1>7. Holding' /\ Present'
  BY <1>0, <1>3, <1>4 DEF Holding, Present, Awaited
<1>8. ASSUME alive', NEW q \in listed' PROVE Attended(q)'
  <2>1. Attended(q) /\ q \in active /\ Awaited(q)' = Awaited(q)
    BY <1>0, <1>3, <1>4, <1>8 DEF Awaited, Present
  <2>2. CASE Wanted(Awaited(q)) /\ Awaited(q) = j
    <3>1. j[1] = q
      BY <2>2 DEF Awaited
    <3> QED BY <1>4, <1>8, <2>1, <3>1 DEF Attended
  <2>3. CASE Wanted(Awaited(q)) /\ Awaited(q) # j
    <3>1. PICK i : i = Awaited(q)
      OBVIOUS
    <3>2. Wanted(i)'
      BY <1>5, <2>3, <3>1
    <3> QED BY <2>1, <3>1, <3>2 DEF Attended, Wanted
  <2> QED BY <1>4, <2>1, <2>2, <2>3 DEF Attended
<1> QED BY <1>4, <1>5, <1>6, <1>7, <1>8, Whole

LEMMA WorkerHolds ==
  ASSUME NEW w \in Worker, WorkerStep(w)
  PROVE held' = held
BY DEF WorkerStep, Exec!TakeCancelled, Exec!Take, Exec!TakeClosed, Exec!Disconnect, Exec!Publish,
       Exec!Release, Exec!MarkClosed, Exec!DropReceiver, Exec!Finish, Exec!Panic, Exec!Abandon,
       Exec!slotVars

LEMMA LoopKeeps ==
  ASSUME RequestInv, DrainMain \/ VisitMain \/ \E w \in Worker : PostDrain(w)
  PROVE RequestInv'
<1>0. DriverInv /\ DriverTypes
  BY Parts
<1>1. UNCHANGED <<executorVars, step, chunk, listed, native, misused>>
  BY DEF DrainMain, VisitMain, PostDrain, requestVars
<1>2. CASE Driver!Drain
  BY <1>0, <1>1, <1>2, DrainKeeps, DriverOnly DEF Driver!Drain
<1>3. CASE Driver!VisitIdle
  BY <1>0, <1>1, <1>3, VisitKeeps, DriverOnly DEF Driver!VisitIdle
<1>4. CASE Driver!PollBegin
  <2>1. /\ DriverInv' /\ Futures' \cup {"none"} = Futures
        /\ UNCHANGED <<alive, active>> /\ current' \in Request
        /\ current = "none" /\ ready' = ready \ {current'}
    BY <1>0, <1>4, BeginKeeps
  <2>2. unspawned' = unspawned
    BY <1>4 DEF Driver!PollBegin
  <2>3. \A q \in Request : /\ q \in Futures' <=> q \in Futures
                           /\ q \in ready => q \in ready' \/ q = current'
                           /\ q = current => q = current'
    BY <2>1, RequestAssumption
  <2> QED BY <1>1, <2>1, <2>2, <2>3, DriverOnly
<1>5. CASE Driver!EndLoop
  BY <1>0, <1>1, <1>5, EndKeeps, DriverOnly DEF Driver!EndLoop
<1>6. ASSUME NEW w \in Worker, Driver!Post(w) PROVE RequestInv'
  BY <1>0, <1>1, <1>6, PostKeeps, DriverOnly DEF Driver!Post
<1> QED BY <1>2, <1>3, <1>4, <1>5, <1>6 DEF DrainMain, VisitMain, PostDrain

-----------------------------------------------------------------------------
(* The theorems *)

LEMMA InitHolds == Init => RequestInv
<1> SUFFICES ASSUME Init PROVE RequestInv
  OBVIOUS
<1>1. /\ unspawned = Request /\ tasks = <<>> /\ batch = <<>> /\ current = "none"
      /\ looping = FALSE /\ deferred = FALSE /\ alive = TRUE /\ count = 0
      /\ ready = {} /\ active = {} /\ queued = FALSE /\ posting = [w \in Worker |-> "none"]
  BY DEF Init, Driver!DriverInit, Driver!None
<1>2. /\ shut = FALSE /\ chan = <<>> /\ held = {} /\ running = {} /\ result = {} /\ hollow = {}
      /\ waker = {}
      /\ worker = [w \in Worker |-> [phase |-> "unborn", job |-> Exec!NoJob, wakes |-> {}]]
  BY DEF Init, Exec!ExecutorInit
<1>3. /\ step = [r \in Request |-> "new"] /\ chunk = [r \in Request |-> 0]
      /\ listed = {} /\ native = [r \in Request |-> "unseen"] /\ misused = {}
  BY DEF Init
<1>4. DriverTypes
  <2>1. /\ tasks \in Seq(Request) /\ batch \in Seq(Request) /\ count \in Nat
        /\ posting \in [Worker -> Request \cup {"none"}]
    BY <1>1
  <2>2. /\ looping \in BOOLEAN /\ deferred \in BOOLEAN /\ alive \in BOOLEAN /\ queued \in BOOLEAN
        /\ unspawned \subseteq Request /\ current \in Request \cup {"none"}
        /\ ready \subseteq Request /\ active \subseteq Request
    BY <1>1
  <2> QED BY <2>1, <2>2 DEF DriverTypes, Driver!TypeOK, Driver!None
<1>5. ExecTypes
  <2>1. [phase |-> "unborn", job |-> Exec!NoJob, wakes |-> {}]
           \in [phase : Exec!WorkerPhase, job : Job \cup {Exec!NoJob}, wakes : SUBSET Job]
    BY DEF Exec!WorkerPhase
  <2>2. worker \in [Worker -> [phase : Exec!WorkerPhase, job : Job \cup {Exec!NoJob}, wakes : SUBSET Job]]
    BY <1>2, <2>1
  <2>3. chan \in Seq(Job)
    BY <1>2
  <2>4. shut \in BOOLEAN
    BY <1>2
  <2> QED BY <1>2, <2>2, <2>3, <2>4 DEF ExecTypes, Exec!ExecutorTypeOK
<1>6. RequestTypes /\ Told /\ NativeProtocol
  BY <1>1, <1>3, RequestAssumption
     DEF RequestTypes, Told, Answering, Streaming, NativeProtocol, Steps, NativeState
<1>7. Rests /\ Kept /\ Slotted /\ Silenced
  BY <1>1, <1>2 DEF Rests, Kept, Slotted, Silenced
<1>8. Counted
  BY <1>1 DEF Counted
<1>9. Holding
  BY <1>3 DEF Holding
<1>10. Present /\ NoRequestStranded
  BY <1>3 DEF Present, NoRequestStranded
<1> QED BY <1>4, <1>5, <1>6, <1>7, <1>8, <1>9, <1>10 DEF RequestInv

LEMMA PollKeeps ==
  ASSUME RequestInv, NEW r \in Request, Poll(r)
  PROVE RequestInv'
BY PendingKeeps, AwaitingSteps, TellingSteps, NextChunkKeeps, DoneKeeps DEF Poll

LEMMA StepKeeps ==
  ASSUME RequestInv, [Next]_vars
  PROVE RequestInv'
<1>1. ASSUME NEW r \in Request, Start(r) \/ Stop(r) PROVE RequestInv'
  BY <1>1, StartAllKeeps, StopKeeps
<1>2. CASE Ui
  BY <1>2, LoopKeeps, PollKeeps, RefuseKeeps DEF Ui
<1>3. CASE DropDriver
  BY <1>3, DropDriverKeeps
<1>4. CASE CloseExecutor \/ UNCHANGED vars
  <2>1. UNCHANGED <<driverVars, requestVars>> /\ (UNCHANGED executorVars \/ Exec!ExecutorClose)
    BY <1>4 DEF CloseExecutor, vars
  <2>2. held' = held
    BY <2>1 DEF executorVars, Exec!ExecutorClose, Exec!slotVars
  <2> QED BY <2>1, <2>2, Parts, CloseKeeps, ExecutorOnly
<1>5. ASSUME NEW w \in Worker, Thread(w) \/ WorkPanics(w) PROVE RequestInv'
  <2>1. CASE Work(w) \/ WorkPanics(w)
    <3>1. UNCHANGED <<driverVars, requestVars>> /\ WorkerStep(w)
      BY <2>1 DEF Work, WorkPanics, WorkerStep
    <3> QED BY <3>1, Parts, WorkerKeeps, WorkerHolds, ExecutorOnly
  <2>2. CASE CallWaker(w)
    BY <2>2, CallWakerKeeps
  <2>3. CASE PostDrain(w)
    BY <2>3, LoopKeeps
  <2> QED BY <1>5, <2>1, <2>2, <2>3 DEF Thread
<1> QED BY <1>1, <1>2, <1>3, <1>4, <1>5 DEF Next

THEOREM RequestInvariant == Spec => []RequestInv
<1>1. RequestInv /\ [Next]_vars => RequestInv'
  BY StepKeeps
<1> QED BY <1>1, InitHolds, PTL DEF Spec

\* The refusals that have not returned
StackTypes == refusals \in Seq(Request) /\ beneath \in Nat

LEMMA StackHolds == Spec => []StackTypes
<1>1. Init => StackTypes
  BY DEF Init, StackTypes
<1>2. ASSUME StackTypes, [Next]_vars PROVE StackTypes'
  <2>1. CASE UNCHANGED stackVars
    BY <1>2, <2>1 DEF StackTypes, stackVars
  <2>2. ASSUME NEW r \in Request, refusals' = Append(refusals, r), beneath' = beneath
        PROVE StackTypes'
    BY <1>2, <2>2 DEF StackTypes
  <2>3. ASSUME refusals # <<>>, refusals' = Front(refusals), beneath' = beneath
        PROVE StackTypes'
    BY <1>2, <2>3 DEF StackTypes, Front
  <2>4. ASSUME UNCHANGED refusals, beneath' \in {beneath, Len(refusals)} PROVE StackTypes'
    BY <1>2, <2>4 DEF StackTypes
  <2>5. CASE \E r \in Request : Start(r)
    BY <2>1, <2>2, <2>5 DEF Start, StartRefused
  <2>6. CASE \E r \in Request : Refuse(r)
    BY <2>1, <2>3, <2>6 DEF Refuse, RefusalData, RefusalFinish, RefusalReturns, Innermost
  <2>7. CASE DrainMain
    BY <2>4, <2>7 DEF DrainMain
  <2>8. CASE \E r \in Request : Stop(r) \/ Poll(r)
    BY <2>1, <2>8 DEF Stop, Poll, AwaitPending, AwaitAnswer, HeadBytes, HeadFile, SendBytes,
         SendFinish, NotLive, NextChunk, ChunkRefused, ChunkRead, ChunkLost, PollDone, requestVars
  <2>9. CASE VisitMain \/ DropDriver \/ CloseExecutor \/ \E w \in Worker : Thread(w) \/ WorkPanics(w)
    BY <2>1, <2>9 DEF VisitMain, DropDriver, CloseExecutor, Thread, Work, CallWaker, PostDrain,
         WorkPanics, requestVars
  <2>10. CASE UNCHANGED vars
    BY <2>1, <2>10 DEF vars, requestVars
  <2> QED BY <1>2, <2>5, <2>6, <2>7, <2>8, <2>9, <2>10 DEF Next, Ui
<1> QED BY <1>1, <1>2, PTL DEF Spec

\* The driver, the executor and the requests keep to their types: the number
\* of futures the driver counts (native_tasks.rs count) never goes below zero.
THEOREM RequestTypesHold == Spec => []TypeOK
<1>1. RequestInv /\ StackTypes => TypeOK
  BY DEF RequestInv, DriverTypes, ExecTypes, RequestTypes, StackTypes, TypeOK
<1> QED BY <1>1, RequestInvariant, StackHolds, PTL

\* Response, data and end reach every WebKit task in that order, and none after
\* it was stopped (macos/response.rs is_live, scheme.rs live flag) unless the
\* request is being refused (send_response), for any number of requests,
\* workers and chunks, and whatever WebKit does in its calls.
THEOREM ProtocolKept == Spec => []NativeProtocol
<1>1. RequestInv => NativeProtocol
  BY DEF RequestInv
<1> QED BY <1>1, RequestInvariant, PTL

\* A request that still wants its answer is being polled, has a drain or a
\* waker coming, or its job is still to end (native_tasks.rs deferred_drain,
\* execution.rs JobCompletion): no wake-up is lost, also when the executor
\* closes or its threads die.
THEOREM NobodyStranded == Spec => []NoRequestStranded
<1>1. RequestInv => NoRequestStranded
  BY DEF RequestInv
<1> QED BY <1>1, RequestInvariant, PTL
=============================================================================
