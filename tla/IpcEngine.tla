------------------------------ MODULE IpcEngine ------------------------------
(***************************************************************************)
(* The host half of the desktop application IPC of one window:             *)
(* crates/webui-desktop/src/ipc/{engine,session,bridge}.rs.                *)
(*                                                                         *)
(* All shared state lives in Core.state, a mutex.  Application threads,    *)
(* the worker pool, the deadline thread, the native event loop and the     *)
(* threads that carry the renderer's POSTs and GETs take turns on it, so   *)
(* one action is one critical section together with the thread-local work  *)
(* that commutes with every other thread; what a thread still has to do    *)
(* after unlocking (settle a call, say) is kept in a variable and is an    *)
(* action of its own.  The trailing calls of signal(), and the fields it   *)
(* and its counterparts use (ready, wake_pending, closed_control, waker,   *)
(* drain_inflight), guard no step of this module; IpcWake models them over *)
(* IpcOutbox, the abstraction that this module is shown to implement.      *)
(*                                                                         *)
(* Abstractions.  Payloads, method tables and error texts are dropped; a   *)
(* check on them that may fail is a choice.  Time is dropped: a deadline   *)
(* may pass at any moment, and the deadline thread may fire for any entry  *)
(* that is still present (firing for an absent one changes nothing).       *)
(* Error codes are dropped: a call resolves to a value or to an error.     *)
(* Byte counts are in units: a data frame or a large reply weighs one,     *)
(* any other control frame none.  Admission (IpcAdmission) is one step,    *)
(* Admit; AbortHandle::abort() is not represented, because every caller    *)
(* removes the table entry first and a task without its entry ends with    *)
(* the same state whether it is aborted or runs on (FinishLocal).          *)
(***************************************************************************)
EXTENDS Integers, Sequences, FiniteSets

CONSTANTS
  MaxGeneration,  \* bound: documents admitted in the window's life
  MaxLocalId,     \* u64::MAX of Document.next_id: the id never handed out
  MaxPeerId,      \* bound: ids the renderer uses for its invocations
  Kinds,          \* MethodKinds the host invokes, a subset of MethodKind
  Posters,        \* concurrent POST submissions
  ControlFrames,  \* limits.reserved_control_frames_per_direction
  MaxPending,     \* limits.max_pending_calls_per_direction
  MaxNotify,      \* limits.max_outstanding_notifications_per_direction
  MaxFrames,      \* limits.max_queued_frames_per_direction
  MaxBytes        \* limits.max_queued_bytes_per_direction, in units

MethodKind == {"rpc", "notification"}

ASSUME EngineAssumption ==
  /\ MaxGeneration \in Nat /\ MaxLocalId \in Nat \ {0} /\ MaxPeerId \in Nat
  /\ Kinds \subseteq MethodKind
  /\ ControlFrames \in Nat /\ MaxPending \in Nat /\ MaxNotify \in Nat
  /\ MaxFrames \in Nat /\ MaxBytes \in Nat

VARIABLES
  \* --- State ---
  closed,         \* State.closed: terminal shutdown
  admitted,       \* State.admitted: this navigation consumed its admission
  generation,     \* State.generation: documents admitted so far
  live,           \* State.document.is_some(); its fields follow
  \* --- Document, all reset when it is taken ---
  nextId,         \* next_id
  lastPeerId,     \* last_peer_id
  pending,        \* keys of Document.pending
  sent,           \* the pending entries with sent = true
  incoming,       \* keys of Document.incoming
  queue,          \* Document.queue
  dataFrames,     \* data_frames
  dataBytes,      \* data_bytes, in units
  controlSlots,   \* control_slots
  wireId,         \* the last invocation id popped from queue (ghost)
  \* --- threads and tasks, by generation and id ---
  task,           \* the worker task of an outgoing call
  kind,           \* its MethodKind
  reply,          \* what its reply channel holds
  outcome,        \* the result its task computed
  failing,        \* calls whose canceller still has to deliver the error
  settled,        \* what the caller's future resolved to
  handlers,       \* running request handlers
  accepting,      \* notification tasks that have yet to acknowledge
  answers,        \* completions enqueued per renderer invocation (history)
  revoked,        \* invocations the renderer cancelled in time (history)
  post,           \* each poster's progress through submit()
  exhausting      \* a thread found next_id spent and is about to retire

stateVars == <<closed, admitted, generation, live>>
idVars == <<nextId, lastPeerId>>
tableVars == <<pending, sent, incoming>>
queueVars == <<queue, dataFrames, dataBytes, wireId>>
callVars == <<task, kind, reply, outcome, failing, settled, exhausting>>
peerVars == <<handlers, accepting, answers, revoked>>
vars == <<stateVars, idVars, tableVars, queueVars, controlSlots, callVars,
          peerVars, post>>

Generations == 1 .. MaxGeneration
LocalIds == 1 .. MaxLocalId - 1
PeerIds == 1 .. MaxPeerId
Calls == Generations \X LocalIds
PeerCalls == Generations \X PeerIds

InvocationKind == {"request", "notify"}
ReplyKind == {"result", "error", "accept"}
\* Queued: its kind and id, Queued.control, and whether it weighs on dataBytes
Frame == [kind : InvocationKind \cup ReplyKind \cup {"cancel"},
          id : Nat, control : BOOLEAN, charged : BOOLEAN]
Outcome == {"none", "value", "error"}
\* A POST on its way: idle, authenticated, or its invocation's id consumed
PostState == [stage : {"idle", "authenticated"}, gen : Nat, kind : {"none"},
              id : {0}]
             \cup [stage : {"invoked"}, gen : Nat, kind : InvocationKind,
                   id : PeerIds]
IdlePost == [stage |-> "idle", gen |-> 0, kind |-> "none", id |-> 0]

Init ==
  /\ closed = FALSE /\ admitted = FALSE /\ generation = 0 /\ live = FALSE
  /\ nextId = 1 /\ lastPeerId = 0
  /\ pending = {} /\ sent = {} /\ incoming = {}
  /\ queue = <<>> /\ dataFrames = 0 /\ dataBytes = 0
  /\ wireId = 0 /\ controlSlots = 0
  /\ task = [c \in Calls |-> "none"] /\ kind = [c \in Calls |-> "rpc"]
  /\ reply = [c \in Calls |-> "none"] /\ outcome = [c \in Calls |-> "none"]
  /\ failing = {} /\ settled = [c \in Calls |-> "none"]
  /\ exhausting = FALSE
  /\ handlers = {} /\ accepting = {}
  /\ answers = [c \in PeerCalls |-> 0] /\ revoked = {}
  /\ post = [p \in Posters |-> IdlePost]

-----------------------------------------------------------------------------
(* Core helpers *)

\* Mutant of Document: the generation is not compared.
AnyDocument(g) == ~closed /\ live

\* Core::document: the document of generation g, if it is the current one
Document(g) == ~closed /\ live /\ generation = g

\* The table entries a task of call or request c may still find
HasEntry(c) == Document(c[1]) /\ c[2] \in pending
IsOpen(c) == Document(c[1]) /\ c[2] \in incoming

\* The pending calls of one kind, and that kind's cap
PendingOf(k) == {i \in pending : kind[<<generation, i>>] = k}
Cap(k) == IF k = "rpc" THEN MaxPending ELSE MaxNotify

\* Core::reservation: a slot for the completion or cancellation to come
CanReserve == controlSlots < ControlFrames

\* Core::enqueue_data's limits and effect
CanEnqueueData == dataFrames < MaxFrames /\ dataBytes < MaxBytes
EnqueueData(k, i) ==
  /\ queue' = Append(queue, [kind |-> k, id |-> i,
                             control |-> FALSE, charged |-> TRUE])
  /\ dataFrames' = dataFrames + 1
  /\ dataBytes' = dataBytes + 1
  /\ UNCHANGED wireId

\* Core::enqueue_control: the frame takes over a reserved slot.  A large
\* reply is charged to the data bytes when it fits there ("large"); else, or
\* when the shared budget is spent, a small error replaces it ("refused").
Weights == {"small", "large", "refused"}
EnqueueControl(k, i, weight) ==
  /\ weight = "large" => dataBytes < MaxBytes
  /\ queue' = Append(queue, [kind |-> IF weight = "refused" THEN "error" ELSE k,
                             id |-> i, control |-> TRUE,
                             charged |-> weight = "large"])
  /\ dataBytes' = IF weight = "large" THEN dataBytes + 1 ELSE dataBytes
  /\ UNCHANGED <<dataFrames, wireId>>

\* Mutant of Abandoned: only calls that reached the wire are failed.
AbandonedSent == {c \in Calls : c[1] = generation /\ c[2] \in sent}

\* The calls whose entries go with the document
Abandoned == {c \in Calls : c[1] = generation /\ c[2] \in pending}

\* Core::retire_matching once its guards have passed: the document is taken
\* and its pending calls are owed an error.  The callers add what differs: the
\* trailing signal(), unless terminal, and what a navigation resets.
Retire(terminal) ==
  /\ closed' = terminal
  /\ live' = FALSE
  /\ failing' = failing \cup Abandoned
  /\ nextId' = 1 /\ lastPeerId' = 0
  /\ pending' = {} /\ sent' = {} /\ incoming' = {}
  /\ queue' = <<>> /\ dataFrames' = 0 /\ dataBytes' = 0
  /\ wireId' = 0 /\ controlSlots' = 0
  /\ UNCHANGED <<generation, task, kind, reply, outcome, settled, peerVars,
                 post>>

-----------------------------------------------------------------------------
(* Window lifecycle *)

\* Mutant of Admit: a document that disconnected is admitted again.
AdmitAgain ==
  /\ ~closed /\ ~live /\ generation < MaxGeneration
  /\ admitted' = TRUE /\ live' = TRUE /\ generation' = generation + 1
  /\ UNCHANGED <<closed, idVars, tableVars, queueVars, controlSlots,
                 callVars, peerVars, post>>

\* A document is admitted: at most one per navigation, never after close.
Admit ==
  /\ ~closed /\ ~admitted /\ generation < MaxGeneration
  /\ admitted' = TRUE /\ live' = TRUE /\ generation' = generation + 1
  /\ UNCHANGED <<closed, idVars, tableVars, queueVars, controlSlots,
                 callVars, peerVars, post>>

\* IpcBridge::navigate with a newer identity (an older one is ignored; one
\* that finds nothing admitted changes nothing here).
Navigate ==
  /\ ~closed /\ admitted
  /\ Retire(FALSE)
  /\ admitted' = FALSE
  /\ UNCHANGED exhausting

\* disconnect_authenticated with the current document's own credentials (any
\* other generation or token is refused without a state change).
Disconnect ==
  /\ ~closed /\ live
  /\ Retire(FALSE)
  /\ UNCHANGED <<admitted, exhausting>>

\* IpcBridge::close, IpcWindowOwner::close and its drop
Close ==
  /\ ~closed
  /\ Retire(TRUE)
  /\ UNCHANGED <<admitted, exhausting>>

-----------------------------------------------------------------------------
(* Calls and notifications the host sends: IpcSession::start *)

\* Mutant of IdLeft: the last value of the counter is handed out as well.
IdLeftInclusive == nextId <= MaxLocalId

\* prepare's check that next_id can still be advanced
IdLeft == nextId < MaxLocalId

\* IpcSession::prepare, for a session of the current document: an id, a slot
\* for its cancellation, a place behind the previous call.  (Its failures
\* return before any state changes and settle the call at once.)
Prepare(k) ==
  LET c == <<generation, nextId>> IN
  /\ Document(generation)
  /\ IdLeft
  /\ Cardinality(PendingOf(k)) < Cap(k)
  /\ CanReserve
  /\ controlSlots' = controlSlots + 1
  /\ nextId' = nextId + 1
  /\ pending' = pending \cup {nextId}
  /\ task' = [task EXCEPT ![c] = "gate"]
  /\ kind' = [kind EXCEPT ![c] = k]
  /\ UNCHANGED <<stateVars, lastPeerId, sent, incoming, queueVars, reply,
                 outcome, failing, settled, exhausting, peerVars, post>>

\* prepare finds the ids spent: it unlocks, then retires the document that
\* is current when it locks again.
FindExhausted ==
  /\ Document(generation) /\ ~IdLeft /\ ~exhausting
  /\ exhausting' = TRUE
  /\ UNCHANGED <<stateVars, idVars, tableVars, queueVars, controlSlots, task,
                 kind, reply, outcome, failing, settled, peerVars, post>>

RetireExhausted ==
  /\ exhausting /\ exhausting' = FALSE
  /\ \/ /\ ~closed
        /\ Retire(FALSE)
        /\ UNCHANGED admitted
     \/ /\ closed
        /\ UNCHANGED <<stateVars, idVars, tableVars, queueVars, controlSlots,
                       task, kind, reply, outcome, failing, settled,
                       peerVars, post>>

\* Mutant of GateOpen: cancelling a waiting call also drops its gate.
GateOpenOrCancelled(c) ==
  \A d \in Calls : d[1] = c[1] /\ d[2] + 1 = c[2] =>
    task[d] # "gate" \/ ~HasEntry(d)

\* work.previous: the sender a predecessor's task drops after send_request,
\* or when the task ends; a cancelled task keeps it while it waits itself.
GateOpen(c) ==
  \A d \in Calls : d[1] = c[1] /\ d[2] + 1 = c[2] => task[d] # "gate"

\* send_request queues the frame and marks the entry sent.
SendRequest(c) ==
  /\ task[c] = "gate" /\ GateOpen(c)
  /\ HasEntry(c)
  /\ CanEnqueueData
  /\ EnqueueData(IF kind[c] = "rpc" THEN "request" ELSE "notify", c[2])
  /\ sent' = sent \cup {c[2]}
  /\ task' = [task EXCEPT ![c] = "reply"]
  /\ UNCHANGED <<stateVars, idVars, pending, incoming, controlSlots, kind,
                 reply, outcome, failing, settled, exhausting, peerVars,
                 post>>

\* send_request fails: the payload is refused, the deadline has passed, the
\* queue is full, or the entry or its document is gone.
SendRequestFails(c) ==
  /\ task[c] = "gate" /\ GateOpen(c)
  /\ outcome' = [outcome EXCEPT ![c] = "error"]
  /\ task' = [task EXCEPT ![c] = "finish"]
  /\ UNCHANGED <<stateVars, idVars, tableVars, queueVars, controlSlots, kind,
                 reply, failing, settled, exhausting, peerVars, post>>

\* The reply channel yields: the renderer's answer (a value may still fail
\* to decode), or nothing because its sender went away with the entry.
ReceiveReply(c) ==
  /\ task[c] = "reply"
  /\ \/ /\ reply[c] # "none"
        /\ \E o \in {reply[c], "error"} : outcome' = [outcome EXCEPT ![c] = o]
     \/ /\ reply[c] = "none"
        /\ ~HasEntry(c)
        /\ outcome' = [outcome EXCEPT ![c] = "error"]
  /\ task' = [task EXCEPT ![c] = "finish"]
  /\ UNCHANGED <<stateVars, idVars, tableVars, queueVars, controlSlots, kind,
                 reply, failing, settled, exhausting, peerVars, post>>

\* Removing the entry from the table frees its slot.
DropEntry(c) ==
  /\ pending' = pending \ {c[2]}
  /\ sent' = sent \ {c[2]}
  /\ controlSlots' = controlSlots - 1

\* Mutant of TakeOwnership: the task settles although its entry is gone.
AssumeOwnership(c) ==
  /\ IF HasEntry(c) THEN DropEntry(c)
                    ELSE UNCHANGED <<pending, sent, controlSlots>>
  /\ task' = [task EXCEPT ![c] = "owner"]
  /\ UNCHANGED outcome

\* finish_local: whoever removes the entry owns the settlement; a result
\* that came too late is replaced by an error.
TakeOwnership(c) ==
  IF HasEntry(c)
  THEN /\ DropEntry(c)
       /\ task' = [task EXCEPT ![c] = "owner"]
       /\ \E o \in {outcome[c], "error"} : outcome' = [outcome EXCEPT ![c] = o]
  ELSE /\ task' = [task EXCEPT ![c] = "end"]
       /\ outcome' = [outcome EXCEPT ![c] = "none"]
       /\ UNCHANGED <<pending, sent, controlSlots>>

FinishLocal(c) ==
  /\ task[c] = "finish"
  /\ TakeOwnership(c)
  /\ UNCHANGED <<stateVars, idVars, incoming, queueVars, kind, reply,
                 failing, settled, exhausting, peerVars, post>>

\* The caller's future resolves: output.take().send(r), by at most one party
Resolve(c, r) ==
  settled' = [settled EXCEPT ![c] = IF settled[c] = "none" THEN r ELSE @]

\* The task that owns the settlement delivers its result.
SettleResult(c) ==
  /\ task[c] = "owner"
  /\ Resolve(c, outcome[c])
  /\ task' = [task EXCEPT ![c] = "end"]
  /\ outcome' = [outcome EXCEPT ![c] = "none"]
  /\ UNCHANGED <<stateVars, idVars, tableVars, queueVars, controlSlots, kind,
                 reply, failing, exhausting, peerVars, post>>

\* The `failure` closure, run by the canceller after it unlocked
SettleFailure(c) ==
  /\ c \in failing
  /\ Resolve(c, "error")
  /\ failing' = failing \ {c}
  /\ UNCHANGED <<stateVars, idVars, tableVars, queueVars, controlSlots, task,
                 kind, reply, outcome, exhausting, peerVars, post>>

\* Mutant of WithdrawEntry: the frame is queued and the slot freed as well.
WithdrawTwice(c) ==
  IF c[2] \in sent
  THEN EnqueueControl("cancel", c[2], "small") /\ DropEntry(c)
  ELSE DropEntry(c) /\ UNCHANGED queueVars

\* A call that reached the wire turns its slot into a Cancel frame.
WithdrawEntry(c) ==
  IF c[2] \in sent
  THEN /\ EnqueueControl("cancel", c[2], "small")
       /\ pending' = pending \ {c[2]} /\ sent' = sent \ {c[2]}
       /\ UNCHANGED controlSlots
  ELSE DropEntry(c) /\ UNCHANGED queueVars

\* Core::cancel_local: by IpcCall::cancel or drop, or by the deadline thread
CancelLocal(c) ==
  /\ HasEntry(c)
  /\ WithdrawEntry(c)
  /\ failing' = failing \cup {c}
  /\ UNCHANGED <<stateVars, idVars, incoming, task, kind, reply, outcome,
                 settled, exhausting, peerVars, post>>

-----------------------------------------------------------------------------
(* What the renderer sends: submit() for POST /_webui/ipc *)

SetPost(p, stage, g, k, i) ==
  post' = [post EXCEPT ![p] = [stage |-> stage, gen |-> g, kind |-> k, id |-> i]]

\* authenticate: a critical section of its own, before the frame is decoded
Authenticate(p) ==
  /\ post[p].stage = "idle"
  /\ Document(generation)
  /\ SetPost(p, "authenticated", generation, "none", 0)
  /\ UNCHANGED <<stateVars, idVars, tableVars, queueVars, controlSlots,
                 callVars, peerVars>>

\* Every refusal: an HTTP error (stale document, invalid frame, spent
\* budget) or a stale reply or cancellation that is only counted.
PostIgnored(p) ==
  /\ post[p].stage # "idle"
  /\ post' = [post EXCEPT ![p] = IdlePost]
  /\ UNCHANGED <<stateVars, idVars, tableVars, queueVars, controlSlots,
                 callVars, peerVars>>

\* dispatch of Kind::Cancel for a request that is still open
PostCancel(p, i) ==
  /\ post[p].stage = "authenticated" /\ Document(post[p].gen)
  /\ i \in incoming
  /\ incoming' = incoming \ {i}
  /\ controlSlots' = controlSlots - 1
  /\ revoked' = revoked \cup {<<generation, i>>}
  /\ post' = [post EXCEPT ![p] = IdlePost]
  /\ UNCHANGED <<stateVars, idVars, pending, sent, queueVars, callVars,
                 handlers, accepting, answers>>

\* reply: the first Result, Error or Accept of the right kind for a sent call
PostReply(p, i, k) ==
  LET c == <<generation, i>> IN
  /\ post[p].stage = "authenticated" /\ Document(post[p].gen)
  /\ i \in pending /\ i \in sent /\ reply[c] = "none"
  /\ k = "accept" => kind[c] = "notification"
  /\ k = "result" => kind[c] = "rpc"
  /\ reply' = [reply EXCEPT ![c] = IF k = "error" THEN "error" ELSE "value"]
  /\ post' = [post EXCEPT ![p] = IdlePost]
  /\ UNCHANGED <<stateVars, idVars, tableVars, queueVars, controlSlots, task,
                 kind, outcome, failing, settled, exhausting, peerVars>>

\* Mutant of Fresh: the last id is accepted again.
NotOlder(i) == i >= lastPeerId

\* invoke's check that the renderer's ids increase
Fresh(i) == i > lastPeerId

\* invoke of a permitted method: the id is consumed, the rest follows in
\* another critical section
PostInvoke(p, i, k) ==
  /\ post[p].stage = "authenticated" /\ Document(post[p].gen)
  /\ Fresh(i)
  /\ lastPeerId' = i
  /\ SetPost(p, "invoked", post[p].gen, k, i)
  /\ UNCHANGED <<stateVars, nextId, tableVars, queueVars, controlSlots,
                 callVars, peerVars>>

\* invoke of a method that is not allowed: the id is consumed and answered
\* with an error frame, if a slot is left for it
PostDenied(p, i) ==
  /\ post[p].stage = "authenticated" /\ Document(post[p].gen)
  /\ Fresh(i)
  /\ lastPeerId' = i
  /\ post' = [post EXCEPT ![p] = IdlePost]
  /\ IF CanReserve
     THEN /\ controlSlots' = controlSlots + 1
          /\ EnqueueControl("error", i, "small")
          /\ answers' = [answers EXCEPT ![<<generation, i>>] = @ + 1]
     ELSE UNCHANGED <<controlSlots, queueVars, answers>>
  /\ UNCHANGED <<stateVars, nextId, tableVars, callVars, handlers, accepting,
                 revoked>>

\* request: the second critical section, and the handler task it spawns
ServeRequest(p) ==
  /\ post[p].stage = "invoked" /\ post[p].kind = "request"
  /\ Document(post[p].gen)
  /\ Cardinality(incoming) < MaxPending
  /\ CanReserve
  /\ controlSlots' = controlSlots + 1
  /\ incoming' = incoming \cup {post[p].id}
  /\ handlers' = handlers \cup {<<generation, post[p].id>>}
  /\ post' = [post EXCEPT ![p] = IdlePost]
  /\ UNCHANGED <<stateVars, idVars, pending, sent, queueVars, callVars,
                 accepting, answers, revoked>>

\* A request leaves the table and its slot becomes the answer's frame.
Answer(c, k, weight) ==
  /\ incoming' = incoming \ {c[2]}
  /\ EnqueueControl(k, c[2], weight)
  /\ answers' = [answers EXCEPT ![c] = @ + 1]

\* complete_incoming, after the handler returned: only if the entry is left
CompleteIncoming(c) ==
  /\ c \in handlers
  /\ handlers' = handlers \ {c}
  /\ IF IsOpen(c)
     THEN \/ \E w \in Weights : Answer(c, "result", w)
          \/ Answer(c, "error", "small")
     ELSE UNCHANGED <<incoming, queueVars, answers>>
  /\ UNCHANGED <<stateVars, idVars, pending, sent, controlSlots, callVars,
                 accepting, revoked, post>>

\* Mutant of TimeoutIncoming: a running handler is waited for.
TimeoutIdle(c) ==
  /\ IsOpen(c) /\ c \notin handlers
  /\ Answer(c, "error", "small")
  /\ UNCHANGED <<stateVars, idVars, pending, sent, controlSlots, callVars,
                 handlers, accepting, revoked, post>>

\* Core::timeout of an incoming request
TimeoutIncoming(c) ==
  /\ IsOpen(c)
  /\ Answer(c, "error", "small")
  /\ UNCHANGED <<stateVars, idVars, pending, sent, controlSlots, callVars,
                 handlers, accepting, revoked, post>>

\* notify: the critical section that reserves the acknowledgement.  (Its
\* permit is released here with the acknowledgement already; IpcNotify keeps
\* it until the callbacks exit.)
ServeNotify(p) ==
  /\ post[p].stage = "invoked" /\ post[p].kind = "notify"
  /\ Document(post[p].gen)
  /\ Cardinality({c \in accepting : c[1] = generation}) < MaxNotify
  /\ CanReserve
  /\ controlSlots' = controlSlots + 1
  /\ accepting' = accepting \cup {<<generation, post[p].id>>}
  /\ post' = [post EXCEPT ![p] = IdlePost]
  /\ UNCHANGED <<stateVars, idVars, tableVars, queueVars, callVars, handlers,
                 answers, revoked>>

\* The notification task acknowledges, or refuses an invalid payload.
Acknowledge(c) ==
  /\ c \in accepting
  /\ accepting' = accepting \ {c}
  /\ IF Document(c[1])
     THEN /\ \E k \in {"accept", "error"} : EnqueueControl(k, c[2], "small")
          /\ answers' = [answers EXCEPT ![c] = @ + 1]
     ELSE UNCHANGED <<queueVars, answers>>
  /\ UNCHANGED <<stateVars, idVars, tableVars, controlSlots, callVars,
                 handlers, revoked, post>>

-----------------------------------------------------------------------------
(* What the renderer pulls *)

\* The data bytes a frame was charged
Weight(f) == IF f.charged THEN 1 ELSE 0

\* drain pops one frame and gives back what it held.  (IpcWake adds how the
\* renderer learns that it should pull, and that one GET is in flight.)
Drain ==
  LET f == Head(queue) IN
  /\ Document(generation) /\ queue # <<>>
  /\ queue' = Tail(queue)
  /\ controlSlots' = IF f.control THEN controlSlots - 1 ELSE controlSlots
  /\ dataFrames' = IF f.control THEN dataFrames ELSE dataFrames - 1
  /\ dataBytes' = dataBytes - Weight(f)
  /\ wireId' = IF f.kind \in InvocationKind THEN f.id ELSE wireId
  /\ UNCHANGED <<stateVars, idVars, tableVars, callVars, peerVars, post>>

-----------------------------------------------------------------------------
CallStep(c) ==
  \/ SendRequest(c) \/ SendRequestFails(c) \/ ReceiveReply(c)
  \/ FinishLocal(c) \/ SettleResult(c) \/ SettleFailure(c)
  \/ CancelLocal(c)

PostStep(p) ==
  \/ Authenticate(p) \/ PostIgnored(p)
  \/ \E i \in LocalIds, k \in ReplyKind : PostReply(p, i, k)
  \/ \E i \in PeerIds : PostCancel(p, i) \/ PostDenied(p, i)
  \/ \E i \in PeerIds, k \in InvocationKind : PostInvoke(p, i, k)
  \/ ServeRequest(p) \/ ServeNotify(p)

Next ==
  \/ Admit \/ Navigate \/ Disconnect \/ Close
  \/ \E k \in Kinds : Prepare(k)
  \/ FindExhausted \/ RetireExhausted
  \/ \E c \in Calls : CallStep(c)
  \/ \E p \in Posters : PostStep(p)
  \/ \E c \in PeerCalls :
       CompleteIncoming(c) \/ TimeoutIncoming(c) \/ Acknowledge(c)
  \/ Drain

\* Only the deadline thread, and a thread that has taken a settlement upon
\* itself, are assumed to make progress: workers may block in user code, the
\* renderer may hang, the native loop may stop.
Fairness ==
  /\ \A c \in Calls : /\ WF_vars(CancelLocal(c))
                      /\ WF_vars(SettleResult(c)) /\ WF_vars(SettleFailure(c))
  /\ \A c \in PeerCalls : WF_vars(TimeoutIncoming(c))

Spec == Init /\ [][Next]_vars
FairSpec == Spec /\ Fairness
-----------------------------------------------------------------------------
(* Properties *)

TypeOK ==
  /\ closed \in BOOLEAN /\ admitted \in BOOLEAN /\ live \in BOOLEAN
  /\ generation \in 0 .. MaxGeneration
  /\ nextId \in 1 .. MaxLocalId /\ lastPeerId \in 0 .. MaxPeerId
  /\ pending \in SUBSET LocalIds /\ sent \in SUBSET LocalIds
  /\ incoming \in SUBSET PeerIds
  /\ live => generation \in Generations
  /\ queue \in Seq(Frame) /\ dataFrames \in Int /\ dataBytes \in Int
  /\ wireId \in Nat /\ controlSlots \in Int
  /\ task \in [Calls -> {"none", "gate", "reply", "finish", "owner", "end"}]
  /\ kind \in [Calls -> MethodKind]
  /\ reply \in [Calls -> {"none", "value", "error"}]
  /\ outcome \in [Calls -> Outcome] /\ failing \in SUBSET Calls
  /\ settled \in [Calls -> Outcome] /\ exhausting \in BOOLEAN
  /\ handlers \in SUBSET PeerCalls /\ accepting \in SUBSET PeerCalls
  /\ answers \in [PeerCalls -> Nat] /\ revoked \in SUBSET PeerCalls
  /\ post \in [Posters -> PostState]

\* The table entry of an outgoing call, and of an accepted request
InTable(c) == live /\ generation = c[1] /\ c[2] \in pending
Open(c) == live /\ generation = c[1] /\ c[2] \in incoming
Accepting == {c \in accepting : c[1] = generation}
ControlQueued == {n \in DOMAIN queue : queue[n].control}
DataQueued == {n \in DOMAIN queue : ~queue[n].control}
ChargedQueued == {n \in DOMAIN queue : queue[n].charged}

\* Every reserved control slot has exactly one holder (a pending call, an
\* open request, a notification about to be acknowledged, or a queued control
\* frame), so completions and cancellations always find their slot, and the
\* control part of the queue stays within its reserve.
SlotAccounting ==
  live => /\ controlSlots = Cardinality(pending) + Cardinality(incoming)
                            + Cardinality(Accepting)
                            + Cardinality(ControlQueued)
          /\ controlSlots <= ControlFrames

\* data_frames and data_bytes are what the queue holds: enqueue_data and
\* enqueue_control charge exactly what drain gives back (an unsigned
\* subtraction), and neither exceeds its limit.
QueueAccounting ==
  /\ dataFrames = Cardinality(DataQueued) /\ dataFrames <= MaxFrames
  /\ dataBytes = Cardinality(ChargedQueued) /\ dataBytes <= MaxBytes

\* Nothing leaks from the budgets of a document and nothing is given back
\* twice, whichever path ends a call, a request or a frame: a leak ends in
\* permanent Overloaded, a second release in an underflow (engine.rs, bridge.rs).
Accounting == SlotAccounting /\ QueueAccounting

IsInvocation(f) == f.kind \in InvocationKind

\* Invocations leave in the order of their ids although workers encode them
\* in parallel: the renderer refuses an id that is not above the last one.  A
\* Cancel frame never overtakes the invocation it cancels.
WireOrder ==
  /\ \A m, n \in DOMAIN queue :
       /\ m < n /\ IsInvocation(queue[m]) /\ IsInvocation(queue[n])
       => queue[m].id < queue[n].id
  /\ \A n \in DOMAIN queue : IsInvocation(queue[n]) => wireId < queue[n].id
  /\ \A n \in DOMAIN queue : queue[n].kind = "cancel" =>
       \/ queue[n].id <= wireId
       \/ \E m \in DOMAIN queue :
            m < n /\ IsInvocation(queue[m]) /\ queue[m].id = queue[n].id

Owners == {"table", "canceller", "task", "settled"}
Owns(o, c) ==
  \/ o = "table" /\ InTable(c)
  \/ o = "canceller" /\ c \in failing
  \/ o = "task" /\ task[c] = "owner"
  \/ o = "settled" /\ settled[c] # "none"

\* At every moment exactly one party may settle a started call: the table
\* (whoever removes the entry next), a canceller, its task, or nobody any
\* more because it is settled.  So it is settled once, by the party that
\* removed the entry, and a dropped reply channel never answers for it.
OneOwner ==
  \A c \in Calls : task[c] # "none" =>
    \E o \in Owners : \A q \in Owners : Owns(q, c) <=> q = o

\* A renderer invocation is answered at most once, whatever the race between
\* its handler, its deadline, its cancellation and its document's end, and
\* not at all once its cancellation was honoured.
AnsweredOnce ==
  \A c \in PeerCalls :
    /\ answers[c] <= 1
    /\ (c \in revoked \/ Open(c) \/ (live /\ c \in Accepting)) => answers[c] = 0

\* An accepted request leaves the table only answered, cancelled by the
\* renderer, or with its document: a task of another document never takes it.
OpenUntilAnswered ==
  [][\A c \in PeerCalls :
       Open(c) /\ ~Open(c)' =>
         answers'[c] = 1 \/ c \in revoked' \/ ~live']_vars

\* Seen from outside, the engine is IpcOutbox: one admission per navigation,
\* frames queued and popped one at a time and only for a live document, all
\* of them discarded with it.
Outbox == INSTANCE IpcOutbox WITH length <- Len(queue)
ImplementsOutbox == Outbox!Spec

\* Every started call settles, without help from workers or the renderer.
CallSettles == \A c \in Calls : task[c] # "none" ~> settled[c] # "none"

\* Every accepted request is resolved even if its handler never returns.
RequestResolves == \A c \in PeerCalls : Open(c) ~> ~Open(c)
=============================================================================
