--------------------------- MODULE PageConnection ---------------------------
(***************************************************************************)
(* The page's half of the desktop IPC once it is connected: the call and   *)
(* handler tables (packages/webui-desktop/src/connection.ts), the          *)
(* serialised POST queue with its control reserve (queue.ts), the byte     *)
(* ledger (budget.ts) and the sending side of the transport (transport.ts).*)
(*                                                                         *)
(* A step is a turn of the page's event loop.  The pump of the queue runs  *)
(* inside the turn that fills an idle queue, and a rejected control frame  *)
(* fails the connection in a microtask of its turn: both are actions here, *)
(* and no other turn begins while one of them is due (TurnOver).           *)
(*                                                                         *)
(* Abstractions.  Payloads, methods and error texts are dropped; a check   *)
(* that may fail is a choice.  A deadline may pass at any moment.  A data  *)
(* frame and an admitted invocation weigh one unit of the ledger each; the *)
(* pump's scratch space is refused by choice.  All callbacks of an event   *)
(* are one.  Connecting (start, and frames that come early) is left out.   *)
(***************************************************************************)
EXTENDS Integers, Sequences, FiniteSets

CONSTANTS
  MaxId,          \* bound: ids of the page's own invocations, 2^64 - 1
  MaxHostId,      \* bound: ids the host uses for its invocations
  ControlFrames,  \* limits.reservedControlFramesPerDirection
  MaxPending,     \* limits.maxPendingCallsPerDirection
  MaxNotify,      \* limits.maxOutstandingNotificationsPerDirection
  MaxFrames,      \* limits.maxQueuedFramesPerDirection
  MaxCallbacks,   \* limits.maxCallbackTasksPerDocument
  MaxInput,       \* limits.maxAdmittedInputBytesPerFrame, in units
  MaxRetained     \* limits.maxRetainedBytesPerFrame, in units

ASSUME PageAssumption ==
  /\ MaxId \in Nat /\ MaxHostId \in Nat /\ ControlFrames \in Nat
  /\ MaxPending \in Nat /\ MaxNotify \in Nat /\ MaxFrames \in Nat
  /\ MaxCallbacks \in Nat /\ MaxInput \in Nat /\ MaxRetained \in Nat

VARIABLES
  failure,        \* Connection.failure, with those of its queue and transport
  doomed,         \* why a control frame was just refused, "no" if none was
  nextId, pending, kind,
  sent,           \* the calls whose frame was handed to the transport
  lastIncoming, incoming,
  work,           \* what became of each host invocation
  held,           \* active control credits, by call or by invocation
  entries,        \* OutputQueue.entries, without the one in flight
  post,           \* the entry whose POST is in flight
  controls, reserved, data,   \* the counters of OutputQueue
  retained, input,            \* the counters of ByteLedger
  wire,           \* frames of ours that were posted, newest last (history)
  answers         \* answers given to each host invocation (history)

queueVars == <<entries, post, controls, reserved, data>>
callVars == <<nextId, pending, kind, sent>>
workVars == <<lastIncoming, incoming, work, input, answers>>
vars == <<failure, doomed, callVars, workVars, held, queueVars, retained, wire>>

Ids == 1 .. MaxId
HostIds == 1 .. MaxHostId
Invocations == {"request", "notify"}
Controls == {"cancel", "error", "accept"}
Frame == [kind : Invocations \cup Controls \cup {"result"}, id : Nat]
NoFrame == [kind |-> "none", id |-> 0]
Busy == {"running", "sending"}

IsControl(f) == f.kind \in Controls
Credits == {<<"call", i>> : i \in Ids} \cup {<<"work", h>> : h \in HostIds}

Init ==
  /\ failure = FALSE /\ doomed = "no"
  /\ nextId = 1 /\ pending = {} /\ sent = {}
  /\ kind = [i \in Ids |-> "none"]
  /\ lastIncoming = 0 /\ incoming = {}
  /\ work = [h \in HostIds |-> "none"] /\ answers = [h \in HostIds |-> 0]
  /\ held = {} /\ entries = <<>> /\ post = NoFrame
  /\ controls = 0 /\ reserved = 0 /\ data = 0
  /\ retained = 0 /\ input = 0 /\ wire = <<>>

\* The pump has the turn while it has an entry and no POST to wait for; then
\* the microtask that fails the connection.
PumpDue == ~failure /\ post = NoFrame /\ entries # <<>>
TurnOver == ~PumpDue /\ doomed = "no"

-----------------------------------------------------------------------------
(* The queue *)

\* reserveControl
CanReserve == controls + reserved < ControlFrames

\* What is still reserved once credit c, if active, is released
Without(c) == IF c \in held THEN reserved - 1 ELSE reserved

\* send of a control frame, with `left` slots still reserved for others
SendControl(f, left, credited, why) ==
  /\ reserved' = left
  /\ IF credited \/ controls + left < ControlFrames
     THEN /\ entries' = Append(entries, f) /\ controls' = controls + 1
          /\ UNCHANGED doomed
     ELSE doomed' = why /\ UNCHANGED <<entries, controls>>

Answer(h) == answers' = [answers EXCEPT ![h] = @ + 1]
SendError(h, left, credited, why) ==
  SendControl([kind |-> "error", id |-> h], left, credited, why) /\ Answer(h)

\* send of a data frame: there must be room and credit for it
CanSendData == data < MaxFrames /\ retained < MaxRetained

\* remove: the first entry of call i that is not in flight is spliced out
Places(i) == {n \in DOMAIN entries : entries[n].kind \in Invocations /\ entries[n].id = i}
Splice(s, n) == SubSeq(s, 1, n - 1) \o SubSeq(s, n + 1, Len(s))
Remove(i) ==
  \/ Places(i) = {} /\ UNCHANGED <<entries, data, retained>>
  \/ \E n \in Places(i) :
        /\ \A m \in Places(i) : n <= m
        /\ entries' = Splice(entries, n)
        /\ data' = data - 1 /\ retained' = retained - 1

-----------------------------------------------------------------------------
(* Calls of the page *)

Cap(k) == IF k = "request" THEN MaxPending ELSE MaxNotify
PendingOf(k) == {i \in pending : kind[i] = k}

\* There is an id left.
IdLeft == nextId <= MaxId

\* invoke, up to the turn's end: an id is used up even if the payload does
\* not encode, no credit is left or the queue is full.
Invoke(k) ==
  /\ TurnOver /\ ~failure /\ IdLeft
  /\ Cardinality(PendingOf(k)) < Cap(k)
  /\ nextId' = nextId + 1 /\ kind' = [kind EXCEPT ![nextId] = k]
  /\ \/ UNCHANGED <<pending, held, entries, data, reserved, retained>>
     \/ /\ CanSendData /\ (k = "request" => CanReserve)
        /\ pending' = pending \cup {nextId}
        /\ entries' = Append(entries, [kind |-> k, id |-> nextId])
        /\ data' = data + 1 /\ retained' = retained + 1
        /\ IF k = "request"
           THEN held' = held \cup {<<"call", nextId>>} /\ reserved' = reserved + 1
           ELSE UNCHANGED <<held, reserved>>
  /\ UNCHANGED <<failure, doomed, sent, workVars, post, controls, wire>>

\* settle, without what it does to the queue
Settle(i) == pending' = pending \ {i} /\ held' = held \ {<<"call", i>>}

\* MUTANTS: the CANCEL is sent before the call's own credit is returned; the
\* timer is armed only once the frame is sent
CancelKeeping(i) ==
  /\ TurnOver /\ i \in pending /\ Settle(i)
  /\ IF i \in sent /\ kind[i] = "request"
     THEN /\ SendControl([kind |-> "cancel", id |-> i], reserved, FALSE, "completion")
          /\ UNCHANGED <<data, retained>>
     ELSE /\ Remove(i) /\ reserved' = Without(<<"call", i>>)
          /\ UNCHANGED <<controls, doomed>>
  /\ UNCHANGED <<failure, nextId, kind, sent, workVars, post, wire>>
CancelSent(i) ==
  /\ TurnOver /\ i \in pending /\ i \in sent /\ Settle(i)
  /\ SendControl([kind |-> "cancel", id |-> i], Without(<<"call", i>>), FALSE, "completion")
  /\ UNCHANGED <<failure, nextId, kind, sent, workVars, post, data, retained, wire>>

\* cancel: the caller aborts or the deadline passes.  A frame that has not
\* been handed over is withdrawn, one that has is followed by a CANCEL.
Cancel(i) ==
  /\ TurnOver /\ i \in pending
  /\ Settle(i)
  /\ IF i \in sent /\ kind[i] = "request"
     THEN /\ SendControl([kind |-> "cancel", id |-> i], Without(<<"call", i>>), FALSE,
                         "completion")
          /\ UNCHANGED <<data, retained>>
     ELSE /\ Remove(i) /\ reserved' = Without(<<"call", i>>)
          /\ UNCHANGED <<controls, doomed>>
  /\ UNCHANGED <<failure, nextId, kind, sent, workVars, post, wire>>

\* complete: an answer of the host, or an error
Complete(i) ==
  /\ TurnOver /\ i \in pending /\ i \in sent
  /\ Settle(i) /\ Remove(i) /\ reserved' = Without(<<"call", i>>)
  /\ UNCHANGED <<failure, doomed, nextId, kind, sent, workVars, post, controls, wire>>

-----------------------------------------------------------------------------
(* Invocations of the host *)

Fresh(h) == h > lastIncoming
Tasks(s) == Cardinality({h \in HostIds : work[h] \in s})
CanAdmit == input < MaxInput /\ retained < MaxRetained

\* receive and dispatch of a REQUEST or a NOTIFY that is turned down: for want
\* of input credit, an unknown method, a payload that does not decode, no
\* handler, too many tasks or no control slot.  The error has no credit.
Refuse(h) ==
  /\ TurnOver /\ ~failure /\ Fresh(h)
  /\ lastIncoming' = h
  /\ SendError(h, reserved, FALSE, "refusal")
  /\ UNCHANGED <<failure, callVars, incoming, work, input, held, post, data, retained, wire>>

\* runHandler: the handler is started in a microtask of this turn
RunHandler(h) ==
  /\ TurnOver /\ ~failure /\ Fresh(h)
  /\ CanAdmit /\ Tasks(Busy) < MaxPending /\ CanReserve
  /\ lastIncoming' = h /\ incoming' = incoming \cup {h}
  /\ work' = [work EXCEPT ![h] = "running"]
  /\ input' = input + 1 /\ retained' = retained + 1
  /\ held' = held \cup {<<"work", h>>} /\ reserved' = reserved + 1
  /\ UNCHANGED <<failure, doomed, callVars, answers, entries, post, controls, data, wire>>

\* deliver: the acknowledgement takes the slot it reserves; the credit stays
\* with the callbacks, if there are any.
Deliver(h) ==
  /\ TurnOver /\ ~failure /\ Fresh(h)
  /\ CanAdmit /\ CanReserve
  /\ lastIncoming' = h
  /\ SendControl([kind |-> "accept", id |-> h], reserved, TRUE, "refusal") /\ Answer(h)
  /\ \/ UNCHANGED <<work, input, retained>>
     \/ /\ Tasks({"calling"}) < MaxCallbacks
        /\ work' = [work EXCEPT ![h] = "calling"]
        /\ input' = input + 1 /\ retained' = retained + 1
  /\ UNCHANGED <<failure, callVars, incoming, held, post, data, wire>>

\* Callbacks of a subscription run one after the other.
CallbackEnds(h) ==
  /\ TurnOver /\ work[h] = "calling"
  /\ \A g \in HostIds : work[g] = "calling" => h <= g
  /\ work' = [work EXCEPT ![h] = "over"]
  /\ input' = input - 1 /\ retained' = retained - 1
  /\ UNCHANGED <<failure, doomed, callVars, lastIncoming, incoming, answers, held, queueVars, wire>>

\* The handler's own end, whatever came of it: finally
Finally(h, freed) ==
  /\ work' = [work EXCEPT ![h] = "over"] /\ incoming' = incoming \ {h}
  /\ held' = held \ {<<"work", h>>}
  /\ input' = input - 1 /\ retained' = retained - 1 - freed

\* The handler has returned; its result is queued.
HandlerReturns(h) ==
  /\ TurnOver /\ work[h] = "running" /\ h \in incoming
  /\ CanSendData
  /\ work' = [work EXCEPT ![h] = "sending"]
  /\ entries' = Append(entries, [kind |-> "result", id |-> h])
  /\ data' = data + 1 /\ retained' = retained + 1
  /\ UNCHANGED <<failure, doomed, callVars, lastIncoming, incoming, input, answers, held,
                 post, controls, reserved, wire>>

\* It threw, its result does not encode or the queue has no room: the error
\* goes out on the credit of the invocation.
HandlerFails(h) ==
  /\ TurnOver /\ work[h] = "running" /\ h \in incoming
  /\ SendError(h, Without(<<"work", h>>), TRUE, "completion")
  /\ Finally(h, 0)
  /\ UNCHANGED <<failure, callVars, lastIncoming, post, data, wire>>

\* It ends after its cancellation, its deadline or the connection's end.
HandlerEndsLate(h) ==
  /\ TurnOver /\ work[h] = "running" /\ h \notin incoming
  /\ Finally(h, 0) /\ reserved' = Without(<<"work", h>>)
  /\ UNCHANGED <<failure, doomed, callVars, lastIncoming, answers, entries, post, controls,
                 data, wire>>

\* cancelIncoming
Withdraw(h) == incoming' = incoming \ {h} /\ held' = held \ {<<"work", h>>}

\* receive of a CANCEL
CancelIncoming(h) ==
  /\ TurnOver /\ h \in incoming
  /\ Withdraw(h) /\ reserved' = Without(<<"work", h>>)
  /\ UNCHANGED <<failure, doomed, callVars, lastIncoming, work, input, answers, entries,
                 post, controls, data, retained, wire>>

\* The timer of an invocation
Timeout(h) ==
  /\ TurnOver /\ h \in incoming
  /\ Withdraw(h) /\ SendError(h, Without(<<"work", h>>), FALSE, "completion")
  /\ UNCHANGED <<failure, callVars, lastIncoming, work, input, post, data, retained, wire>>

-----------------------------------------------------------------------------
(* The pump *)

\* MUTANT: a result is posted although its invocation was withdrawn
CallDead(f) == f.kind \in Invocations /\ f.id \notin pending

\* prepare returns nothing for a call or an invocation settled meanwhile.
Dead(f) == \/ f.kind \in Invocations /\ f.id \notin pending
           \/ f.kind = "result" /\ f.id \notin incoming

\* shift and release of the head of the queue
Shift(f) == data' = data - 1 /\ entries' = Tail(entries)

\* prepare lets the head go: its frame is posted
Post(f) ==
  /\ PumpDue /\ ~Dead(f)
  /\ post' = f /\ entries' = Tail(entries)
  /\ wire' = IF f.kind \in Invocations \cup {"cancel"} THEN Append(wire, f) ELSE wire
  /\ IF f.kind = "result"
     THEN incoming' = incoming \ {f.id} /\ Answer(f.id) ELSE UNCHANGED <<incoming, answers>>
  /\ sent' = IF f.kind \in Invocations THEN sent \cup {f.id} ELSE sent
  /\ UNCHANGED <<failure, doomed, nextId, pending, kind, lastIncoming, work, input, held,
                 controls, reserved, data, retained>>

\* A withdrawn result is dropped; its handler ends with it.
DropDead(f) ==
  /\ PumpDue /\ f.kind = "result" /\ Dead(f)
  /\ Shift(f) /\ Finally(f.id, 1) /\ reserved' = Without(<<"work", f.id>>)
  /\ UNCHANGED <<failure, doomed, callVars, lastIncoming, answers, post, controls, wire>>

\* The deadline passed in the queue, or there is no scratch space: a call is
\* settled with an error,
DropCall(f) ==
  /\ PumpDue /\ f.kind \in Invocations
  /\ Shift(f) /\ retained' = retained - 1
  /\ Settle(f.id) /\ reserved' = Without(<<"call", f.id>>)
  /\ UNCHANGED <<failure, doomed, nextId, kind, sent, workVars, post, controls, wire>>

\* a result is replaced by an error: on its own credit for want of scratch
\* space, after returning the credit when it is late.
DropResult(f, credited) ==
  /\ PumpDue /\ f.kind = "result" /\ ~Dead(f)
  /\ data' = data - 1
  /\ LET left == Without(<<"work", f.id>>)
         room == credited \/ controls + left < ControlFrames
     IN  /\ reserved' = left
         /\ entries' = IF room THEN Append(Tail(entries), [kind |-> "error", id |-> f.id])
                               ELSE Tail(entries)
         /\ controls' = IF room THEN controls + 1 ELSE controls
         /\ doomed' = IF room THEN doomed ELSE "completion"
  /\ Answer(f.id) /\ Finally(f.id, 1)
  /\ UNCHANGED <<failure, callVars, lastIncoming, post, wire>>

-----------------------------------------------------------------------------
(* The end *)

DataOf(s) == Cardinality({n \in DOMAIN s : ~IsControl(s[n])})

\* MUTANT: close forgets the bytes of what it drops
ReleasesNothing == 0

\* close returns the bytes of every entry but the one in flight.
Releases == DataOf(entries)

\* fail: everything is settled, dropped and released but what still runs.
\* `over` says that the POST in flight, if any, ends in this turn too.
FailWith(over) ==
  LET ended == {h \in HostIds : work[h] = "sending"}
  IN  /\ failure' = TRUE /\ doomed' = "no"
      /\ pending' = {} /\ incoming' = {} /\ held' = {} /\ entries' = <<>>
      /\ post' = IF over THEN NoFrame ELSE post
      /\ controls' = 0 /\ reserved' = 0 /\ data' = 0
      /\ work' = [h \in HostIds |-> IF h \in ended THEN "over" ELSE work[h]]
      /\ input' = input - Cardinality(ended)
      /\ retained' = retained - Releases - Cardinality(ended)
                     - (IF over THEN DataOf(<<post>>) ELSE 0)
      /\ UNCHANGED <<nextId, kind, sent, lastIncoming, answers, wire>>

\* The microtask after a control frame found no room or was refused
FailDoomed == doomed # "no" /\ ~PumpDue /\ FailWith(FALSE)

\* close(), a closed control, a malformed frame, an id below the last one or
\* the page's ids used up
Fail == TurnOver /\ ~failure /\ FailWith(FALSE)

\* The POST in flight succeeds.
PostOk ==
  /\ TurnOver /\ ~failure /\ post # NoFrame
  /\ post' = NoFrame
  /\ IF IsControl(post)
     THEN controls' = controls - 1 /\ UNCHANGED data
     ELSE data' = data - 1 /\ UNCHANGED controls
  /\ IF post.kind = "result"
     THEN Finally(post.id, 1) /\ reserved' = Without(<<"work", post.id>>)
     ELSE /\ retained' = retained - DataOf(<<post>>)
          /\ UNCHANGED <<work, incoming, held, input, reserved>>
  /\ UNCHANGED <<failure, doomed, callVars, lastIncoming, answers, entries, wire>>

\* The host refuses it (overloaded, payload too large, invalid payload): a
\* call is settled with the error, a result is lost and left to the host's
\* deadline, a control frame takes the connection down.
PostRefused ==
  /\ TurnOver /\ ~failure /\ post # NoFrame
  /\ post' = NoFrame
  /\ IF IsControl(post)
     THEN controls' = controls - 1 /\ doomed' = "host" /\ UNCHANGED data
     ELSE data' = data - 1 /\ UNCHANGED <<controls, doomed>>
  /\ IF post.kind = "result"
     THEN Finally(post.id, 1) /\ reserved' = Without(<<"work", post.id>>)
          /\ UNCHANGED pending
     ELSE /\ retained' = retained - DataOf(<<post>>)
          /\ IF post.kind \in Invocations
             THEN Settle(post.id) /\ reserved' = Without(<<"call", post.id>>)
             ELSE UNCHANGED <<pending, held, reserved>>
          /\ UNCHANGED <<work, incoming, input>>
  /\ UNCHANGED <<failure, nextId, kind, sent, lastIncoming, answers, entries, wire>>

\* It breaks: transport.close fails the connection, then the pump gives up.
PostBroken == TurnOver /\ ~failure /\ post # NoFrame /\ FailWith(TRUE)

\* It ends after the connection: the pump releases its bytes.
PostEnds ==
  /\ failure /\ post # NoFrame
  /\ post' = NoFrame /\ retained' = retained - DataOf(<<post>>)
  /\ UNCHANGED <<failure, doomed, callVars, workVars, held, entries, controls, reserved,
                 data, wire>>

-----------------------------------------------------------------------------
CallStep(i) == Cancel(i) \/ Complete(i)
WorkStep(h) == \/ Refuse(h) \/ RunHandler(h) \/ Deliver(h) \/ CallbackEnds(h)
               \/ HandlerReturns(h) \/ HandlerFails(h) \/ HandlerEndsLate(h)
               \/ CancelIncoming(h) \/ Timeout(h)
Pump == PumpDue /\ LET f == Head(entries) IN
          \/ Post(f) \/ DropDead(f) \/ DropCall(f)
          \/ DropResult(f, TRUE) \/ DropResult(f, FALSE)

Next ==
  \/ \E k \in Invocations : Invoke(k)
  \/ \E i \in Ids : CallStep(i)
  \/ \E h \in HostIds : WorkStep(h)
  \/ Pump
  \/ FailDoomed \/ Fail \/ PostOk \/ PostRefused \/ PostBroken \/ PostEnds

\* The page's event loop turns: what is due in a turn is done, and timers
\* fire.  No handler has to return, no POST has to end.
Fairness == WF_vars(Pump) /\ WF_vars(FailDoomed) /\ \A i \in Ids : WF_vars(Cancel(i))

Spec == Init /\ [][Next]_vars
FairSpec == Spec /\ Fairness
-----------------------------------------------------------------------------
(* Properties *)

TypeOK ==
  /\ failure \in BOOLEAN /\ doomed \in {"no", "refusal", "completion", "host"}
  /\ nextId \in 1 .. MaxId + 1 /\ pending \in SUBSET Ids /\ sent \in SUBSET Ids
  /\ kind \in [Ids -> Invocations \cup {"none"}]
  /\ lastIncoming \in 0 .. MaxHostId /\ incoming \in SUBSET HostIds
  /\ work \in [HostIds -> Busy \cup {"none", "calling", "over"}]
  /\ answers \in [HostIds -> Nat] /\ held \in SUBSET Credits
  /\ entries \in Seq(Frame) /\ post \in Frame \cup {NoFrame} /\ wire \in Seq(Frame)
  /\ controls \in Nat /\ reserved \in Nat /\ data \in Nat
  /\ retained \in Nat /\ input \in Nat

InQueue == IF post = NoFrame THEN entries ELSE <<post>> \o entries

\* The counters of the queue are what the queue and the credits hold, and the
\* reserve is never oversold: a slot that a path forgets or returns twice
\* ends in a page that can neither cancel nor answer.  The ledger, which
\* outlives the connection, gets back exactly what was taken: input while the
\* application works on it, data while it is queued or in flight.
CreditAccounting ==
  /\ ~failure => /\ reserved = Cardinality(held)
                 /\ controls = Cardinality({n \in DOMAIN InQueue : IsControl(InQueue[n])})
                 /\ data = DataOf(InQueue)
                 /\ controls + reserved <= ControlFrames /\ data <= MaxFrames
  /\ input = Tasks(Busy \cup {"calling"})
  /\ retained = input + DataOf(InQueue)

\* A cancellation, a deadline and a handler's error always find room, however
\* full the queue and the reserve are: the connection never fails over them.
CompletionFits == doomed # "completion"

\* The host can accept all that reaches it: ids in increasing order and a
\* CANCEL only after the request it cancels, although calls are withdrawn,
\* time out and are dropped in the queue; and at most one answer for each
\* invocation of the host, none while it is still open or once it was
\* cancelled, whichever of handler, timer and pump comes first.
WireOrder ==
  /\ \A m, n \in DOMAIN wire :
       /\ m < n /\ wire[m].kind \in Invocations /\ wire[n].kind \in Invocations
          => wire[m].id < wire[n].id
       /\ wire[n].kind = "cancel" =>
            \E l \in 1 .. n - 1 : wire[l] = [kind |-> "request", id |-> wire[n].id]
  /\ \A h \in HostIds : answers[h] <= 1 /\ (h \in incoming => answers[h] = 0)

\* Every call of the page settles, without the host's help.
CallSettles == \A i \in Ids : i \in pending ~> i \notin pending
=============================================================================
