----------------------------- MODULE IpcNotify -----------------------------
(***************************************************************************)
(* Renderer notifications on their way to the application's callbacks:     *)
(* notify (ipc/bridge.rs), SubscriptionSlot, subscribe and IpcSubscription *)
(* (ipc/session.rs), and the end of the document (ipc/engine.rs).          *)
(*                                                                         *)
(* A notification is received in one critical section, which appends one   *)
(* delivery to the chain of every active subscription: the delivery keeps  *)
(* the receiver of its predecessor (previous) and the sender of its own    *)
(* end (next), which is also signalled by being dropped.  Validation, the  *)
(* acknowledgement and the deliveries then run on a pool of workers in any *)
(* order, while the application disposes of subscriptions and the document *)
(* is retired, which first takes the document and only then, unlocked,     *)
(* closes its subscriptions one by one.                                    *)
(*                                                                         *)
(* One document and one event suffice: chains of different documents or    *)
(* events share nothing but budgets.  Slot.close() is one step, since a    *)
(* delivery that reads `active` last decides as if it read the rest then.  *)
(***************************************************************************)
EXTENDS Naturals, FiniteSets

CONSTANTS
  Slots,            \* subscriptions the application may make
  MaxNotification,  \* bound: notifications received
  MaxSlots,         \* limits.max_callbacks_per_event
  MaxNotify,        \* limits.max_outstanding_notifications_per_direction
  MaxCallbacks      \* limits.max_callback_tasks_per_document

ASSUME NotifyAssumption ==
  /\ IsFiniteSet(Slots) /\ MaxNotification \in Nat
  /\ MaxSlots \in Nat /\ MaxNotify \in Nat /\ MaxCallbacks \in Nat

VARIABLES
  engineClosed,  \* State.closed
  live,          \* the document is there
  subscriptions, \* keys of Document.subscriptions
  retiring,      \* slots that retire_matching still has to close
  owner,         \* each IpcSubscription
  active,        \* SubscriptionSlot.active
  tail,          \* SubscriptionSlot.tail: the last delivery's notification
  received,      \* notifications received so far; each is named by its rank
  task,          \* the validating task of each notification
  valid,         \* invoke_callbacks
  previous,      \* Delivery.previous, 0 for the first of its chain
  stage          \* each delivery: stage[n][s]

slotVars == <<subscriptions, retiring, owner, active>>
notifyVars == <<engineClosed, live, slotVars, tail, received, task, valid, previous,
          stage>>

Notifications == 1 .. MaxNotification
\* A delivery: none, held by the validating task, spawned and waiting for its
\* turn, past its last look at `active`, in the application's callback, over
DeliveryStage == {"none", "held", "waiting", "checked", "running", "over"}

NotifyInit ==
  /\ engineClosed = FALSE /\ live = TRUE
  /\ subscriptions = {} /\ retiring = {}
  /\ owner = [s \in Slots |-> "none"] /\ active = [s \in Slots |-> FALSE]
  /\ tail = [s \in Slots |-> 0] /\ received = 0
  /\ task = [n \in Notifications |-> "none"]
  /\ valid = [n \in Notifications |-> FALSE]
  /\ previous = [n \in Notifications |-> [s \in Slots |-> 0]]
  /\ stage = [n \in Notifications |-> [s \in Slots |-> "none"]]

-----------------------------------------------------------------------------
(* The application *)

\* Mutant of Subscribe: the document is looked up before the lock is taken.
SubscribeUnlocked(s) ==
  /\ owner[s] = "none"
  /\ Cardinality(subscriptions) < MaxSlots
  /\ subscriptions' = subscriptions \cup {s}
  /\ owner' = [owner EXCEPT ![s] = "held"]
  /\ active' = [active EXCEPT ![s] = TRUE]
  /\ UNCHANGED <<engineClosed, live, retiring, tail, received, task, valid,
                 previous, stage>>

\* IpcSession::subscribe
Subscribe(s) ==
  /\ live /\ owner[s] = "none"
  /\ Cardinality(subscriptions) < MaxSlots
  /\ subscriptions' = subscriptions \cup {s}
  /\ owner' = [owner EXCEPT ![s] = "held"]
  /\ active' = [active EXCEPT ![s] = TRUE]
  /\ UNCHANGED <<engineClosed, live, retiring, tail, received, task, valid,
                 previous, stage>>

\* IpcSubscription::close closes the slot,
Dispose(s) ==
  /\ owner[s] = "held"
  /\ owner' = [owner EXCEPT ![s] = "closing"]
  /\ active' = [active EXCEPT ![s] = FALSE]
  /\ UNCHANGED <<engineClosed, live, subscriptions, retiring, tail, received, task,
                 valid, previous, stage>>

\* then takes it out of the document, and returns.
Disposed(s) ==
  /\ owner[s] = "closing"
  /\ owner' = [owner EXCEPT ![s] = "gone"]
  /\ subscriptions' = subscriptions \ {s}
  /\ UNCHANGED <<engineClosed, live, retiring, active, tail, received, task, valid,
                 previous, stage>>

\* retire_matching takes the document,
RetireDocument(terminal) ==
  /\ ~engineClosed /\ (live \/ terminal)
  /\ engineClosed' = terminal /\ live' = FALSE
  /\ retiring' = retiring \cup subscriptions /\ subscriptions' = {}
  /\ UNCHANGED <<owner, active, tail, received, task, valid, previous, stage>>

\* then closes its subscriptions.
RetireSlot(s) ==
  /\ s \in retiring
  /\ retiring' = retiring \ {s}
  /\ active' = [active EXCEPT ![s] = FALSE]
  /\ UNCHANGED <<engineClosed, live, subscriptions, owner, tail, received, task,
                 valid, previous, stage>>

-----------------------------------------------------------------------------
(* Receipt: the critical section of notify *)

\* The fan-out permit is shared by all the work of a notification.
Held(n) ==
  \/ task[n] \in {"validating", "spawning"}
  \/ \E s \in Slots : stage[n][s] \notin {"none", "over"}
HeldNotifications == {n \in Notifications : Held(n)}
HeldCallbacks ==
  {d \in HeldNotifications \X Slots : stage[d[1]][d[2]] # "none"}
Listening == {s \in subscriptions : active[s]}

Notify ==
  /\ live /\ received < MaxNotification
  /\ Cardinality(HeldNotifications) < MaxNotify
  /\ Cardinality(HeldCallbacks) + Cardinality(Listening) <= MaxCallbacks
  /\ received' = received + 1
  /\ task' = [task EXCEPT ![received + 1] = "validating"]
  /\ stage' = [stage EXCEPT ![received + 1] =
                 [s \in Slots |-> IF s \in Listening THEN "held" ELSE "none"]]
  /\ previous' = [previous EXCEPT ![received + 1] =
                    [s \in Slots |-> IF s \in Listening THEN tail[s] ELSE 0]]
  /\ tail' = [s \in Slots |-> IF s \in Listening THEN received + 1 ELSE tail[s]]
  /\ UNCHANGED <<engineClosed, live, slotVars, valid>>

-----------------------------------------------------------------------------
(* Workers *)

\* Mutant of DropHeld: they are leaked, their senders with them.
KeepHeld(n) == UNCHANGED stage

\* Deliveries the validating task still holds are dropped with it.
DropHeld(n) ==
  stage' = [stage EXCEPT ![n] =
              [s \in Slots |-> IF stage[n][s] = "held" THEN "over"
                                                   ELSE stage[n][s]]]

\* Accept or Error is queued; without the document the task just ends.
Acknowledge(n) ==
  /\ task[n] = "validating"
  /\ valid' \in {[valid EXCEPT ![n] = v] : v \in BOOLEAN}
  /\ IF live
     THEN task' = [task EXCEPT ![n] = "spawning"] /\ UNCHANGED stage
     ELSE task' = [task EXCEPT ![n] = "end"] /\ DropHeld(n)
  /\ UNCHANGED <<engineClosed, live, slotVars, tail, received, previous>>

\* The task spawns its deliveries one by one until core.workers() refuses.
Spawn(n) ==
  /\ task[n] = "spawning"
  /\ \/ /\ ~engineClosed
        /\ \E s \in Slots : /\ stage[n][s] = "held"
                            /\ stage' = [stage EXCEPT ![n][s] = "waiting"]
        /\ UNCHANGED task
     \/ /\ engineClosed \/ \A s \in Slots : stage[n][s] # "held"
        /\ task' = [task EXCEPT ![n] = "end"]
        /\ DropHeld(n)
  /\ UNCHANGED <<engineClosed, live, slotVars, tail, received, valid, previous>>

\* previous.await
MyTurn(n, s) == \A m \in Notifications : m = previous[n][s] => stage[m][s] = "over"

\* Mutant of Check: a rejected notification does not wait for its turn.
CheckRejectedFirst(n, s) ==
  /\ stage[n][s] = "waiting" /\ (MyTurn(n, s) \/ ~valid[n])
  /\ stage' = [stage EXCEPT ![n][s] = IF valid[n] /\ active[s] THEN "checked"
                                                              ELSE "over"]
  /\ UNCHANGED <<engineClosed, live, slotVars, tail, received, task, valid,
                 previous>>

\* A delivery whose turn it is looks at its slot for the last time,
Check(n, s) ==
  /\ stage[n][s] = "waiting" /\ MyTurn(n, s)
  /\ stage' = [stage EXCEPT ![n][s] = IF valid[n] /\ active[s] THEN "checked"
                                                              ELSE "over"]
  /\ UNCHANGED <<engineClosed, live, slotVars, tail, received, task, valid,
                 previous>>

\* and calls the application.
Start(n, s) ==
  /\ stage[n][s] = "checked"
  /\ stage' = [stage EXCEPT ![n][s] = "running"]
  /\ UNCHANGED <<engineClosed, live, slotVars, tail, received, task, valid,
                 previous>>

\* The callback is over, or was dropped by its slot's cancellation.
Finish(n, s) ==
  /\ stage[n][s] = "running"
  /\ stage' = [stage EXCEPT ![n][s] = "over"]
  /\ UNCHANGED <<engineClosed, live, slotVars, tail, received, task, valid,
                 previous>>

-----------------------------------------------------------------------------
NotifyNext ==
  \/ \E s \in Slots : Subscribe(s) \/ Dispose(s) \/ Disposed(s) \/ RetireSlot(s)
  \/ \E terminal \in BOOLEAN : RetireDocument(terminal)
  \/ Notify
  \/ \E n \in Notifications : Acknowledge(n) \/ Spawn(n)
  \/ \E n \in Notifications, s \in Slots : Check(n, s) \/ Start(n, s) \/ Finish(n, s)

\* A worker is left for the SDK's own steps; no callback has to return.
NotifyFairness ==
  /\ \A n \in Notifications : WF_notifyVars(Acknowledge(n)) /\ WF_notifyVars(Spawn(n))
  /\ \A n \in Notifications, s \in Slots :
       WF_notifyVars(Check(n, s)) /\ WF_notifyVars(Start(n, s))

NotifySpec == NotifyInit /\ [][NotifyNext]_notifyVars
FairNotifySpec == NotifySpec /\ NotifyFairness

-----------------------------------------------------------------------------
(* Properties *)

NotifyTypeOK ==
  /\ engineClosed \in BOOLEAN /\ live \in BOOLEAN
  /\ subscriptions \in SUBSET Slots /\ retiring \in SUBSET Slots
  /\ owner \in [Slots -> {"none", "held", "closing", "gone"}]
  /\ active \in [Slots -> BOOLEAN]
  /\ tail \in [Slots -> 0 .. MaxNotification]
  /\ received \in 0 .. MaxNotification
  /\ task \in [Notifications -> {"none", "validating", "spawning", "end"}]
  /\ valid \in [Notifications -> BOOLEAN]
  /\ previous \in [Notifications -> [Slots -> 0 .. MaxNotification]]
  /\ \A n \in Notifications, s \in Slots : previous[n][s] < n
  /\ stage \in [Notifications -> [Slots -> DeliveryStage]]

\* A delivery whose turn has come finds every earlier one of its subscription
\* over: callbacks of a subscription start in the order of receipt and never
\* overlap, rejected notifications in between included.
InOrder ==
  \A s \in Slots : \A m, n \in Notifications :
    m < n /\ stage[n][s] \in {"checked", "running"} =>
      stage[m][s] \in {"none", "over"}

\* That is so as long as the document is there, whatever the workers' order,
\* and whatever is rejected or disposed of meanwhile.
InOrderWhileLive == live => InOrder

\* Subscriptions end with their document: none is left active when retirement
\* is through, one that the application was about to make included.
NoSlotOutlives ==
  ~live /\ retiring = {} => \A s \in Slots : ~active[s]

\* The chain never stalls: a delivery that was spawned gets its turn unless
\* the application is busy in an earlier callback of that subscription, even
\* if the notifications before it were rejected or lost their document.
ChainAdvances ==
  \A n \in Notifications, s \in Slots :
    stage[n][s] = "waiting" ~>
      \/ stage[n][s] # "waiting"
      \/ \E m \in Notifications : m < n /\ stage[m][s] = "running"
=============================================================================
