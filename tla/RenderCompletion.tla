-------------------------- MODULE RenderCompletion --------------------------
(***************************************************************************)
(* The render scheduler of a page and the completion boundaries it reports  *)
(* to: enqueueRender, flushRender and the drain of render-scheduler.ts, and *)
(* $whenRendered with the bookkeeping of render-completion.ts, as           *)
(* template-element.ts and lazy-runtime.ts (packages/webui-framework/src)   *)
(* drive them.                                                              *)
(*                                                                          *)
(* Code runs to completion on one stack.  A frame is a drain, the render of *)
(* a component, a refresh, a callback or a synchronous mount, the           *)
(* continuation of a mount that waited for its stylesheets, or the          *)
(* continuation of a lazy activation; what bindings and authors do in a     *)
(* frame is chosen, an exception unwinds frame by frame, and microtasks run *)
(* in order when the stack is empty.  The set of observers that is `active' *)
(* in a frame is an object others may change: Ref keeps whose set it is.    *)
(*                                                                          *)
(* Left out: what a render writes to the DOM, weak references and the       *)
(* caching of an idle observer, and exceptions thrown by the DOM itself     *)
(* while a scope is being checked.  $destroy runs as the microtask of a     *)
(* disconnection, with an empty stack, so that it finds no frame to         *)
(* tombstone.                                                               *)
(***************************************************************************)
EXTENDS Integers, Sequences, FiniteSets, FiniteSetsExt, SequencesExt

CONSTANTS
    Elements,     \* WebUI components
    Tasks,        \* lazy activations
    TaskHost,       \* the component an activation belongs to
    Requests,     \* calls of $whenRendered
    RootOf,       \* the component each is made on
    Scenes,       \* the pages to begin with, see RenderAssumption
    MaxFrames,    \* bound: depth of the stack
    Doc, Nobody     \* model values: the document, and nothing

AllSteps == {"write", "flush", "refresh", "call", "mount", "task", "cancel",
             "block", "upgrade", "dispose", "remove", "insert", "throw"}

(* A scene is where each component is attached, the components whose        *)
(* definition has not loaded, those whose mount waits for its stylesheets,  *)
(* what bindings and authors do in it, and how often (a bound).             *)
ASSUME RenderAssumption ==
    /\ \A s \in Scenes :
          /\ s.home \in [Elements -> Elements \cup {Doc, Nobody}]
          /\ s.dormant \subseteq Elements /\ s.gated \subseteq Elements \ s.dormant
          /\ s.may \subseteq AllSteps /\ s.most \in Nat
    /\ TaskHost \in [Tasks -> Elements]
    /\ RootOf \in [Requests -> Elements]
    /\ MaxFrames \in Nat
    /\ IsFiniteSet(Elements) /\ IsFiniteSet(Tasks) /\ IsFiniteSet(Requests)
    /\ Elements \cap Tasks = {} /\ Nobody \notin Elements \cup Tasks

VARIABLES
    parent,   \* where each component is attached: a component, Doc or Nobody
    dormant,  \* components that are not defined yet
    mounted,  \* components with a template instance ($root)
    queue,    \* the scheduler: its slots, cursor and each component's index
    dirty,    \* components with dirty paths
    gated,    \* per component, the work kept apart from the queue
    waiting,  \* activations that are pending
    blocked,  \* components that hold writes they cannot apply yet
    rc,       \* the completion bookkeeping, see RenderInit
    stack,    \* the frames, outermost first
    thrown,   \* an exception is on its way up
    micro,    \* the microtasks to come
    steps,    \* the free steps that may still come: their kinds and number
    cause,    \* per unit of work, the requests it is owed to (history)
    loss      \* who disposed of each component, and the requests that lost
              \* what they were owed to somebody else (history)

renderVars == <<parent, dormant, mounted, queue, dirty, gated, waiting, blocked, rc, stack,
          thrown, micro, steps, cause, loss>>
-----------------------------------------------------------------------------
Work == Elements \cup Tasks
Host(w) == IF w \in Tasks THEN TaskHost[w] ELSE w

(* The ancestors of e in the attachment p, e included.                      *)
Above(p, e) ==
    LET up[x \in Elements \cup {Doc, Nobody}] == IF x \in Elements THEN {x} \cup up[p[x]] ELSE {x}
    IN  up[e]

InScope(e, root) == root \in Above(parent, e)
Connected(e) == Doc \in Above(parent, e)
Below(e) == {d \in Elements : e \in Above(parent, d)}

Top == stack[Len(stack)]
Frame(kind, el) == [kind |-> kind, el |-> el, exec |-> Nobody, task |-> Nobody,
                    mode |-> "none", by |-> {}]
ActiveRef(S) == IF S.refs = <<>> THEN [of |-> Nobody, set |-> {}] ELSE S.refs[Len(S.refs)]

Observing(S) == S.alive # {}
Active(S) == ActiveRef(S).set
Executing == {stack[i].exec : i \in DOMAIN stack} \ {Nobody}
-----------------------------------------------------------------------------
(* The bookkeeping.  S.obs[w] are the requests that observe w, S.jobs[c]    *)
(* what c observes; S.refs[i] is `active' in frame i: the requests in it,   *)
(* and the work whose set it is, as long as it still is that set.           *)

(* observersByWork.get(w) as a reference.                                   *)
RefTo(S, w) == [of |-> w, set |-> S.obs[w]]

(* The map no longer holds that object: whoever refers to it keeps it.      *)
Unlinked(refs, w) ==
    [i \in DOMAIN refs |-> IF refs[i].of = w
                           THEN [refs[i] EXCEPT !.of = Nobody] ELSE refs[i]]

Adding(refs, w, c) ==
    [i \in DOMAIN refs |-> IF refs[i].of = w
                           THEN [refs[i] EXCEPT !.set = @ \cup {c}] ELSE refs[i]]

Removing(refs, w, c) ==
    [i \in DOMAIN refs |-> IF refs[i].of = w
                           THEN [refs[i] EXCEPT !.set = @ \ {c}] ELSE refs[i]]

(* One observer leaves the set of w, or takes the set with it.              *)
Drop(S, w, c) ==
    IF Cardinality(S.obs[w]) = 1
    THEN [S EXCEPT !.obs[w] = {}, !.refs = Unlinked(@, w)]
    ELSE [S EXCEPT !.obs[w] = @ \ {c}, !.refs = Removing(@, w, c)]

(* release: the request is settled, with outcome out.                       *)
Release(S, c, out) ==
    IF c \notin S.alive THEN S
    ELSE LET last == S.alive = {c}
             D    == FoldSet(LAMBDA w, T : Drop(T, w, c), S, S.jobs[c])
         IN  [D EXCEPT
                !.alive = @ \ {c}, !.opening = @ \ {c},
                !.expected = [w \in Elements |->
                                IF last THEN {} ELSE IF w \in S.jobs[c] THEN @[w] \ {c} ELSE @[w]],
                !.jobs[c] = {}, !.blockers[c] = {}, !.outcome[c] = out]

ReleaseAll(S, cs, out) == FoldSet(LAMBDA c, T : Release(T, c, out), S, cs)

(* settle: nothing left to wait for, unless a write in scope is blocked.    *)
SettleRequest(S, c) ==
    IF c \in S.opening \/ S.jobs[c] # {} THEN S
    ELSE Release(S, c, IF \E e \in S.blockers[c] : InScope(e, RootOf[c])
                       THEN "blocked" ELSE "ok")

(* include: c observes w from now on, if it is in its scope.                *)
Include(S, w, c) ==
    IF w \in S.jobs[c] \/ c \notin S.alive \/ ~InScope(Host(w), RootOf[c]) THEN S
    ELSE [S EXCEPT
            !.obs[w] = @ \cup {c},
            !.refs = IF Cardinality(S.obs[w]) > 1 THEN Adding(@, w, c) ELSE Unlinked(@, w),
            !.jobs[c] = @ \cup {w},
            !.tasks[c] = IF w \in Tasks THEN @ + 1 ELSE @]

IncludeAll(S, ws, c) == FoldSet(LAMBDA w, T : Include(T, w, c), S, ws)

Enroll(S, w) == FoldSet(LAMBDA c, T : Include(T, w, c), S, Active(S) \cup S.opening)

Lost(e, c) == ~Connected(e) \/ ~InScope(e, RootOf[c])

(* detach: the component's work is done; a request it was lost to fails.    *)
Detached(U, e, c, fails) ==
    LET V == [U EXCEPT !.jobs[c] = @ \ {e}]
    IN  IF fails THEN Release(V, c, "abort") ELSE SettleRequest(V, c)

Detach(S, e) ==
    IF ~Observing(S) THEN S
    ELSE LET T == [S EXCEPT !.expected[e] = {}, !.obs[e] = {},
                            !.refs = IF S.obs[e] = {} THEN @ ELSE Unlinked(@, e)]
         IN  FoldSet(LAMBDA c, U : Detached(U, e, c, Lost(e, c) /\ c \notin S.expected[e]),
                     T, S.obs[e])

(* finished: another frame or other work of the component may remain.       *)
Finished(S, e, executing, g) ==
    IF e \notin executing /\ g[e] = {} THEN Detach(S, e) ELSE S

(* failRenderWork: the requests that observe e, and those that are opening. *)
Fail(S, e) ==
    ReleaseAll(S, S.obs[e] \cup {c \in S.opening : InScope(e, RootOf[c])}, "error")

(* enterRenderWork, up to the reference that becomes active.                *)
Enter(S, e, queued) ==
    IF ~Observing(S) THEN S
    ELSE LET T == ReleaseAll(S, {c \in S.obs[e] : Lost(e, c) /\ c \notin S.expected[e]}, "abort")
         IN  IF queued THEN T ELSE Enroll(T, e)

(* blockCompletion: an activation may still unblock e.                      *)
Block(S, c, e) ==
    IF S.tasks[c] # 0 THEN [S EXCEPT !.blockers[c] = @ \cup {e}]
    ELSE Release(S, c, "blocked")

BlockAlive(S, c, e) == IF c \in S.alive THEN Block(S, c, e) ELSE S

(* observeBlocked.                                                          *)
ObserveBlocked(S, e) ==
    LET In(c) == InScope(e, RootOf[c])
        T == FoldSet(LAMBDA c, U : Block(U, c, e), S, {c \in S.opening : In(c)})
        V == FoldSet(LAMBDA c, U : Block(U, c, e), T, {c \in Active(S) : In(c)})
    IN  FoldSet(LAMBDA c, U : [U EXCEPT !.blockers[c] = @ \cup {e}], V,
                {c \in Active(S) : ~In(c) /\ c \in V.alive})

(* One activation is no longer waited for by c.                             *)
ForgetTask(S, t, c) == [S EXCEPT !.jobs[c] = @ \ {t}, !.tasks[c] = @ - 1]

(* The set of t's observers is deleted first; each is then dealt with.      *)
Unobserved(S, t) == [S EXCEPT !.obs[t] = {}, !.refs = Unlinked(@, t)]

(* finishRenderTask and cancelRenderTask.                                   *)
TaskDone(U, t, c, failed) ==
    IF failed THEN Release(ForgetTask(U, t, c), c, "error")
    ELSE SettleRequest(ForgetTask(U, t, c), c)

FinishTask(S, t, failed) ==
    FoldSet(LAMBDA c, U : TaskDone(U, t, c, failed), Unobserved(S, t), S.obs[t])

TaskCancelled(U, t, c) ==
    IF c \in Active(U) THEN SettleRequest(ForgetTask(U, t, c), c)
    ELSE Release(ForgetTask(U, t, c), c, "abort")

CancelTask(S, t) ==
    FoldSet(LAMBDA c, U : TaskCancelled(U, t, c), Unobserved(S, t), S.obs[t])

(* A disposal that the requests in cs expect takes the activation with it.  *)
TaskDisposed(U, t, c) == SettleRequest(ForgetTask(Drop(U, t, c), t, c), c)
RetireTask(S, t, cs) ==
    FoldSet(LAMBDA c, U : TaskDisposed(U, t, c), S, S.obs[t] \cap cs)

(* disconnectRenderWork(e).  A structural disposal (removing) inside a      *)
(* captured render is expected by the requests that render serves.          *)
(* MUTANT: a disposal is expected by every request that observes e. *)
DisconnectAll(S, e, structural) ==
    LET R  == ReleaseAll(S, {c \in S.alive : RootOf[c] = e}, "abort")
        X  == [R EXCEPT !.expected[e] = @ \cup R.obs[e]]
    IN  IF structural /\ Active(R) # {}
        THEN FoldSet(LAMBDA t, T : RetireTask(T, t, T.obs[t]), X,
                     {t \in waiting : TaskHost[t] = e})
        ELSE R

Disconnect(S, e, structural) ==
    LET R  == ReleaseAll(S, {c \in S.alive : RootOf[c] = e}, "abort")
        X  == [R EXCEPT !.expected[e] = @ \cup (R.obs[e] \cap Active(R))]
    IN  IF structural /\ Active(R) # {}
        THEN FoldSet(LAMBDA t, T : RetireTask(T, t, Active(R)), X,
                     {t \in waiting : TaskHost[t] = e})
        ELSE R
-----------------------------------------------------------------------------
(* The scheduler.                                                           *)

(* enqueueRender, with the observer's queued: a component has one slot.     *)
Queued(S, e) ==
    IF Observing(S)
    THEN Enroll([S EXCEPT !.expected[e] = IF Connected(e) THEN {} ELSE @], e)
    ELSE S

Enqueued(q, e) ==
    IF q.index[e] # 0 THEN q
    ELSE [q EXCEPT !.slots = Append(@, e), !.index[e] = Len(q.slots) + 1,
                   !.scheduled = TRUE]

WithDrain(m, q, e) ==
    IF q.index[e] = 0 /\ ~q.scheduled THEN Append(m, <<"drain", Nobody>>) ELSE m

Unslotted(q, e) ==
    IF q.index[e] = 0 THEN q
    ELSE [q EXCEPT !.slots[q.index[e]] = Nobody, !.index[e] = 0]

FinishRender(S, e) == IF Observing(S) THEN Finished(S, e, Executing, gated) ELSE S

(* A component that may be written to: mounted, its template appended.      *)
Appending(e) == \E i \in DOMAIN stack : stack[i].kind = "append" /\ stack[i].el = e
Ready(e) == e \in mounted /\ ("mount" \notin gated[e] \/ Appending(e))
-----------------------------------------------------------------------------
(* History: the requests that w is owed to.  A request is owed what is      *)
(* pending in its scope when it is made, what is queued in its scope while  *)
(* it is opening, and what is queued in its scope by a frame that it is     *)
(* owed itself.                                                             *)
By == IF stack = <<>> THEN {} ELSE Top.by
Credit(S, w) ==
    {c \in S.alive : (c \in S.opening \/ c \in By) /\ InScope(Host(w), RootOf[c])}

InFrames(w) == \E i \in DOMAIN stack : w \in {stack[i].exec, stack[i].task}
Busy(w) ==
    \/ w \in Elements /\ (queue.index[w] # 0 \/ gated[w] # {})
    \/ w \in waiting
    \/ InFrames(w)

(* The work in ws is owed to cs as well; what is done is owed to nobody.    *)
Owe(ws, cs(_)) ==
    cause' = [w \in Work |->
                IF ~Busy(w)' THEN {} ELSE IF w \in ws THEN cause[w] \cup cs(w) ELSE cause[w]]
Owing == Owe({}, LAMBDA w : {})
NoLoss == UNCHANGED loss
-----------------------------------------------------------------------------
RenderInit ==
    /\ \E s \in Scenes :
          /\ parent = s.home
          /\ dormant = s.dormant /\ mounted = Elements \ s.dormant
          /\ gated = [e \in Elements |-> IF e \in s.gated THEN {"mount"} ELSE {}]
          /\ steps = [may |-> s.may, left |-> s.most]
    /\ queue = [slots |-> <<>>, cursor |-> 0, index |-> [e \in Elements |-> 0],
                scheduled |-> FALSE]
    /\ dirty = {} /\ waiting = {} /\ blocked = {}
    /\ rc = [alive    |-> {}, opening |-> {},
             obs      |-> [w \in Work |-> {}],
             jobs     |-> [c \in Requests |-> {}],
             tasks    |-> [c \in Requests |-> 0],
             blockers |-> [c \in Requests |-> {}],
             expected |-> [e \in Elements |-> {}],
             outcome  |-> [c \in Requests |-> "none"],
             refs     |-> <<>>]
    /\ stack = <<>> /\ thrown = FALSE /\ micro = <<>>
    /\ cause = [w \in Work |-> {}]
    /\ loss = [by |-> [e \in Elements |-> {}], of |-> {}]

(* Code of the application or of a binding, in the innermost frame.         *)
Running ==
    /\ ~thrown
    /\ stack # <<>> => /\ Top.kind \notin {"drain", "moved"}
                       /\ Top.kind = "render" => Ready(Top.el)

Step(name) ==
    /\ Running
    /\ name \in steps.may /\ steps.left > 0
    /\ steps' = [steps EXCEPT !.left = @ - 1]

(* A frame begins on top of `was'; a tracked one is executing for the       *)
(* observer, and the requests that observe its component become active.     *)
Begin(f, was, S, tracked) ==
    /\ Len(was) < MaxFrames
    /\ stack' = Append(was, [f EXCEPT !.exec = IF tracked THEN f.el ELSE Nobody])
    /\ rc' = [S EXCEPT !.refs = Append(@, IF tracked THEN RefTo(S, f.el) ELSE ActiveRef(S))]

(* A reactive write to a mounted component.                                 *)
Write(e) ==
    /\ Step("write") /\ Ready(e)
    /\ dirty' = dirty \cup {e}
    /\ queue' = Enqueued(queue, e)
    /\ micro' = WithDrain(micro, queue, e)
    /\ rc' = Queued(rc, e)
    /\ UNCHANGED <<parent, mounted, dormant, gated, waiting, blocked, stack, thrown>>
    /\ Owe({e}, LAMBDA w : Credit(rc, w))

(* The render of e, by the drain or by a synchronous flush.                 *)
BeginRender(e, mode) ==
    LET f == [Frame("render", e) EXCEPT !.mode = mode, !.by = cause[e]]
    IN  /\ dirty' = dirty \ {e}
        /\ Begin(f, stack, Enter(rc, e, TRUE), Observing(rc))

Flush(e) ==
    /\ Step("flush") /\ queue.index[e] # 0
    /\ BeginRender(e, "flush")
    /\ UNCHANGED <<parent, mounted, dormant, queue, gated, waiting, blocked, thrown, micro>>
    /\ Owing

(* An explicit refresh of e, which is gated work while it is observed.      *)
BeginRefresh(e, was, S) ==
    LET f == [Frame("refresh", e) EXCEPT !.by = cause[e] \cup Credit(S, e)]
    IN  /\ dirty' = dirty \ {e}
        /\ gated' = IF Observing(S) THEN [gated EXCEPT ![e] = @ \cup {"update"}] ELSE gated
        /\ Begin(f, was, Enter(Queued(S, e), e, FALSE), Observing(S))
        /\ Owe({e}, LAMBDA w : Credit(S, w))

Refresh(e) ==
    /\ Step("refresh") /\ Ready(e)
    /\ UNCHANGED <<parent, mounted, dormant, queue, waiting, blocked, thrown, micro>>
    /\ BeginRefresh(e, stack, rc)

(* A callback of e (invokeRenderCallback) or its mount (mode "mount").      *)
BeginCall(e, mode, was, S, tracked) ==
    LET f == [Frame("call", e) EXCEPT !.mode = mode, !.by = cause[e] \cup Credit(S, e)]
    IN  /\ Begin(f, was, Enter(S, e, FALSE), tracked)
        /\ Owe({e}, LAMBDA w : Credit(S, w))

Call(e) ==
    /\ Step("call") /\ Ready(e)
    /\ UNCHANGED <<parent, mounted, dormant, queue, dirty, gated, waiting, blocked, thrown, micro>>
    /\ BeginCall(e, "none", stack, rc, Observing(rc))

(* A mount finds stylesheets it has to wait for.                            *)
DeferMount ==
    /\ Step("mount") /\ stack # <<>> /\ Top.kind = "call" /\ Top.mode = "mount"
    /\ gated[Top.el] = {}
    /\ gated' = [gated EXCEPT ![Top.el] = @ \cup {"mount"}]
    /\ rc' = Queued(rc, Top.el)
    /\ UNCHANGED <<parent, mounted, dormant, queue, dirty, waiting, blocked, stack, thrown, micro>>
    /\ Owe({Top.el}, LAMBDA w : Credit(rc, w))

(* The stylesheets have loaded, or failed: the mount goes on.               *)
ContinueMount(e) ==
    /\ stack = <<>> /\ "mount" \in gated[e]
    /\ Begin([Frame("append", e) EXCEPT !.by = cause[e] \cup Credit(rc, e)],
             stack, Enter(rc, e, FALSE), TRUE)
    /\ UNCHANGED <<parent, mounted, dormant, queue, dirty, gated, waiting, blocked, thrown, micro, steps>>
    /\ Owe({e}, LAMBDA w : Credit(rc, w))

StylesheetFails(e) ==
    /\ stack = <<>> /\ "mount" \in gated[e] /\ Step("throw")
    /\ rc' = Fail(rc, e)
    /\ UNCHANGED <<parent, mounted, dormant, queue, dirty, gated, waiting, blocked, stack, thrown, micro>>
    /\ Owing

(* A lazy activation starts, or is asked for again while it loads.          *)
QueueTask(t) ==
    /\ Step("task") /\ TaskHost[t] \in mounted
    /\ waiting' = waiting \cup {t}
    /\ rc' = IF Observing(rc) THEN Enroll(rc, t) ELSE rc
    /\ UNCHANGED <<parent, mounted, dormant, queue, dirty, gated, blocked, stack, thrown, micro>>
    /\ Owe({t}, LAMBDA w : Credit(rc, w))

(* It has loaded or failed to: enterRenderTask.                             *)
RunTask(t) ==
    LET f == [Frame("task", TaskHost[t]) EXCEPT !.task = t, !.by = cause[t]]
        S == ReleaseAll(rc, {c \in rc.obs[t] : Lost(TaskHost[t], c)}, "abort")
    IN  /\ stack = <<>> /\ t \in waiting
        /\ stack' = Append(stack, f)
        /\ rc' = [S EXCEPT !.refs = Append(@, RefTo(S, t))]
        /\ UNCHANGED <<parent, mounted, dormant, queue, dirty, gated, waiting, blocked, thrown, micro, steps>>
        /\ Owing

(* Its region closes.                                                       *)
Cancel(t) ==
    /\ Step("cancel") /\ t \in waiting /\ ~InFrames(t)
    /\ waiting' = waiting \ {t}
    /\ rc' = CancelTask(rc, t)
    /\ UNCHANGED <<parent, mounted, dormant, queue, dirty, gated, blocked, stack, thrown, micro>>
    /\ Owing

(* A parent writes to a component that cannot take it yet.                  *)
BlockWrite(e) ==
    /\ Step("block") /\ e \in dormant
    /\ blocked' = blocked \cup {e}
    /\ rc' = IF Observing(rc) THEN ObserveBlocked(rc, e) ELSE rc
    /\ UNCHANGED <<parent, mounted, dormant, queue, dirty, gated, waiting, stack, thrown, micro>>
    /\ Owing

(* Its definition loads: it is upgraded and mounts.  An activation that it  *)
(* is a part of brings its own requests (joinHydratedMount).                *)
Upgrade(e) ==
    LET ts == {t \in waiting : TaskHost[t] # e /\ InScope(e, TaskHost[t])}
        B  == [rc EXCEPT !.blockers = [c \in Requests |-> @[c] \ {e}]]
        J  == IF Observing(rc)
              THEN FoldSet(LAMBDA c, T : Include(T, e, c), B, UNION {rc.obs[t] : t \in ts})
              ELSE B
    IN  /\ Step("upgrade") /\ stack = <<>> /\ e \in dormant /\ Connected(e)
        /\ mounted' = mounted \cup {e} /\ dormant' = dormant \ {e}
        /\ blocked' = blocked \ {e}
        /\ UNCHANGED <<parent, queue, dirty, gated, waiting, thrown, micro>>
        /\ BeginCall(e, "mount", stack, J, Observing(rc))
-----------------------------------------------------------------------------
(* The DOM.  The reactions of the components that left or came run next, in *)
(* a frame of their own.                                                    *)
Move(e, to, mode) ==
    /\ Len(stack) < MaxFrames
    /\ parent' = [parent EXCEPT ![e] = to]
    /\ stack' = Append(stack, [Frame("moved", e) EXCEPT !.mode = mode, !.by = By])
    /\ rc' = [rc EXCEPT !.refs = Append(@, ActiveRef(rc))]
    /\ UNCHANGED <<mounted, dormant, queue, dirty, gated, waiting, blocked, thrown, micro>>
    /\ Owing

(* A binding disposes of what it no longer shows, an author removes a       *)
(* component, or puts it somewhere else.                                    *)
DisposeChild(e) ==
    /\ Step("dispose") /\ stack # <<>> /\ Top.kind \in {"render", "refresh", "append"}
    /\ Connected(e) /\ e # Top.el /\ InScope(e, Top.el)
    /\ Move(e, Nobody, "disposed")

TakeOut(e) == Step("remove") /\ Connected(e) /\ Move(e, Nobody, "removed")

PutIn(e, to) ==
    /\ Step("insert") /\ parent[e] = Nobody
    /\ to \notin Below(e) /\ (to = Doc \/ Connected(to))
    /\ Below(e) \ {e} \subseteq mounted
    /\ Move(e, to, "inserted")

(* disconnectedCallback of e and of what is below it: teardown is left to a *)
(* microtask.                                                               *)
Disconnected ==
    LET e  == Top.el
        S  == FoldSet(LAMBDA d, T : Disconnect(T, d, Top.mode = "disposed"), rc, Below(e))
    IN  /\ ~thrown /\ stack # <<>> /\ Top.kind = "moved" /\ Top.mode # "inserted"
        /\ rc' = [S EXCEPT !.refs = Front(@)]
        /\ stack' = Front(stack)
        /\ micro' = micro \o [i \in 1 .. Cardinality(Below(e) \cap mounted) |->
                              <<"destroy", SetToSeq(Below(e) \cap mounted)[i]>>]
        /\ UNCHANGED <<parent, mounted, dormant, queue, dirty, gated, waiting, blocked, thrown, steps>>
        /\ loss' = [loss EXCEPT !.by = [d \in Elements |->
                        IF d \in Below(e) /\ Top.mode = "disposed" THEN @[d] \cup Top.by ELSE @[d]]]
        /\ cause' = [w \in Work |->
                       IF ~Busy(w)' THEN {}
                       ELSE IF w \in Tasks /\ TaskHost[w] \in Below(e) /\ Top.mode = "disposed"
                       THEN cause[w] \ Active(rc) ELSE cause[w]]

(* connectedCallback: mount again, or refresh, or wait for the mount that   *)
(* has started.                                                             *)
Reconnected ==
    LET e == Top.el
        S == [rc EXCEPT !.refs = Front(@)]
    IN  /\ ~thrown /\ stack # <<>> /\ Top.kind = "moved" /\ Top.mode = "inserted"
        /\ UNCHANGED <<parent, dormant, queue, waiting, blocked, thrown, micro, steps>>
        /\ \/ /\ e \notin mounted /\ e \notin dormant
              /\ mounted' = mounted \cup {e}
              /\ UNCHANGED <<dirty, gated>>
              /\ BeginCall(e, "mount", Front(stack), S, Observing(S))
           \/ /\ Ready(e)
              /\ UNCHANGED mounted
              /\ BeginRefresh(e, Front(stack), S)
           \/ /\ ~Ready(e) /\ (e \in mounted \/ e \in dormant)
              /\ rc' = S /\ stack' = Front(stack)
              /\ UNCHANGED <<mounted, dirty, gated>>
              /\ Owing
-----------------------------------------------------------------------------
(* The end of a frame; failed says that an exception leaves it.             *)

Leave(S, q, g) ==
    LET T    == [S EXCEPT !.refs = Front(@)]
        rest == {stack[i].exec : i \in 1 .. Len(stack) - 1}
    IN  IF /\ Top.exec # Nobody /\ Top.exec \notin rest
           /\ q.index[Top.exec] = 0 /\ g[Top.exec] = {}
        THEN Detach(T, Top.exec) ELSE T

(* Is an exception still on its way once the frame is gone?                 *)
StillThrown(failed) == thrown' = (failed /\ Len(stack) > 1 /\ Top.kind # "task")

(* A render ends: the slot is released, and what was written meanwhile, or  *)
(* not reached before the exception, is queued again.                       *)
EndRender(failed) ==
    LET e == Top.el
        S == FinishRender(IF failed THEN Fail(rc, e) ELSE rc, e)
        q == Unslotted(queue, e)
    IN  /\ stack # <<>> /\ Top.kind = "render" /\ failed = thrown
        /\ ~failed => e \notin dirty
        /\ \E tail \in IF failed THEN {{}, {e}} ELSE {{}} :
              LET again == e \in dirty \cup tail
              IN  /\ dirty' = dirty \cup tail
                  /\ queue' = IF again THEN Enqueued(q, e) ELSE q
                  /\ micro' = IF again THEN WithDrain(micro, q, e) ELSE micro
                  /\ rc' = Leave(IF again THEN Queued(S, e) ELSE S, queue', gated)
        /\ stack' = Front(stack)
        /\ StillThrown(failed)
        /\ UNCHANGED <<parent, dormant, mounted, gated, waiting, blocked, steps>>
        /\ Owing

(* Writes that came during the render are taken up by the same render.      *)
RenderAgain ==
    /\ ~thrown /\ stack # <<>> /\ Top.kind = "render" /\ Top.el \in dirty
    /\ dirty' = dirty \ {Top.el}
    /\ UNCHANGED <<parent, dormant, mounted, queue, gated, waiting, blocked, rc, stack, thrown,
                   micro, steps>>
    /\ Owing

(* A refresh, or the continuation of a mount, finishes its gated work       *)
(* (finishRenderWork) before it leaves.                                     *)
EndGated(kind, failed) ==
    LET work == IF kind = "append" THEN {"mount"} ELSE {"update"}
        g == [gated EXCEPT ![Top.el] = @ \ work]
        S == IF failed THEN Fail(rc, Top.el) ELSE rc
    IN  /\ stack # <<>> /\ Top.kind = kind /\ failed = thrown
        /\ gated' = IF Top.exec # Nobody THEN g ELSE gated
        /\ rc' = Leave(IF Top.exec # Nobody THEN Finished(S, Top.el, Executing, g) ELSE S,
                       queue, gated')
        /\ stack' = Front(stack)
        /\ StillThrown(failed)
        /\ UNCHANGED <<parent, dormant, mounted, queue, dirty, waiting, blocked, micro, steps>>
        /\ Owing

EndCall(failed) ==
    /\ stack # <<>> /\ Top.kind = "call" /\ failed = thrown
    /\ rc' = Leave(IF failed THEN Fail(rc, Top.el) ELSE rc, queue, gated)
    /\ stack' = Front(stack)
    /\ StillThrown(failed)
    /\ UNCHANGED <<parent, dormant, mounted, queue, dirty, gated, waiting, blocked, micro, steps>>
    /\ Owing

(* The author of a callback may catch what a nested render has thrown.      *)
Catch ==
    /\ thrown /\ Top.kind = "call"
    /\ thrown' = FALSE
    /\ UNCHANGED <<parent, dormant, mounted, queue, dirty, gated, waiting, blocked, rc, stack,
                   micro, steps, cause>>

(* leaveRenderTask and finishRenderTask; a load may have failed by itself.  *)
EndTask(failed) ==
    /\ stack # <<>> /\ Top.kind = "task" /\ (thrown => failed)
    /\ waiting' = waiting \ {Top.task}
    /\ rc' = FinishTask([rc EXCEPT !.refs = Front(@)], Top.task, failed)
    /\ stack' = Front(stack)
    /\ thrown' = FALSE
    /\ UNCHANGED <<parent, dormant, mounted, queue, dirty, gated, blocked, micro, steps>>
    /\ Owing
-----------------------------------------------------------------------------
(* $whenRendered: what is pending in scope is included, a blocked write in  *)
(* scope fails the request, and a microtask closes its opening phase.       *)
WhenRendered(c) ==
    LET N == [rc EXCEPT !.alive = @ \cup {c}, !.opening = @ \cup {c}]
        found == (Range(queue.slots) \ {Nobody}) \cup {e \in Elements : gated[e] # {}} \cup waiting
        I == IncludeAll(N, found, c)
        S == FoldSet(LAMBDA e, T : BlockAlive(T, c, e), I, {e \in blocked : InScope(e, RootOf[c])})
    IN  /\ Running /\ rc.outcome[c] = "none" /\ c \notin rc.alive
        /\ Ready(RootOf[c]) /\ Connected(RootOf[c])
        /\ rc' = S
        /\ micro' = IF c \in S.alive THEN Append(micro, <<"seal", c>>) ELSE micro
        /\ UNCHANGED <<parent, dormant, mounted, queue, dirty, gated, waiting, blocked, stack, thrown,
                       steps>>
        /\ Owe(found, LAMBDA w : {c} \cap {d \in Requests : InScope(Host(w), RootOf[d])})

Microtask(kind) ==
    /\ stack = <<>> /\ micro # <<>> /\ Head(micro)[1] = kind

Seal ==
    /\ Microtask("seal")
    /\ micro' = Tail(micro)
    /\ LET c == Head(micro)[2]
       IN  rc' = SettleRequest([rc EXCEPT !.opening = @ \ {c}], c)
    /\ UNCHANGED <<parent, dormant, mounted, queue, dirty, gated, waiting, blocked, stack, thrown, steps>>
    /\ Owing

(* $destroy, unless the component has come back.                            *)
DestroyComponent ==
    LET e  == Head(micro)[2]
        ts == {t \in waiting : TaskHost[t] = e}
        B  == [rc EXCEPT !.blockers = [c \in Requests |-> @[c] \ {e}]]
        C  == FoldSet(LAMBDA t, T : CancelTask(T, t), B, ts)
        D  == ReleaseAll(C, C.obs[e] \ C.expected[e], "abort")
        g  == [gated EXCEPT ![e] = {}]
    IN  /\ Microtask("destroy")
        /\ micro' = Tail(micro)
        /\ UNCHANGED <<parent, dormant, stack, thrown, steps>>
        /\ \/ /\ ~Connected(e)
              /\ waiting' = waiting \ ts
              /\ gated' = g
              /\ queue' = Unslotted(queue, e)
              /\ dirty' = dirty \ {e}
              /\ mounted' = mounted \ {e}
              /\ blocked' = blocked \ {e}
              /\ loss' = [by |-> [loss.by EXCEPT ![e] = {}],
                          of |-> loss.of \cup ((cause[e] \cap rc.alive) \ loss.by[e])]
              /\ rc' = Detach(IF Observing(D) THEN Finished(D, e, Executing, g) ELSE D, e)
           \/ /\ Connected(e)
              /\ UNCHANGED <<waiting, gated, queue, dirty, mounted, blocked, rc, loss>>
        /\ Owing

Drain ==
    /\ Microtask("drain")
    /\ micro' = Tail(micro)
    /\ stack' = <<Frame("drain", Nobody)>>
    /\ rc' = [rc EXCEPT !.refs = <<ActiveRef(rc)>>]
    /\ UNCHANGED <<parent, dormant, mounted, queue, dirty, gated, waiting, blocked, thrown, steps>>
    /\ Owing

Draining == stack # <<>> /\ Top.kind = "drain"

DrainNext ==
    LET e == queue.slots[queue.cursor + 1]
    IN  /\ Draining /\ ~thrown /\ queue.cursor < Len(queue.slots)
        /\ queue' = [queue EXCEPT !.slots[queue.cursor + 1] = Nobody, !.cursor = @ + 1]
        /\ UNCHANGED <<parent, dormant, mounted, gated, waiting, blocked, thrown, micro, steps>>
        /\ IF e = Nobody THEN UNCHANGED <<dirty, rc, stack>> ELSE BeginRender(e, "none")
        /\ Owing

(* The drain ends, or an exception ends it: the rest gets another one.      *)
(* MUTANT: a drain that fails does not schedule the rest. *)
DrainForgets ==
    LET done == queue.cursor = Len(queue.slots)
    IN  /\ Draining /\ (thrown \/ done)
        /\ queue' = [queue EXCEPT !.slots = IF done THEN <<>> ELSE @,
                                  !.cursor = IF done THEN 0 ELSE @,
                                  !.scheduled = FALSE]
        /\ UNCHANGED micro
        /\ stack' = Front(stack) /\ thrown' = FALSE
        /\ rc' = [rc EXCEPT !.refs = Front(@)]
        /\ UNCHANGED <<parent, dormant, mounted, dirty, gated, waiting, blocked, steps>>
        /\ Owing

DrainEnd ==
    LET done == queue.cursor = Len(queue.slots)
    IN  /\ Draining /\ (thrown \/ done)
        /\ queue' = [queue EXCEPT !.slots = IF done THEN <<>> ELSE @,
                                  !.cursor = IF done THEN 0 ELSE @,
                                  !.scheduled = ~done]
        /\ micro' = IF done THEN micro ELSE Append(micro, <<"drain", Nobody>>)
        /\ stack' = Front(stack) /\ thrown' = FALSE
        /\ rc' = [rc EXCEPT !.refs = Front(@)]
        /\ UNCHANGED <<parent, dormant, mounted, dirty, gated, waiting, blocked, steps>>
        /\ Owing

Throw ==
    /\ Step("throw") /\ stack # <<>>
    /\ thrown' = TRUE
    /\ UNCHANGED <<parent, dormant, mounted, queue, dirty, gated, waiting, blocked, rc, stack, micro,
                   cause>>
-----------------------------------------------------------------------------
(* What the framework does by itself.                                       *)
System ==
    \/ Disconnected \/ DestroyComponent
    \/ /\ NoLoss
       /\ \/ Drain \/ DrainNext \/ DrainEnd \/ Seal \/ RenderAgain \/ Reconnected
          \/ \E failed \in BOOLEAN :
                \/ EndRender(failed) \/ EndCall(failed) \/ EndTask(failed)
                \/ EndGated("refresh", failed) \/ EndGated("append", failed)
          \/ \E e \in Elements : ContinueMount(e)
          \/ \E t \in Tasks : RunTask(t)

(* What bindings, authors and the network do.                               *)
FreeStep ==
    \/ Catch \/ Throw \/ DeferMount
    \/ \E e \in Elements :
          \/ Write(e) \/ Flush(e) \/ Refresh(e) \/ Call(e) \/ StylesheetFails(e)
          \/ BlockWrite(e) \/ Upgrade(e) \/ DisposeChild(e) \/ TakeOut(e)
          \/ \E to \in Elements \cup {Doc} : PutIn(e, to)
    \/ \E t \in Tasks : QueueTask(t) \/ Cancel(t)
    \/ \E c \in Requests : WhenRendered(c)

RenderNext == System \/ (FreeStep /\ NoLoss)

RenderSpec == RenderInit /\ [][RenderNext]_renderVars
-----------------------------------------------------------------------------
(* A request that loses what it is owed, other than to its own renders,     *)
(* does not report success: the loss may have been to the author, or to the *)
(* render of another request that shares the work (disconnectRenderWork,    *)
(* destroyRenderWork and expectedRemovals).                                 *)
LossFails == \A c \in loss.of : rc.outcome[c] # "ok"

(* A request resolves only when nothing that it is owed is still to be      *)
(* rendered: neither what was pending in its scope when it was made, nor    *)
(* what its renders have queued since, nor what somebody else removed       *)
(* (render-completion.ts settle, detach; several requests, frames and kinds *)
(* of work share the sets of observers).                                    *)
ResolvedIsRendered ==
    /\ \A c \in Requests : rc.outcome[c] = "ok" => \A w \in Work : c \notin cause[w]
    /\ LossFails

(* A request never waits for work that is no longer there: whatever path    *)
(* ends the work (a render, an exception, a flush, a removal, a cancelled   *)
(* activation) takes it out of every request, and a request with nothing    *)
(* left is settled.                                                         *)
WaitsForSomething ==
    \A c \in rc.alive :
        /\ \A w \in rc.jobs[c] : Busy(w) /\ c \in rc.obs[w]
        /\ c \in rc.opening \/ rc.jobs[c] # {}
        /\ rc.tasks[c] = Cardinality(rc.jobs[c] \cap Tasks)

(* A written component is rendered: it has a slot that a drain will reach,  *)
(* or the render that holds its index is on the stack and looks again       *)
(* (enqueueRender, finishRender and drain of render-scheduler.ts, with jobs *)
(* that throw and flushes that overtake their slot).                        *)
WrittenIsQueued ==
    \A e \in dirty :
        \/ \E i \in queue.cursor + 1 .. Len(queue.slots) :
              /\ queue.slots[i] = e /\ queue.index[e] = i
              /\ \/ \E k \in DOMAIN micro : micro[k][1] = "drain"
                 \/ \E k \in DOMAIN stack : stack[k].kind = "drain"
        \/ \E k \in DOMAIN stack : stack[k].kind = "render" /\ stack[k].el = e

(* Nobody hangs: what a request waits for is there to be done, and what was *)
(* written will be rendered.  Otherwise $whenRendered would never settle.   *)
NobodyHangs == WaitsForSomething /\ WrittenIsQueued
=============================================================================
