---------------------------- MODULE StreamingPage ----------------------------
(***************************************************************************)
(* The page that receives the response of StreamingSession: the document's  *)
(* streaming coordinator (streaming-coordinator.ts), the roots it keeps     *)
(* behind a missing definition or an unfinished ancestor                    *)
(* (streaming-deferred.ts), the component spans (streaming-spans.ts), the   *)
(* state references (streaming-record-state.ts), the completion gate        *)
(* (lifecycle.ts) and the activation hook with the ancestor barrier of      *)
(* template-element.ts, all under packages/webui-framework/src.             *)
(*                                                                          *)
(* The document is the roots of the response (elements that carry data-ws)  *)
(* in document order, with the roots around each of them.  The page runs to *)
(* completion: a drain processes record after record and nothing else runs  *)
(* until it ends (the optional sliced drain is left out).  Custom elements  *)
(* react as the HTML standard says: a definition upgrades the elements of   *)
(* its tag one after the other in document order, each with its             *)
(* connectedCallback.                                                       *)
(* Hydration hooks and setState do not throw; the retention limits on       *)
(* elements, the walk limits, the static-host runtime, detached roots and   *)
(* the removal of markers are left out.                                     *)
(***************************************************************************)
EXTENDS StreamingSession

CONSTANTS
    Order,        \* the streamed component hosts in document order, the
                  \* documents of the programs one after the other
    Around,       \* for each host the hosts that contain it, nearest first
    Tag,          \* its tag
    RangeOf,      \* the construct that renders it: its own span or a boundary
    MaxQueued,    \* MAX_QUEUED_BOUNDARIES, 512 in the code
    MaxFaults     \* bound, for each program: records the network loses or repeats

Roots == ToSet(Order)

(* The layout is one of components in the document.                         *)
ASSUME PageAssumption ==
    /\ DOMAIN Around = Roots /\ DOMAIN Tag = Roots /\ DOMAIN RangeOf = Roots
    /\ \A r \in Roots : ToSet(Around[r]) \subseteq Roots
    /\ MaxQueued \in Nat \ {0} /\ MaxFaults \in [Programs -> Nat]

VARIABLES
    fed,        \* how many records of the wire the parser has passed
    faults,     \* how many of them the network lost or repeated
    ended,      \* the response has ended and DOMContentLoaded has fired
    queue,      \* the sentinels that wait
    pump,       \* the drain: "idle", "scheduled" or "draining"
    halted,     \* the coordinator gave the stream up
    expected,   \* [record, boundary, span]: the ids that must come next
    openSpans,  \* the open spans: [id -> [host, parent, children]]
    terminal,   \* "none", "committed" or "settled"
    lastRange,  \* [seq, state] of the last range record
    updatable,  \* the boundaries that may still be updated
    page,       \* the elements and the gate, see PageInit
    sent        \* the updates committed for each boundary (history)

pageVars == <<fed, faults, ended, queue, pump, halted, expected, openSpans,
              terminal, lastRange, updatable, page, sent>>

Boundaries == 0..(MaxOccurrences - 1)
InDocument == {r \in Roots : \E i \in DOMAIN program : program[i].name = RangeOf[r]}
Tags == {Tag[r] : r \in InDocument}
NoRoot == "none"
NoRecord == [state |-> Empty, boundary |-> None, bypass |-> NoRoot]
NoPatch == [absent |-> TRUE]

Inside(r) == {d \in Roots : \E i \in DOMAIN Around[d] : Around[d][i] = r}
InOrder(R) == SelectSeq(Order, LAMBDA r : r \in R)

(* The page's elements: `phase` is marked (data-ws, not yet reached),       *)
(* waiting (behind a definition), barrier (behind an ancestor), live or     *)
(* dropped; `rec` is the pending record of a deferred root; `behind` the    *)
(* roots registered with an ancestor, in order.  `due` holds the roots a    *)
(* definition in progress has not upgraded yet.                             *)
PageInit ==
    /\ fed = 0
    /\ faults = 0
    /\ ended = FALSE
    /\ queue = <<>>
    /\ pump = "idle"
    /\ halted = FALSE
    /\ expected = [record |-> 0, boundary |-> 0, span |-> 0]
    /\ openSpans = Empty
    /\ terminal = "none"
    /\ lastRange = [seq |-> None, state |-> Empty]
    /\ updatable = {}
    /\ sent = [b \in Boundaries |-> Empty]
    /\ page = [phase   |-> [r \in Roots |-> "marked"],
               rec     |-> [r \in Roots |-> NoRecord],
               behind  |-> [r \in Roots |-> <<>>],
               shown   |-> [r \in Roots |-> Empty],
               patched |-> [r \in Roots |-> Empty],
               declared |-> {}, metadata |-> {}, due |-> {},
               release |-> <<>>, bad |-> FALSE,
               alive   |-> [b \in Boundaries |-> {}],
               active  |-> [b \in Boundaries |-> TRUE],
               pendingRoots |-> [b \in Boundaries |-> 0],
               patch   |-> [b \in Boundaries |-> NoPatch],
               late |-> 0, boundaries |-> 0, gate |-> "open", ready |-> FALSE,
               complete |-> FALSE]

-----------------------------------------------------------------------------
(* lifecycle.ts.                                                            *)

(* MUTANT: the gate completes although definitions are awaited.             *)
TryCompleteEarly(p) ==
    IF p.ready /\ p.gate = "terminal" /\ p.boundaries = 0
    THEN [p EXCEPT !.complete = TRUE] ELSE p

TryComplete(p) ==
    IF p.ready /\ p.gate = "terminal" /\ p.boundaries = 0 /\ p.late = 0
    THEN [p EXCEPT !.complete = TRUE] ELSE p

SettleLate(p) == TryComplete([p EXCEPT !.late = @ - 1])

-----------------------------------------------------------------------------
(* streaming-deferred.ts and the hook of template-element.ts.               *)

Defined(p) == p.declared \cap p.metadata

(* $nearestHydrationBarrier: the nearest root around r that is not live,    *)
(* one of them excepted; an element whose class and template are unknown    *)
(* is no barrier.                                                           *)
Barrier(p, r, bypass) ==
    LET blocking == {i \in DOMAIN Around[r] :
                        /\ Around[r][i] # bypass
                        /\ p.phase[Around[r][i]] # "live"
                        /\ Tag[Around[r][i]] \in p.metadata}
    IN  IF blocking = {} THEN NoRoot
        ELSE Around[r][CHOOSE i \in blocking : \A j \in blocking : i <= j]

Stash(p, r, phase, record) ==
    [p EXCEPT !.phase[r] = phase,
              !.rec[r] = record,
              !.pendingRoots = IF record.boundary = None THEN @
                               ELSE [@ EXCEPT ![record.boundary] = @ + 1]]

(* takePendingRecord.                                                       *)
Take(p, r) ==
    [p EXCEPT !.phase[r] = "marked",
              !.rec[r] = NoRecord,
              !.pendingRoots = IF p.rec[r].boundary = None THEN @
                               ELSE [@ EXCEPT ![p.rec[r].boundary] = @ - 1]]

(* releaseUpdates: the boundary, while it can still reach this root.        *)
Reachable(p, b) ==
    IF b # None /\ (p.active[b] \/ p.patch[b] # NoPatch) THEN b ELSE None

(* MUTANT: a patch that was queued for a root is not replayed when it joins.*)
JoinWithoutReplay(p, r, b) ==
    IF b = None THEN p
    ELSE [p EXCEPT !.alive[b] = IF p.active[b] THEN @ \cup {r} ELSE @]

(* joinBoundaryUpdates.                                                     *)
Join(p, r, b) ==
    IF b = None THEN p
    ELSE [p EXCEPT !.alive[b] = IF p.active[b] THEN @ \cup {r} ELSE @,
                   !.patched[r] = IF p.patch[b] = NoPatch THEN @
                                  ELSE Over(@, p.patch[b])]

(* The boundary's queued patch is dropped with its last deferred root.      *)
DropPatch(p, b) ==
    IF b # None /\ p.pendingRoots[b] = 0
    THEN [p EXCEPT !.patch[b] = NoPatch] ELSE p

(* The activation hook of one element: live, behind a barrier, or without a *)
(* hook because the element is not upgraded yet.  A hydrated element queues *)
(* the roots behind it for release.                                         *)
Hook(p, r, state, bypass) ==
    LET barrier == Barrier(p, r, bypass)
        left == [a \in Roots |-> SelectSeq(p.behind[a], LAMBDA d : d # r)]
    IN  IF r \in p.due THEN [p EXCEPT !.bad = TRUE]
        ELSE IF barrier # NoRoot
        THEN [p EXCEPT !.behind = [left EXCEPT ![barrier] = Append(@, r)]]
        ELSE [p EXCEPT !.phase[r] = "live",
                       !.shown[r] = state,
                       !.behind = [left EXCEPT ![r] = <<>>],
                       !.release = @ \o p.behind[r]]

(* resumeRetainedRoot: after the hook an active root joins its boundary and *)
(* a root that is still blocked is retained again.                          *)
Resumed(p, r, record, b) ==
    IF p.bad THEN p
    ELSE IF p.phase[r] = "live" THEN Join(p, r, b)
    ELSE Stash(p, r, "barrier", [record EXCEPT !.boundary = b])

(* resumeBarrierRoot, during a release: the roots it releases in turn join  *)
(* the queue that is being drained.                                         *)
ResumeBarrier(p, r) ==
    LET record == p.rec[r]
        t == Take(p, r)
        b == Reachable(t, record.boundary)
    IN  IF p.phase[r] # "barrier" THEN p
        ELSE DropPatch(Resumed(Hook(t, r, record.state, record.bypass), r, record, b), b)

(* $releaseDeferredDescendants: one queue for the document, drained by the  *)
(* element whose hydration filled it first.                                 *)
RECURSIVE Released(_)
Released(p) ==
    IF p.release = <<>> \/ p.bad THEN p
    ELSE Released(ResumeBarrier([p EXCEPT !.release = Tail(@)], Head(p.release)))

(* The hook from outside a release: everything it releases comes first.     *)
Hydrate(p, r, state, bypass) == Released(Hook(p, r, state, bypass))

(* activatePendingBarrierRoot, for a walk that meets a root behind a        *)
(* barrier.                                                                 *)
ActivateBarrier(p, r) ==
    LET record == p.rec[r]
        t == Take(p, r)
        b == Reachable(t, record.boundary)
    IN  DropPatch(Resumed(Hydrate(t, r, record.state, record.bypass), r, record, b), b)

Awaited(p, tag) == \E o \in Roots : p.phase[o] = "waiting" /\ Tag[o] = tag

(* activateMarkedElement.                                                   *)
ActivateMarked(p, r, state, b, bypass) ==
    LET record == [state |-> state, boundary |-> b, bypass |-> bypass]
    IN  CASE p.phase[r] = "waiting" -> p
          [] p.phase[r] = "barrier" -> ActivateBarrier(p, r)
          [] p.phase[r] = "marked" /\ Tag[r] \in Defined(p) ->
                Resumed(Hydrate(p, r, state, bypass), r, record, b)
          [] p.phase[r] = "marked" /\ Tag[r] \notin Defined(p) ->
                [Stash(p, r, "waiting", record) EXCEPT
                    !.late = IF Awaited(p, Tag[r]) THEN @ ELSE @ + 1]

(* activateDeferredTree: the marked roots in document order; the roots      *)
(* inside a deferred one are passed over.                                   *)
Walk(p, roots, state, b, bypass) ==
    FoldLeft(LAMBDA q, r :
                 IF \/ q.bad
                    \/ q.phase[r] \in {"live", "dropped"}
                    \/ \E i \in DOMAIN Around[r] :
                          /\ Contains(roots, Around[r][i])
                          /\ q.phase[Around[r][i]] \in {"waiting", "barrier"}
                 THEN q
                 ELSE ActivateMarked(q, r, state, b, bypass),
             p, roots)

(* activatePendingRoot: a root whose tag has been defined; once live, the   *)
(* marked roots inside it follow, and then its waiter may be settled.       *)
ActivatePending(p, r) ==
    LET record == p.rec[r]
        t == Take(p, r)
        b == Reachable(t, record.boundary)
        q == Resumed(Hydrate(t, r, record.state, record.bypass), r, record, b)
        w == IF q.bad \/ q.phase[r] # "live" THEN q
             ELSE Walk(q, InOrder(Inside(r)), record.state, b, record.bypass)
        d == DropPatch(w, b)
    IN  IF d.bad \/ Awaited(d, Tag[r]) THEN d ELSE SettleLate(d)

(* customElements.define: the elements of the tag are upgraded one after    *)
(* the other; a connected root with a pending record resumes at once        *)
(* (connectedCallback, resumeRetainedElement).                              *)
Define(p, tag) ==
    LET group == {r \in Roots : Tag[r] = tag}
    IN  FoldLeft(LAMBDA q, r :
                     LET u == [q EXCEPT !.due = @ \ {r}]
                     IN  IF u.phase[r] = "waiting" /\ ~u.bad
                         THEN ActivatePending(u, r) ELSE u,
                 [p EXCEPT !.due = group], InOrder(group))

-----------------------------------------------------------------------------
(* streaming-coordinator.ts.                                                *)

(* fail: the gate is aborted before anything is released, every deferred or *)
(* unreached root is abandoned, every waiter settled, every span and        *)
(* updatable boundary forgotten and the queue discarded.                    *)
Abandoned(p) ==
    [p EXCEPT !.gate = "aborted",
              !.phase = [r \in Roots |-> IF @[r] = "live" THEN "live" ELSE "dropped"],
              !.rec = [r \in Roots |-> NoRecord],
              !.behind = [r \in Roots |-> <<>>],
              !.alive = [b \in Boundaries |-> {}],
              !.active = [b \in Boundaries |-> FALSE],
              !.pendingRoots = [b \in Boundaries |-> 0],
              !.patch = [b \in Boundaries |-> NoPatch],
              !.release = <<>>, !.bad = FALSE, !.due = {},
              !.late = 0, !.boundaries = 0]

Halt(p) ==
    /\ halted' = TRUE
    /\ page' = Abandoned(p)
    /\ updatable' = {}
    /\ openSpans' = Empty
    /\ expected' = [expected EXCEPT !.span = 0]
    /\ lastRange' = [seq |-> None, state |-> Empty]
    /\ terminal' = IF terminal = "committed" THEN "settled" ELSE terminal
    /\ queue' = <<>>

(* A task of the page may run: no microtask is waiting.                     *)
TaskTurn == pump = "idle" /\ terminal # "committed"

(* enqueueStreamingSentinel.                                                *)
Enqueue(record) ==
    \/ /\ halted
       /\ UNCHANGED <<queue, pump, halted, page, updatable, openSpans, expected,
                      lastRange, terminal>>
    \/ /\ ~halted
       /\ Len(queue) >= MaxQueued
       /\ Halt(page)
       /\ UNCHANGED pump
    \/ /\ ~halted
       /\ Len(queue) < MaxQueued
       /\ queue' = Append(queue, record)
       /\ pump' = IF pump = "idle" THEN "scheduled" ELSE pump
       /\ UNCHANGED <<halted, page, updatable, openSpans, expected, lastRange,
                      terminal>>

(* The parser passes a sentinel, or the coordinator's definition upgrades   *)
(* one that was parsed before the coordinator arrived.                      *)
Parse ==
    /\ TaskTurn \/ pump = "scheduled"
    /\ fed < Len(wire)
    /\ fed' = fed + 1
    /\ Enqueue(wire[fed + 1])
    /\ UNCHANGED <<faults, ended, sent, serverVars>>

(* A record is lost, or arrives a second time.                              *)
Lose ==
    /\ fed < Len(wire) /\ faults < MaxFaults[program]
    /\ faults' = faults + 1
    /\ fed' = fed + 1
    /\ UNCHANGED <<ended, queue, pump, halted, expected, openSpans, terminal,
                   lastRange, updatable, page, sent, serverVars>>

Repeat ==
    /\ TaskTurn \/ pump = "scheduled"
    /\ fed > 0 /\ faults < MaxFaults[program]
    /\ faults' = faults + 1
    /\ Enqueue(wire[fed])
    /\ UNCHANGED <<fed, ended, sent, serverVars>>

(* drainQueue: the pump starts.                                             *)
Drain ==
    /\ pump = "scheduled"
    /\ pump' = "draining"
    /\ UNCHANGED <<fed, faults, ended, queue, halted, expected, openSpans, terminal,
                   lastRange, updatable, page, sent, serverVars>>

DrainEnds ==
    /\ pump = "draining"
    /\ queue = <<>>
    /\ pump' = "idle"
    /\ UNCHANGED <<fed, faults, ended, queue, halted, expected, openSpans, terminal,
                   lastRange, updatable, page, sent, serverVars>>

(* registerEnclosingSpans: the hosts around a range, outermost first.       *)
Registered(path) ==
    FoldLeft(LAMBDA acc, i :
                 LET id == path[i].id
                     parent == IF i = 1 THEN None ELSE path[i - 1].id
                 IN  IF id \in DOMAIN acc.open
                     THEN [acc EXCEPT !.ok = @ /\ acc.open[id].parent = parent]
                     ELSE [ok |-> acc.ok /\ id = acc.next,
                           next |-> acc.next + 1,
                           open |-> Over([s \in DOMAIN acc.open |->
                                            IF s = parent
                                            THEN [acc.open[s] EXCEPT !.children = @ + 1]
                                            ELSE acc.open[s]],
                                         [s \in {id} |-> [host |-> path[i].host,
                                                         parent |-> parent,
                                                         children |-> 0]])],
             [ok |-> TRUE, next |-> expected.span, open |-> openSpans],
             [i \in DOMAIN path |-> i])

(* completeSpan.                                                            *)
Completed(open, id) ==
    [s \in DOMAIN open \ {id} |->
        IF s = open[id].parent THEN [open[s] EXCEPT !.children = @ - 1] ELSE open[s]]

(* resolveRangeState.                                                       *)
ResolvedState(record) ==
    IF record.ref = None THEN record.state ELSE Over(lastRange.state, record.state)

(* What processSentinel, commitRecord and the modules they call may object  *)
(* to in a record.                                                          *)
Violations(record) ==
    LET reg == Registered(record.path)
        range == record.kind \in RangeKinds
        checkpoint == record.kind \in {"final", "updatable"}
    IN  {v \in {"after terminal", "sequence", "open spans", "not updatable",
                "instance", "spans", "nested spans", "reference", "retention"} :
          CASE v = "after terminal" -> terminal # "none"
            [] v = "sequence" -> record.seq # expected.record
            [] v = "open spans" -> record.kind = "terminal" /\ DOMAIN openSpans # {}
            [] v = "not updatable" -> record.kind = "update" /\ record.target \notin updatable
            [] v = "instance" -> checkpoint /\ record.target # expected.boundary
            [] v = "spans" -> range /\ ~reg.ok
            [] v = "nested spans" -> /\ record.kind = "span" /\ reg.ok
                                     /\ record.target \in DOMAIN reg.open
                                     /\ reg.open[record.target].children # 0
            [] v = "reference" -> range /\ record.ref # None /\ record.ref # lastRange.seq
            [] v = "retention" -> /\ record.kind = "updatable"
                                  /\ Cardinality(updatable) >= MaxUpdatable}

(* One record has been taken from the queue; the drain goes on.             *)
AfterRecord == UNCHANGED <<fed, faults, ended, pump, serverVars>>

Taking(kinds) ==
    /\ pump = "draining"
    /\ queue # <<>>
    /\ Head(queue).kind \in kinds
    /\ Violations(Head(queue)) = {}

Reject ==
    /\ pump = "draining"
    /\ queue # <<>>
    /\ Violations(Head(queue)) # {}
    /\ Halt(page)
    /\ UNCHANGED sent
    /\ AfterRecord

(* commitRecord with hydrateCheckpoint or hydrateSpanCompletion.  Outside a *)
(* definition in progress no element of a defined tag lacks its hook.       *)
CommitRange ==
    LET record == Head(queue)
        span == record.kind = "span"
        open == Registered(record.path).open
        state == ResolvedState(record)
        known == [page EXCEPT !.metadata = @ \cup {Tag[r] : r \in {o \in Roots : RangeOf[o] = record.name}}]
        hydrated ==
            IF span
            THEN Walk(known, InOrder({record.name} \cup Inside(record.name)), state,
                      None, NoRoot)
            ELSE Walk(known, InOrder({r \in Roots : RangeOf[r] = record.name}), state,
                      IF record.kind = "updatable" THEN record.target ELSE None,
                      IF record.enclosing = NoSpan THEN NoRoot
                      ELSE open[record.enclosing].host)
    IN  /\ Taking(RangeKinds)
        /\ page' = TryComplete(hydrated)
        /\ queue' = Tail(queue)
        /\ expected' = [record |-> expected.record + 1,
                        boundary |-> expected.boundary + (IF span THEN 0 ELSE 1),
                        span |-> Registered(record.path).next]
        /\ openSpans' = IF span THEN Completed(open, record.target) ELSE open
        /\ lastRange' = [seq |-> record.seq, state |-> state]
        /\ updatable' = IF record.kind = "updatable"
                        THEN updatable \cup {record.target} ELSE updatable
        /\ UNCHANGED <<halted, terminal, sent>>
        /\ AfterRecord

(* commitStateUpdate: the live roots get the patch, and while some root is  *)
(* deferred the patch is kept for it.                                       *)
CommitUpdate ==
    LET record == Head(queue)
        b == record.target
    IN  /\ Taking({"update"})
        /\ page' = [page EXCEPT
                !.patch[b] = IF page.pendingRoots[b] = 0 THEN @
                             ELSE IF @ = NoPatch THEN record.state
                             ELSE Over(@, record.state),
                !.patched = [r \in Roots |->
                    IF r \in page.alive[b] THEN Over(@[r], record.state) ELSE @[r]]]
        /\ sent' = [sent EXCEPT ![b] = Over(@, record.state)]
        /\ queue' = Tail(queue)
        /\ expected' = [expected EXCEPT !.record = @ + 1]
        /\ UNCHANGED <<halted, openSpans, terminal, lastRange, updatable>>
        /\ AfterRecord

(* commitTerminal: no update can follow, but a patch that deferred roots    *)
(* still have to see is kept (clearUpdatableBoundaries(true)).              *)
CommitTerminal ==
    /\ Taking({"terminal"})
    /\ page' = [page EXCEPT
           !.boundaries = 1,
           !.active = [b \in Boundaries |-> @[b] /\ b \notin updatable],
           !.alive = [b \in Boundaries |-> {}],
           !.patch = [b \in Boundaries |-> IF page.pendingRoots[b] = 0 THEN NoPatch ELSE @[b]]]
    /\ terminal' = "committed"
    /\ lastRange' = [seq |-> None, state |-> Empty]
    /\ updatable' = {}
    /\ queue' = Tail(queue)
    /\ expected' = [expected EXCEPT !.record = @ + 1]
    /\ UNCHANGED <<halted, openSpans, sent>>
    /\ AfterRecord

(* validatePendingTerminal: once the queue is drained the terminal settles. *)
Validate ==
    /\ terminal = "committed"
    /\ pump = "idle" /\ queue = <<>>
    /\ terminal' = "settled"
    /\ page' = TryComplete([page EXCEPT !.boundaries = 0, !.gate = "terminal"])
    /\ UNCHANGED <<fed, faults, ended, queue, pump, halted, expected, openSpans,
                   lastRange, updatable, sent, serverVars>>

(* MUTANT: the end of a truncated response is not noticed.                  *)
DocumentEndsUnguarded ==
    /\ TaskTurn
    /\ session.done \/ session.failed
    /\ fed = Len(wire)
    /\ ~ended
    /\ ended' = TRUE
    /\ page' = TryComplete([page EXCEPT !.ready = TRUE])
    /\ UNCHANGED <<halted, updatable, openSpans, expected, lastRange, terminal, queue,
                   fed, faults, pump, sent, serverVars>>

(* DOMContentLoaded: markDocumentReady, then the truncation guard.          *)
DocumentEnds ==
    LET ready == TryComplete([page EXCEPT !.ready = TRUE])
    IN  /\ TaskTurn
        /\ session.done \/ session.failed
        /\ fed = Len(wire)
        /\ ~ended
        /\ ended' = TRUE
        /\ IF halted \/ terminal # "none"
           THEN /\ page' = ready
                /\ UNCHANGED <<halted, updatable, openSpans, expected, lastRange,
                               terminal, queue>>
           ELSE Halt(ready)
        /\ UNCHANGED <<fed, faults, pump, sent, serverVars>>

(* An application module declares its component; the native definition      *)
(* waits for the template (TemplateElement.define).                         *)
Declare(tag) ==
    LET p == [page EXCEPT !.declared = @ \cup {tag}]
        q == IF tag \in p.metadata THEN Define(p, tag) ELSE p
    IN  /\ TaskTurn
        /\ ~halted
        /\ tag \notin page.declared
        /\ IF q.bad THEN Halt(q)
           ELSE /\ page' = q
                /\ UNCHANGED <<halted, updatable, openSpans, expected, lastRange,
                               terminal, queue>>
        /\ UNCHANGED <<fed, faults, ended, pump, sent, serverVars>>

PageStep ==
    \/ Parse \/ Drain \/ DrainEnds
    \/ Reject \/ CommitRange \/ CommitUpdate \/ CommitTerminal \/ Validate
    \/ DocumentEnds
    \/ \E tag \in Tags : Declare(tag)

(* Nothing can happen any more: the server is through with the response,    *)
(* the page has seen all of it and the application has declared its         *)
(* components, unless the page has given up.                                *)
Quiet ==
    /\ session.done \/ session.failed
    /\ fed = Len(wire) /\ ended /\ TaskTurn
    /\ halted \/ Tags \subseteq page.declared

Init == SessionInit /\ PageInit
vars == <<serverVars, pageVars>>
Next ==
    \/ SessionStep /\ UNCHANGED pageVars
    \/ PageStep \/ Lose \/ Repeat
    \/ Quiet /\ UNCHANGED vars
Spec == Init /\ [][Next]_vars

-----------------------------------------------------------------------------
(* Properties.                                                              *)

IsDeferred(r) == page.phase[r] \in {"waiting", "barrier"}

Rendered == {wire[i].name : i \in Ranges}

(* webui:hydration-complete means what hydration.md says of it: the         *)
(* terminal record has settled and no checkpoint, span, definition waiter   *)
(* or ancestor barrier is pending, so every root of the document is live,   *)
(* and a halted stream never gets there (tryComplete, abortStreamingGate).  *)
CompleteMeansSettled ==
    page.complete =>
        /\ terminal = "settled"
        /\ page.ready
        /\ faults = 0 => \A r \in Roots : RangeOf[r] \in Rendered => page.phase[r] = "live"
        /\ ~\E r \in Roots : IsDeferred(r)

RecordOf(name) == CHOOSE i \in Ranges : wire[i].name = name

Hosts(r) == {h \in ToSet(Around[r]) : RangeOf[h] # RangeOf[r]}

(* A root inside another one of its range that may wait behind an outer     *)
(* host: its range's walk passes it over and does not come back for it, and *)
(* the walk over the span of a host hydrates it.                            *)
PassedOver(r) == \E o \in ToSet(Around[r]) : RangeOf[o] = RangeOf[r] /\ Cardinality(Hosts(o)) > 1

(* A root is hydrated with the state its own range was rendered with, even  *)
(* when it went live long after its checkpoint and other ranges were        *)
(* committed in between (PendingRootRecord, resolveRangeState; the server's *)
(* references to earlier records, checkpoint.rs); a root that was passed    *)
(* over, with the state of its own range or of one of its hosts.            *)
OwnState ==
    \A r \in Roots : page.phase[r] = "live" =>
        \E o \in {r} \cup IF PassedOver(r) THEN Hosts(r) ELSE {} :
            page.shown[r] = wire[RecordOf(RangeOf[o])].want

(* Every live root of an updatable boundary has seen all the updates that   *)
(* were committed for it, whether it was live throughout, waited for its    *)
(* definition or behind an ancestor, or went live after the terminal record *)
(* (commitStateUpdate, joinBoundaryUpdates); one that was passed over has   *)
(* seen all of them or none.                                                *)
Converged ==
    \A i \in Ranges : \A r \in Roots :
        /\ wire[i].kind = "updatable"
        /\ RangeOf[r] = wire[i].name
        /\ page.phase[r] = "live"
        => \/ page.patched[r] = sent[wire[i].target]
           \/ PassedOver(r) /\ page.patched[r] = Empty

(* What a live component shows is what the server rendered for it, brought  *)
(* up to date: its own state and every update of its boundary, but for the  *)
(* roots that are passed over (docs/build/hydration.md promises the updates *)
(* to them too).                                                            *)
RightState == OwnState /\ Converged

(* A component that contains another one of its own kind.                   *)
SelfNested == \E r \in InDocument : \E i \in DOMAIN Around[r] : Tag[Around[r][i]] = Tag[r]

(* Every response ends one way or the other: where nothing more can happen, *)
(* hydration is complete or given up, never waiting for a record, a waiter  *)
(* or an ancestor that will not come; and a response that arrived whole and *)
(* fits the queue is never given up, because every check of the page        *)
(* accepts what the server may write (processSentinel, the truncation guard *)
(* of onDomContentLoaded, MAX_QUEUED_BOUNDARIES).  The exception is a       *)
(* component nested in one of its own kind: when it is defined late, the    *)
(* outer element's walk reaches the inner one before the browser upgrades   *)
(* it (invokeActivationHook finds no hook and fails the stream).            *)
StreamEnds ==
    /\ Quiet => page.complete \/ halted
    /\ halted => \/ faults > 0 \/ session.failed
                 \/ Len(wire) > MaxQueued
                 \/ SelfNested
=============================================================================
