--------------------------- MODULE RouterNavigation ---------------------------
(***************************************************************************)
(* The client router's navigations (packages/webui-delivery/src:           *)
(* router-core.ts, streaming.ts, partial-response.ts, request.ts,          *)
(* pending.ts, preload.ts, fallback-navigation.ts) over its cache          *)
(* (NavigationCache).                                                      *)
(*                                                                         *)
(* A navigation is a process of event-loop turns: it fetches a partial     *)
(* response or takes it from the cache, loads the components of its chain, *)
(* commits inside a view transition and then lets the deferred states of a *)
(* streamed response in.  Newer navigations, hash changes, hovered links,  *)
(* timers and destroy() come between any two turns; a commit and the mount *)
(* of a pending or error element run application code, which may navigate  *)
(* from inside them.  Where the code runs application code before it looks *)
(* again whether it is still wanted (clearElements, pendingState), a       *)
(* navigation from inside comes to one just before the step.               *)
(*                                                                         *)
(* Abstractions.  A response is <<path, job>>, the job being the           *)
(* navigation or the hover that fetched it; a chain is its response.  The  *)
(* two awaits before a commit (modules, then loaders) are one, as are the  *)
(* fetch of a response and the reading of its first record.  Whether a     *)
(* route has a pending or error boundary is a choice, and so is every      *)
(* outcome of the network and of application code.  Forms are left out but *)
(* for the invalidations they cause; so are the prepared preload           *)
(* before start(), an error element that throws when it is given its state *)
(* and a destroy() from inside a commit or a mount.                        *)
(***************************************************************************)
EXTENDS Naturals, Sequences, FiniteSets

CONSTANTS
  Paths,      \* request paths
  Home,       \* the path of the document
  None,       \* nothing
  MaxEntries, \* CacheConfig.maxEntries
  MaxJobs,    \* bound: navigations, the initial one included, and hovers
  MaxDestroys \* bound: destroy() calls

ASSUME RouterAssumption ==
  /\ Home \in Paths /\ MaxEntries \in Nat \ {0}
  /\ MaxJobs \in Nat \ {0} /\ MaxDestroys \in Nat
  /\ None \notin Paths \X (1..MaxJobs)

\* A job is a navigation or a hovered link's preload.
Jobs == 1..MaxJobs

VARIABLES
  started,   \* WebUIRouter.started
  gen,       \* navGeneration
  current,   \* currentRequestPath
  active,    \* activeChain, as the navigation and the response it came from
  inside,    \* the navigation whose commit or mount is on the call stack, or 0
  startup,   \* startupNavigation, or 0
  nav,       \* the navigations
  req,       \* partial requests, by the job that made them
  tracked,   \* partialControllers
  boundary,  \* boundaryGeneration, pendingTimer, pending and error element
  hover,     \* preload.ts: preloadController's hover and preloadPath
  cache,     \* navCache
  \* --- history ---
  arrived,   \* responses that have arrived completely
  given,     \* the responses whose states components may have been given since
             \* the last commit, and those of them given by commits that threw
             \* half-way; a reused component that is given none keeps what it has
  destroys   \* destroy() calls

coreVars == <<started, gen, current, active, startup>>
histVars == <<arrived, given, destroys>>
vars == <<coreVars, inside, nav, req, tracked, boundary, hover, cache, histVars>>

Responses == Paths \X Jobs
Cache == INSTANCE NavigationCache

NoNav == [phase |-> "idle", path |-> Home, gen |-> 0, bgen |-> 0, signal |-> "none",
          data |-> None, cached |-> FALSE, base |-> None]
NoReq == [phase |-> "none", path |-> Home, gen |-> 0, aborted |-> FALSE, streaming |-> FALSE]
NoPage == [nav |-> 0, data |-> None]

Init ==
  /\ started = TRUE /\ gen = 1 /\ current = Home /\ active = [nav |-> 1, data |-> None]
  /\ inside = 0 /\ startup = 1
  /\ nav = [n \in Jobs |-> IF n = 1 THEN [NoNav EXCEPT !.phase = "booting", !.gen = 1]
                           ELSE NoNav]
  /\ req = [j \in Jobs |-> NoReq] /\ tracked = {}
  /\ boundary = [gen |-> 0, timer |-> 0, pending |-> 0, error |-> 0]
  /\ hover = [latest |-> 0, path |-> None]
  /\ cache = Cache!Empty
  /\ arrived = {} /\ given = [states |-> {}, torn |-> {}] /\ destroys = 0

-----------------------------------------------------------------------------
(* Shared state *)

\* invalidateBoundaryState, of whatever generation
Cleared(b) == [gen |-> b.gen + 1, timer |-> 0, pending |-> 0, error |-> 0]

\* MUTANT: any navigation's end takes the boundary down.
InvalidateAny(expected) == boundary' = Cleared(boundary)

\* MUTANT: the end of a navigation leaves its boundary where it is.
InvalidateNever(expected) == UNCHANGED boundary

\* invalidateBoundaryState(expectedGeneration)
Invalidate(expected) ==
  boundary' = IF boundary.gen = expected THEN Cleared(boundary) ELSE boundary

Unfinished == {"reading", "preparing", "paused", "draining"}

\* Controllers are aborted: their requests fail at their next turn.
Aborted(jobs) == [j \in Jobs |-> IF j \in jobs /\ req[j].phase \in Unfinished
                                THEN [req[j] EXCEPT !.aborted = TRUE] ELSE req[j]]

\* The Navigation API aborts the signal of a navigation still in progress,
\* and fallback-navigation.ts does the same.
SignalsAborted ==
  [n \in Jobs |-> IF nav[n].signal = "live" /\ nav[n].phase # "ended"
                  THEN [nav[n] EXCEPT !.signal = "aborted"] ELSE nav[n]]

Turn == inside = 0

Superseded(n) == nav[n].signal = "aborted" \/ nav[n].gen # gen

\* A navigation, or a request, that is over keeps nothing but its place.
Ended(navs, n) == [navs EXCEPT ![n] = [NoNav EXCEPT !.phase = "ended", !.gen = navs[n].gen]]
Done(reqs, j) == [reqs EXCEPT ![j] = [NoReq EXCEPT !.phase = "done"]]

Goes(n, phase) == nav' = [nav EXCEPT ![n].phase = phase]
Ends(n) == nav' = Ended(nav, n)

-----------------------------------------------------------------------------
(* A navigation starts *)

Free(j) == nav[j].phase = "idle" /\ req[j].phase = "none"
IsNext(j) == Free(j) /\ \A k \in Jobs : Free(k) => j <= k
Preloads(j) == nav[j].phase = "idle" /\ req[j].phase # "none"

\* abortPartialRequests
AbortPartials == req' = Aborted(tracked) /\ tracked' = {}

\* handleNavigation of the next navigation, with the given signal, up to its
\* first await: served from the cache, or fetched with a pending boundary or none
HandleNavigation(n, p, signal) ==
  /\ IsNext(n)
  /\ LET signals == SignalsAborted
         cleared == Cleared(boundary)
         born == [NoNav EXCEPT !.path = p, !.gen = gen + 1, !.bgen = cleared.gen, !.signal = signal] IN
     /\ gen' = gen + 1 /\ current' = p
     /\ IF Cache!Hit(cache, p)
        THEN /\ cache' = Cache!Touch(cache, p)
             /\ boundary' = cleared
             /\ AbortPartials
             /\ nav' = [signals EXCEPT ![n] = [born EXCEPT
                  !.phase = "loading", !.cached = TRUE, !.data = cache.entries[p].data]]
        ELSE /\ UNCHANGED cache
             /\ \E timer \in {0, n} : boundary' = [cleared EXCEPT !.timer = timer]
             /\ req' = [Aborted(tracked) EXCEPT ![n] =
                  [NoReq EXCEPT !.phase = "reading", !.path = p]]
             /\ tracked' = {n}
             /\ nav' = [signals EXCEPT ![n] = [born EXCEPT !.phase = "fetching"]]
  /\ UNCHANGED <<active, inside, hover, histVars>>

\* The navigate event, or a click or popstate without the Navigation API;
\* also from application code that a commit or a mount runs
Navigate(n, p) == started /\ HandleNavigation(n, p, "live") /\ UNCHANGED <<started, startup>>

\* A navigation the router does not intercept, like a hash change, aborts the
\* one in progress.
HashChange ==
  /\ \E n \in Jobs : nav[n].signal = "live" /\ nav[n].phase # "ended"
  /\ nav' = SignalsAborted
  /\ req' = Aborted({n \in Jobs : nav'[n].signal = "aborted"})
  /\ tracked' = {j \in tracked : ~req'[j].aborted}
  /\ UNCHANGED <<coreVars, inside, boundary, hover, cache, histVars>>

\* The initial navigation has loaded the components of the document.
BootDone ==
  /\ Turn /\ nav[1].phase = "booting"
  /\ Ends(1) /\ startup' = IF startup = 1 THEN 0 ELSE startup
  /\ UNCHANGED <<started, gen, current, active, inside, req, tracked, boundary, hover, cache,
                 histVars>>

\* The timer of the pending boundary strikes: its component is mounted, unless
\* there is a pending element.  A boundary that cannot be prepared is as none.
PendingTimer ==
  /\ Turn /\ boundary.timer # 0
  /\ boundary' = [boundary EXCEPT !.timer = 0]
  /\ inside' = IF boundary.pending # 0 THEN 0 ELSE boundary.timer
  /\ UNCHANGED <<coreVars, nav, req, tracked, hover, cache, histVars>>

Waiting == {"fetching", "loading", "transition"}

\* mountPending records the element once its component's code has run,
\* whatever the boundary has come to meanwhile.
PendingMounted ==
  /\ inside # 0 /\ nav[inside].phase \in Waiting
  /\ boundary' = [boundary EXCEPT !.pending = inside] /\ inside' = 0
  /\ UNCHANGED <<coreVars, nav, req, tracked, hover, cache, histVars>>

-----------------------------------------------------------------------------
(* Requests *)

Released(j) == tracked' = tracked \ {j}

\* The first record, or the whole of a response that is not streamed.
ReadFirst(j) ==
  /\ Turn /\ req[j].phase = "reading" /\ ~req[j].aborted
  /\ \E streaming \in BOOLEAN :
       req' = [req EXCEPT ![j] = [@ EXCEPT !.phase = "preparing", !.streaming = streaming,
                                           !.gen = gen]]
  /\ UNCHANGED <<coreVars, inside, nav, tracked, boundary, hover, cache, histVars>>

\* readStreamingPartial after its templates are ready
Delivers(j) ==
  /\ req[j].phase = "preparing" /\ ~req[j].aborted
  /\ req[j].streaming => req[j].gen = gen

\* fetchPartial's null: a broken or refused response, a timeout or an abort
Breaks(j) == req[j].phase \in {"reading", "preparing"}

Handed(j) == IF req[j].streaming THEN [req EXCEPT ![j].phase = "paused"] ELSE Done(req, j)
Whole(j, d) == arrived' = IF req[j].streaming THEN arrived ELSE arrived \cup {d}

\* A request is released with its response, unless that is still streaming.
ReleaseUnlessStreaming(j) == tracked' = IF req[j].streaming THEN tracked ELSE tracked \ {j}

-----------------------------------------------------------------------------
(* A navigation goes on *)

\* Leaving for a document is a navigation too: where the Navigation API sees
\* it, it aborts the signal of the one in progress, and with it the request.
Departs(n, data, reqs) ==
  /\ Invalidate(nav[n].bgen)
  /\ \E signals \in {nav, SignalsAborted} :
       LET cut == reqs[n].phase = "paused" /\ signals[n].signal # nav[n].signal IN
       /\ nav' = [signals EXCEPT ![n].phase = "abandoned", ![n].data = data]
       /\ req' = [reqs EXCEPT ![n].aborted = @ \/ cut]
       /\ tracked' = IF reqs[n].phase = "paused" /\ ~cut THEN tracked ELSE tracked \ {n}

\* The response is for another path than the one asked for.
Mismatch(n) ==
  /\ Turn /\ nav[n].phase = "fetching" /\ Delivers(n)
  /\ IF req[n].streaming THEN Goes(n, "dropping") ELSE Ends(n)
  /\ req' = Handed(n) /\ ReleaseUnlessStreaming(n)
  /\ Invalidate(nav[n].bgen)
  /\ UNCHANGED <<coreVars, inside, hover, cache, histVars>>

\* The response goes to the cache and its components are loaded; without a
\* chain the document is loaded instead.
Fetched(n) ==
  /\ Turn /\ nav[n].phase = "fetching" /\ Delivers(n)
  /\ LET d == <<nav[n].path, n>> IN
     /\ cache' = Cache!Store(cache, nav[n].path, d, req[n].streaming)
     /\ Whole(n, d)
     /\ \/ /\ nav' = [nav EXCEPT ![n].phase = "loading", ![n].data = d]
           /\ req' = Handed(n) /\ ReleaseUnlessStreaming(n)
           /\ UNCHANGED boundary
        \/ Departs(n, d, Handed(n))
  /\ UNCHANGED <<coreVars, inside, hover, given, destroys>>

\* The response is a document, which is loaded instead.  Without a signal that
\* is aborted the navigation goes on as in Failed.
FetchedDocument(n) ==
  /\ Turn /\ nav[n].phase = "fetching" /\ req[n].phase = "reading" /\ ~req[n].aborted
  /\ nav' = Ended(SignalsAborted, n) /\ Invalidate(nav[n].bgen)
  /\ req' = Done(req, n) /\ Released(n)
  /\ UNCHANGED <<coreVars, inside, hover, cache, arrived, given, destroys>>

\* No response, and no error boundary or a navigation that is not wanted
Failed(n) ==
  /\ Turn /\ nav[n].phase = "fetching" /\ Breaks(n)
  /\ Ends(n)
  /\ req' = Done(req, n) /\ Released(n)
  /\ Invalidate(nav[n].bgen)
  /\ UNCHANGED <<coreVars, inside, hover, cache, histVars>>

\* mountError, up to the code of the boundary's component
FailedMounts(n) ==
  /\ Turn /\ nav[n].phase = "fetching" /\ Breaks(n)
  /\ ~Superseded(n) /\ boundary.gen = nav[n].bgen
  /\ boundary' = Cleared(boundary)
  /\ Goes(n, "failing") /\ inside' = n
  /\ req' = Done(req, n) /\ Released(n)
  /\ UNCHANGED <<coreVars, hover, cache, histVars>>

\* The error element is recorded, whatever its component's code has done.
ErrorMounted(n) ==
  /\ inside = n /\ nav[n].phase = "failing"
  /\ boundary' = [boundary EXCEPT !.error = n] /\ inside' = 0
  /\ Ends(n)
  /\ UNCHANGED <<coreVars, req, tracked, hover, cache, histVars>>

\* The components are there.
Loaded(n) ==
  /\ Turn /\ nav[n].phase = "loading" /\ ~Superseded(n)
  /\ nav' = [nav EXCEPT ![n].phase = "transition", ![n].base = active]
  /\ UNCHANGED <<coreVars, inside, req, tracked, boundary, hover, cache, histVars>>

\* A newer navigation or the signal ends the wait for the components.
LoadedLate(n) ==
  /\ Turn /\ nav[n].phase = "loading" /\ Superseded(n)
  /\ Goes(n, "abandoned") /\ Invalidate(nav[n].bgen)
  /\ UNCHANGED <<coreVars, inside, req, tracked, hover, cache, histVars>>

\* Nobody defines one of the components: the document is loaded instead.
LoadedUnknown(n) ==
  /\ Turn /\ nav[n].phase = "loading" /\ ~Superseded(n)
  /\ Departs(n, nav[n].data, req)
  /\ UNCHANGED <<coreVars, inside, hover, cache, arrived, given, destroys>>

\* A component's module does not load.
LoadFails(n) ==
  /\ Turn /\ nav[n].phase = "loading"
  /\ Goes(n, "thrown") /\ Invalidate(nav[n].bgen)
  /\ UNCHANGED <<coreVars, inside, req, tracked, hover, cache, histVars>>

Commits(n) == ~Superseded(n) /\ boundary.gen = nav[n].bgen

\* commitNavigation, up to the code of the components it mounts
Commit(n) ==
  /\ Turn /\ nav[n].phase = "transition"
  /\ Invalidate(nav[n].bgen)
  /\ IF Commits(n) THEN inside' = n /\ Goes(n, "inside")
                   ELSE UNCHANGED inside /\ Goes(n, "abandoned")
  /\ UNCHANGED <<coreVars, req, tracked, hover, cache, histVars>>

CommitEnd(n) ==
  /\ inside = n /\ nav[n].phase = "inside" /\ inside' = 0
  /\ Goes(n, "committed")
  /\ active' = [nav |-> n, data |-> nav[n].data]
  /\ given' = [states |-> {nav[n].data}, torn |-> {}]
  /\ UNCHANGED <<started, gen, current, startup, req, tracked, boundary, hover, cache,
                 arrived, destroys>>

\* A component's code throws: components may have been given their new states,
\* but activeChain is still the old one.
CommitThrows(n) ==
  /\ inside = n /\ nav[n].phase = "inside" /\ inside' = 0
  /\ Goes(n, "thrown")
  /\ given' = [states |-> given.states \cup {nav[n].data}, torn |-> given.torn \cup {nav[n].data}]
  /\ UNCHANGED <<coreVars, req, tracked, boundary, hover, cache, arrived, destroys>>

Own(n) == nav[n].data = <<nav[n].path, n>>
Paused(n) == Own(n) /\ req[n].phase = "paused"

\* handleNavigation after its commit: the deferred states are let in.
Settled(n) ==
  /\ Turn /\ nav[n].phase = "committed"
  /\ IF Superseded(n)
     THEN Goes(n, "abandoned") /\ UNCHANGED <<req, startup>>
     ELSE /\ Ends(n)
          /\ startup' = IF startup = n THEN 0 ELSE startup
          /\ req' = IF Paused(n) THEN [req EXCEPT ![n].phase = "draining"] ELSE req
  /\ UNCHANGED <<started, gen, current, active, inside, tracked, boundary, hover, cache,
                 histVars>>

\* MUTANT: an abandoned navigation leaves its stream unread.
CancelNothing(n) == UNCHANGED <<req, tracked>>

\* cancelDeferredStream
CancelDeferred(n) ==
  IF req[n].phase = "paused"
  THEN req' = Done(req, n) /\ tracked' = tracked \ {n}
  ELSE UNCHANGED <<req, tracked>>

\* The stream of a navigation that is given up is closed and its response
\* taken from the cache, unless it was found there.
Abandon(n) ==
  /\ Turn /\ nav[n].phase \in {"abandoned", "dropping"}
  /\ Ends(n) /\ startup' = IF startup = n THEN 0 ELSE startup
  /\ CancelDeferred(n)
  /\ Invalidate(nav[n].bgen)
  /\ cache' = IF nav[n].phase = "abandoned" /\ ~nav[n].cached
              THEN Cache!Evict(cache, nav[n].path) ELSE cache
  /\ UNCHANGED <<started, gen, current, active, inside, hover, histVars>>

-----------------------------------------------------------------------------
(* Deferred states *)

\* The time of the whole request is up before its tail was asked for.
TailTimesOut(n) ==
  /\ Turn /\ req[n].phase = "paused" /\ ~req[n].aborted
  /\ req' = Aborted({n}) /\ Released(n)
  /\ UNCHANGED <<coreVars, inside, nav, boundary, hover, cache, histVars>>

Streams(j) == req[j].phase = "draining" /\ ~req[j].aborted /\ req[j].gen = gen

\* applyDeferredStates: only those of the path on display
Applies(j) == active # NoPage /\ req[j].path = current

StatesArrive(j) ==
  /\ Turn /\ Streams(j) /\ Applies(j)
  /\ given' = [given EXCEPT !.states = @ \cup {<<req[j].path, j>>}]
  /\ UNCHANGED <<coreVars, inside, nav, req, tracked, boundary, hover, cache, arrived,
                 destroys>>

StreamOver(j, completed) ==
  /\ cache' = IF started THEN Cache!Settle(cache, req[j].path, <<req[j].path, j>>, completed)
              ELSE cache
  /\ req' = Done(req, j) /\ Released(j)
  /\ UNCHANGED <<coreVars, inside, nav, boundary, hover, given, destroys>>

StreamEnds(j) ==
  /\ Turn /\ Streams(j)
  /\ StreamOver(j, TRUE)
  /\ arrived' = arrived \cup {<<req[j].path, j>>}

\* The stream breaks, takes too long or was aborted.
StreamBreaks(j) ==
  /\ Turn /\ req[j].phase = "draining"
  /\ StreamOver(j, FALSE)
  /\ UNCHANGED arrived

-----------------------------------------------------------------------------
(* Preloading *)

\* A link is hovered: the response is fetched for the cache.
Hover(h, p) ==
  /\ Turn /\ started /\ IsNext(h)
  /\ p # hover.path /\ p # current /\ ~Cache!Has(cache, p)
  /\ hover' = [latest |-> h, path |-> p]
  /\ req' = [Aborted({hover.latest}) EXCEPT ![h] = [NoReq EXCEPT !.phase = "reading", !.path = p]]
  /\ tracked' = (tracked \ {hover.latest}) \cup {h}
  /\ UNCHANGED <<coreVars, inside, nav, boundary, cache, histVars>>

HoverOver(h) == hover' = IF hover.latest = h THEN [hover EXCEPT !.path = None] ELSE hover

Hovered(h) ==
  /\ Turn /\ Preloads(h) /\ Delivers(h)
  /\ cache' = Cache!Store(cache, req[h].path, <<req[h].path, h>>, req[h].streaming)
  /\ Whole(h, <<req[h].path, h>>)
  /\ req' = IF req[h].streaming THEN [req EXCEPT ![h].phase = "draining"] ELSE Done(req, h)
  /\ ReleaseUnlessStreaming(h) /\ HoverOver(h)
  /\ UNCHANGED <<coreVars, inside, nav, boundary, given, destroys>>

HoverFails(h) ==
  /\ Turn /\ Preloads(h) /\ Breaks(h)
  /\ req' = Done(req, h) /\ Released(h) /\ HoverOver(h)
  /\ UNCHANGED <<coreVars, inside, nav, boundary, cache, histVars>>

-----------------------------------------------------------------------------
(* The cache over time *)

\* An entry passes its staleTime or gcTime, or the application, or a form of
\* it, invalidates its path or one of its tags.
EntryGoes(p) ==
  /\ Cache!Has(cache, p)
  /\ cache' = Cache!Evict(cache, p)
  /\ UNCHANGED <<coreVars, inside, nav, req, tracked, boundary, hover, histVars>>

-----------------------------------------------------------------------------
(* Start and end *)

\* destroy(): the signals of the Navigation API outlive it, those of the
\* fallback do not.
Destroyed(navs) ==
  /\ started' = FALSE /\ gen' = gen + 1 /\ current' = Home /\ active' = NoPage /\ startup' = 0
  /\ nav' \in {navs, [n \in Jobs |-> IF navs[n].signal = "live" /\ navs[n].phase # "ended"
                                     THEN [navs[n] EXCEPT !.signal = "aborted"] ELSE navs[n]]}
  /\ AbortPartials
  /\ boundary' = Cleared(boundary) /\ hover' = [latest |-> 0, path |-> None]
  /\ cache' = Cache!Empty
  /\ given' = [states |-> {}, torn |-> {}]
  /\ UNCHANGED <<inside, arrived>>

Destroy ==
  /\ Turn /\ started /\ destroys < MaxDestroys
  /\ Destroyed(nav) /\ destroys' = destroys + 1

\* start() after destroy(): what the server rendered has been used up, so the
\* page is fetched, without a signal.
Start(n) ==
  /\ Turn /\ ~started
  /\ HandleNavigation(n, Home, "none")
  /\ started' = TRUE /\ startup' = n

\* The start fails: the router is destroyed, unless the user went on.
RollsBack(n) == startup = n /\ nav[n].gen = gen

\* The components of the document do not load.
BootFails ==
  /\ Turn /\ nav[1].phase = "booting" /\ Goes(1, "rejected")
  /\ UNCHANGED <<coreVars, inside, req, tracked, boundary, hover, cache, histVars>>

\* A navigation that threw is cleaned up after, as in Abandon.
Thrown(n) ==
  /\ Turn /\ nav[n].phase = "thrown" /\ Goes(n, "rejected")
  /\ CancelDeferred(n)
  /\ Invalidate(nav[n].bgen)
  /\ cache' = IF nav[n].cached THEN cache ELSE Cache!Evict(cache, nav[n].path)
  /\ UNCHANGED <<coreVars, inside, hover, histVars>>

Rejected(n) ==
  /\ Turn /\ nav[n].phase = "rejected"
  /\ LET ended == Ended(nav, n) IN
     IF RollsBack(n) THEN Destroyed(ended) /\ UNCHANGED destroys
     ELSE /\ nav' = ended /\ startup' = IF startup = n THEN 0 ELSE startup
          /\ UNCHANGED <<started, gen, current, active, inside, req, tracked, boundary, hover,
                         cache, histVars>>

-----------------------------------------------------------------------------

NavStep(n) ==
  \/ Mismatch(n) \/ Fetched(n) \/ FetchedDocument(n)
  \/ Failed(n) \/ FailedMounts(n) \/ ErrorMounted(n)
  \/ Loaded(n) \/ LoadedLate(n) \/ LoadedUnknown(n) \/ LoadFails(n)
  \/ Commit(n) \/ CommitEnd(n) \/ CommitThrows(n) \/ Settled(n) \/ Abandon(n)
  \/ Thrown(n) \/ Rejected(n)

Next ==
  \/ \E n \in Jobs, p \in Paths : Navigate(n, p) \/ Hover(n, p)
  \/ \E n \in Jobs : Start(n)
  \/ \E p \in Paths : EntryGoes(p)
  \/ \E n \in Jobs : NavStep(n) \/ TailTimesOut(n) \/ Hovered(n) \/ HoverFails(n)
  \/ \E j \in Jobs : ReadFirst(j) \/ StatesArrive(j) \/ StreamEnds(j) \/ StreamBreaks(j)
  \/ HashChange \/ PendingTimer \/ PendingMounted \/ BootDone \/ BootFails \/ Destroy

Spec == Init /\ [][Next]_vars

\* The event loop turns as long as it has something to do: requests time out,
\* modules load or fail, view transitions call back, synchronous code returns.
EventLoop ==
  \/ \E n \in Jobs : NavStep(n) \/ StreamEnds(n) \/ StreamBreaks(n)
  \/ PendingMounted \/ BootDone \/ BootFails

Fairness == WF_vars(EventLoop)

FairSpec == Spec /\ Fairness

-----------------------------------------------------------------------------
(* Properties *)

Phases == {"idle", "booting", "fetching", "loading", "transition", "inside", "committed",
           "abandoned", "dropping", "failing", "thrown", "rejected", "ended"}
Pages == [nav : Jobs \cup {0}, data : Responses \cup {None}]

TypeOK ==
  /\ started \in BOOLEAN /\ gen \in Nat /\ current \in Paths /\ active \in Pages
  /\ inside \in Jobs \cup {0} /\ startup \in Jobs \cup {0}
  /\ nav \in [Jobs -> [phase : Phases, path : Paths, gen : Nat, bgen : Nat,
                       signal : {"none", "live", "aborted"}, data : Responses \cup {None},
                       cached : BOOLEAN, base : Pages \cup {None}]]
  /\ req \in [Jobs -> [phase : Unfinished \cup {"none", "done"}, path : Paths, gen : Nat,
                       aborted : BOOLEAN, streaming : BOOLEAN]]
  /\ tracked \in SUBSET Jobs
  /\ boundary \in [gen : Nat, timer : Jobs \cup {0}, pending : Jobs \cup {0},
                   error : Jobs \cup {0}]
  /\ hover \in [latest : Jobs \cup {0}, path : Paths \cup {None}]
  /\ arrived \in SUBSET Responses
  /\ given \in [states : SUBSET (Responses \cup {None}), torn : SUBSET (Responses \cup {None})]

\* A navigation compares its chain with activeChain before its view
\* transition, and patches it in it (router-core.ts: changeLevel; after a
\* commit that threw, activeChain is not all that is in the document) ...
ComparedWithActive == \A n \in Jobs : nav[n].phase = "inside" => nav[n].base = active

\* ... deferred states go to the page whose response they are part of
\* (streaming.ts: generation, request path and abort signal together): but
\* for what commits that threw gave it, a page is given states of its own ...
StatesOfPage == given.states \subseteq {active.data} \cup given.torn

\* ... and a response taken from the cache has arrived completely (cache.ts:
\* complete; streaming.ts: settleCacheStream).
ServedWhole == \A n \in Jobs : nav[n].cached => nav[n].data \in arrived

\* What a page is given is its own: the chain a commit replaces is still the
\* one it was compared with, between commits no state of another response is
\* applied, and no half of a stream is served as a page.
GivenIsOwn == ComparedWithActive /\ StatesOfPage /\ ServedWhole

\* The latest navigation is on its way, and holds the boundary: whatever
\* becomes of it takes the elements down.
Owns(n) == nav[n].gen = gen /\ nav[n].phase \in Waiting /\ nav[n].bgen = boundary.gen

\* The timer for a pending element is of the navigation that holds the
\* boundary; and an element, which may be recorded late if the code of its
\* component has navigated, is one that such a navigation will take down, or
\* the error of the latest (router-core.ts: boundaryGeneration).
BoundaryOwned ==
  /\ boundary.timer # 0 => Owns(boundary.timer)
  /\ boundary.pending # 0 => \E n \in Jobs : Owns(n)
  /\ boundary.error # 0 => \/ nav[boundary.error].gen = gen
                           \/ \E n \in Jobs : Owns(n)

\* Exactly the requests that could still deliver are tracked, so that the
\* next navigation aborts them, and an unread stream has a navigation that
\* will start or cancel it (router-core.ts: partialControllers).
RequestsTracked ==
  /\ tracked = {j \in Jobs : req[j].phase \in Unfinished /\ ~req[j].aborted}
  /\ \A n \in Jobs : req[n].phase = "paused" => nav[n].phase # "ended"

\* Whatever overtakes a navigation, nothing of it is left without an owner:
\* neither an element on the page nor a connection to the server.
NothingLeftOver == BoundaryOwned /\ RequestsTracked

\* A navigation that is ready commits if it is the latest and its signal is
\* alive, and only then: no other navigation's end, timer or error takes its
\* boundary generation away (router-core.ts: commitNavigation's three
\* conditions, invalidateBoundaryState(expectedGeneration)).  And the page
\* never goes back to an earlier navigation, whatever commits fail.
LatestCommits ==
  [][/\ \A n \in Jobs : nav[n].phase = "transition" =>
          /\ nav'[n].phase = "abandoned" => Superseded(n)
          /\ nav'[n].phase = "inside" => ~Superseded(n)
     /\ active'.nav \notin {0, active.nav} /\ active.nav # 0 =>
          nav[active'.nav].gen > nav[active.nav].gen]_vars

\* However many navigations overtake each other, the router comes to rest:
\* every navigation has ended and has left no pending element behind
\* (router-core.ts: handleNavigation's awaits and its finally).
NavigationEnds ==
  []<>(boundary.pending = 0 /\ \A n \in Jobs : nav[n].phase \in {"idle", "ended"})
=============================================================================
