----------------------------- MODULE LazyRegions -----------------------------
(***************************************************************************)
(* The lazy regions of a page: the packs and scripts they load, the         *)
(* conditional bindings that wait for them, the release of templates that   *)
(* no binding shows and the collection of the template registry             *)
(* (packages/webui-framework/src: lazy-runtime.ts, lazy-scripts.ts,         *)
(* lazy-entry.ts, template-cache.ts).                                       *)
(*                                                                          *)
(* A region is named by its own template; its pack also carries the         *)
(* templates in Shared, and one custom element has its script.  A template  *)
(* is in the registry, or alive behind a weak reference, or gone; the       *)
(* collector may take whatever nothing holds, at any moment.  A promise     *)
(* that settles and the reaction of each of its waiters are steps of their  *)
(* own, because other reactions may run in between.  Styles, fetch          *)
(* priorities, the triggers that decide when to prefetch, prerendering and  *)
(* bodies the server rendered open are left out; so are render completions, *)
(* except that a request for one retries what failed in its scope.          *)
(***************************************************************************)
EXTENDS Integers, FiniteSets, FiniteSetsExt

CONSTANTS
    Regions,        \* lazy regions
    Shared,         \* component templates that every pack carries
    Bindings,       \* conditional bindings of mounted hosts
    RegionOf,       \* the region each binding shows
    HostOf,         \* the element each binding belongs to
    MaxRenders,     \* bound: renders that evaluate a binding
    MaxActivations, \* bound: activations before a retry
    MaxCollects     \* bound: template collections

\* A region's template has a name of its own, and "clean" names none.
ASSUME LazyAssumption ==
    /\ RegionOf \in [Bindings -> Regions] /\ IsFiniteSet(Bindings)
    /\ Shared \cap Regions = {} /\ "clean" \notin Shared \cup Regions
    /\ {MaxRenders, MaxActivations, MaxCollects} \subseteq Nat

VARIABLES
    page,      \* what the runtime keeps, see LazyInit
    waits,     \* the reactions to come: [b, id, pack, script]
    renders    \* how many renders there were (bounds the model)

lazyVars == <<page, waits, renders>>

Never == -1
Hosts == {HostOf[b] : b \in Bindings}
Templates == Regions \cup Shared
Pack(r) == {r} \cup Shared
NoLoad == [step |-> "none", epoch |-> 0, fresh |-> {}]
Clean == {"clean"}
NoEntry == [id |-> 0, loading |-> FALSE]

(* registry is __webui.templates, weak the templates that are alive,        *)
(* inventory what the page tells the server it holds; registered the epoch  *)
(* a region was registered in, released the regions with a copy to revive;  *)
(* loads and unready are kept per pack and script per custom element; entry *)
(* is a binding's activation, failed the hosts with failed work, views the  *)
(* bindings that mounted a region.  Two fields are history: prepared, the   *)
(* templates whose publication was awaited, and raw, the bindings that      *)
(* mounted a region that was not prepared.                                  *)
LazyInit ==
    /\ page = [registry   |-> {}, weak |-> {}, epoch |-> 0, inventory |-> {},
               registered |-> [r \in Regions |-> Never],
               released   |-> {},
               loads      |-> [r \in Regions |-> NoLoad],
               unready    |-> [r \in Regions |-> Clean],
               script     |-> [r \in Regions |-> "none"],
               cond       |-> [b \in Bindings |-> FALSE],
               inst       |-> [b \in Bindings |-> FALSE],
               attached   |-> [b \in Bindings |-> TRUE],
               entry      |-> [b \in Bindings |-> NoEntry],
               ids        |-> [b \in Bindings |-> 0],
               failed     |-> {},
               views      |-> [r \in Regions |-> {}],
               releasing  |-> FALSE,
               prepared   |-> {}, raw |-> {}]
    /\ waits = {}
    /\ renders = 0

-----------------------------------------------------------------------------
(* Looking a region up and loading it.                                      *)

Installing(p, r) == p.loads[r].step # "none" \/ p.unready[r] # Clean

(* revive: a released copy that is still alive is registered again, in the  *)
(* current epoch and with its inventory bit.                                *)
Revive(p, r) ==
    IF r \notin p.released THEN p
    ELSE IF r \notin p.weak THEN [p EXCEPT !.released = @ \ {r}]
    ELSE [p EXCEPT !.released = @ \ {r},
                   !.registry = @ \cup {r},
                   !.inventory = @ \cup {r},
                   !.registered[r] = p.epoch]

(* loadScripts: nothing once the tag is declared; otherwise the load in     *)
(* flight, or a new one.                                                    *)
LoadScripts(p, r) ==
    [p EXCEPT !.script[r] = IF @ \in {"none", "failed"} THEN "loading" ELSE @]

(* load: one request per pack until it is installed; a pack that failed to  *)
(* install is requested again although its templates are there.             *)
LoadPack(p, r) ==
    LET q == IF Installing(p, r) THEN p ELSE Revive(p, r)
    IN  IF q.loads[r].step = "none" /\ (q.unready[r] # Clean \/ r \notin q.weak)
        THEN [q EXCEPT !.loads[r].step = "fetch"] ELSE q

(* MUTANT: a pack whose install failed counts as loaded.                    *)
UnloadedWhileInFlight(p, r) ==
    p.loads[r].step # "none" \/ r \notin p.weak \/ p.script[r] # "declared"

(* unloaded: the pack is not installed, its template is gone, or its script *)
(* is still to come.                                                        *)
Unloaded(p, r) == Installing(p, r) \/ r \notin p.weak \/ p.script[r] # "declared"

-----------------------------------------------------------------------------
(* The bindings.                                                            *)

IsFailed(p, b) == p.entry[b].id # 0 /\ ~p.entry[b].loading

(* forgetFailureIfRetried.                                                  *)
Forget(p, h) ==
    IF \E b \in Bindings : HostOf[b] = h /\ IsFailed(p, b) THEN p
    ELSE [p EXCEPT !.failed = @ \ {h}]

(* activate and track: a new activation joins the loads of its region.      *)
Activate(p, b) ==
    LET r == RegionOf[b]
        q == LoadPack(LoadScripts(p, r), r)
    IN  IF p.entry[b].loading THEN LoadScripts(p, r)
        ELSE Forget([q EXCEPT !.ids[b] = @ + 1,
                              !.entry[b] = [id |-> p.ids[b] + 1, loading |-> TRUE]],
                    HostOf[b])

(* opened: a region this runtime registered remembers its bindings.         *)
Opened(p, b) ==
    [p EXCEPT !.views[RegionOf[b]] =
        IF p.registered[RegionOf[b]] = Never THEN @ ELSE @ \cup {b}]

(* disposed: the next idle moment looks for regions nobody shows.           *)
Disposed(p) == [p EXCEPT !.releasing = @ \/ \E r \in Regions : p.views[r] # {}]

(* The lazy $toggleCond, with cancelActivation for a closed region.         *)
Toggle(p, b) ==
    LET r == RegionOf[b]
        looked == IF Installing(p, r) THEN p ELSE Revive(p, r)
    IN  CASE p.inst[b] /\ p.cond[b] -> p
          [] p.inst[b] /\ ~p.cond[b] -> Disposed([p EXCEPT !.inst[b] = FALSE])
          [] ~p.inst[b] /\ ~p.cond[b] ->
                Forget([p EXCEPT !.entry[b] = NoEntry], HostOf[b])
          [] ~p.inst[b] /\ p.cond[b] ->
                IF Unloaded(looked, r) THEN Activate(looked, b)
                ELSE Opened([looked EXCEPT
                         !.inst[b] = TRUE,
                         !.raw = IF r \in p.prepared THEN @ \ {b} ELSE @ \cup {b}], b)

(* The promise an activation waits for: the loads that are in flight when   *)
(* it is made.                                                              *)
Waiter(p, b) ==
    [b |-> b, id |-> p.entry[b].id,
     pack |-> IF p.loads[RegionOf[b]].step = "none" THEN "ok" ELSE "pending",
     script |-> IF p.script[RegionOf[b]] = "declared" THEN "ok" ELSE "pending"]

NewWaits(p, q) == {Waiter(q, b) : b \in {c \in Bindings : q.ids[c] > p.ids[c]}}

(* The host renders with a new value of the condition.                      *)
Render(b, on) ==
    LET q == Toggle([page EXCEPT !.cond[b] = on], b)
    IN  /\ page.attached[b]
        /\ renders < MaxRenders
        /\ renders' = renders + 1
        /\ page' = q
        /\ waits' = waits \cup NewWaits(page, q)

(* disposeActivations and dispose: the owner of the binding goes away.      *)
Dispose(b) ==
    /\ page.attached[b]
    /\ page' = Disposed(Forget([page EXCEPT !.attached[b] = FALSE,
                                            !.inst[b] = FALSE,
                                            !.cond[b] = FALSE,
                                            !.entry[b] = NoEntry], HostOf[b]))
    /\ UNCHANGED <<waits, renders>>

(* prefetch: load without a waiter; before the window has loaded it leaves  *)
(* the scripts for later.  A failure is silent.                             *)
Prefetch(r, scripts) ==
    /\ page' = LoadPack(IF scripts THEN LoadScripts(page, r) ELSE page, r)
    /\ UNCHANGED <<waits, renders>>

(* retryFailed: the failed regions of a host are evaluated again, and what  *)
(* is not loading then is forgotten.                                        *)
Retried(p, b) ==
    LET t == Toggle(p, b)
    IN  IF t.entry[b].loading THEN t ELSE [t EXCEPT !.entry[b] = NoEntry]

RetriedAll(p, bs) == FoldSet(LAMBDA b, q : Retried(q, b), p, bs)

Retry(h) ==
    LET q == Forget(RetriedAll(page, {b \in Bindings : HostOf[b] = h /\ IsFailed(page, b)}), h)
    IN  /\ h \in page.failed
        /\ \A b \in Bindings : page.ids[b] < MaxActivations
        /\ page' = q
        /\ waits' = waits \cup NewWaits(page, q)
        /\ UNCHANGED renders

(* entries.get(key) === entry.                                              *)
Current(w) == page.entry[w.b].id = w.id

(* track's first reaction: everything is loaded, and the binding is         *)
(* evaluated again unless it was closed, replaced or disposed.              *)
LoadSucceeded(w) ==
    LET without == [page EXCEPT !.entry[w.b] = NoEntry]
        q == IF ~Current(w) THEN page
             ELSE IF page.attached[w.b] THEN Toggle(without, w.b) ELSE without
    IN  /\ w.pack = "ok" /\ w.script = "ok"
        /\ page' = Forget(q, HostOf[w.b])
        /\ waits' = (waits \ {w}) \cup NewWaits(page, q)
        /\ UNCHANGED renders

(* track's second reaction: the failure is reported and the region may be   *)
(* retried.                                                                 *)
LoadFailed(w) ==
    /\ "bad" \in {w.pack, w.script}
    /\ page' = IF Current(w)
               THEN [page EXCEPT !.entry[w.b].loading = FALSE,
                                 !.failed = @ \cup {HostOf[w.b]}]
               ELSE page
    /\ waits' = waits \ {w}
    /\ UNCHANGED renders

-----------------------------------------------------------------------------
(* Packs and scripts.                                                       *)

PackSettles(r, how) ==
    waits' = {IF RegionOf[w.b] = r /\ w.pack = "pending" THEN [w EXCEPT !.pack = how] ELSE w :
                 w \in waits}

(* The request fails, times out or brings the pack of another build.        *)
FetchFails(r) ==
    /\ page.loads[r].step = "fetch"
    /\ page' = [page EXCEPT !.loads[r] = NoLoad]
    /\ PackSettles(r, "bad")
    /\ UNCHANGED renders

(* The templates of the pack the page must register: not the ones it owns,  *)
(* can revive or can retain, unless a failed install published them.        *)
Fresh(p, r) ==
    {t \in Pack(r) : t \in p.unready[r] \/ (t \notin p.registry /\ t \notin p.weak)}

(* install up to its await: everything the pack needs is in the registry.   *)
Publish(r) ==
    LET q == Revive(page, r)
        fresh == Fresh(q, r)
    IN  /\ page.loads[r].step = "fetch"
        /\ page' = [q EXCEPT !.registry = @ \cup Pack(r),
                             !.weak = @ \cup Pack(r),
                             !.unready[r] = fresh,
                             !.prepared = @ \ fresh,
                             !.loads[r] = [step |-> "install", epoch |-> page.epoch,
                                           fresh |-> fresh]]
        /\ UNCHANGED <<waits, renders>>

(* MUTANT: the inventory is merged whatever happened during the await.      *)
MergedAnyway(p, r) == p.inventory \cup Pack(r)

(* A collection during the await invalidates the whole publication.         *)
Merged(p, r) ==
    IF p.epoch = p.loads[r].epoch THEN p.inventory \cup Pack(r) ELSE p.inventory

(* install after its await.                                                 *)
Install(r) ==
    LET load == page.loads[r]
    IN  /\ load.step = "install"
        /\ r \in page.weak
        /\ page' = [page EXCEPT
               !.registered[r] = IF r \in load.fresh THEN load.epoch ELSE @,
               !.inventory = Merged(page, r),
               !.unready[r] = Clean,
               !.prepared = @ \cup load.fresh,
               !.loads[r] = NoLoad]
        /\ PackSettles(r, "ok")
        /\ UNCHANGED renders

(* A definition or style was not ready, or the region's template is gone:   *)
(* what was published stays unready.                                        *)
InstallFails(r) ==
    /\ page.loads[r].step = "install"
    /\ page' = [page EXCEPT !.loads[r] = NoLoad]
    /\ PackSettles(r, "bad")
    /\ UNCHANGED renders

ScriptSettles(r, how) ==
    waits' = {IF RegionOf[w.b] = r /\ w.script = "pending" THEN [w EXCEPT !.script = how]
              ELSE w : w \in waits}

ScriptDeclares(r) ==
    /\ page.script[r] = "loading"
    /\ page' = [page EXCEPT !.script[r] = "declared"]
    /\ ScriptSettles(r, "ok")
    /\ UNCHANGED renders

ScriptFails(r) ==
    /\ page.script[r] = "loading"
    /\ page' = [page EXCEPT !.script[r] = "failed"]
    /\ ScriptSettles(r, "bad")
    /\ UNCHANGED renders

-----------------------------------------------------------------------------
(* Templates go away.                                                       *)

Shown(p, r) == {b \in p.views[r] : p.inst[b]}

(* releaseInactive: regions no binding shows leave the registry, and the    *)
(* inventory with it, unless a collection has reset both since.             *)
ReleaseInactive ==
    LET closed == {r \in Regions : page.views[r] # {} /\ Shown(page, r) = {}}
        dropped == {r \in closed : r \in page.registry /\ page.registered[r] = page.epoch}
    IN  /\ page.releasing
        /\ page' = [page EXCEPT
               !.releasing = FALSE,
               !.views = [r \in Regions |-> Shown(page, r)],
               !.registered = [r \in Regions |-> IF r \in closed THEN Never ELSE @[r]],
               !.registry = @ \ dropped,
               !.inventory = @ \ dropped,
               !.released = @ \cup dropped]
        /\ UNCHANGED <<waits, renders>>

(* collectTemplates.                                                        *)
CollectTemplates ==
    /\ page.epoch < MaxCollects
    /\ page' = [page EXCEPT !.registry = {}, !.inventory = {}, !.epoch = @ + 1]
    /\ UNCHANGED <<waits, renders>>

(* The collector takes a template that nothing but weak references hold: no *)
(* registry entry, no install that published it and no mounted instance.    *)
GarbageCollect(t) ==
    /\ t \in page.weak \ page.registry
    /\ ~\E r \in Regions : page.loads[r].step = "install" /\ t \in page.loads[r].fresh
    /\ ~\E b \in Bindings : page.inst[b] /\ t \in Pack(RegionOf[b])
    /\ page' = [page EXCEPT !.weak = @ \ {t}]
    /\ UNCHANGED <<waits, renders>>

-----------------------------------------------------------------------------
Settle(r) ==
    \/ FetchFails(r) \/ Publish(r) \/ Install(r) \/ InstallFails(r)
    \/ ScriptDeclares(r) \/ ScriptFails(r)

React == \E w \in waits : LoadSucceeded(w) \/ LoadFailed(w)

LazyNext ==
    \/ \E b \in Bindings, on \in BOOLEAN : Render(b, on)
    \/ \E b \in Bindings : Dispose(b)
    \/ \E r \in Regions, scripts \in BOOLEAN : Prefetch(r, scripts)
    \/ \E h \in Hosts : Retry(h)
    \/ React
    \/ \E r \in Regions : Settle(r)
    \/ ReleaseInactive
    \/ CollectTemplates
    \/ \E t \in Templates : GarbageCollect(t)

LazySpec == LazyInit /\ [][LazyNext]_lazyVars

(* Requests time out, imports and style loads settle, and the event loop    *)
(* runs the reactions; what the user and the collector do is up to them.    *)
LazyFairness ==
    /\ WF_lazyVars(React)
    /\ \A r \in Regions :
          /\ WF_lazyVars(FetchFails(r) \/ Publish(r))
          /\ WF_lazyVars(Install(r) \/ InstallFails(r))
          /\ WF_lazyVars(ScriptDeclares(r) \/ ScriptFails(r))
LazyFairSpec == LazySpec /\ LazyFairness

-----------------------------------------------------------------------------
(* Properties.                                                              *)

(* The inventory never names a template the page can lose: whatever the     *)
(* interleaving of installs, releases, revivals and collections, every      *)
(* template the server will leave out of its next response is in the        *)
(* registry (install's epoch check, releaseInactive, revive); and a region  *)
(* on show is out of the registry only if a collection emptied it (opened). *)
InventoryHonest ==
    /\ page.inventory \subseteq page.registry
    /\ page.epoch = 0 => \A b \in Bindings : page.inst[b] => RegionOf[b] \in page.registry

(* A host is remembered as failed exactly while one of its regions failed   *)
(* and is not being retried, so that a later completion request retries all *)
(* of them and nothing else (rememberFailure, forgetFailureIfRetried).      *)
FailuresExact ==
    page.failed = {HostOf[b] : b \in {c \in Bindings : IsFailed(page, c)}}

(* What the page tells the server and what it retries are both exact.       *)
BooksHonest == InventoryHonest /\ FailuresExact

(* A region that is opened and stays open is mounted, from templates whose  *)
(* install was ready even if an earlier install of them failed half way, or *)
(* reports that it failed (track, activate's early return, unloaded).       *)
OpenIsServed ==
    \A b \in Bindings :
        page.cond[b] ~> \/ page.inst[b] /\ b \notin page.raw
                        \/ ~page.cond[b]
                        \/ IsFailed(page, b)
=============================================================================
