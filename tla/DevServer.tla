----------------------------- MODULE DevServer -----------------------------
(***************************************************************************)
(* The development server's way from an edit to what it serves: the        *)
(* debounced watcher with its content filter (webui-dev-server watch.rs),  *)
(* the rebuild worker (worker.rs) and the two hosts' rebuild closures,     *)
(* `webui serve --watch` (webui-cli commands/serve.rs) and `webui press    *)
(* serve` (webui-press serve.rs).                                           *)
(*                                                                         *)
(* Threads: the editor; the debouncer, which asks the host whether to      *)
(* retry, filters under the filter's lock and only then sends a tick; the  *)
(* worker, which reads the inputs one by one while they change; the main   *)
(* thread, which shuts the worker down.                                    *)
(*                                                                         *)
(* A content is <<kind, n>>: "good", "bad" (a build that reads it fails)    *)
(* or absent.  n tells contents of one kind apart; every edit brings new    *)
(* content.  Sources lie under a watched root, includes and projection      *)
(* manifests outside of every root, watched through their parents.  The     *)
(* paths a tick carries are only printed, so the channel is a count.  What  *)
(* a build produces is the inputs it read, and it is published in one step. *)
(***************************************************************************)
EXTENDS Integers, FiniteSets

CONSTANTS
    Sources,     \* inputs under a recursively watched root
    Includes,    \* exact files whose bytes the build records
    Manifests,   \* exact files whose bytes the build does not record
    MaxChanges,  \* bound: edits and touches
    MaxFaults,   \* bound: builds and subscriptions that fail on good inputs
    Capacity     \* TICK_CHANNEL_CAPACITY

ASSUME DevServerAssumption ==
    MaxChanges \in Nat /\ MaxFaults \in Nat /\ Capacity \in Nat \ {0}

VARIABLES
    press,     \* the host: webui press serve, or webui serve
    content,   \* what is on disk
    changes,   \* edits and touches so far
    seen,      \* the debouncer's files: an event came, its window is open
    debounce,  \* the debouncer thread: [stage, batch, retry]
    hashes,    \* EventFilter.content_hashes
    watching,  \* the parents of exact files are subscribed
    ticks,     \* ticks in the channel
    worker,    \* where the rebuild thread is
    dirty,     \* the worker's local of that name
    read,      \* what the running build has read
    failed,    \* why the running build failed: "no", "input" or "fault"
    faults,    \* faults so far
    served,    \* the inputs of the build that is served
    error,     \* why the last build failed, if it did
    stopper,   \* the main thread in shutdown()
    stopping,  \* the worker's stop flag
    asked      \* a save asked for a retry of the error that is shown

vars == <<press, content, changes, seen, debounce, hashes, watching, ticks, worker, dirty,
          read, failed, faults, served, error, stopper, stopping, asked>>

disk    == <<press, content, changes>>
watcher == <<seen, debounce, hashes, watching>>
build   == <<read, failed, faults, served, error>>
ending  == <<stopper, stopping>>

Files    == Sources \cup Includes \cup Manifests
Explicit == Includes \cup Manifests

Absent   == <<"absent", 0>>
Unread   == <<"unread", 0>>
NoHash   == <<"none", 0>>

\* A build that reads c from f fails.
Breaks(f, c) == c[1] = "bad" \/ (c = Absent /\ f \in Explicit)

\* hash_file: an absent file has no hash.
HashOf(c) == IF c = Absent THEN NoHash ELSE c

\* content_changed: no hash before or no hash now counts as a change.
ContentChanged(old, c) == HashOf(c) = NoHash \/ HashOf(c) # old

\* try_send on the bounded channel: a full one drops the tick.
TrySend(n) == IF n < Capacity THEN n + 1 ELSE n

-----------------------------------------------------------------------------
(* The editor and the file system events *)

Init ==
    /\ press \in BOOLEAN
    /\ content = [f \in Files |-> <<"good", 0>>]
    /\ changes = 0
    /\ seen = {}
    /\ debounce = [stage |-> "idle", batch |-> {}, retry |-> FALSE]
    /\ hashes = [f \in Files |-> IF f \in Explicit THEN <<"good", 0>> ELSE NoHash]
    /\ watching = TRUE
    /\ ticks = 0
    /\ worker = "top"
    /\ dirty = FALSE
    /\ read = [f \in Files |-> Unread]
    /\ failed = "no" /\ faults = 0
    /\ served = [f \in Files |-> <<"good", 0>>]
    /\ error = "no"
    /\ stopper = "serving" /\ stopping = FALSE
    /\ asked = FALSE

\* An event reaches the debouncer when the file's place is subscribed.
Observe(f) == seen' = IF (press \/ stopper = "serving") /\ (f \in Sources \/ watching)
                      THEN seen \cup {f} ELSE seen

Edit(f) ==
    /\ changes < MaxChanges
    /\ changes' = changes + 1
    /\ \E c \in {<<"good", changes + 1>>, <<"bad", changes + 1>>, Absent} \ {content[f]} :
          content' = [content EXCEPT ![f] = c]
    /\ Observe(f)
    /\ UNCHANGED <<press, debounce, hashes, watching, ticks, worker, dirty, build, ending, asked>>

\* A save that writes the same bytes.
Touch(f) ==
    /\ changes < MaxChanges
    /\ changes' = changes + 1
    /\ content[f] # Absent
    /\ Observe(f)
    /\ asked' = (asked \/ (error # "no" /\ f \in seen'))
    /\ UNCHANGED <<press, content, debounce, hashes, watching, ticks, worker, dirty, build, ending>>

-----------------------------------------------------------------------------
(* The debouncer thread *)

\* retry_unchanged_when: webui serve has an error to show.
RetryUnchanged == ~press /\ error # "no"

\* A window closes; the host is asked before the filter is locked.
Ask(batch) ==
    /\ debounce.stage = "idle"
    /\ batch # {} /\ batch \subseteq seen
    /\ seen' = seen \ batch
    /\ debounce' = [stage |-> "filter", batch |-> batch, retry |-> RetryUnchanged]
    /\ UNCHANGED <<disk, hashes, watching, ticks, worker, dirty, build, ending, asked>>

\* EventFilter::changed_paths.  The hashes are brought up to date either way.
Filter ==
    /\ debounce.stage = "filter"
    /\ hashes' = [f \in Files |-> IF f \in debounce.batch THEN HashOf(content[f]) ELSE hashes[f]]
    /\ LET changed == {f \in debounce.batch : ContentChanged(hashes[f], content[f])}
           paths   == IF debounce.retry THEN debounce.batch ELSE changed
       IN  debounce' = [stage |-> IF paths = {} THEN "idle" ELSE "send", batch |-> {}, retry |-> FALSE]
    /\ UNCHANGED <<disk, seen, watching, ticks, worker, dirty, build, ending, asked>>

\* on_event: the host's callback sends a tick and ignores a failure.
Send ==
    /\ debounce.stage = "send"
    /\ ticks' = IF worker = "ended" THEN ticks ELSE TrySend(ticks)
    /\ debounce' = [debounce EXCEPT !.stage = "idle"]
    /\ UNCHANGED <<disk, seen, hashes, watching, worker, dirty, build, ending, asked>>

-----------------------------------------------------------------------------
(* The rebuild worker *)

\* while !stopping; a dirty worker does not block.
Top ==
    /\ worker = "top"
    /\ worker' = IF stopping THEN "ended" ELSE IF dirty THEN "check" ELSE "recv"
    /\ ticks' = IF ~stopping /\ dirty THEN 0 ELSE ticks
    /\ UNCHANGED <<disk, watcher, dirty, build, ending, asked>>

\* recv() and the drain behind it.
Receive ==
    /\ worker = "recv" /\ ticks > 0
    /\ ticks' = 0
    /\ worker' = "check"
    /\ UNCHANGED <<disk, watcher, dirty, build, ending, asked>>

Check ==
    /\ worker = "check"
    /\ IF stopping
       THEN worker' = "ended" /\ UNCHANGED asked
       ELSE worker' = "build" /\ asked' = FALSE
    /\ UNCHANGED <<disk, watcher, ticks, dirty, build, ending>>

\* The build reads one input, and gives up on a broken one.
Read(f) ==
    /\ worker = "build" /\ failed = "no" /\ read[f] = Unread
    /\ read' = [read EXCEPT ![f] = content[f]]
    /\ failed' = IF Breaks(f, content[f]) THEN "input" ELSE "no"
    /\ UNCHANGED <<disk, watcher, ticks, worker, dirty, faults, served, error, ending, asked>>

\* A failure that is not in the inputs: a bundler that dies, a full disk.
Fault ==
    /\ worker = "build" /\ failed = "no" /\ faults < MaxFaults
    /\ failed' = "fault"
    /\ faults' = faults + 1
    /\ UNCHANGED <<disk, watcher, ticks, worker, dirty, read, served, error, ending, asked>>

\* Press could not read its configuration, one of the sources, again.
ReloadFailed == failed # "no" /\ \E f \in Sources : \A g \in Files \ {f} : read[g] = Unread

\* Press points the watcher at the inputs of this build, failed or not, unless
\* its configuration was not even read.
EndBuild ==
    /\ worker = "build"
    /\ failed # "no" \/ \A f \in Files : read[f] # Unread
    /\ worker' \in IF ~press THEN {"publish"}
                   ELSE IF ReloadFailed THEN {"reset", "publish"} ELSE {"reset"}
    /\ UNCHANGED <<disk, watcher, ticks, dirty, build, ending, asked>>

\* EventFilter::reset: exact files are hashed as they are now.
Reset ==
    /\ worker = "reset"
    /\ hashes' = [f \in Files |-> IF f \in Explicit THEN HashOf(content[f]) ELSE NoHash]
    /\ worker' = "unwatch"
    /\ UNCHANGED <<disk, seen, debounce, watching, ticks, dirty, build, ending, asked>>

\* Subscriptions::retarget releases the parents of exact files ...
Unwatch ==
    /\ worker = "unwatch"
    /\ watching' = FALSE
    /\ worker' = "watch"
    /\ UNCHANGED <<disk, seen, debounce, hashes, ticks, dirty, build, ending, asked>>

\* ... and subscribes to them again.
Watch ==
    /\ worker = "watch"
    /\ watching' = TRUE
    /\ worker' = "compare"
    /\ UNCHANGED <<disk, seen, debounce, hashes, ticks, dirty, build, ending, asked>>

\* A subscription fails: the closure returns before the comparison, with an
\* error although the build has written its output.  The parents of exact
\* files may be left unsubscribed.
WatchFails ==
    /\ worker = "watch" /\ faults < MaxFaults
    /\ faults' = faults + 1
    /\ watching' \in BOOLEAN
    /\ failed' = "fault"
    /\ served' = IF failed = "no" THEN read ELSE served
    /\ worker' = "publish"
    /\ UNCHANGED <<disk, seen, debounce, hashes, ticks, dirty, read, error, ending, asked>>

\* MUTANT: an unavailable input counts as a change.
MutRequeued == {f \in Includes : content[f] = Absent \/ read[f] \notin {Unread, content[f]}}

\* MUTANT: the comparison is left out.
MutNotRequeued == {}

\* StateDependencies::changed_paths: the bytes the build used against the disk.
Requeued == {f \in Includes : read[f] \notin {Unread, content[f]}}

Compare ==
    /\ worker = "compare"
    /\ ticks' = IF Requeued # {} THEN TrySend(ticks) ELSE ticks
    /\ worker' = "publish"
    /\ UNCHANGED <<disk, watcher, dirty, build, ending, asked>>

\* The closure returns: a failed build leaves what is served, and says so.
Publish ==
    /\ worker = "publish"
    /\ error' = failed
    /\ served' = IF failed = "no" THEN read ELSE served
    /\ asked' = (asked /\ failed # "no")
    /\ read' = [f \in Files |-> Unread] /\ failed' = "no"
    /\ worker' = "drain"
    /\ UNCHANGED <<disk, watcher, ticks, dirty, faults, ending>>

\* Ticks that came during the build.
Drain ==
    /\ worker = "drain"
    /\ dirty' = (ticks > 0)
    /\ ticks' = 0
    /\ worker' = "top"
    /\ UNCHANGED <<disk, watcher, build, ending, asked>>

-----------------------------------------------------------------------------
(* shutdown(): webui serve drops its watcher first, press afterwards *)

StopWatcher ==
    /\ stopper = "serving"
    /\ seen' = IF press THEN seen ELSE {}
    /\ stopper' = "stopping"
    /\ UNCHANGED <<disk, debounce, hashes, watching, ticks, worker, dirty, build, stopping, asked>>

StoreFlag ==
    /\ stopper = "stopping"
    /\ stopping' = TRUE
    /\ stopper' = "waking"
    /\ UNCHANGED <<disk, watcher, ticks, worker, dirty, build, asked>>

\* try_send of an empty tick; then join.
Wake ==
    /\ stopper = "waking"
    /\ ticks' = IF worker = "ended" THEN ticks ELSE TrySend(ticks)
    /\ stopper' = "joining"
    /\ UNCHANGED <<disk, watcher, worker, dirty, build, stopping, asked>>

Join ==
    /\ stopper = "joining" /\ worker = "ended"
    /\ stopper' = "stopped"
    /\ UNCHANGED <<disk, watcher, ticks, worker, dirty, build, stopping, asked>>

-----------------------------------------------------------------------------
Developer == \E f \in Files : Edit(f) \/ Touch(f)
Debouncer == (\E batch \in SUBSET seen : Ask(batch)) \/ Filter \/ Send
Worker ==
    \/ Top \/ Receive \/ Check
    \/ (\E f \in Files : Read(f)) \/ EndBuild
    \/ Reset \/ Unwatch \/ Watch \/ Compare \/ Publish \/ Drain
Shutdown == StoreFlag \/ Wake \/ Join

Next == Developer \/ Debouncer \/ Worker \/ Fault \/ WatchFails \/ StopWatcher \/ Shutdown

\* Windows close, builds end, threads run; nobody has to edit or to stop.
Fairness == WF_vars(Debouncer) /\ WF_vars(Worker) /\ WF_vars(Shutdown)

FairSpec == Init /\ [][Next]_vars /\ Fairness

-----------------------------------------------------------------------------
(* Properties *)

\* Nothing is on its way to a rebuild any more.
Quiet ==
    /\ seen = {} /\ debounce.stage = "idle" /\ ticks = 0
    /\ worker = "recv" /\ stopper = "serving"

\* When the server has come to rest, it serves what is on disk, or shows an
\* error that is still there: no edit is lost between the window, the filter,
\* the bounded channel, a watch that is torn down and a build that was reading
\* meanwhile.  And a save that came while webui serve showed an error has
\* started a build, although it changed nothing (retry_unchanged_when).  The
\* exception is an edited manifest of press: each build takes the bytes it finds
\* afterwards for known, and nothing compares them with what the build read.
NothingForgotten ==
    Quiet /\ (press => \A f \in Manifests : content[f] = <<"good", 0>>)
          => /\ \/ error = "no" /\ served = content
                \/ error = "input" /\ \E f \in Files : Breaks(f, content[f])
                \/ error = "fault"
             /\ asked => press

\* Edits that end leave a server at rest: rebuilds do not trigger themselves.
\* And shutdown() returns, whatever is queued and although senders are alive.
Settles ==
    /\ <>[](worker = "ended" \/ (worker = "recv" /\ ticks = 0))
    /\ stopper = "stopping" ~> stopper = "stopped"
=============================================================================
