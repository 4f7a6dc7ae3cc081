----------------------------- MODULE NativeTasks -----------------------------
(***************************************************************************)
(* The UI-local completion driver (crates/webui-desktop/src/native_tasks.rs*)
(* NativeTasks) over the main-queue wake source that schedules it          *)
(* (macos/tasks.rs MainWake; GtkWake of linux/ipc_wake.rs has the same     *)
(* two flags).  Only the UI thread spawns, polls and closes; any thread    *)
(* may call a task's waker.                                                *)
(*                                                                         *)
(* A poll is not atomic: the future may call into the native toolkit,      *)
(* which may run the UI event loop again before the poll returns, so       *)
(* spawns and drains happen during a poll as well as between drains.  A    *)
(* waker runs in two steps, the swap of TaskWake.ready and the call of the *)
(* wake source, with other threads between them.                           *)
(*                                                                         *)
(* SchemeRequests supplies the futures and calls these operators.          *)
(*                                                                         *)
(* Abstractions.  A task identifier is used for one spawn.  The wake       *)
(* source accepts every wake, as the main queue and GTK's do (Windows' may *)
(* refuse), and the driver closes between drains only, because the         *)
(* handler that owns it is kept alive by the drain (macos/tasks.rs).       *)
(***************************************************************************)
EXTENDS Naturals, Sequences, FiniteSets, SequencesExt

CONSTANTS
  Task,        \* the futures that may be spawned
  Thread       \* the threads that call wakers

None == "none"

VARIABLES
  maxTasks,    \* NativeTasks.max_tasks
  unspawned,   \* tasks not handed to spawn yet
  tasks,       \* NativeTasks.tasks
  batch,       \* what poll_ready's loop has still to visit
  current,     \* the task whose poll has not returned, or None
  looping,     \* NativeTasks.polling
  deferred,    \* NativeTasks.deferred_drain
  alive,       \* NativeTasks.alive
  count,       \* NativeTasks.count
  ready,       \* TaskWake.ready of the spawned tasks, as a set
  active,      \* TaskWake.active, as a set
  queued,      \* MainWake.queued: a drain callback is on the main queue
  posting      \* per thread: the task whose ready flag it has just raised

loopVars == <<maxTasks, tasks, batch, current, looping, deferred, alive,
              count>>

\* maxTasks is the caller's.
DriverInit ==
  /\ tasks = <<>> /\ batch = <<>> /\ current = None
  /\ looping = FALSE /\ deferred = FALSE /\ alive = TRUE /\ count = 0
  /\ ready = {} /\ active = {} /\ queued = FALSE
  /\ posting = [w \in Thread |-> None]

\* The UI thread runs code of ours other than poll_ready's loop: an event
\* handler, or one nested in a poll.
UiFree == looping => current # None

-----------------------------------------------------------------------------
(* Wakers: TaskWake::wake_by_ref, then MainWake::post *)

Raise(w, t) ==
  IF alive /\ t \in active /\ t \notin ready
  THEN ready' = ready \cup {t} /\ posting' = [posting EXCEPT ![w] = t]
  ELSE UNCHANGED <<ready, posting>>

Post(w) ==
  /\ posting[w] # None
  /\ posting' = [posting EXCEPT ![w] = None]
  /\ queued' = TRUE
  /\ UNCHANGED <<unspawned, loopVars, ready, active>>

-----------------------------------------------------------------------------
(* UI thread *)

\* NativeTasks::close, outside poll_ready: every task is dropped.
DropWaiting ==
  /\ alive' = FALSE /\ deferred' = FALSE /\ tasks' = <<>>
  /\ active' = active \ ToSet(tasks)
  /\ count' = count - Len(tasks)

\* spawn's early returns leave everything alone.
CanSpawn == alive /\ count < maxTasks

Spawn(t) ==
  /\ UiFree /\ t \in unspawned /\ CanSpawn
  /\ unspawned' = unspawned \ {t}
  /\ tasks' = Append(tasks, t) /\ count' = count + 1
  /\ active' = active \cup {t} /\ ready' = ready \cup {t}
  /\ queued' = TRUE
  /\ UNCHANGED <<batch, current, looping, deferred, alive, posting,
                 maxTasks>>

\* MUTANT: a drain that finds the driver polling just returns.
NestedDrainForgets == UNCHANGED deferred

\* poll_ready re-entered from the poll it is in
NestedDrain == deferred' = (deferred \/ alive)

\* The main queue runs `drain`: queued is cleared first, then poll_ready.
Drain ==
  /\ queued /\ queued' = FALSE /\ UiFree
  /\ \/ /\ looping
        /\ NestedDrain
        /\ UNCHANGED <<tasks, batch, looping>>
     \/ /\ ~looping /\ alive
        /\ batch' = tasks /\ tasks' = <<>> /\ looping' = TRUE
        /\ UNCHANGED deferred
     \/ /\ ~looping /\ ~alive
        /\ UNCHANGED <<tasks, batch, looping, deferred>>
  /\ UNCHANGED <<unspawned, current, alive, count, ready, active, posting,
                 maxTasks>>

AtVisit == looping /\ current = None /\ batch # <<>>

VisitIdle ==
  /\ AtVisit /\ alive /\ Head(batch) \notin ready
  /\ batch' = Tail(batch) /\ tasks' = Append(tasks, Head(batch))
  /\ UNCHANGED <<unspawned, current, looping, deferred, alive, count, ready,
                 active, queued, posting, maxTasks>>

\* ready.swap(false), then the future's poll begins
PollBegin ==
  /\ AtVisit /\ alive /\ Head(batch) \in ready
  /\ current' = Head(batch) /\ batch' = Tail(batch)
  /\ ready' = ready \ {Head(batch)}
  /\ UNCHANGED <<unspawned, tasks, looping, deferred, alive, count, active,
                 queued, posting, maxTasks>>

PollReturns(complete) ==
  /\ current # None /\ current' = None
  /\ IF complete \/ ~alive
     THEN count' = count - 1 /\ active' = active \ {current} /\ UNCHANGED tasks
     ELSE tasks' = Append(tasks, current) /\ UNCHANGED <<count, active>>
  /\ UNCHANGED <<batch, looping, deferred, alive, ready, queued, posting,
                 maxTasks>>

\* After the loop: a drain consumed during it is scheduled again if it left
\* work behind.
Reschedule == deferred /\ alive /\ \E i \in DOMAIN tasks : tasks[i] \in ready

EndLoop ==
  /\ looping /\ current = None /\ batch = <<>>
  /\ looping' = FALSE /\ deferred' = FALSE
  /\ queued' = (queued \/ Reschedule)
  /\ UNCHANGED <<unspawned, tasks, batch, current, alive, count, ready, active,
                 posting, maxTasks>>

\* The drop of the driver, which its owner cannot do from inside a drain.
Close ==
  /\ ~looping /\ alive
  /\ DropWaiting
  /\ UNCHANGED <<unspawned, batch, current, looping, ready, queued, posting,
                 maxTasks>>

-----------------------------------------------------------------------------
TypeOK ==
  /\ unspawned \subseteq Task
  /\ tasks \in Seq(Task) /\ batch \in Seq(Task)
  /\ current \in Task \cup {None}
  /\ looping \in BOOLEAN /\ deferred \in BOOLEAN /\ alive \in BOOLEAN
  /\ queued \in BOOLEAN /\ count \in Nat
  /\ ready \subseteq Task /\ active \subseteq Task
  /\ posting \in [Thread -> Task \cup {None}]

\* A task woken after its turn in the loop has a drain coming: one is on the
\* main queue, a thread is about to put one there, or poll_ready remembers
\* that a nested call consumed one (deferred_drain).
DrainComing == queued \/ deferred \/ \E w \in Thread : posting[w] # None
WakeKept(t) == t \in ToSet(batch) \/ DrainComing
=============================================================================
