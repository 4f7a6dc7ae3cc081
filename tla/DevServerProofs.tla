------------------------- MODULE DevServerProofs -------------------------
(* That the development server forgets nothing, proved for any files,       *)
(* any number of edits and faults and any capacity of the channel.          *)
EXTENDS DevServer, TLAPS

-----------------------------------------------------------------------------
(* The inductive invariant *)

\* What a file can hold after the changes so far
Contents == ({"good", "bad"} \X (0 .. changes)) \cup {Absent}
AtFirst == <<"good", 0>>

DiskTypes ==
    /\ press \in BOOLEAN /\ changes \in Nat
    /\ content \in [Files -> Contents] /\ hashes \in [Files -> Contents \cup {NoHash}]
    /\ read \in [Files -> Contents \cup {Unread}] /\ served \in [Files -> Contents]
ThreadTypes ==
    /\ seen \in SUBSET Files
    /\ debounce \in [stage : {"idle", "filter", "send"}, batch : SUBSET Files, retry : BOOLEAN]
    /\ ticks \in Nat
    /\ worker \in {"top", "recv", "check", "build", "reset", "unwatch", "watch", "compare",
                   "publish", "drain", "ended"}
    /\ failed \in {"no", "input", "fault"} /\ error \in {"no", "input", "fault"}

\* Where the worker is, and what that says of the build and of the watch
Building == worker \in {"build", "reset", "unwatch", "watch", "compare", "publish"}
Flow ==
    /\ ~press => worker \notin {"reset", "unwatch", "watch", "compare"}
    /\ ~watching => press
    /\ ~Building /\ error = "no" => watching
    /\ worker \in {"compare", "publish"} =>
         watching \/ (worker = "publish" /\ (failed = "fault" \/ ReloadFailed))
    /\ ~Building => failed = "no" /\ \A f \in Files : read[f] = Unread
    /\ Building /\ worker # "build" /\ failed = "no" => \A f \in Files : read[f] # Unread
    /\ stopper = "serving" => ~stopping /\ worker # "ended"

\* A file that still holds what it held at first was never read otherwise.
Origin(f) ==
    content[f] = AtFirst => read[f] \in {Unread, AtFirst} /\ served[f] = AtFirst

\* A rebuild is coming: a tick is on its way, or the worker has one.
Upcoming ==
    \/ debounce.stage = "send" \/ ticks > 0
    \/ worker = "check" \/ (worker = "top" /\ dirty)

\* The filter would let an event of f through, and one is coming ...
Noted(f) == content[f] # Absent /\ hashes[f] = content[f]
InFlight(f) ==
    ~Noted(f) /\ (f \in seen \/ (debounce.stage = "filter" /\ f \in debounce.batch))

Comparing == {"unwatch", "watch", "compare"}

\* ... or the comparison after the build will find it, or it is one of the
\* manifests that nothing compares.  A build that could not reload its
\* configuration is not compared: it has read a source only.
Compared(f) ==
    /\ press /\ f \in Includes /\ read[f] # Unread
    /\ \/ worker \in Comparing
       \/ worker \in {"build", "reset"} /\ f \notin Sources
Excused(f) == press /\ f \in Manifests /\ content[f] # AtFirst
Followed(f) == InFlight(f) \/ Compared(f) \/ Excused(f)

\* The worker does not turn away from a comparison.
Onward ==
    /\ worker \in Comparing => worker' \in Comparing
    /\ worker \in {"build", "reset"} => worker' \in {"build", "reset"} \cup Comparing

\* What the running build has read is still so, or the change is followed up;
\* a build that failed on an input has one that is still broken, or is
\* followed up.
BuildFresh ==
    /\ failed = "no" => \A f \in Files : read[f] \in {Unread, content[f]} \/ Followed(f)
    /\ failed = "input" => \E f \in Files : /\ read[f] # Unread /\ Breaks(f, read[f])
                                            /\ read[f] = content[f] \/ Followed(f)

\* The same of the last build, once it was published
RestFresh ==
    /\ error = "no" => \A f \in Files : served[f] = content[f] \/ Followed(f)
    /\ error = "input" => \E f \in Files : /\ watching \/ f \in Sources
                                           /\ Breaks(f, content[f]) \/ Followed(f)

Fresh == stopper = "serving" =>
    Upcoming \/ (Building /\ BuildFresh) \/ (~Building /\ RestFresh)

\* A save that asked for a retry is on its way to one.
Retried ==
    ~press /\ asked /\ stopper = "serving" =>
        /\ error # "no"
        /\ \/ seen # {} \/ Upcoming
           \/ debounce.stage = "filter" /\ debounce.retry /\ debounce.batch # {}

DevInv ==
    /\ DiskTypes /\ ThreadTypes /\ Flow /\ (\A f \in Files : Origin(f))
    /\ Fresh /\ Retried

-----------------------------------------------------------------------------
(* Types *)

\* An edit brings content that no file held and no hash or build has seen.
LEMMA NewContent ==
  ASSUME changes \in Nat
  PROVE /\ NoHash \notin Contents /\ Unread \notin Contents /\ AtFirst \in Contents
        /\ Absent \in Contents /\ AtFirst # Absent
        /\ changes' = changes => Contents' = Contents
        /\ changes' = changes + 1 =>
             /\ Contents \subseteq Contents'
             /\ \A k \in {"good", "bad"} :
                  /\ <<k, changes + 1>> \in Contents' /\ <<k, changes + 1>> \notin Contents
                  /\ <<k, changes + 1>> \notin {NoHash, Unread, AtFirst, Absent}
BY DEF Contents, NoHash, Unread, AtFirst, Absent

\* What an edit writes
LEMMA Edited ==
  ASSUME DiskTypes, NEW f \in Files, Edit(f)
  PROVE \E c \in Contents' : /\ content' = [content EXCEPT ![f] = c]
                             /\ c = Absent \/ c \notin Contents \cup {NoHash, Unread}
                             /\ c # AtFirst
<1>1. changes \in Nat /\ changes' = changes + 1
  BY DEF DiskTypes, Edit
<1>2. PICK c \in {<<"good", changes + 1>>, <<"bad", changes + 1>>, Absent} :
        content' = [content EXCEPT ![f] = c]
  BY DEF Edit
<1>3. Absent \in Contents'
  BY <1>1, NewContent
<1> QED BY <1>1, <1>2, <1>3, NewContent

\* Files hold, and hashes and builds know, what was written so far.
LEMMA DiskNext ==
  ASSUME DiskTypes, ThreadTypes, Flow, [Next]_vars
  PROVE DiskTypes'
<1> USE DEF disk, watcher, build, ending
<1>0. changes \in Nat /\ Absent \in Contents
  BY NewContent DEF DiskTypes
<1>a. UNCHANGED <<press, changes, content, hashes, read, served>> => DiskTypes'
  BY <1>0, NewContent DEF DiskTypes
<1>h. \A c \in Contents : HashOf(c) \in Contents \cup {NoHash}
  BY DEF HashOf
<1>1. CASE UNCHANGED vars
  BY <1>1, <1>a DEF vars
<1>2. ASSUME NEW f \in Files, Edit(f) PROVE DiskTypes'
  <2>1. PICK c \in Contents' : content' = [content EXCEPT ![f] = c]
    BY <1>2, Edited
  <2>2. changes' = changes + 1 /\ UNCHANGED <<press, hashes, read, served>>
    BY <1>2 DEF Edit
  <2>3. Contents \subseteq Contents' /\ changes' \in Nat
    BY <1>0, <2>2, NewContent
  <2> QED BY <2>1, <2>2, <2>3 DEF DiskTypes
<1>3. ASSUME NEW f \in Files, Touch(f) PROVE DiskTypes'
  <2>1. changes' = changes + 1 /\ UNCHANGED <<press, content, hashes, read, served>>
    BY <1>3 DEF Touch
  <2>2. Contents \subseteq Contents' /\ changes' \in Nat
    BY <1>0, <2>1, NewContent
  <2> QED BY <2>1, <2>2 DEF DiskTypes
<1>4. ASSUME NEW b \in SUBSET seen, Ask(b) PROVE DiskTypes'
  BY <1>4, <1>a DEF Ask
<1>5. CASE Filter
  <2>1. /\ hashes' = [f \in Files |-> IF f \in debounce.batch THEN HashOf(content[f]) ELSE hashes[f]]
        /\ UNCHANGED <<press, changes, content, read, served>>
    BY <1>5 DEF Filter
  <2>2. Contents' = Contents
    BY <1>0, <2>1, NewContent
  <2> QED BY <1>h, <2>1, <2>2 DEF DiskTypes
<1>6. CASE Send
  BY <1>6, <1>a DEF Send
<1>7. CASE Top
  BY <1>7, <1>a DEF Top
<1>8. CASE Receive
  BY <1>8, <1>a DEF Receive
<1>9. CASE Check
  BY <1>9, <1>a DEF Check
<1>10. ASSUME NEW f \in Files, Read(f) PROVE DiskTypes'
  <2>1. read' = [read EXCEPT ![f] = content[f]] /\ UNCHANGED <<press, changes, content, hashes, served>>
    BY <1>10 DEF Read
  <2>2. Contents' = Contents
    BY <1>0, <2>1, NewContent
  <2> QED BY <2>1, <2>2 DEF DiskTypes
<1>11. CASE EndBuild
  BY <1>11, <1>a DEF EndBuild
<1>12. CASE Reset
  <2>1. /\ hashes' = [f \in Files |-> IF f \in Explicit THEN HashOf(content[f]) ELSE NoHash]
        /\ UNCHANGED <<press, changes, content, read, served>>
    BY <1>12 DEF Reset
  <2>2. Contents' = Contents
    BY <1>0, <2>1, NewContent
  <2> QED BY <1>h, <2>1, <2>2 DEF DiskTypes
<1>13. CASE Unwatch
  BY <1>13, <1>a DEF Unwatch
<1>14. CASE Watch
  BY <1>14, <1>a DEF Watch
<1>15. CASE Compare
  BY <1>15, <1>a DEF Compare
<1>16. CASE Publish
  <2>1. /\ read' = [f \in Files |-> Unread] /\ UNCHANGED <<press, changes, content, hashes>>
        /\ served' = IF failed = "no" THEN read ELSE served
    BY <1>16 DEF Publish
  <2>2. Contents' = Contents
    BY <1>0, <2>1, NewContent
  <2>3. failed = "no" => \A f \in Files : read[f] # Unread
    BY <1>16 DEF Publish, Flow, Building
  <2>4. failed = "no" => read \in [Files -> Contents]
    BY <2>3 DEF DiskTypes
  <2>5. served' \in [Files -> Contents]
    BY <2>1, <2>4 DEF DiskTypes
  <2> QED BY <2>1, <2>2, <2>5 DEF DiskTypes
<1>17. CASE Drain
  BY <1>17, <1>a DEF Drain
<1>18. CASE Fault
  BY <1>18, <1>a DEF Fault
<1>19. CASE StopWatcher
  BY <1>19, <1>a DEF StopWatcher
<1>20. CASE StoreFlag
  BY <1>20, <1>a DEF StoreFlag
<1>21. CASE Wake
  BY <1>21, <1>a DEF Wake
<1>22. CASE Join
  BY <1>22, <1>a DEF Join
<1>23. CASE WatchFails
  <2>1. /\ UNCHANGED <<press, changes, content, hashes, read>>
        /\ served' = IF failed = "no" THEN read ELSE served
    BY <1>23 DEF WatchFails
  <2>2. Contents' = Contents
    BY <1>0, <2>1, NewContent
  <2>3. failed = "no" => \A f \in Files : read[f] # Unread
    BY <1>23 DEF WatchFails, Flow, Building
  <2>4. failed = "no" => read \in [Files -> Contents]
    BY <2>3 DEF DiskTypes
  <2>5. served' \in [Files -> Contents]
    BY <2>1, <2>4 DEF DiskTypes
  <2> QED BY <2>1, <2>2, <2>5 DEF DiskTypes
<1> QED
  BY <1>1, <1>2, <1>3, <1>4, <1>5, <1>6, <1>7, <1>8, <1>9, <1>10, <1>11, <1>12,
     <1>13, <1>14, <1>15, <1>16, <1>17, <1>18, <1>19, <1>20, <1>21, <1>22, <1>23
  DEF Next, Developer, Debouncer, Worker, Shutdown

\* The threads stay in their programs.
LEMMA ThreadNext ==
  ASSUME DiskTypes, ThreadTypes, [Next]_vars
  PROVE ThreadTypes'
<1> USE DEF disk, watcher, build, ending
<1>0. Capacity \in Nat /\ (\A n \in Nat : TrySend(n) \in Nat)
  BY DevServerAssumption DEF TrySend
<1>b. RetryUnchanged \in BOOLEAN
  BY DEF RetryUnchanged
<1>1. CASE UNCHANGED vars
  BY <1>1, <1>0 DEF vars, ThreadTypes
<1>2. ASSUME NEW f \in Files, Edit(f) PROVE ThreadTypes'
  BY <1>2, <1>0 DEF Edit, ThreadTypes, Observe
<1>3. ASSUME NEW f \in Files, Touch(f) PROVE ThreadTypes'
  BY <1>3, <1>0 DEF Touch, ThreadTypes, Observe
<1>4. ASSUME NEW b \in SUBSET seen, Ask(b) PROVE ThreadTypes'
  BY <1>4, <1>b DEF Ask, ThreadTypes
<1>5. CASE Filter
  BY <1>5, <1>0 DEF Filter, ThreadTypes
<1>6. CASE Send
  BY <1>6, <1>0 DEF Send, ThreadTypes
<1>7. CASE Top
  BY <1>7, <1>0 DEF Top, ThreadTypes
<1>8. CASE Receive
  BY <1>8, <1>0 DEF Receive, ThreadTypes
<1>9. CASE Check
  BY <1>9, <1>0 DEF Check, ThreadTypes
<1>10. ASSUME NEW f \in Files, Read(f) PROVE ThreadTypes'
  BY <1>10, <1>0 DEF Read, ThreadTypes
<1>11. CASE EndBuild
  BY <1>11, <1>0 DEF EndBuild, ThreadTypes
<1>12. CASE Reset
  BY <1>12, <1>0 DEF Reset, ThreadTypes
<1>13. CASE Unwatch
  BY <1>13, <1>0 DEF Unwatch, ThreadTypes
<1>14. CASE Watch
  BY <1>14, <1>0 DEF Watch, ThreadTypes
<1>15. CASE Compare
  BY <1>15, <1>0 DEF Compare, ThreadTypes
<1>16. CASE Publish
  BY <1>16, <1>0 DEF Publish, ThreadTypes
<1>17. CASE Drain
  BY <1>17, <1>0 DEF Drain, ThreadTypes
<1>18. CASE Fault
  BY <1>18, <1>0 DEF Fault, ThreadTypes
<1>19. CASE StopWatcher
  BY <1>19, <1>0 DEF StopWatcher, ThreadTypes
<1>20. CASE StoreFlag
  BY <1>20, <1>0 DEF StoreFlag, ThreadTypes
<1>21. CASE Wake
  BY <1>21, <1>0 DEF Wake, ThreadTypes
<1>22. CASE Join
  BY <1>22, <1>0 DEF Join, ThreadTypes
<1>23. CASE WatchFails
  BY <1>23, <1>0 DEF WatchFails, ThreadTypes
<1> QED
  BY <1>1, <1>2, <1>3, <1>4, <1>5, <1>6, <1>7, <1>8, <1>9, <1>10, <1>11, <1>12,
     <1>13, <1>14, <1>15, <1>16, <1>17, <1>18, <1>19, <1>20, <1>21, <1>22, <1>23
  DEF Next, Developer, Debouncer, Worker, Shutdown

\* The worker goes its way.
LEMMA FlowNext ==
  ASSUME DiskTypes, ThreadTypes, Flow, [Next]_vars
  PROVE Flow'
<1> USE DEF disk, watcher, build, ending
<1>1. CASE UNCHANGED vars
  BY <1>1 DEF vars, Flow, Building, ReloadFailed
<1>2. ASSUME NEW f \in Files, Edit(f) PROVE Flow'
  BY <1>2 DEF Edit, Flow, Building, ReloadFailed
<1>3. ASSUME NEW f \in Files, Touch(f) PROVE Flow'
  BY <1>3 DEF Touch, Flow, Building, ReloadFailed
<1>4. ASSUME NEW b \in SUBSET seen, Ask(b) PROVE Flow'
  BY <1>4 DEF Ask, Flow, Building, ReloadFailed
<1>5. CASE Filter
  BY <1>5 DEF Filter, Flow, Building, ReloadFailed
<1>6. CASE Send
  BY <1>6 DEF Send, Flow, Building, ReloadFailed
<1>7. CASE Top
  BY <1>7 DEF Top, Flow, Building, ReloadFailed
<1>8. CASE Receive
  BY <1>8 DEF Receive, Flow, Building, ReloadFailed
<1>9. CASE Check
  BY <1>9 DEF Check, Flow, Building, ReloadFailed
<1>10. ASSUME NEW f \in Files, Read(f) PROVE Flow'
  <2>1. worker = "build" /\ UNCHANGED <<press, worker, watching, stopper, stopping>>
    BY <1>10 DEF Read
  <2> QED BY <2>1 DEF Flow, Building, ReloadFailed
<1>11. CASE EndBuild
  BY <1>11 DEF EndBuild, Flow, Building, ReloadFailed
<1>12. CASE Reset
  BY <1>12 DEF Reset, Flow, Building, ReloadFailed
<1>13. CASE Unwatch
  BY <1>13 DEF Unwatch, Flow, Building, ReloadFailed
<1>14. CASE Watch
  BY <1>14 DEF Watch, Flow, Building, ReloadFailed
<1>15. CASE Compare
  BY <1>15 DEF Compare, Flow, Building, ReloadFailed
<1>16. CASE Publish
  <2>1. /\ worker = "publish" /\ worker' = "drain" /\ UNCHANGED <<press, watching, stopper, stopping>>
        /\ failed' = "no" /\ read' = [f \in Files |-> Unread] /\ error' = failed
    BY <1>16 DEF Publish
  <2>2. failed = "no" => watching
    BY <2>1 DEF Flow, ReloadFailed
  <2> QED BY <2>1, <2>2 DEF Flow, Building, ReloadFailed
<1>17. CASE Drain
  BY <1>17 DEF Drain, Flow, Building, ReloadFailed
<1>18. CASE Fault
  BY <1>18 DEF Fault, Flow, Building, ReloadFailed
<1>19. CASE StopWatcher
  BY <1>19 DEF StopWatcher, Flow, Building, ReloadFailed
<1>20. CASE StoreFlag
  BY <1>20 DEF StoreFlag, Flow, Building, ReloadFailed
<1>21. CASE Wake
  BY <1>21 DEF Wake, Flow, Building, ReloadFailed
<1>22. CASE Join
  BY <1>22 DEF Join, Flow, Building, ReloadFailed
<1>23. CASE WatchFails
  <2>1. /\ worker = "watch" /\ worker' = "publish" /\ failed' = "fault"
        /\ UNCHANGED <<press, stopper, stopping>>
    BY <1>23 DEF WatchFails
  <2>2. press
    BY <2>1 DEF Flow
  <2> QED BY <2>1, <2>2 DEF Flow, Building, ReloadFailed
<1> QED
  BY <1>1, <1>2, <1>3, <1>4, <1>5, <1>6, <1>7, <1>8, <1>9, <1>10, <1>11, <1>12,
     <1>13, <1>14, <1>15, <1>16, <1>17, <1>18, <1>19, <1>20, <1>21, <1>22, <1>23
  DEF Next, Developer, Debouncer, Worker, Shutdown

\* Nobody can have read from an untouched file what it never held.
LEMMA OriginNext ==
  ASSUME DiskTypes, ThreadTypes, Flow, \A f \in Files : Origin(f), [Next]_vars
  PROVE \A g \in Files : Origin(g)'
<1> USE DEF disk, watcher, build, ending
<1>0. changes \in Nat
  BY DEF DiskTypes
<1>a. UNCHANGED <<content, read, served>> => \A g \in Files : Origin(g)'
  BY DEF Origin
<1>1. CASE UNCHANGED vars
  BY <1>1, <1>a DEF vars
<1>2. ASSUME NEW f \in Files, Edit(f) PROVE \A g \in Files : Origin(g)'
  <2>1. PICK c \in Contents' : content' = [content EXCEPT ![f] = c] /\ c # AtFirst
    BY <1>2, Edited
  <2>2. UNCHANGED <<read, served>>
    BY <1>2 DEF Edit
  <2> QED BY <2>1, <2>2 DEF Origin, DiskTypes
<1>3. ASSUME NEW f \in Files, Touch(f) PROVE \A g \in Files : Origin(g)'
  BY <1>3, <1>a DEF Touch
<1>4. ASSUME NEW b \in SUBSET seen, Ask(b) PROVE \A g \in Files : Origin(g)'
  BY <1>4, <1>a DEF Ask
<1>5. CASE Filter
  BY <1>5, <1>a DEF Filter
<1>6. CASE Send
  BY <1>6, <1>a DEF Send
<1>7. CASE Top
  BY <1>7, <1>a DEF Top
<1>8. CASE Receive
  BY <1>8, <1>a DEF Receive
<1>9. CASE Check
  BY <1>9, <1>a DEF Check
<1>10. ASSUME NEW f \in Files, Read(f) PROVE \A g \in Files : Origin(g)'
  <2>1. read' = [read EXCEPT ![f] = content[f]] /\ UNCHANGED <<content, served>>
    BY <1>10 DEF Read
  <2> QED BY <2>1 DEF Origin, DiskTypes
<1>11. CASE EndBuild
  BY <1>11, <1>a DEF EndBuild
<1>12. CASE Reset
  BY <1>12, <1>a DEF Reset
<1>13. CASE Unwatch
  BY <1>13, <1>a DEF Unwatch
<1>14. CASE Watch
  BY <1>14, <1>a DEF Watch
<1>15. CASE Compare
  BY <1>15, <1>a DEF Compare
<1>16. CASE Publish
  <2>1. /\ read' = [f \in Files |-> Unread] /\ UNCHANGED content
        /\ served' = IF failed = "no" THEN read ELSE served
    BY <1>16 DEF Publish
  <2>2. failed = "no" => \A f \in Files : read[f] # Unread
    BY <1>16 DEF Publish, Flow, Building
  <2> QED BY <2>1, <2>2 DEF Origin
<1>17. CASE Drain
  BY <1>17, <1>a DEF Drain
<1>18. CASE Fault
  BY <1>18, <1>a DEF Fault
<1>19. CASE StopWatcher
  BY <1>19, <1>a DEF StopWatcher
<1>20. CASE StoreFlag
  BY <1>20, <1>a DEF StoreFlag
<1>21. CASE Wake
  BY <1>21, <1>a DEF Wake
<1>22. CASE Join
  BY <1>22, <1>a DEF Join
<1>23. CASE WatchFails
  <2>1. /\ UNCHANGED <<content, read>>
        /\ served' = IF failed = "no" THEN read ELSE served
    BY <1>23 DEF WatchFails
  <2>2. failed = "no" => \A f \in Files : read[f] # Unread
    BY <1>23 DEF WatchFails, Flow, Building
  <2> QED BY <2>1, <2>2 DEF Origin
<1> QED
  BY <1>1, <1>2, <1>3, <1>4, <1>5, <1>6, <1>7, <1>8, <1>9, <1>10, <1>11, <1>12,
     <1>13, <1>14, <1>15, <1>16, <1>17, <1>18, <1>19, <1>20, <1>21, <1>22, <1>23
  DEF Next, Developer, Debouncer, Worker, Shutdown

-----------------------------------------------------------------------------
(* What is on its way arrives *)

\* A rebuild that is coming comes: only its start ends the wait.
LEMMA UpcomingNext ==
  ASSUME DiskTypes, ThreadTypes, Flow, Upcoming, ~Check, stopper' = "serving", [Next]_vars
  PROVE Upcoming'
<1> USE DEF disk, watcher, build, ending
<1>0. Capacity \in Nat \ {0} /\ ticks \in Nat
  BY DevServerAssumption DEF ThreadTypes
<1>a. UNCHANGED <<debounce, ticks, worker, dirty>> => Upcoming'
  BY DEF Upcoming
<1>b. TrySend(ticks) > 0
  BY <1>0 DEF TrySend
<1>1. CASE UNCHANGED vars
  BY <1>1, <1>a DEF vars
<1>2. ASSUME NEW f \in Files, Edit(f) PROVE Upcoming'
  BY <1>2, <1>a DEF Edit
<1>3. ASSUME NEW f \in Files, Touch(f) PROVE Upcoming'
  BY <1>3, <1>a DEF Touch
<1>4. ASSUME NEW b \in SUBSET seen, Ask(b) PROVE Upcoming'
  BY <1>4 DEF Ask, Upcoming, ThreadTypes
<1>5. CASE Filter
  BY <1>5 DEF Filter, Upcoming, ThreadTypes
<1>6. CASE Send
  BY <1>6, <1>b DEF Send, Upcoming, Flow
<1>7. CASE Top
  BY <1>7 DEF Top, Upcoming, Flow
<1>8. CASE Receive
  BY <1>8 DEF Receive, Upcoming
<1>9. CASE Check
  BY <1>9 DEF Check
<1>10. ASSUME NEW f \in Files, Read(f) PROVE Upcoming'
  BY <1>10, <1>a DEF Read
<1>11. CASE EndBuild
  BY <1>11 DEF EndBuild, Upcoming
<1>12. CASE Reset
  BY <1>12 DEF Reset, Upcoming
<1>13. CASE Unwatch
  BY <1>13 DEF Unwatch, Upcoming
<1>14. CASE Watch
  BY <1>14 DEF Watch, Upcoming
<1>15. CASE Compare
  BY <1>15, <1>b DEF Compare, Upcoming
<1>16. CASE Publish
  BY <1>16 DEF Publish, Upcoming
<1>17. CASE Drain
  <2>1. CASE debounce.stage = "send"
    BY <1>17, <2>1 DEF Drain, Upcoming
  <2>2. CASE debounce.stage # "send"
    <3>1. ticks > 0
      BY <1>17, <2>2 DEF Drain, Upcoming
    <3>2. dirty' /\ worker' = "top"
      BY <1>17, <3>1, Zenon DEF Drain
    <3> QED BY <3>2 DEF Upcoming
  <2> QED BY <2>1, <2>2
<1>18. CASE Fault
  BY <1>18, <1>a DEF Fault
<1>19. CASE StopWatcher
  BY <1>19 DEF StopWatcher
<1>20. CASE StoreFlag
  BY <1>20 DEF StoreFlag
<1>21. CASE Wake
  BY <1>21 DEF Wake
<1>22. CASE Join
  BY <1>22 DEF Join
<1>23. CASE WatchFails
  BY <1>23 DEF WatchFails, Upcoming
<1> QED
  BY <1>1, <1>2, <1>3, <1>4, <1>5, <1>6, <1>7, <1>8, <1>9, <1>10, <1>11, <1>12,
     <1>13, <1>14, <1>15, <1>16, <1>17, <1>18, <1>19, <1>20, <1>21, <1>22, <1>23
  DEF Next, Developer, Debouncer, Worker, Shutdown

\* A change stays followed up while nobody touches the file or the filter.
LEMMA FollowedKept ==
  ASSUME UNCHANGED <<press, read>>, NEW g \in Files, content'[g] = content[g],
         hashes'[g] = hashes[g], seen \subseteq seen', UNCHANGED debounce,
         Onward, Followed(g)
  PROVE Followed(g)'
BY DEF Onward, Comparing, Followed, InFlight, Compared, Excused, Noted

\* An edited file is followed up: it is subscribed, or the running build has
\* read it and will compare it.
LEMMA EditFollowed ==
  ASSUME DiskTypes, ThreadTypes, Flow, NEW f \in Files, Edit(f), stopper = "serving",
         Building => read[f] # Unread /\ failed # "fault",
         watching \/ f \in Sources \/ Building
  PROVE Followed(f)'
<1>1. PICK c \in Contents' : /\ content' = [content EXCEPT ![f] = c]
                             /\ c = Absent \/ c \notin Contents \cup {NoHash, Unread}
                             /\ c # AtFirst
  BY Edited
<1>2. content'[f] = c /\ UNCHANGED <<hashes, press, read, worker, watching>>
  BY <1>1 DEF Edit, DiskTypes, build
<1>3. ~Noted(f)'
  BY <1>1, <1>2 DEF Noted, DiskTypes
<1>4. CASE f \in Sources \/ watching
  <2>1. f \in seen'
    BY <1>4 DEF Edit, Observe
  <2> QED BY <1>3, <2>1 DEF Followed, InFlight
<1>5. CASE f \notin Sources /\ ~watching
  <2>1. press /\ Building /\ read[f] # Unread /\ failed # "fault"
    BY <1>5 DEF Flow
  <2>2. f \in Includes \/ f \in Manifests
    BY <1>5 DEF Files
  <2>3. worker # "publish"
    BY <1>5, <2>1 DEF Flow, ReloadFailed
  <2> QED BY <1>1, <1>2, <1>5, <2>1, <2>2, <2>3 DEF Followed, Compared, Comparing, Excused, Building
<1> QED BY <1>4, <1>5

\* No edit is lost on the way from the disk to what is served.
LEMMA FreshNext ==
  ASSUME DiskTypes, ThreadTypes, Flow, \A f \in Files : Origin(f), Fresh, [Next]_vars
  PROVE Fresh'
<1> USE DEF disk, watcher, build, ending
<1>s. SUFFICES ASSUME stopper' = "serving", stopper = "serving" \/ UNCHANGED vars,
                      ~Upcoming \/ Check
               PROVE Fresh'
  <2>1. stopper' = "serving" => stopper = "serving" \/ UNCHANGED vars
    BY DEF Next, Developer, Debouncer, Worker, Shutdown, Edit, Touch, Ask, Filter, Send, Top,
           Receive, Check, Read, EndBuild, Reset, Unwatch, Watch, Compare, Publish, Drain, Fault, WatchFails,
           StopWatcher, StoreFlag, Wake, Join
  <2>2. Upcoming /\ ~Check /\ stopper' = "serving" => Upcoming'
    BY UpcomingNext
  <2> QED BY <2>1, <2>2 DEF Fresh
<1>o. stopper = "serving"
  BY <1>s DEF vars
<1>f. ~Upcoming => (Building /\ BuildFresh) \/ (~Building /\ RestFresh)
  BY <1>o DEF Fresh
<1>k. ASSUME ~Upcoming, UNCHANGED <<press, content, hashes, seen, debounce, read, failed, served, error>>,
             Onward, Building <=> Building', Building \/ UNCHANGED watching
      PROVE Fresh'
  <2>1. \A g \in Files : Followed(g) => Followed(g)'
    BY <1>k, FollowedKept
  <2>2. CASE Building
    BY <1>f, <1>k, <2>1, <2>2 DEF Fresh, BuildFresh
  <2>3. CASE ~Building
    BY <1>f, <1>k, <2>1, <2>3 DEF Fresh, RestFresh
  <2> QED BY <2>2, <2>3
<1>u. Upcoming' => Fresh'
  BY DEF Fresh
<1>c. ~Check => ~Upcoming
  BY <1>s
<1>1. CASE UNCHANGED vars
  BY <1>1, <1>k, <1>c, <1>u DEF vars, Check, Building, Upcoming, Onward
<1>2. ASSUME NEW f \in Files, Edit(f) PROVE Fresh'
  <2>1. ~Upcoming /\ (\A g \in Files : g # f => content'[g] = content[g])
    <3>1. ~Check
      BY <1>2 DEF Edit, Check, ThreadTypes
    <3> QED BY <1>2, <1>c, <3>1 DEF Edit, DiskTypes
  <2>2. /\ UNCHANGED <<press, hashes, debounce, read, failed, served, error, worker, watching>>
        /\ seen \subseteq seen' /\ Onward
    BY <1>2 DEF Edit, Observe, Onward
  <2>3. \A g \in Files : g # f /\ Followed(g) => Followed(g)'
    BY <2>1, <2>2, FollowedKept
  <2>5. CASE Building
    <3>1. BuildFresh
      BY <1>f, <2>1, <2>5
    <3>2. read[f] # Unread /\ failed # "fault" => Followed(f)'
      BY <1>2, <1>o, <2>5, EditFollowed
    <3>3. BuildFresh'
      BY <2>1, <2>2, <2>3, <3>1, <3>2 DEF BuildFresh
    <3> QED BY <2>2, <2>5, <3>3 DEF Fresh, Building
  <2>6. CASE ~Building
    <3>1. RestFresh
      BY <1>f, <2>1, <2>6
    <3>2. watching \/ f \in Sources => Followed(f)'
      BY <1>2, <1>o, <2>6, EditFollowed
    <3>3. error = "no" => watching
      BY <2>6 DEF Flow
    <3>4. RestFresh'
      BY <2>1, <2>2, <2>3, <3>1, <3>2, <3>3 DEF RestFresh
    <3> QED BY <2>2, <2>6, <3>4 DEF Fresh, Building
  <2> QED BY <2>5, <2>6
<1>3. ASSUME NEW f \in Files, Touch(f) PROVE Fresh'
  <2>1. ~Upcoming
    BY <1>3, <1>c DEF Touch, Check, ThreadTypes
  <2>2. /\ UNCHANGED <<press, content, hashes, debounce, read, failed, served, error, worker, watching>>
        /\ seen \subseteq seen' /\ Onward
    BY <1>3 DEF Touch, Observe, Onward
  <2>3. \A g \in Files : Followed(g) => Followed(g)'
    BY <2>2, FollowedKept
  <2>4. (Building <=> Building') /\ (BuildFresh => BuildFresh') /\ (RestFresh => RestFresh')
    BY <2>2, <2>3 DEF Building, BuildFresh, RestFresh
  <2> QED BY <1>f, <2>1, <2>4 DEF Fresh
<1>4. ASSUME NEW b \in SUBSET seen, Ask(b) PROVE Fresh'
  <2>1. ~Upcoming
    BY <1>4, <1>c DEF Ask, Check, ThreadTypes
  <2>2. UNCHANGED <<press, content, hashes, read, failed, served, error, worker, watching>>
    BY <1>4 DEF Ask
  <2>3. \A g \in Files : Followed(g) => Followed(g)'
    <3>1. /\ debounce.stage = "idle" /\ debounce'.stage = "filter" /\ debounce'.batch = b
          /\ seen' = seen \ b
      BY <1>4 DEF Ask
    <3> QED BY <2>2, <3>1 DEF Followed, InFlight, Compared, Comparing, Excused, Noted
  <2>4. (Building <=> Building') /\ (BuildFresh => BuildFresh') /\ (RestFresh => RestFresh')
    BY <2>2, <2>3 DEF Building, BuildFresh, RestFresh
  <2> QED BY <1>f, <2>1, <2>4 DEF Fresh
<1>5. CASE Filter
  <2>1. ~Upcoming /\ UNCHANGED <<press, content, seen, read, failed, served, error, worker, watching>>
    BY <1>5, <1>c DEF Filter, Check, ThreadTypes
  <2>2. CASE debounce'.stage = "send"
    BY <1>u, <2>2 DEF Upcoming
  <2>3. CASE debounce'.stage # "send"
    <3>1. debounce'.stage = "idle" /\ \A g \in debounce.batch : ~ContentChanged(hashes[g], content[g])
      BY <1>5, <2>3 DEF Filter
    <3>2. \A g \in debounce.batch \cap Files : Noted(g) /\ hashes'[g] = hashes[g]
      BY <1>5, <3>1 DEF Filter, ContentChanged, HashOf, Noted, Absent, NoHash
    <3>3. \A g \in Files : hashes'[g] = hashes[g]
      BY <1>5, <3>2 DEF Filter
    <3>4. \A g \in Files : Followed(g) => Followed(g)'
      BY <2>1, <3>1, <3>2, <3>3 DEF Followed, InFlight, Compared, Comparing, Excused, Noted
    <3>5. (Building <=> Building') /\ (BuildFresh => BuildFresh') /\ (RestFresh => RestFresh')
      BY <2>1, <3>4 DEF Building, BuildFresh, RestFresh
    <3> QED BY <1>f, <2>1, <3>5 DEF Fresh
  <2> QED BY <2>2, <2>3
<1>6. CASE Send
  <2>1. ticks' > 0
    <3>1. worker # "ended"
      BY <1>o DEF Flow
    <3>2. Capacity \in Nat \ {0} /\ ticks \in Nat
      BY DevServerAssumption DEF ThreadTypes
    <3> QED BY <1>6, <3>1, <3>2 DEF Send, TrySend
  <2> QED BY <1>u, <2>1 DEF Upcoming
<1>7. CASE Top
  <2>1. CASE dirty
    BY <1>7, <1>o, <1>u, <2>1 DEF Top, Upcoming, Flow
  <2>2. CASE ~dirty
    BY <1>7, <1>o, <1>k, <1>c, <2>2 DEF Top, Check, Building, Flow, Onward, Comparing
  <2> QED BY <2>1, <2>2
<1>8. CASE Receive
  BY <1>8, <1>u DEF Receive, Upcoming
<1>9. CASE Check
  <2>1. worker' = "build" /\ UNCHANGED <<read, failed>> /\ ~Building
    BY <1>9, <1>o DEF Check, Flow, Building
  <2>2. failed = "no" /\ \A f \in Files : read[f] = Unread
    BY <2>1 DEF Flow
  <2> QED BY <2>1, <2>2 DEF Fresh, Building, BuildFresh
<1>10. ASSUME NEW f \in Files, Read(f) PROVE Fresh'
  <2>1. /\ ~Upcoming /\ worker = "build" /\ failed = "no" /\ read[f] = Unread
        /\ UNCHANGED <<press, content, hashes, seen, debounce, worker>>
        /\ read' = [read EXCEPT ![f] = content[f]]
        /\ failed' = IF Breaks(f, content[f]) THEN "input" ELSE "no"
    BY <1>10, <1>c DEF Read, Check
  <2>2. BuildFresh /\ content[f] # Unread /\ content[f] \in Contents
    BY <1>f, <2>1, NewContent DEF Building, DiskTypes
  <2>3. /\ read'[f] = content[f] /\ \A g \in Files : g # f => read'[g] = read[g]
    BY <2>1 DEF DiskTypes
  <2>4. \A g \in Files : Followed(g) => Followed(g)'
    BY <2>1 DEF Followed, InFlight, Compared, Comparing, Excused, Noted
  <2>5. BuildFresh'
    BY <2>1, <2>2, <2>3, <2>4 DEF BuildFresh
  <2> QED BY <2>1, <2>5 DEF Fresh, Building
<1>11. CASE EndBuild
  <2>1. ~Upcoming /\ worker = "build" /\ UNCHANGED <<press, content, hashes, seen, debounce, read, failed,
                                                   served, error, watching>>
    BY <1>11, <1>c DEF EndBuild, Check
  <2>2. CASE worker' = "reset"
    BY <1>k, <2>1, <2>2 DEF Building, Onward, Comparing
  <2>3. CASE worker' = "publish" /\ ~press
    <3>1. \A g \in Files : Followed(g) => Followed(g)'
      BY <2>1, <2>3 DEF Followed, InFlight, Compared, Comparing, Excused, Noted
    <3> QED BY <1>f, <2>1, <2>3, <3>1 DEF Fresh, Building, BuildFresh
  <2>4. CASE worker' = "publish" /\ press
    <3>1. ReloadFailed
      BY <1>11, <2>4 DEF EndBuild
    <3>2. \A g \in Files : read[g] # Unread => (Followed(g) => Followed(g)')
      BY <2>1, <3>1 DEF ReloadFailed, Followed, InFlight, Compared, Comparing, Excused, Noted
    <3>3. failed # "no" /\ BuildFresh
      BY <1>f, <2>1, <3>1 DEF ReloadFailed, Building
    <3> QED BY <2>1, <2>4, <3>2, <3>3 DEF Fresh, Building, BuildFresh
  <2> QED BY <1>11, <2>2, <2>3, <2>4 DEF EndBuild
<1>12. CASE Reset
  <2>1. /\ ~Upcoming /\ worker = "reset" /\ worker' = "unwatch" /\ press
        /\ UNCHANGED <<press, content, seen, debounce, read, failed>>
        /\ hashes' = [f \in Files |-> IF f \in Explicit THEN HashOf(content[f]) ELSE NoHash]
    BY <1>12, <1>c DEF Reset, Check, Flow
  <2>2. BuildFresh
    BY <1>f, <2>1 DEF Building
  <2>3. ASSUME NEW g \in Files, read[g] # Unread, Followed(g),
               ~(g \in Manifests /\ content[g] = AtFirst)
        PROVE Followed(g)'
    <3>1. CASE g \in Includes
      BY <2>1, <2>3, <3>1 DEF Followed, Compared, Comparing
    <3>2. CASE g \in Manifests
      BY <2>1, <2>3, <3>2 DEF Followed, Excused
    <3>3. CASE g \notin Explicit
      <4>1. hashes'[g] = NoHash /\ content[g] \in Contents /\ content'[g] = content[g]
        BY <2>1, <3>3 DEF DiskTypes
      <4>2. ~Noted(g)'
        BY <4>1, NewContent DEF Noted, DiskTypes
      <4>3. InFlight(g)
        BY <2>1, <2>3, <3>3 DEF Followed, Compared, Excused, Explicit
      <4> QED BY <2>1, <4>2, <4>3 DEF Followed, InFlight
    <3> QED BY <3>1, <3>2, <3>3 DEF Explicit
  <2>4. ASSUME NEW g \in Files, read[g] # Unread, g \in Manifests, content[g] = AtFirst
        PROVE read[g] = content[g]
    BY <2>4 DEF Origin
  <2>5. BuildFresh'
    BY <2>1, <2>2, <2>3, <2>4 DEF BuildFresh
  <2> QED BY <2>1, <2>5 DEF Fresh, Building
<1>13. CASE Unwatch
  BY <1>13, <1>k, <1>c DEF Unwatch, Check, Building, Onward, Comparing
<1>14. CASE Watch
  BY <1>14, <1>k, <1>c DEF Watch, Check, Building, Onward, Comparing
<1>15. CASE Compare
  <2>1. /\ ~Upcoming /\ worker = "compare" /\ worker' = "publish"
        /\ UNCHANGED <<press, content, hashes, seen, debounce, read, failed>>
        /\ ticks' = IF Requeued # {} THEN TrySend(ticks) ELSE ticks
    BY <1>15, <1>c DEF Compare, Check
  <2>2. CASE Requeued # {}
    <3>1. Capacity \in Nat \ {0} /\ ticks \in Nat
      BY DevServerAssumption DEF ThreadTypes
    <3> QED BY <1>u, <2>1, <2>2, <3>1 DEF TrySend, Upcoming
  <2>3. CASE Requeued = {}
    <3>1. \A g \in Includes : read[g] \in {Unread, content[g]}
      BY <2>3 DEF Requeued
    <3>2. \A g \in Files : Followed(g) => Followed(g)' \/ read[g] \in {Unread, content[g]}
      BY <2>1, <3>1 DEF Followed, InFlight, Compared, Comparing, Excused, Noted
    <3>3. BuildFresh
      BY <1>f, <2>1 DEF Building
    <3>4. BuildFresh'
      BY <2>1, <3>2, <3>3 DEF BuildFresh
    <3> QED BY <2>1, <3>4 DEF Fresh, Building
  <2> QED BY <2>2, <2>3
<1>16. CASE Publish
  <2>1. /\ ~Upcoming /\ worker = "publish" /\ worker' = "drain" /\ error' = failed
        /\ UNCHANGED <<press, content, hashes, seen, debounce, watching>>
        /\ served' = IF failed = "no" THEN read ELSE served
    BY <1>16, <1>c DEF Publish, Check
  <2>2. BuildFresh
    BY <1>f, <2>1 DEF Building
  <2>3. failed = "no" => \A g \in Files : read[g] # Unread
    BY <2>1 DEF Flow, Building
  <2>4. \A g \in Files : Followed(g) => Followed(g)'
    BY <2>1 DEF Followed, InFlight, Compared, Comparing, Excused, Noted
  <2>5. /\ failed = "no" => watching
        /\ failed = "input" => watching \/ ReloadFailed
    BY <2>1 DEF Flow, ReloadFailed
  <2>6. ASSUME failed = "input"
        PROVE \E g \in Files : /\ watching \/ g \in Sources
                               /\ Breaks(g, content[g]) \/ Followed(g)'
    <3>1. PICK g \in Files : /\ read[g] # Unread /\ Breaks(g, read[g])
                             /\ read[g] = content[g] \/ Followed(g)
      BY <2>2, <2>6 DEF BuildFresh
    <3>2. watching \/ g \in Sources
      BY <2>5, <2>6, <3>1 DEF ReloadFailed
    <3> QED BY <2>4, <3>1, <3>2
  <2>7. RestFresh'
    BY <2>1, <2>2, <2>3, <2>4, <2>6 DEF BuildFresh, RestFresh
  <2> QED BY <2>1, <2>7 DEF Fresh, Building
<1>17. CASE Drain
  BY <1>17, <1>k, <1>c DEF Drain, Check, Building, Onward, Comparing
<1>18. CASE Fault
  <2>1. worker = "build" /\ failed' = "fault" /\ UNCHANGED worker
    BY <1>18 DEF Fault
  <2> QED BY <2>1 DEF Fresh, Building, BuildFresh
<1>19. CASE StopWatcher
  BY <1>19, <1>s DEF StopWatcher
<1>20. CASE StoreFlag
  BY <1>20, <1>o DEF StoreFlag
<1>21. CASE Wake
  BY <1>21, <1>o DEF Wake
<1>22. CASE Join
  BY <1>22, <1>o DEF Join
<1>23. CASE WatchFails
  BY <1>23 DEF WatchFails, Fresh, Building, BuildFresh
<1> QED
  BY <1>1, <1>2, <1>3, <1>4, <1>5, <1>6, <1>7, <1>8, <1>9, <1>10, <1>11, <1>12,
     <1>13, <1>14, <1>15, <1>16, <1>17, <1>18, <1>19, <1>20, <1>21, <1>22, <1>23
  DEF Next, Developer, Debouncer, Worker, Shutdown

\* A save that asks for a retry gets its build.
LEMMA RetriedNext ==
  ASSUME DiskTypes, ThreadTypes, Flow, Retried, [Next]_vars
  PROVE Retried'
<1> USE DEF disk, watcher, build, ending
<1>s. SUFFICES ASSUME ~press', asked', stopper' = "serving"
               PROVE Retried'
  BY DEF Retried
<1>o. stopper = "serving" /\ ~press
  <2>1. UNCHANGED press /\ (stopper = "serving" \/ UNCHANGED stopper)
    BY <1>s DEF Next, Developer, Debouncer, Worker, Shutdown, Edit, Touch, Ask, Filter, Send, Top,
           Receive, Check, Read, EndBuild, Reset, Unwatch, Watch, Compare, Publish, Drain, Fault, WatchFails,
           StopWatcher, StoreFlag, Wake, Join, vars
  <2> QED BY <1>s, <2>1, Zenon
<1>u. Upcoming /\ ~Check => Upcoming'
  BY <1>s, UpcomingNext
<1>k. ASSUME UNCHANGED <<asked, error, debounce>>, seen \subseteq seen', ~Check PROVE Retried'
  BY <1>k, <1>o, <1>s, <1>u DEF Retried
<1>1. CASE UNCHANGED vars
  BY <1>1, <1>k DEF vars, Check
<1>2. ASSUME NEW f \in Files, Edit(f) PROVE Retried'
  BY <1>2, <1>k DEF Edit, Check, Observe
<1>3. ASSUME NEW f \in Files, Touch(f) PROVE Retried'
  <2>1. CASE error # "no" /\ f \in seen'
    BY <1>3, <2>1, <1>s DEF Touch, Retried
  <2>2. CASE ~(error # "no" /\ f \in seen')
    <3>1. asked
      BY <1>3, <1>s, <2>2, Zenon DEF Touch
    <3>2. UNCHANGED <<error, debounce, worker, ticks, dirty>> /\ seen \subseteq seen'
      BY <1>3 DEF Touch, Observe
    <3> QED BY <1>o, <3>1, <3>2 DEF Retried, Upcoming
  <2> QED BY <2>1, <2>2
<1>4. ASSUME NEW b \in SUBSET seen, Ask(b) PROVE Retried'
  <2>1. error # "no" /\ UNCHANGED error
    BY <1>4, <1>o, <1>s DEF Ask, Retried
  <2>2. RetryUnchanged = TRUE
    BY <1>o, <2>1 DEF RetryUnchanged
  <2>3. debounce'.stage = "filter" /\ debounce'.retry = TRUE /\ debounce'.batch # {}
    BY <1>4, <2>2 DEF Ask
  <2> QED BY <2>1, <2>3 DEF Retried
<1>5. CASE Filter
  <2>1. asked /\ UNCHANGED <<error, seen>> /\ ~Check
    BY <1>5, <1>s DEF Filter, Check, ThreadTypes
  <2>2. CASE debounce.retry /\ debounce.batch # {}
    <3>1. debounce'.stage = "send"
      BY <1>5, <2>2 DEF Filter
    <3> QED BY <1>o, <2>1, <3>1 DEF Retried, Upcoming
  <2>3. CASE ~(debounce.retry /\ debounce.batch # {})
    BY <1>o, <1>u, <2>1, <2>3 DEF Retried
  <2> QED BY <2>2, <2>3
<1>6. CASE Send
  <2>1. asked /\ UNCHANGED <<error, seen>> /\ ~Check /\ debounce.stage = "send"
    BY <1>6, <1>s DEF Send, Check, ThreadTypes
  <2> QED BY <1>o, <1>u, <2>1 DEF Retried, Upcoming
<1>7. CASE Top
  BY <1>7, <1>k DEF Top, Check
<1>8. CASE Receive
  BY <1>8, <1>k DEF Receive, Check
<1>9. CASE Check
  <2>1. ~asked'
    BY <1>9, <1>o DEF Check, Flow
  <2> QED BY <1>s, <2>1
<1>10. ASSUME NEW f \in Files, Read(f) PROVE Retried'
  BY <1>10, <1>k DEF Read, Check
<1>11. CASE EndBuild
  BY <1>11, <1>k DEF EndBuild, Check
<1>12. CASE Reset
  BY <1>12, <1>k DEF Reset, Check
<1>13. CASE Unwatch
  BY <1>13, <1>k DEF Unwatch, Check
<1>14. CASE Watch
  BY <1>14, <1>k DEF Watch, Check
<1>15. CASE Compare
  BY <1>15, <1>k DEF Compare, Check
<1>16. CASE Publish
  <2>1. asked /\ failed # "no" /\ error' = failed /\ UNCHANGED <<seen, debounce>> /\ ~Check
    BY <1>16, <1>s, Zenon DEF Publish, Check
  <2> QED BY <1>o, <1>u, <2>1 DEF Retried
<1>17. CASE Drain
  BY <1>17, <1>k DEF Drain, Check
<1>18. CASE Fault
  BY <1>18, <1>k DEF Fault, Check
<1>19. CASE StopWatcher
  BY <1>19, <1>s DEF StopWatcher
<1>20. CASE StoreFlag
  BY <1>20, <1>o DEF StoreFlag
<1>21. CASE Wake
  BY <1>21, <1>o DEF Wake
<1>22. CASE Join
  BY <1>22, <1>o DEF Join
<1>23. CASE WatchFails
  BY <1>23, <1>o DEF WatchFails, Flow
<1> QED
  BY <1>1, <1>2, <1>3, <1>4, <1>5, <1>6, <1>7, <1>8, <1>9, <1>10, <1>11, <1>12,
     <1>13, <1>14, <1>15, <1>16, <1>17, <1>18, <1>19, <1>20, <1>21, <1>22, <1>23
  DEF Next, Developer, Debouncer, Worker, Shutdown

-----------------------------------------------------------------------------
(* The theorem *)

LEMMA DevInit == Init => DevInv
<1> SUFFICES ASSUME Init PROVE DevInv
  OBVIOUS
<1> USE DEF Init
<1>1. DiskTypes
  BY DEF DiskTypes, Contents
<1>2. ThreadTypes
  BY DEF ThreadTypes
<1>3. Flow
  BY DEF Flow, Building
<1>4. \A f \in Files : Origin(f)
  BY DEF Origin, AtFirst
<1>5. Fresh
  BY DEF Fresh, RestFresh, Building
<1>6. Retried
  BY DEF Retried
<1> QED BY <1>1, <1>2, <1>3, <1>4, <1>5, <1>6 DEF DevInv

LEMMA DevNext == DevInv /\ [Next]_vars => DevInv'
<1> SUFFICES ASSUME DevInv, [Next]_vars PROVE DevInv'
  OBVIOUS
<1>1. DiskTypes /\ ThreadTypes /\ Flow /\ (\A f \in Files : Origin(f)) /\ Fresh /\ Retried
  BY DEF DevInv
<1>2. DiskTypes' /\ ThreadTypes' /\ Flow'
  BY <1>1, DiskNext, ThreadNext, FlowNext
<1>3. \A f \in Files : Origin(f)'
  BY <1>1, OriginNext
<1>4. Fresh' /\ Retried'
  BY <1>1, FreshNext, RetriedNext
<1> QED BY <1>2, <1>3, <1>4 DEF DevInv

\* At rest there is nothing that would follow a change up, so there is none.
LEMMA DevSuffices == DevInv => NothingForgotten
<1> SUFFICES ASSUME DevInv, Quiet, press => \A f \in Manifests : content[f] = <<"good", 0>>
             PROVE /\ \/ error = "no" /\ served = content
                      \/ error = "input" /\ \E f \in Files : Breaks(f, content[f])
                      \/ error = "fault"
                   /\ asked => press
  BY DEF NothingForgotten
<1>1. ~Upcoming /\ ~Building /\ stopper = "serving"
  BY DEF Quiet, DevInv, ThreadTypes, Upcoming, Building
<1>2. \A f \in Files : ~Followed(f)
  BY DEF Quiet, Followed, InFlight, Compared, Comparing, Excused, AtFirst
<1>3. RestFresh
  BY <1>1 DEF DevInv, Fresh
<1>4. error \in {"no", "input", "fault"} /\ served \in [Files -> Contents] /\ content \in [Files -> Contents]
  BY DEF DevInv, ThreadTypes, DiskTypes
<1>5. error = "no" => served = content
  BY <1>2, <1>3, <1>4 DEF RestFresh
<1>6. error = "input" => \E f \in Files : Breaks(f, content[f])
  BY <1>2, <1>3 DEF RestFresh
<1>7. asked => press
  BY <1>1 DEF DevInv, Retried, Quiet
<1> QED BY <1>4, <1>5, <1>6, <1>7

\* The way from an edit to what is served (watch.rs, worker.rs and the rebuild
\* closures of both hosts) loses no edit, however many files there are, however
\* small the channel is and wherever in a build the edit comes.
THEOREM EditsReachTheServer == FairSpec => []NothingForgotten
<1>1. Init /\ [][Next]_vars => []DevInv
  BY DevInit, DevNext, PTL
<1> QED BY <1>1, DevSuffices, PTL DEF FairSpec
=============================================================================
