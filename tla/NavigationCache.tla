--------------------------- MODULE NavigationCache ---------------------------
(***************************************************************************)
(* The router's navigation cache (packages/webui-delivery/src/cache.ts):   *)
(* responses by path in least-recently-used order, with streamed responses *)
(* that are kept before their end has arrived.  The cache is a value with  *)
(* an operator per method, which RouterNavigation uses inside its steps.   *)
(*                                                                         *)
(* Abstractions.  A response is an identity.  A stale entry is a miss for  *)
(* every lookup and counts as evicted, although a hover would still see    *)
(* it; so does what gc or a tag takes.  A response whose own lifetime is   *)
(* zero is left out.                                                       *)
(***************************************************************************)
EXTENDS Naturals, Sequences, FiniteSets

CONSTANTS
  Paths,      \* request paths
  None,       \* no response
  MaxEntries  \* CacheConfig.maxEntries

Absent == [data |-> None]
Empty == [entries |-> [p \in Paths |-> Absent], order |-> <<>>]

Has(c, p) == c.entries[p] # Absent
Holds(c, p, d) == c.entries[p].data = d

Without(order, gone) == SelectSeq(order, LAMBDA p : p \notin gone)

\* evict, of each of the paths
EvictAll(c, gone) ==
  [entries |-> [p \in Paths |-> IF p \in gone THEN Absent ELSE c.entries[p]],
   order |-> Without(c.order, gone)]

Evict(c, p) == EvictAll(c, {p})

\* The least recently used entries make room for one more.
MakeRoom(c) ==
  EvictAll(c, {c.order[i] : i \in 1..(Len(c.order) + 1 - MaxEntries)})

Store(c, p, d, streaming) ==
  LET r == MakeRoom(Evict(c, p)) IN
  [entries |-> [r.entries EXCEPT ![p] =
     [data |-> d, complete |-> ~streaming]],
   order |-> Append(r.order, p)]

\* MUTANT: a response is served before all of it has arrived.
HitIncomplete(c, p) == Has(c, p)

\* lookup: missing and incomplete entries are misses.
Hit(c, p) == Has(c, p) /\ c.entries[p].complete

Touch(c, p) == [c EXCEPT !.order = Append(Without(@, {p}), p)]

\* settleStream: only the stream that owns the entry settles it.
Settle(c, p, d, completed) ==
  IF Holds(c, p, d) /\ completed THEN [c EXCEPT !.entries[p].complete = TRUE] ELSE c
==============================================================================
