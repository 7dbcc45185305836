----------------------------- MODULE ResultCache -----------------------------
(***************************************************************************)
(* features/queries/result_cache.py: the last result of every query, least *)
(* recently used first, bounded in bytes and in entries, each fresh for    *)
(* its TTL and served for a grace after it.                                *)
(*                                                                         *)
(* Every operation runs under the module's lock and is one action.  An     *)
(* entry's times are kept as ages: stored_at as the time the monotonic     *)
(* clock counted since (`mono'), stored_wall as what the wall clock says   *)
(* (`wall', which may go back).  The rest is history, of what happened     *)
(* since the run the result is of: how long ago that was (`real'), how     *)
(* much of it the machine slept (`asleep'), and how far the wall clock was *)
(* set ahead, or back (`ahead').                                           *)
(***************************************************************************)
EXTENDS Integers, Sequences, FiniteSets, FiniteSetsExt, SequencesExt

CONSTANTS
  Queries,
  Sizes,       \* encoded sizes a payload may have
  Budget,      \* settings.cache_max_bytes
  MaxEntries,  \* MAX_ENTRIES
  Ttl,         \* Ttl[q]: the query's poll interval
  Grace,       \* settings.cache_stale_grace_ms
  MaxAge,      \* bound: entries are watched until they are this old
  NoEntry

Ages == [mono : Nat, wall : Int, real : Nat, asleep : Nat, ahead : Int]
NewAge == [mono |-> 0, wall |-> 0, real |-> 0, asleep |-> 0, ahead |-> 0]
Entries == [size : Sizes, age : Ages]

ASSUME CacheAssumption ==
  /\ Sizes \subseteq Nat \ {0} /\ Budget \in Nat
  /\ MaxEntries \in Nat \ {0}
  /\ Ttl \in [Queries -> Nat \ {0}] /\ Grace \in Nat /\ MaxAge \in Nat
  /\ NoEntry \notin Entries

VARIABLES
  entries,  \* _entries: the entry of each query, or NoEntry
  order,    \* the order of the OrderedDict, least recently used first
  total,    \* _total_bytes
  recent    \* history: every query, by when it was last stored or served

cacheVars == <<entries, order, total, recent>>

Held == {q \in Queries : entries[q] # NoEntry}

\* The OrderedDict and its order agree: every entry has one place in the order.
CacheTypeOK ==
  /\ entries \in [Queries -> Entries \cup {NoEntry}]
  /\ order \in Seq(Queries)
  /\ IsInjective(order) /\ ToSet(order) = Held
  /\ total \in Nat
  /\ recent \in Seq(Queries)

CacheInit ==
  /\ entries = [q \in Queries |-> NoEntry]
  /\ order = <<>>
  /\ total = 0
  /\ recent = <<>>

-----------------------------------------------------------------------------

\* Mutant: age_ms by the monotonic clock alone.
AgeWhileAwake(x) == x.age.mono

\* CacheEntry.age_ms, by whichever clock says it is older.
Age(x) == Max({x.age.mono, x.age.wall, 0})
IsFresh(q) == q \in Held /\ Age(entries[q]) < Ttl[q]

Place(s, q) == CHOOSE i \in DOMAIN s : s[i] = q
Without(s, q) == IF q \in ToSet(s) THEN RemoveAt(s, Place(s, q)) ELSE s
MoveToEnd(s, q) == Append(Without(s, q), q)

\* What the entries of S weigh in e.
Weigh(e, S) == MapThenSumSet(LAMBDA q : e[q].size, S)
Bytes(S) == Weigh(entries, S)

\* Mutant: the entry goes, its bytes stay on the books.
DropKeepsBytes(q) ==
  /\ entries' = [entries EXCEPT ![q] = NoEntry]
  /\ order' = Without(order, q)
  /\ total' = total

\* _drop_locked
Drop(q) ==
  /\ entries' = [entries EXCEPT ![q] = NoEntry]
  /\ order' = Without(order, q)
  /\ total' = total - Bytes({q} \cap Held)

\* get: a fresh entry is served; anything else is left where it is.
Get(q) ==
  /\ IsFresh(q)
  /\ order' = MoveToEnd(order, q)
  /\ recent' = MoveToEnd(recent, q)
  /\ UNCHANGED <<entries, total>>

\* get_stale serves an entry within its grace, and drops one past it.
Servable(q) == q \in Held /\ Age(entries[q]) <= Ttl[q] + Grace

\* Mutant: a stale answer does not count as a use.
GetStaleInPlace(q) ==
  /\ q \in Held
  /\ IF Servable(q)
       THEN /\ recent' = MoveToEnd(recent, q)
            /\ UNCHANGED <<entries, order, total>>
       ELSE /\ Drop(q)
            /\ UNCHANGED recent

GetStale(q) ==
  /\ q \in Held
  /\ IF Servable(q)
       THEN /\ order' = MoveToEnd(order, q)
            /\ recent' = MoveToEnd(recent, q)
            /\ UNCHANGED <<entries, total>>
       ELSE /\ Drop(q)
            /\ UNCHANGED recent

\* Mutant: one eviction per store.
EvictionsAtMostOne(s, bytes) ==
  IF bytes > Budget \/ Len(s) > MaxEntries THEN 1 ELSE 0

\* How many entries the eviction loop pops off the front of s, when the new
\* entry is already in it and the total stands at `bytes'.
Evictions(s, bytes) ==
  Min({n \in 0 .. Len(s) :
         \/ n = Len(s)
         \/ /\ bytes - Bytes({s[i] : i \in 1 .. n}) <= Budget
            /\ Len(s) - n <= MaxEntries})

\* set.  The old entry goes first; a payload larger than the whole budget is
\* then not stored.
Set(q, size) ==
  LET added == MoveToEnd(order, q)
      bytes == total - Bytes({q} \cap Held) + size
      n == Evictions(added, bytes)
      evicted == {added[i] : i \in 1 .. n}
  IN  IF size > Budget
        THEN /\ Drop(q)
             /\ UNCHANGED recent
        ELSE /\ entries' = [x \in Queries |->
                   CASE x \in evicted -> NoEntry
                     [] x = q -> [size |-> size, age |-> NewAge]
                     [] OTHER -> entries[x]]
             /\ order' = SubSeq(added, n + 1, Len(added))
             /\ total' = bytes - Bytes(evicted)
             /\ recent' = MoveToEnd(recent, q)

\* invalidate, the result cache's half of it.
InvalidateResult(q) ==
  /\ q \in Held
  /\ Drop(q)
  /\ UNCHANGED recent

\* Mutant: a redraw stores the entry again, and its interval begins anew.
PatchChartsAnew(q) ==
  /\ q \in Held
  /\ \E size \in Sizes :
       /\ entries' = [entries EXCEPT ![q] =
                      [size |-> size, age |-> [@.age EXCEPT !.mono = 0, !.wall = 0]]]
       /\ total' = total + size - entries[q].size
  /\ UNCHANGED <<order, recent>>

\* patch_charts: the charts change, and with them the size; the entry keeps
\* its age and its place.  It is dropped when they cannot be built.
PatchCharts(q) ==
  /\ q \in Held
  /\ \/ \E size \in Sizes :
          /\ entries' = [entries EXCEPT ![q].size = size]
          /\ total' = total + size - entries[q].size
          /\ UNCHANGED order
     \/ Drop(q)
  /\ UNCHANGED recent

\* clear, the result cache's half of it.
Clear ==
  /\ entries' = [q \in Queries |-> NoEntry]
  /\ order' = <<>>
  /\ total' = 0
  /\ UNCHANGED recent

-----------------------------------------------------------------------------
(* Time passes.  The monotonic clock stops while the machine sleeps; the    *)
(* wall clock does not, and may be set.                                     *)

Watched(x) == x.age.real < MaxAge /\ x.age.wall \in -MaxAge .. MaxAge

Later(age, step) ==
  [mono |-> age.mono + step.mono, wall |-> age.wall + step.wall, real |-> age.real + step.real,
   asleep |-> age.asleep + step.asleep, ahead |-> age.ahead + step.ahead]

AgeEntries(step) ==
  /\ Held # {} /\ \A q \in Held : Watched(entries[q])
  /\ entries' = [q \in Queries |->
       IF q \in Held THEN [entries[q] EXCEPT !.age = Later(@, step)] ELSE NoEntry]
  /\ UNCHANGED <<order, total, recent>>

Tick == AgeEntries([mono |-> 1, wall |-> 1, real |-> 1, asleep |-> 0, ahead |-> 0])
Sleep == AgeEntries([mono |-> 0, wall |-> 1, real |-> 1, asleep |-> 1, ahead |-> 0])
AdjustWall ==
  \E n \in {-1, 1} : AgeEntries([mono |-> 0, wall |-> n, real |-> 0, asleep |-> 0, ahead |-> n])

-----------------------------------------------------------------------------

CacheNext ==
  \/ \E q \in Queries :
       \/ Get(q) \/ GetStale(q) \/ InvalidateResult(q) \/ PatchCharts(q)
       \/ \E size \in Sizes : Set(q, size)
  \/ Clear
  \/ Tick \/ Sleep \/ AdjustWall

CacheSpec == CacheInit /\ [][CacheNext]_cacheVars

-----------------------------------------------------------------------------
(* Properties.                                                             *)

\* The books are right: _total_bytes is what the entries held really weigh,
\* through overwrites, evictions, refused payloads and redraws.  A drift would
\* either let the cache grow past its budget or empty it for good.
BytesAccounted == total = Bytes(Held)

\* A store always ends within both bounds, however far redraws had let the
\* cache grow, and the result just stored is not the one that is evicted.
StoreRestoresBounds ==
  [][\A q \in Queries, size \in Sizes :
       Set(q, size) /\ size <= Budget =>
         /\ Bytes(Held)' <= Budget /\ Cardinality(Held') <= MaxEntries
         /\ entries'[q] # NoEntry]_cacheVars

\* What a store evicts was stored or served, last, before everything it keeps.
EvictsLeastRecentlyUsed ==
  [][\A q \in Queries, size \in Sizes :
       Set(q, size) =>
         \A gone \in (Held \ {q}) \ Held', kept \in Held' \ {q} :
           \E i, j \in DOMAIN recent :
             i < j /\ recent[i] = gone /\ recent[j] = kept]_cacheVars

\* What neither clock has seen of an entry's age: the machine slept, and the
\* wall clock was set back too.
Unseen(age) == Min({age.asleep, Max({-age.ahead, 0})})

\* The interval counts from the run the result is of, through reads and redraws
\* and on clocks that stop and are set (CacheEntry.age_ms; patch_charts: "it is
\* not re-stored, so the TTL keeps counting from the last real execution and the
\* query still runs on its own schedule, no sooner").  A result is served as
\* fresh no longer than its interval, and in all no longer than the grace after
\* it, but for the time that both clocks lost; and it is fresh all that long,
\* unless the wall clock was set ahead.
FreshForItsInterval ==
  \A q \in Held :
    LET age == entries[q].age
    IN  /\ IsFresh(q) => age.real - Unseen(age) < Ttl[q]
        /\ Servable(q) => age.real - Unseen(age) <= Ttl[q] + Grace
        /\ age.real + Max({age.ahead, 0}) < Ttl[q] => IsFresh(q)
=============================================================================
