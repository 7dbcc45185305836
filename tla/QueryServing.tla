---------------------------- MODULE QueryServing ----------------------------
(***************************************************************************)
(* How one saved query is served: polls (features/queries/polling.py and   *)
(* router.py), the background refresher, the flag scheduler and edits of   *)
(* the query, sharing the result cache and the rendered cache.             *)
(*                                                                         *)
(* A result is the versions of what it was made from, and the identity of  *)
(* the run (its executed_at).  The SQL text is loaded when the query row   *)
(* is, the flag rules and the charts are lazy relationships read after the *)
(* statement returned, so one result may mix versions.  data_hash covers   *)
(* rows and flags, never the charts.                                       *)
(*                                                                         *)
(* Freshness is two-valued here (the entry is within its TTL or not); the  *)
(* clocks are in ResultCache, the in-flight mark and the cooldown in       *)
(* Refresher.  Another query's use of the caches appears as an eviction.   *)
(***************************************************************************)
EXTENDS Integers, FiniteSets

CONSTANTS
  Readers,     \* request threads serving /poll and /run
  Editors,     \* request threads serving edits
  Refresher,   \* the pool's refresh of this query: at most one (see Refresher)
  Scheduler,   \* the flag scheduler's thread
  SchedulerEnabled, \* settings.scheduler_enabled
  Ids,         \* identities of results: executed_at
  MaxEdits,    \* MaxEdits[k]: bound on edits of kind k
  None

Kinds == {"sql", "rules", "charts"}
Runners ==
  Readers \cup {Refresher} \cup (IF SchedulerEnabled THEN {Scheduler} ELSE {})
Versions == [Kinds -> Nat]

ASSUME ServingAssumption ==
  /\ MaxEdits \in Versions
  /\ Refresher \notin Readers /\ Scheduler \notin Readers /\ Refresher # Scheduler
  /\ Ids \subseteq Nat \ {0}
  \* one identity per result anyone can hold, and one to spare
  /\ IsFiniteSet(Runners) /\ IsFiniteSet(Ids)
  /\ Cardinality(Ids) >= Cardinality(Runners) + 2

VARIABLES
  db,        \* db[k]: committed version of the SQL, the rules and the charts
  cached,    \* the result cache's entry for the query, or None
  rendered,  \* the rendered cache's entries for the query
  run,       \* run[p]: where a thread is in a poll or an execution
  editor     \* editor[e]: where an edit is between its commit and its end

vars == <<db, cached, rendered, run, editor>>

Zero == [k \in Kinds |-> 0]
Body == [made : Versions, id : Ids \cup {0}]   \* 0: not built yet

IdleRun == [at |-> "idle", body |-> [made |-> Zero, id |-> 0], fromCache |-> FALSE]
IdleEdit == [at |-> "idle", kind |-> "sql", seen |-> 0]

\* Payloads, rendered bytes and threads carry versions and identities.
TypeOK ==
  /\ db \in Versions
  /\ cached = None \/ cached \in [body : Body, fresh : BOOLEAN, late : SUBSET Kinds]
  /\ rendered \subseteq [id : Ids, fromCache : BOOLEAN, charts : Nat, late : BOOLEAN]
  /\ run \in [Runners ->
       [at : {"idle", "queued", "arrived", "loaded", "evaluated", "built",
              "responding", "rendering"},
        body : Body, fromCache : BOOLEAN]]
  /\ editor \in [Editors -> [at : {"idle", "committed", "reread", "purging"},
                             kind : Kinds, seen : Nat]]

Init ==
  /\ db = Zero
  /\ cached = None
  /\ rendered = {}
  /\ run = [p \in Runners |-> IdleRun]
  /\ editor = [e \in Editors |-> IdleEdit]

-----------------------------------------------------------------------------
(* Identities.  Every run gets a new executed_at: here some number nobody   *)
(* holds.  Bytes rendered for a result nobody holds any more cannot be      *)
(* asked for again, and are dropped as soon as that is so.                  *)

HeldIds == {run[p].body.id : p \in Runners}
           \cup (IF cached = None THEN {} ELSE {cached.body.id})
FreshId == CHOOSE i \in Ids : i \notin HeldIds

\* Mutant: an answer from the cache is keyed by the query alone.
RenderKeyOfQuery(id, fromCache) ==
  [id |-> IF fromCache THEN 0 ELSE id, fromCache |-> fromCache]
\* key_for: the identity of a rendered response.  The charts are not in it.
RenderKey(id, fromCache) == [id |-> id, fromCache |-> fromCache]
Renders(y, id) == RenderKey(y.id, y.fromCache) = RenderKey(id, y.fromCache)

CanBeServed(y) == \E id \in HeldIds \ {0} : Renders(y, id)
RenderedUnchanged == rendered' = {y \in rendered : CanBeServed(y)'}

\* What db holds newer than a result made from these versions.
Behind(made) == {k \in Kinds : made[k] < db[k]}

FreshlyCached == IF cached = None THEN FALSE ELSE cached.fresh

-----------------------------------------------------------------------------
(* Executions, in whichever thread.                                         *)

StartRun(p) == [IdleRun EXCEPT !.at = "loaded", !.body.made["sql"] = db["sql"]]

\* The statement returned; the flag rules are read and evaluated.
Evaluate(p) ==
  /\ run[p].at = "loaded"
  /\ run' = [run EXCEPT ![p].at = "evaluated", ![p].body.made["rules"] = db["rules"]]
  /\ UNCHANGED <<db, cached, rendered, editor>>

  /\ UNCHANGED <<db, cached, rendered, editor>>

\* The charts are read and the payload is complete.
Build(p) ==
  /\ run[p].at = "evaluated"
  /\ run' = [run EXCEPT ![p].at = "built", ![p].body.made["charts"] = db["charts"],
                        ![p].body.id = FreshId]
  /\ UNCHANGED <<db, cached, rendered, editor>>

\* The run failed: the reader gets the error, a background run ends.
RunFails(p) ==
  /\ run[p].at = "loaded"
  /\ run' = [run EXCEPT ![p] = IdleRun]
  /\ UNCHANGED <<db, cached, rendered, editor>>

\* result_cache.set.  A poll goes on to its response, with from_cache false;
\* /run answers without the rendered cache; a background run is over.
Store(p) ==
  /\ run[p].at = "built"
  /\ \/ cached' = [body |-> run[p].body, fresh |-> TRUE, late |-> Behind(run[p].body.made)]
     \/ cached' = None                             \* larger than the budget
  /\ \/ /\ p \in Readers
        /\ run' = [run EXCEPT ![p].at = "responding"]
     \/ run' = [run EXCEPT ![p] = IdleRun]
  /\ UNCHANGED <<db, editor>>
  /\ RenderedUnchanged

-----------------------------------------------------------------------------
(* Readers.                                                                 *)

\* get_owned: the query row, and with it the SQL text, is loaded first.
Arrive(p) ==
  /\ p \in Readers
  /\ run[p].at = "idle"
  /\ run' = [run EXCEPT ![p] = [StartRun(p) EXCEPT !.at = "arrived"]]
  /\ UNCHANGED <<db, cached, rendered, editor>>

\* poll_one on a fresh entry, or on a stale one within its grace, which also
\* asks for a refresh: started unless one is in flight, or refused by the
\* cooldown.
PollHit(p) ==
  /\ run[p].at = "arrived"
  /\ cached # None
  /\ LET answered == [run EXCEPT ![p] = [at |-> "responding", body |-> cached.body,
                                        fromCache |-> TRUE]]
     IN  \/ run' = answered
         \/ /\ ~cached.fresh
            /\ run[Refresher].at = "idle"
            /\ run' = [answered EXCEPT ![Refresher].at = "queued"]
  /\ UNCHANGED <<db, cached, rendered, editor>>

\* Nothing cached, or an entry past its grace, which get_stale drops: the poll
\* executes the query itself.
PollMiss(p) ==
  /\ run[p].at = "arrived"
  /\ ~FreshlyCached
  /\ cached' = None
  /\ run' = [run EXCEPT ![p].at = "loaded"]
  /\ UNCHANGED <<db, editor>>
  /\ RenderedUnchanged

\* ?force=true and /run do not look at the cache.
ForceRun(p) ==
  /\ run[p].at = "arrived"
  /\ run' = [run EXCEPT ![p].at = "loaded"]
  /\ UNCHANGED <<db, cached, rendered, editor>>

RenderedHit(p) ==
  {y \in rendered : y.fromCache = run[p].fromCache /\ Renders(y, run[p].body.id)}

\* get_or_render: a hit is served as it is, a miss is rendered from the body
\* in hand.  A client that holds the hash already gets a short "unchanged"
\* answer and ends here too.
Respond(p) ==
  /\ run[p].at = "responding"
  /\ \/ run' = [run EXCEPT ![p] = IdleRun]
     \/ /\ RenderedHit(p) = {}
        /\ run' = [run EXCEPT ![p].at = "rendering"]
  /\ UNCHANGED <<db, cached, editor>>
  /\ RenderedUnchanged

\* rendered_cache.store, which replaces an entry of the same key.
StoreRendered(p) ==
  LET body == run[p].body
      entry == [id |-> body.id, fromCache |-> run[p].fromCache,
                charts |-> body.made["charts"], late |-> body.made["charts"] < db["charts"]]
  IN  /\ run[p].at = "rendering"
      /\ run' = [run EXCEPT ![p] = IdleRun]
      /\ UNCHANGED <<db, cached, editor>>
      /\ rendered' = {y \in (rendered \ RenderedHit(p)) \cup {entry} : CanBeServed(y)'}

-----------------------------------------------------------------------------
(* Background runs.                                                         *)

RefreshStarts ==
  /\ run[Refresher].at = "queued"
  /\ run' = [run EXCEPT ![Refresher] = StartRun(Refresher)]
  /\ UNCHANGED <<db, cached, rendered, editor>>

\* run_due_once leaves a query alone while a fresh result is cached.
ScheduledRun ==
  /\ SchedulerEnabled
  /\ run[Scheduler].at = "idle"
  /\ ~FreshlyCached
  /\ run' = [run EXCEPT ![Scheduler] = StartRun(Scheduler)]
  /\ UNCHANGED <<db, cached, rendered, editor>>

-----------------------------------------------------------------------------
(* Edits: update_query ("sql"), replace_rules and update_list ("rules"),    *)
(* replace_charts ("charts").                                               *)

Commit(e, k) ==
  /\ editor[e].at = "idle"
  /\ db[k] < MaxEdits[k]
  /\ db' = [db EXCEPT ![k] = @ + 1]
  /\ editor' = [editor EXCEPT ![e] = [at |-> "committed", kind |-> k, seen |-> 0]]
  /\ UNCHANGED <<cached, rendered, run>>

\* Mutant: only the rendered bytes are dropped.
InvalidateRenderedOnly(e) ==
  /\ editor[e].at = "committed"
  /\ editor[e].kind \in {"sql", "rules"}
  /\ editor' = [editor EXCEPT ![e].at = "purging"]
  /\ UNCHANGED <<db, cached, rendered, run>>

\* result_cache.invalidate: the entry goes under the result cache's lock.
Invalidate(e) ==
  /\ editor[e].at = "committed"
  /\ editor[e].kind \in {"sql", "rules"}
  /\ cached' = None
  /\ editor' = [editor EXCEPT ![e].at = "purging"]
  /\ UNCHANGED <<db, run>>
  /\ RenderedUnchanged

\* replace_charts reads its charts back before it redraws.
Reread(e) ==
  /\ editor[e].at = "committed"
  /\ editor[e].kind = "charts"
  /\ editor' = [editor EXCEPT ![e].at = "reread", ![e].seen = db["charts"]]
  /\ UNCHANGED <<db, cached, rendered, run>>

\* redraw_cached: patch_charts swaps the charts of whatever entry is there,
\* or drops it when they cannot be built.
Patch(e) ==
  /\ editor[e].at = "reread"
  /\ \/ /\ cached # None
        /\ cached' = [cached EXCEPT
             !.body.made["charts"] = editor[e].seen,
             !.late = (@ \ {"charts"})
                      \cup IF editor[e].seen < db["charts"] THEN {"charts"} ELSE {}]
     \/ cached' = None
  /\ editor' = [editor EXCEPT ![e].at = "purging"]
  /\ UNCHANGED <<db, run>>
  /\ RenderedUnchanged

\* Mutant: a redraw, which changes no row, keeps the rendered bytes.
PurgeRenderedAfterInvalidate(e) ==
  /\ editor[e].at = "purging"
  /\ rendered' = IF editor[e].kind = "charts" THEN rendered ELSE {}
  /\ editor' = [editor EXCEPT ![e] = IdleEdit]
  /\ UNCHANGED <<db, cached, run>>

\* The rendered bytes go under the rendered cache's own lock, afterwards.
PurgeRendered(e) ==
  /\ editor[e].at = "purging"
  /\ rendered' = {}
  /\ editor' = [editor EXCEPT ![e] = IdleEdit]
  /\ UNCHANGED <<db, cached, run>>

-----------------------------------------------------------------------------
(* Time, and the other queries.                                             *)

Expire ==
  /\ cached # None /\ cached.fresh
  /\ cached' = [cached EXCEPT !.fresh = FALSE]
  /\ UNCHANGED <<db, rendered, run, editor>>

EvictResult ==
  /\ cached # None
  /\ cached' = None
  /\ UNCHANGED <<db, run, editor>>
  /\ RenderedUnchanged

EvictRendered ==
  /\ \E y \in rendered : rendered' = rendered \ {y}
  /\ UNCHANGED <<db, cached, run, editor>>

-----------------------------------------------------------------------------

RunnerStep(p) ==
  Evaluate(p) \/ Build(p) \/ RunFails(p) \/ Store(p) \/ Respond(p) \/ StoreRendered(p)
ReaderStep(p) == Arrive(p) \/ PollHit(p) \/ PollMiss(p) \/ ForceRun(p)
EditStep(e) == Invalidate(e) \/ Reread(e) \/ Patch(e) \/ PurgeRendered(e)

Next ==
  \/ \E p \in Runners : RunnerStep(p)
  \/ \E p \in Readers : ReaderStep(p)
  \/ RefreshStarts \/ ScheduledRun
  \/ \E e \in Editors : EditStep(e) \/ \E k \in Kinds : Commit(e, k)
  \/ Expire \/ EvictResult \/ EvictRendered

Spec == Init /\ [][Next]_vars

\* Threads run; a reader keeps polling and lets a stale entry be refreshed
\* again and again; entries grow old; a target that is asked again and again
\* answers some time.  Edits, forced runs and evictions are never required.
Fairness ==
  /\ \A p \in Runners :
       /\ SF_vars(Evaluate(p))
       /\ WF_vars(Build(p)) /\ WF_vars(Store(p))
       /\ WF_vars(Respond(p)) /\ WF_vars(StoreRendered(p))
  /\ \A p \in Readers :
       /\ WF_vars(Arrive(p)) /\ WF_vars(ReaderStep(p))
       /\ SF_vars(PollHit(p) /\ run[Refresher].at # "queued" /\ run'[Refresher].at = "queued")
  /\ WF_vars(RefreshStarts)
  /\ \A e \in Editors : WF_vars(EditStep(e))
  /\ WF_vars(Expire)

FairSpec == Spec /\ Fairness

-----------------------------------------------------------------------------
(* Properties.                                                              *)

\* An edit of kind k is committed and has not reached the result cache yet.
Pending(k) ==
  \E e \in Editors : editor[e].at \in {"committed", "reread"} /\ editor[e].kind = k
Purging == \E e \in Editors : editor[e].at # "idle"

\* Once an edit is through, the cache holds something older than it only if a
\* run or a redraw that had already read the older version stored it later:
\* nothing that was in the cache before the edit survives it.
OldOnlyIfOverlapped ==
  cached # None =>
    \A k \in Behind(cached.body.made) : Pending(k) \/ k \in cached.late

\* The same for the encoded responses: bytes with an older chart mapping are
\* left only by a request that was encoding them while the charts changed.
RenderedOldOnlyIfOverlapped ==
  \A y \in rendered : y.charts < db["charts"] => Purging \/ y.late

\* What the cache holds and the bytes served for it match the saved query.
ServesCurrentDefinition ==
  /\ cached # None => cached.body.made = db
  /\ cached # None =>
       \A y \in rendered : Renders(y, cached.body.id) => y.charts = db["charts"]

\* No edit is lost for good: when edits stop, poll answers come to match the
\* saved query and stay so, however the last runs and redraws overlapped.
EventuallyCurrent == <>[]ServesCurrentDefinition
=============================================================================
