------------------------------ MODULE Refresher ------------------------------
(***************************************************************************)
(* Background refreshes of cached query results: the module-level state of *)
(* features/queries/refresher.py and the three kinds of thread that touch  *)
(* it -- request threads calling request_refresh, the worker threads of    *)
(* the pool running _refresh, and the lifespan thread calling shutdown.    *)
(*                                                                         *)
(* Every action is one critical section of _lock, or one stretch of code   *)
(* outside it whose effect other threads can see.  What a refresh writes   *)
(* elsewhere (result cache, execution log, flagged rows) is the subject of *)
(* QueryServing; here those calls are the stage "running", which may       *)
(* succeed or fail.                                                        *)
(***************************************************************************)
EXTENDS Polled, FiniteSets

CONSTANTS
  Requests,        \* request threads, each serving a poll
  Tasks,           \* slots for submitted refreshes (a bound on the queue)
  MaxWorkers,      \* _MAX_WORKERS
  DefaultInterval, \* get_settings().poll_interval_ms
  MaxTime,         \* bound on both clocks
  MaxShutdowns     \* bound on calls of shutdown()

ASSUME BoundsAssumption ==
  /\ Queries # {}
  /\ MaxWorkers \in Nat \ {0}
  /\ DefaultInterval \in Nat \ {0}
  /\ Interval \in [Queries -> Nat \ {0}]
  /\ MaxTime \in Nat
  /\ MaxShutdowns \in Nat
ASSUME NoneAssumption == None \notin [mono : Nat, wall : Nat]

VARIABLES
  inFlight,   \* _in_flight
  cooldown,   \* _cooldown_until and _cooldown_wall, always written together
  pool,       \* _pool: 0 for None, else the number of the executor
  pools,      \* how many executors were created
  dead,       \* executors whose shutdown(cancel_futures=True) has run
  stopping,   \* the executor shutdown() has taken and not yet stopped, or 0
  thread,     \* thread[r]: where a request thread is inside request_refresh
  task,       \* task[t]: a submitted _refresh and how far it got
  mono, wall, \* time.monotonic() and time.time()
  shutdowns,  \* how often shutdown() was called
  owed        \* history: the rest q is still owed for its last failure, until
              \* one of the two clocks has reached it; None when it had it

vars == <<inFlight, cooldown, pool, pools, dead, stopping, thread, task,
          mono, wall, shutdowns, owed>>
clocks == <<mono, wall>>
executors == <<pool, pools, dead, stopping, shutdowns>>

-----------------------------------------------------------------------------
(* Positions of a request thread and of a submitted refresh.               *)

Step  == {"idle", "marked", "submitting"}
Stage == {"free", "queued", "loading", "running", "clearing", "failing",
          "leaving"}
OnWorker == Stage \ {"free", "queued"}   \* stages that occupy a worker

Generation == Nat   \* executors are numbered as they are created

AnyQuery   == CHOOSE q \in Queries : TRUE   \* what an unused slot holds
IdleThread == [step |-> "idle", query |-> AnyQuery, pool |-> 0]
FreeTask   == [stage |-> "free", query |-> AnyQuery, pool |-> 0, hold |-> 1]

\* Marks, cooldowns, executors and threads are what the code may store there.
TypeOK ==
  /\ inFlight \subseteq Queries
  /\ cooldown \in [Queries -> [mono : Nat, wall : Nat] \cup {None}]
  /\ pool \in Generation
  /\ pools \in Generation
  /\ dead \subseteq Generation
  /\ stopping \in Generation
  /\ thread \in [Requests -> [step : Step, query : Queries, pool : Generation]]
  /\ task \in [Tasks -> [stage : Stage, query : Queries, pool : Generation,
                         hold : Nat \ {0}]]
  /\ mono \in Nat /\ wall \in Nat
  /\ shutdowns \in 0 .. MaxShutdowns
  /\ owed \in [Queries -> [mono : Nat, wall : Nat] \cup {None}]

Init ==
  /\ inFlight = {}
  /\ cooldown = [q \in Queries |-> None]
  /\ pool = 0 /\ pools = 0 /\ dead = {} /\ stopping = 0 /\ shutdowns = 0
  /\ thread = [r \in Requests |-> IdleThread]
  /\ task = [t \in Tasks |-> FreeTask]
  /\ mono = 0 /\ wall = 0
  /\ owed = [q \in Queries |-> None]

-----------------------------------------------------------------------------
(* The request thread: request_refresh.                                    *)

\* Both clocks must say "not yet".
CoolingDown(q) ==
  /\ cooldown[q] # None
  /\ mono < cooldown[q].mono
  /\ wall < cooldown[q].wall

\* Mutant: the in-flight mark is set without being tested.
RequestRefreshUntested(r, q) ==
  /\ thread[r].step = "idle"
  /\ ~CoolingDown(q)
  /\ inFlight' = inFlight \cup {q}
  /\ thread' = [thread EXCEPT ![r] = [step |-> "marked", query |-> q, pool |-> 0]]
  /\ UNCHANGED <<cooldown, executors, task, clocks, owed>>

\* The first critical section, when it marks the query.  When the query is
\* in flight or cooling down the call returns False and changes nothing.
RequestRefresh(r, q) ==
  /\ thread[r].step = "idle"
  /\ q \notin inFlight
  /\ ~CoolingDown(q)
  /\ inFlight' = inFlight \cup {q}
  /\ thread' = [thread EXCEPT ![r] = [step |-> "marked", query |-> q, pool |-> 0]]
  /\ UNCHANGED <<cooldown, executors, task, clocks, owed>>

\* _get_pool, which creates the executor when there is none.
GetPool(r) ==
  /\ thread[r].step = "marked"
  /\ IF pool = 0
       THEN /\ pools' = pools + 1
            /\ pool' = pools + 1
       ELSE UNCHANGED <<pool, pools>>
  /\ thread' = [thread EXCEPT ![r] = [@ EXCEPT !.step = "submitting", !.pool = pool']]
  /\ UNCHANGED <<inFlight, cooldown, dead, stopping, shutdowns, task, clocks, owed>>

\* pool.submit(_refresh, ...), outside the lock.
Submit(r) ==
  /\ thread[r].step = "submitting"
  /\ thread[r].pool \notin dead
  /\ \E t \in Tasks :
       /\ task[t].stage = "free"
       /\ task' = [task EXCEPT ![t] = [stage |-> "queued", query |-> thread[r].query,
                                       pool |-> thread[r].pool, hold |-> 1]]
  /\ thread' = [thread EXCEPT ![r] = IdleThread]
  /\ UNCHANGED <<inFlight, cooldown, executors, clocks, owed>>

\* submit raised RuntimeError: the executor was shut down in between.
SubmitRefused(r) ==
  /\ thread[r].step = "submitting"
  /\ thread[r].pool \in dead
  /\ inFlight' = inFlight \ {thread[r].query}
  /\ thread' = [thread EXCEPT ![r] = IdleThread]
  /\ UNCHANGED <<cooldown, executors, task, clocks, owed>>

-----------------------------------------------------------------------------
(* A worker thread: _refresh, from the executor's queue to its finally.    *)

Busy(g) == {t \in Tasks : task[t].pool = g /\ task[t].stage \in OnWorker}

\* The executor hands a queued task to a free worker; the interval a failure
\* would be held off for is the default until the query is loaded.
Take(t) ==
  /\ task[t].stage = "queued"
  /\ Cardinality(Busy(task[t].pool)) < MaxWorkers
  /\ task' = [task EXCEPT ![t] = [@ EXCEPT !.stage = "loading", !.hold = DefaultInterval]]
  /\ UNCHANGED <<inFlight, cooldown, executors, thread, clocks, owed>>

\* Mutant: the early return skips the finally clause.
LoadSkippedWithoutFinally(t) ==
  /\ task[t].stage = "loading"
  /\ task' = [task EXCEPT ![t] = FreeTask]
  /\ UNCHANGED <<inFlight, cooldown, executors, thread, clocks, owed>>

\* Query gone, or connection gone or paused: return, straight to the finally.
LoadSkipped(t) ==
  /\ task[t].stage = "loading"
  /\ task' = [task EXCEPT ![t].stage = "leaving"]
  /\ UNCHANGED <<inFlight, cooldown, executors, thread, clocks, owed>>

Loaded(t) ==
  /\ task[t].stage = "loading"
  /\ task' = [task EXCEPT ![t] = [@ EXCEPT !.stage = "running", !.hold = Interval[task[t].query]]]
  /\ UNCHANGED <<inFlight, cooldown, executors, thread, clocks, owed>>

\* run_saved_query, log_execution, result_cache.set and sync all returned.
RunSucceeds(t) ==
  /\ task[t].stage = "running"
  /\ task' = [task EXCEPT ![t].stage = "clearing"]
  /\ UNCHANGED <<inFlight, cooldown, executors, thread, clocks, owed>>

\* Mutant: the mark is gone before the cooldown is there.
FailsUnmarked(t) ==
  /\ task[t].stage \in {"loading", "running"}
  /\ inFlight' = inFlight \ {task[t].query}
  /\ task' = [task EXCEPT ![t].stage = "failing"]
  /\ UNCHANGED <<cooldown, executors, thread, clocks, owed>>

\* Any of them raised, or the app-state read did; both except clauses hold off.
Fails(t) ==
  /\ task[t].stage \in {"loading", "running"}
  /\ task' = [task EXCEPT ![t].stage = "failing"]
  /\ UNCHANGED <<inFlight, cooldown, executors, thread, clocks, owed>>

\* The success path's critical section.
ClearCooldown(t) ==
  /\ task[t].stage = "clearing"
  /\ cooldown' = [cooldown EXCEPT ![task[t].query] = None]
  /\ task' = [task EXCEPT ![t].stage = "leaving"]
  /\ UNCHANGED <<inFlight, executors, thread, clocks, owed>>

\* Mutant: the wall clock's due time is put in the past.
HoldOffBackwards(t) ==
  LET q == task[t].query
      hold == Max2(task[t].hold, 1)
  IN  /\ task[t].stage = "failing"
      /\ cooldown' = [cooldown EXCEPT ![q] = [mono |-> mono + hold, wall |-> wall - hold]]
      /\ owed' = [owed EXCEPT ![q] = [mono |-> mono + task[t].hold,
                                      wall |-> wall + task[t].hold]]
      /\ task' = [task EXCEPT ![t].stage = "leaving"]
      /\ UNCHANGED <<inFlight, executors, thread, clocks>>

\* _hold_off
HoldOff(t) ==
  LET q == task[t].query
      hold == Max2(task[t].hold, 1)
  IN  /\ task[t].stage = "failing"
      /\ cooldown' = [cooldown EXCEPT ![q] = [mono |-> mono + hold, wall |-> wall + hold]]
      /\ owed' = [owed EXCEPT ![q] = [mono |-> mono + task[t].hold,
                                      wall |-> wall + task[t].hold]]
      /\ task' = [task EXCEPT ![t].stage = "leaving"]
      /\ UNCHANGED <<inFlight, executors, thread, clocks>>

\* The finally clause, after which the worker is free again.
Leave(t) ==
  /\ task[t].stage = "leaving"
  /\ inFlight' = inFlight \ {task[t].query}
  /\ task' = [task EXCEPT ![t] = FreeTask]
  /\ UNCHANGED <<cooldown, executors, thread, clocks, owed>>

WorkerStep(t) ==
  \/ LoadSkipped(t) \/ Loaded(t) \/ RunSucceeds(t) \/ Fails(t)
  \/ ClearCooldown(t) \/ HoldOff(t) \/ Leave(t)

-----------------------------------------------------------------------------
(* The lifespan thread, and reset().                                       *)

\* Mutant: shutdown forgets the cooldowns and not the marks.
ShutdownTakeKeepsMarks ==
  /\ shutdowns < MaxShutdowns
  /\ stopping = 0
  /\ shutdowns' = shutdowns + 1
  /\ stopping' = pool
  /\ pool' = 0
  /\ cooldown' = [q \in Queries |-> None]
  /\ owed' = [q \in Queries |-> None]
  /\ UNCHANGED <<inFlight, pools, dead, thread, task, clocks>>

\* shutdown's critical section: take the executor and forget everything.
ShutdownTake ==
  /\ shutdowns < MaxShutdowns
  /\ stopping = 0
  /\ shutdowns' = shutdowns + 1
  /\ stopping' = pool
  /\ pool' = 0
  /\ inFlight' = {}
  /\ cooldown' = [q \in Queries |-> None]
  /\ owed' = [q \in Queries |-> None]
  /\ UNCHANGED <<pools, dead, thread, task, clocks>>

\* pool.shutdown(wait=False, cancel_futures=True): what is queued never runs,
\* what is running goes on.
ShutdownStop ==
  /\ stopping # 0
  /\ dead' = dead \cup {stopping}
  /\ task' = [t \in Tasks |->
                IF task[t].stage = "queued" /\ task[t].pool = stopping
                  THEN FreeTask ELSE task[t]]
  /\ stopping' = 0
  /\ UNCHANGED <<inFlight, cooldown, pool, pools, shutdowns, thread, clocks, owed>>

\* reset(): forget every cooldown.
Reset ==
  /\ cooldown' = [q \in Queries |-> None]
  /\ owed' = [q \in Queries |-> None]
  /\ UNCHANGED <<inFlight, executors, thread, task, clocks>>

-----------------------------------------------------------------------------
(* The clocks.  The monotonic one only advances; the wall clock also       *)
(* advances while the machine sleeps and may be set either way.            *)

SetClocks(m, w) ==
  /\ mono' = m /\ wall' = w
  /\ owed' = [q \in Queries |->
                IF owed[q] # None /\ m < owed[q].mono /\ w < owed[q].wall
                  THEN owed[q] ELSE None]
  /\ UNCHANGED <<inFlight, cooldown, executors, thread, task>>

Tick == /\ mono < MaxTime /\ wall < MaxTime
        /\ SetClocks(mono + 1, wall + 1)

AdjustWall == \E w \in (0 .. MaxTime) \ {wall} : SetClocks(mono, w)

-----------------------------------------------------------------------------

Next ==
  \/ \E r \in Requests, q \in Queries : RequestRefresh(r, q)
  \/ \E r \in Requests : GetPool(r) \/ Submit(r) \/ SubmitRefused(r)
  \/ \E t \in Tasks : Take(t) \/ WorkerStep(t)
  \/ ShutdownTake \/ ShutdownStop \/ Reset
  \/ Tick \/ AdjustWall

Spec == Init /\ [][Next]_vars

\* Threads that hold a mark keep running and submitting never blocks (the
\* executor's queue has no bound; the slots of the model do), statements against the target end
\* (every one carries a timeout), and the executor's queue is first in, first
\* out: a task cannot be passed over for ever while workers become free.
\* Polls, clocks, shutdown and reset are never forced to happen.
Fairness ==
  /\ \A r \in Requests : /\ WF_vars(GetPool(r) \/ SubmitRefused(r))
                         /\ SF_vars(Submit(r))
  /\ \A t \in Tasks : SF_vars(Take(t)) /\ WF_vars(WorkerStep(t))
  /\ WF_vars(ShutdownStop)

FairSpec == Spec /\ Fairness

-----------------------------------------------------------------------------
(* Properties.                                                             *)

Requesting(r, q) == thread[r].step # "idle" /\ thread[r].query = q
Refreshing(t, q) == task[t].stage # "free" /\ task[t].query = q

\* "One refresh per query at a time": between two shutdowns no query has two
\* refreshes queued or running, however polls, failures and the removal of the
\* in-flight mark interleave.  (A refresh that outlives a shutdown removes the
\* mark of its successor, so nothing is promised once shutdown was called.)
OneRefreshPerQuery ==
  shutdowns = 0 =>
    \A t1, t2 \in Tasks, q \in Queries :
      Refreshing(t1, q) /\ Refreshing(t2, q) => t1 = t2

\* A mark always has someone on the way to remove it: a request thread that
\* has not submitted yet, or a refresh that is queued in a live executor or
\* running.  A lost mark would stop a query being refreshed until the process
\* restarts.  Holds through shutdowns and refused submissions.
NoLostMark ==
  \A q \in inFlight :
    \/ \E r \in Requests : Requesting(r, q)
    \/ \E t \in Tasks : Refreshing(t, q)

\* "A cooldown after a failure": the target is never asked again for a query
\* whose last refresh failed before one of the two clocks has passed that
\* query's own interval.
RestedBeforeRetry ==
  shutdowns = 0 =>
    \A t \in Tasks : task[t].stage = "running" => owed[task[t].query] = None

\* Every refresh that is asked for ends, and its query can be refreshed again.
MarkReleased ==
  \A q \in Queries : q \in inFlight ~> q \notin inFlight
=============================================================================
