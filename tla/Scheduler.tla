------------------------------ MODULE Scheduler ------------------------------
(***************************************************************************)
(* features/queries/scheduler.py: runs every query that has flag rules on  *)
(* its own interval, one at a time, resting a query after a failure.       *)
(*                                                                         *)
(* Moments are kept as countdowns: what is left until each clock reaches   *)
(* them, zero once it has.  The monotonic clock stops while the machine    *)
(* sleeps; the wall clock may be set, by which a countdown that ended may  *)
(* start again.                                                            *)
(***************************************************************************)
EXTENDS Polled, FiniteSets

CONSTANTS
  Connections,
  ConnectionOf,   \* ConnectionOf[q]: the connection q runs against
  MinInterval,    \* settings.scheduler_min_interval_ms
  MaxBackoff,     \* settings.scheduler_max_backoff_ms
  MaxFactor,      \* the largest backoff factor, 1 << 16 in the code
  MaxAhead,       \* bound on how far setting the wall clock postpones a moment
  TicksMayFail    \* whether app-state statements of a tick may fail

ASSUME SchedulerAssumption ==
  /\ ConnectionOf \in [Queries -> Connections]
  /\ Interval \in [Queries -> Nat \ {0}]
  /\ MinInterval \in Nat \ {0} /\ MaxBackoff \in Nat \ {0}
  /\ MaxFactor \in Nat \ {0, 1} /\ MaxAhead \in Nat
  /\ TicksMayFail \in BOOLEAN
  /\ None \notin Queries

VARIABLES
  due,      \* _next_due and _next_due_wall
  backoff,  \* _backoff; 1 where the code has no entry
  tick,     \* the pass of run_due_once: "idle", or "running"
  pending,  \* the queries it found due and has not come to yet
  current,  \* the query being run, or None
  stage,    \* of that run: "executing" or "recording"
  read,     \* read[c]: paused as this pass last read it, or None
  watched,  \* the queries with flag rules
  paused,   \* the paused connections
  cache,    \* cache[q]: when the cached result goes stale, or None
  span,     \* history: how long a rest q's last run was to be followed by
  rest      \* history: what is left of it

schedule == <<due, backoff, span, rest>>
pass == <<tick, pending, current, stage, read>>
world == <<watched, paused>>
schedulerVars == <<schedule, pass, world, cache>>

Moment == [mono : Nat, wall : Nat]
In(delay) == [mono |-> delay, wall |-> delay]
Min2(a, b) == IF a <= b THEN a ELSE b

\* interval_for
IntervalFor(q) == Max2(Interval[q], MinInterval)
LongestRest(q) == Min2(IntervalFor(q) * MaxFactor, MaxBackoff)

\* An idle scheduler has no query in hand; backoff factors are within bounds.
SchedulerTypeOK ==
  /\ due \in [Queries -> Moment] /\ rest \in [Queries -> Moment]
  /\ backoff \in [Queries -> 1 .. MaxFactor] /\ span \in [Queries -> Nat]
  /\ tick \in {"idle", "running"} /\ stage \in {"executing", "recording"}
  /\ pending \subseteq Queries
  /\ current \in Queries \cup {None}
  /\ tick = "idle" => pending = {} /\ current = None
  /\ read \in [Connections -> BOOLEAN \cup {None}]
  /\ watched \subseteq Queries /\ paused \subseteq Connections
  /\ cache \in [Queries -> Moment \cup {None}]

Unread == [c \in Connections |-> None]

SchedulerInit ==
  /\ due = [q \in Queries |-> In(0)]
  /\ backoff = [q \in Queries |-> 1] /\ span = [q \in Queries |-> IntervalFor(q)]
  /\ tick = "idle" /\ pending = {} /\ current = None /\ stage = "executing"
  /\ read = Unread
  /\ watched \in SUBSET Queries
  /\ paused = {}
  /\ cache = [q \in Queries |-> None]
  /\ rest = [q \in Queries |-> In(0)]

-----------------------------------------------------------------------------

\* A moment has come when either clock says so.
Passed(m) == m.mono = 0 \/ m.wall = 0

\* Mutant: by the wall clock, which may be set back for ever.
IsDueByWall(q) == due[q].wall = 0

\* _is_due; a query never scheduled is due.
IsDue(q) == Passed(due[q])

\* result_cache.get: neither clock says the result has gone stale.
Fresh(q) == IF cache[q] = None THEN FALSE ELSE ~Passed(cache[q])

\* _due_queries: the pass begins with every watched query that is due.
StartTick ==
  /\ tick = "idle"
  /\ tick' = "running"
  /\ pending' = {q \in watched : IsDue(q)}
  /\ UNCHANGED <<schedule, current, stage, read, world, cache>>

\* conn.paused, of a connection this pass may have loaded already: then the
\* value it had at that time may be used again.
PausedAsSeen(c) == {c \in paused} \cup ({read[c]} \ {None})

Visiting(q) == tick = "running" /\ current = None /\ q \in pending

\* Somebody else ran it within its interval: wait out what is left of it.
SkipFresh(q) ==
  /\ Visiting(q)
  /\ Fresh(q)
  /\ due' = [due EXCEPT ![q] = In(Min2(cache[q].mono, cache[q].wall))]
  /\ pending' = pending \ {q}
  /\ \E p \in PausedAsSeen(ConnectionOf[q]) : read' = [read EXCEPT ![ConnectionOf[q]] = p]
  /\ UNCHANGED <<backoff, span, rest, tick, current, stage, world, cache>>

SkipPaused(q) ==
  /\ Visiting(q)
  /\ ~Fresh(q)
  /\ TRUE \in PausedAsSeen(ConnectionOf[q])
  /\ pending' = pending \ {q}
  /\ read' = [read EXCEPT ![ConnectionOf[q]] = TRUE]
  /\ UNCHANGED <<schedule, tick, current, stage, world, cache>>

Run(q) ==
  /\ Visiting(q)
  /\ ~Fresh(q)
  /\ FALSE \in PausedAsSeen(ConnectionOf[q])
  /\ pending' = pending \ {q}
  /\ read' = [read EXCEPT ![ConnectionOf[q]] = FALSE]
  /\ current' = q /\ stage' = "executing"
  /\ UNCHANGED <<schedule, tick, world, cache>>

\* Mutant: each failure starts the backoff again.
NextFactorForgetful(q) == 2

\* _reschedule doubles the factor, from 1, up to its ceiling.
NextFactor(q) == Min2(backoff[q] * 2, MaxFactor)

\* The run raised; _reschedule(failed=True).
RunFails(q) ==
  LET delay == Min2(IntervalFor(q) * NextFactor(q), MaxBackoff)
  IN  /\ current = q /\ stage = "executing"
      /\ current' = None
      /\ backoff' = [backoff EXCEPT ![q] = NextFactor(q)]
      /\ due' = [due EXCEPT ![q] = In(delay)]
      /\ span' = [span EXCEPT ![q] = Min2(2 * @, LongestRest(q))]
      /\ rest' = [rest EXCEPT ![q] = In(span'[q])]
      /\ UNCHANGED <<tick, pending, stage, read, world, cache>>

\* The run returned: its log entry is committed, or rolled back, and the
\* session forgets what it had read; the result is cached, unless it is too big.
RunReturns(q) ==
  /\ current = q /\ stage = "executing"
  /\ stage' = "recording"
  /\ read' = Unread
  /\ cache' = [cache EXCEPT ![q] = In(Interval[q])] \/ cache' = [cache EXCEPT ![q] = None]
  /\ UNCHANGED <<schedule, tick, pending, current, world>>

\* flagged_row_service.sync committed; _reschedule(failed=False).
RunRecorded(q) ==
  /\ current = q /\ stage = "recording"
  /\ current' = None /\ stage' = "executing"
  /\ read' = Unread
  /\ backoff' = [backoff EXCEPT ![q] = 1]
  /\ span' = [span EXCEPT ![q] = IntervalFor(q)]
  /\ due' = [due EXCEPT ![q] = In(IntervalFor(q))]
  /\ rest' = [rest EXCEPT ![q] = In(IntervalFor(q))]
  /\ UNCHANGED <<tick, pending, world, cache>>

\* A statement against the app-state database raised outside the try: loading
\* a query or a connection, or sync.  run_forever logs it and waits for the
\* next tick; the rest of this pass is not run, and nothing is rescheduled.
TickFails ==
  /\ TicksMayFail
  /\ tick = "running"
  /\ current = None \/ stage = "recording"
  /\ tick' = "idle" /\ pending' = {} /\ current' = None /\ read' = Unread
  /\ stage' = "executing"
  /\ UNCHANGED <<schedule, world, cache>>

EndTick ==
  /\ tick = "running" /\ pending = {} /\ current = None
  /\ tick' = "idle"
  /\ read' = Unread
  /\ UNCHANGED <<schedule, pending, current, stage, world, cache>>

-----------------------------------------------------------------------------
(* The rest of the service.                                                *)

\* A poll, a refresh or "Run now" stored a result.
OtherRun(q) ==
  /\ cache' = [cache EXCEPT ![q] = In(Interval[q])]
  /\ UNCHANGED <<schedule, pass, world>>

\* Edited, evicted.
CacheLoses(q) ==
  /\ cache[q] # None
  /\ cache' = [cache EXCEPT ![q] = None]
  /\ UNCHANGED <<schedule, pass, world>>

\* replace_rules to no rule, or to some; it invalidates the cached result.
EditRules(q) ==
  /\ watched' = IF q \in watched THEN watched \ {q} ELSE watched \cup {q}
  /\ cache' = [cache EXCEPT ![q] = None]
  /\ UNCHANGED <<schedule, pass, paused>>

PauseOrResume(c) ==
  /\ paused' = IF c \in paused THEN paused \ {c} ELSE paused \cup {c}
  /\ UNCHANGED <<schedule, pass, watched, cache>>

\* What is left of every moment.  A result the monotonic clock calls stale is
\* stale for good, and as good as none.
Advance(mono, wall) ==
  LET later(m) == [mono |-> Max2(m.mono - mono, 0), wall |-> Max2(m.wall - wall, 0)]
      left(q) == IF cache[q] = None THEN None
                 ELSE IF cache[q].mono <= mono THEN None ELSE later(cache[q])
  IN  /\ due' = [q \in Queries |-> later(due[q])]
      /\ rest' = [q \in Queries |-> IF Passed(later(rest[q])) THEN In(0) ELSE later(rest[q])]
      /\ cache' = [q \in Queries |-> left(q)]
      /\ UNCHANGED <<backoff, span, pass, world>>

Elapse == Advance(1, 1)
Sleep == Advance(0, 1)   \* or the wall clock set forward
SetBack ==
  /\ \A q \in Queries :
       due[q].wall < MaxAhead /\ (cache[q] # None => cache[q].wall < MaxAhead)
  /\ Advance(0, -1)

-----------------------------------------------------------------------------

Visit(q) == SkipFresh(q) \/ SkipPaused(q) \/ Run(q)
EndRun(q) == RunFails(q) \/ RunReturns(q) \/ RunRecorded(q)

SchedulerNext ==
  \/ StartTick \/ EndTick \/ TickFails
  \/ \E q \in Queries : Visit(q) \/ EndRun(q)
  \/ \E q \in Queries : OtherRun(q) \/ CacheLoses(q) \/ EditRules(q)
  \/ \E c \in Connections : PauseOrResume(c)
  \/ Elapse \/ Sleep \/ SetBack

SchedulerSpec == SchedulerInit /\ [][SchedulerNext]_schedulerVars

\* run_forever ticks for as long as the service runs, a statement ends (it
\* carries a timeout), and time goes on.
SchedulerFairness ==
  /\ WF_schedulerVars(StartTick) /\ WF_schedulerVars(EndTick)
  /\ \A q \in Queries : WF_schedulerVars(Visit(q)) /\ WF_schedulerVars(EndRun(q))
  /\ WF_schedulerVars(Elapse)

SchedulerFairSpec == SchedulerSpec /\ SchedulerFairness

-----------------------------------------------------------------------------
(* Properties.                                                             *)

\* The scheduler leaves a target alone after each run of a query: for the
\* interval after a success, for twice as long after every further failure up
\* to the limits, whatever other runs, edits, pauses and early ticks come in
\* between.  One clock is enough to end the rest.
RestsBetweenRuns ==
  [][\A q \in Queries : Run(q) => Passed(rest[q])]_schedulerVars

\* Nothing starves: unless pass after pass breaks off with runs left to do, a
\* watched query keeps being run or being found fresh, however its neighbours
\* fail.
KeepsWatching ==
  \/ []<><<TickFails /\ (pending # {} \/ current # None)>>_schedulerVars
  \/ \A q \in Queries :
       []<>(\/ q \notin watched
            \/ TRUE \in PausedAsSeen(ConnectionOf[q])
            \/ Fresh(q)
            \/ current = q)
=============================================================================
