-------------------------- MODULE BackgroundProofs --------------------------
(***************************************************************************)
(* The two background parts, which know the same queries and share nothing *)
(* else: safety of Refresher, for every number of queries, request threads *)
(* and tasks, any pool size and any interval, and then of Scheduler, for   *)
(* any intervals and limits.                                               *)
(*                                                                         *)
(* A query's mark in inFlight is a token: SoleOwner says who may hold it,  *)
(* RestedOwners and ColdWhileOwed what holding it implies for the          *)
(* cooldown, LiveMark that someone does.                                   *)
(***************************************************************************)
EXTENDS Refresher, Scheduler, TLAPS

\* A thread or task that stands for a refresh of its query.
Active(r) == thread[r].step # "idle"
Live(t)   == task[t].stage # "free"

PoolInv ==
  /\ pool <= pools /\ stopping <= pools
  /\ \A g \in dead : g <= pools
  /\ pool # 0 => pool \notin dead /\ pool # stopping
  /\ \A r \in Requests : thread[r].step = "submitting" => thread[r].pool # 0
  /\ \A t \in Tasks : task[t].stage = "queued" => task[t].pool # 0

SoleOwner ==
  shutdowns = 0 =>
    /\ \A r \in Requests : Active(r) => thread[r].query \in inFlight
    /\ \A t \in Tasks : Live(t) => task[t].query \in inFlight
    /\ \A r1, r2 \in Requests :
         Active(r1) /\ Active(r2) /\ thread[r1].query = thread[r2].query => r1 = r2
    /\ \A t1, t2 \in Tasks :
         Live(t1) /\ Live(t2) /\ task[t1].query = task[t2].query => t1 = t2
    /\ \A r \in Requests, t \in Tasks :
         Active(r) /\ Live(t) => thread[r].query # task[t].query

ColdWhileOwed ==
  shutdowns = 0 =>
    \A q \in Queries : owed[q] # None =>
      /\ cooldown[q] = owed[q]
      /\ mono < owed[q].mono
      /\ wall < owed[q].wall

RestedOwners ==
  shutdowns = 0 =>
    /\ \A r \in Requests : Active(r) => owed[thread[r].query] = None
    /\ \A t \in Tasks : Live(t) /\ task[t].stage # "leaving"
                          => owed[task[t].query] = None

LiveMark ==
  \A q \in inFlight :
    \/ \E r \in Requests :
         Requesting(r, q) /\ (thread[r].step = "submitting" => thread[r].pool = pool)
    \/ \E t \in Tasks :
         Refreshing(t, q) /\ (task[t].stage = "queued" => task[t].pool = pool)

-----------------------------------------------------------------------------

LEMMA AnyQueryType == AnyQuery \in Queries
BY BoundsAssumption DEF AnyQuery

LEMMA HoldIsMax == \A n \in Nat \ {0} : Max2(n, 1) = n
BY DEF Max2

LEMMA InitTypeOK == Init => TypeOK
BY AnyQueryType, BoundsAssumption
   DEF Init, TypeOK, IdleThread, FreeTask, Generation, Step, Stage

LEMMA NextTypeOK == TypeOK /\ [Next]_vars => TypeOK'
<1> SUFFICES ASSUME TypeOK, [Next]_vars PROVE TypeOK'
  OBVIOUS
<1> USE BoundsAssumption DEF TypeOK, Generation, Step, Stage, executors, clocks
<1>1. ASSUME NEW r \in Requests, NEW q \in Queries, RequestRefresh(r, q)
      PROVE  TypeOK'
  BY <1>1 DEF RequestRefresh
<1>2. ASSUME NEW r \in Requests, GetPool(r) PROVE TypeOK'
  <2>1. pool' \in Nat /\ pools' \in Nat
    BY <1>2 DEF GetPool
  <2>2. thread' \in [Requests -> [step : Step, query : Queries, pool : Generation]]
    BY <1>2, <2>1, ZenonT(40) DEF GetPool
  <2> QED BY <1>2, <2>1, <2>2 DEF GetPool
<1>3. ASSUME NEW r \in Requests, Submit(r) PROVE TypeOK'
  BY <1>3, AnyQueryType DEF Submit, IdleThread
<1>4. ASSUME NEW r \in Requests, SubmitRefused(r) PROVE TypeOK'
  BY <1>4, AnyQueryType DEF SubmitRefused, IdleThread
<1>5. ASSUME NEW t \in Tasks, Take(t) PROVE TypeOK'
  <2>1. task' \in [Tasks -> [stage : Stage, query : Queries, pool : Generation,
                            hold : Nat \ {0}]]
    BY <1>5, ZenonT(40) DEF Take
  <2> QED BY <1>5, <2>1 DEF Take
<1>6. ASSUME NEW t \in Tasks, WorkerStep(t) PROVE TypeOK'
  <2>1. CASE LoadSkipped(t) BY <2>1 DEF LoadSkipped
  <2>2. CASE Loaded(t)
    <3>1. Interval[task[t].query] \in Nat \ {0}
      OBVIOUS
    <3>2. task' \in [Tasks -> [stage : Stage, query : Queries, pool : Generation,
                              hold : Nat \ {0}]]
      BY <2>2, <3>1, ZenonT(40) DEF Loaded
    <3> QED BY <2>2, <3>2 DEF Loaded
  <2>3. CASE RunSucceeds(t) BY <2>3 DEF RunSucceeds
  <2>4. CASE Fails(t) BY <2>4 DEF Fails
  <2>5. CASE ClearCooldown(t) BY <2>5 DEF ClearCooldown
  <2>6. CASE HoldOff(t)
    <3>1. task[t].hold \in Nat \ {0} /\ Max2(task[t].hold, 1) = task[t].hold
      BY HoldIsMax
    <3>2. cooldown' \in [Queries -> [mono : Nat, wall : Nat] \cup {None}]
      BY <2>6, <3>1 DEF HoldOff
    <3>3. owed' \in [Queries -> [mono : Nat, wall : Nat] \cup {None}]
      BY <2>6, <3>1 DEF HoldOff
    <3>4. task' \in [Tasks -> [stage : Stage, query : Queries, pool : Generation,
                              hold : Nat \ {0}]]
      BY <2>6 DEF HoldOff
    <3> QED BY <2>6, <3>2, <3>3, <3>4 DEF HoldOff
  <2>7. CASE Leave(t) BY <2>7, AnyQueryType DEF Leave, FreeTask
  <2> QED BY <1>6, <2>1, <2>2, <2>3, <2>4, <2>5, <2>6, <2>7 DEF WorkerStep
<1>7. CASE ShutdownTake BY <1>7 DEF ShutdownTake
<1>8. CASE ShutdownStop BY <1>8, AnyQueryType DEF ShutdownStop, FreeTask
<1>9. CASE Reset BY <1>9 DEF Reset
<1>10. CASE Tick BY <1>10 DEF Tick, SetClocks
<1>11. CASE AdjustWall BY <1>11 DEF AdjustWall, SetClocks
<1>12. CASE UNCHANGED vars BY <1>12 DEF vars
<1> QED
  BY <1>1, <1>2, <1>3, <1>4, <1>5, <1>6, <1>7, <1>8, <1>9, <1>10, <1>11, <1>12
     DEF Next

\* The refresher's state keeps its shape whatever the threads do.
THEOREM TypeCorrect == Spec => []TypeOK
BY InitTypeOK, NextTypeOK, PTL DEF Spec

-----------------------------------------------------------------------------
(* One refresh per query.                                                  *)

\* Only shutdown() counts, and it never takes a count back.
LEMMA ShutdownsCounted ==
  TypeOK /\ [Next]_vars /\ shutdowns' = 0 => shutdowns = 0
<1> SUFFICES ASSUME TypeOK, [Next]_vars, shutdowns' = 0 PROVE shutdowns = 0
  OBVIOUS
<1> USE DEF executors
<1>1. ASSUME NEW r \in Requests, NEW q \in Queries, RequestRefresh(r, q)
      PROVE  shutdowns' = shutdowns
  BY <1>1 DEF RequestRefresh
<1>2. ASSUME NEW r \in Requests, GetPool(r) \/ Submit(r) \/ SubmitRefused(r)
      PROVE  shutdowns' = shutdowns
  BY <1>2 DEF GetPool, Submit, SubmitRefused
<1>3. ASSUME NEW t \in Tasks, Take(t) \/ WorkerStep(t)
      PROVE  shutdowns' = shutdowns
  BY <1>3 DEF Take, WorkerStep, LoadSkipped, Loaded, RunSucceeds, Fails,
              ClearCooldown, HoldOff, Leave
<1>4. CASE ShutdownTake BY <1>4 DEF ShutdownTake, TypeOK
<1>5. CASE ShutdownStop \/ Reset BY <1>5 DEF ShutdownStop, Reset
<1>6. CASE Tick \/ AdjustWall BY <1>6 DEF Tick, AdjustWall, SetClocks
<1>7. CASE UNCHANGED vars BY <1>7 DEF vars
<1> QED BY <1>1, <1>2, <1>3, <1>4, <1>5, <1>6, <1>7 DEF Next

LEMMA InitSoleOwner == Init => SoleOwner
BY DEF Init, SoleOwner, Active, Live, IdleThread, FreeTask

LEMMA NextSoleOwner == TypeOK /\ SoleOwner /\ [Next]_vars => SoleOwner'
<1> SUFFICES ASSUME TypeOK, SoleOwner, [Next]_vars, shutdowns = 0, shutdowns' = 0
             PROVE  SoleOwner'
  BY ShutdownsCounted DEF SoleOwner
<1> USE DEF TypeOK, SoleOwner, Active, Live, executors
<1>1. ASSUME NEW r \in Requests, NEW q \in Queries, RequestRefresh(r, q)
      PROVE  SoleOwner'
  BY <1>1 DEF RequestRefresh
<1>2. ASSUME NEW r \in Requests, GetPool(r) PROVE SoleOwner'
  BY <1>2 DEF GetPool
<1>3. ASSUME NEW r \in Requests, Submit(r) PROVE SoleOwner'
  BY <1>3 DEF Submit, IdleThread
<1>4. ASSUME NEW r \in Requests, SubmitRefused(r) PROVE SoleOwner'
  BY <1>4 DEF SubmitRefused, IdleThread
<1>5. ASSUME NEW t \in Tasks, Take(t) PROVE SoleOwner'
  BY <1>5 DEF Take
<1>6. ASSUME NEW t \in Tasks, WorkerStep(t) PROVE SoleOwner'
  <2>1. CASE LoadSkipped(t) BY <2>1 DEF LoadSkipped
  <2>2. CASE Loaded(t) BY <2>2 DEF Loaded
  <2>3. CASE RunSucceeds(t) BY <2>3 DEF RunSucceeds
  <2>4. CASE Fails(t) BY <2>4 DEF Fails
  <2>5. CASE ClearCooldown(t) BY <2>5 DEF ClearCooldown
  <2>6. CASE HoldOff(t) BY <2>6 DEF HoldOff
  <2>7. CASE Leave(t) BY <2>7 DEF Leave, FreeTask
  <2> QED BY <1>6, <2>1, <2>2, <2>3, <2>4, <2>5, <2>6, <2>7 DEF WorkerStep
<1>7. CASE ShutdownTake BY <1>7 DEF ShutdownTake
<1>8. CASE ShutdownStop BY <1>8 DEF ShutdownStop, FreeTask
<1>9. CASE Reset BY <1>9 DEF Reset
<1>10. CASE Tick \/ AdjustWall BY <1>10 DEF Tick, AdjustWall, SetClocks
<1>11. CASE UNCHANGED vars BY <1>11 DEF vars
<1> QED
  BY <1>1, <1>2, <1>3, <1>4, <1>5, <1>6, <1>7, <1>8, <1>9, <1>10, <1>11 DEF Next

LEMMA SoleOwnerAlways == Spec => []SoleOwner
BY InitSoleOwner, NextSoleOwner, TypeCorrect, PTL DEF Spec

\* Until the first shutdown a query has at most one refresh queued or running.
THEOREM SingleFlight == Spec => []OneRefreshPerQuery
<1>1. SoleOwner => OneRefreshPerQuery
  BY DEF SoleOwner, OneRefreshPerQuery, Live, Refreshing
<1> QED BY <1>1, SoleOwnerAlways, PTL

-----------------------------------------------------------------------------
(* The cooldown after a failure.                                           *)

CooldownInv == ColdWhileOwed /\ RestedOwners

LEMMA InitCooldownInv == Init => CooldownInv
BY DEF Init, CooldownInv, ColdWhileOwed, RestedOwners, Active, Live, IdleThread, FreeTask

LEMMA NextCooldownInv ==
  TypeOK /\ SoleOwner /\ CooldownInv /\ [Next]_vars => CooldownInv'
<1> SUFFICES ASSUME TypeOK, SoleOwner, CooldownInv, [Next]_vars,
                    shutdowns = 0, shutdowns' = 0
             PROVE  CooldownInv'
  BY ShutdownsCounted DEF CooldownInv, ColdWhileOwed, RestedOwners
<1> USE DEF TypeOK, CooldownInv, ColdWhileOwed, RestedOwners, Active, Live, executors, clocks
<1>1. ASSUME NEW r \in Requests, NEW q \in Queries, RequestRefresh(r, q)
      PROVE  CooldownInv'
  BY <1>1 DEF RequestRefresh, CoolingDown
<1>2. ASSUME NEW r \in Requests, GetPool(r) PROVE CooldownInv'
  BY <1>2 DEF GetPool
<1>3. ASSUME NEW r \in Requests, Submit(r) PROVE CooldownInv'
  BY <1>3 DEF Submit, IdleThread
<1>4. ASSUME NEW r \in Requests, SubmitRefused(r) PROVE CooldownInv'
  BY <1>4 DEF SubmitRefused, IdleThread
<1>5. ASSUME NEW t \in Tasks, Take(t) PROVE CooldownInv'
  BY <1>5 DEF Take
<1>6. ASSUME NEW t \in Tasks, WorkerStep(t) PROVE CooldownInv'
  <2>1. CASE LoadSkipped(t) BY <2>1 DEF LoadSkipped
  <2>2. CASE Loaded(t) BY <2>2 DEF Loaded
  <2>3. CASE RunSucceeds(t) BY <2>3 DEF RunSucceeds
  <2>4. CASE Fails(t) BY <2>4 DEF Fails
  <2>5. CASE ClearCooldown(t) BY <2>5 DEF ClearCooldown
  <2>6. CASE HoldOff(t)
    <3>1. task[t].hold \in Nat \ {0} /\ Max2(task[t].hold, 1) = task[t].hold
      BY HoldIsMax
    <3>2. ColdWhileOwed'
      BY <2>6, <3>1, NoneAssumption DEF HoldOff
    <3>3. RestedOwners'
      \* Only the task that failed stands for its query: nobody else is disturbed.
      BY <2>6 DEF HoldOff, SoleOwner
    <3> QED BY <3>2, <3>3
  <2>7. CASE Leave(t) BY <2>7 DEF Leave, FreeTask
  <2> QED BY <1>6, <2>1, <2>2, <2>3, <2>4, <2>5, <2>6, <2>7 DEF WorkerStep
<1>7. CASE ShutdownTake BY <1>7 DEF ShutdownTake
<1>8. CASE ShutdownStop BY <1>8 DEF ShutdownStop, FreeTask
<1>9. CASE Reset BY <1>9 DEF Reset
<1>10. CASE Tick \/ AdjustWall BY <1>10 DEF Tick, AdjustWall, SetClocks
<1>11. CASE UNCHANGED vars BY <1>11 DEF vars
<1> QED
  BY <1>1, <1>2, <1>3, <1>4, <1>5, <1>6, <1>7, <1>8, <1>9, <1>10, <1>11 DEF Next

\* After a failure the target is left alone for the query's own interval, by
\* whichever of the two clocks gets there first.
THEOREM CooldownRespected == Spec => []RestedBeforeRetry
<1>1. TypeOK /\ CooldownInv => RestedBeforeRetry
  BY DEF TypeOK, CooldownInv, RestedOwners, RestedBeforeRetry, Live
<1> QED
  BY <1>1, InitCooldownInv, NextCooldownInv, SoleOwnerAlways, TypeCorrect, PTL
     DEF Spec

-----------------------------------------------------------------------------
(* No mark is ever lost, shutdowns included.                               *)

LEMMA InitPoolInv == Init => PoolInv
BY DEF Init, PoolInv, IdleThread, FreeTask

LEMMA NextPoolInv == TypeOK /\ PoolInv /\ [Next]_vars => PoolInv'
<1> SUFFICES ASSUME TypeOK, PoolInv, [Next]_vars PROVE PoolInv'
  OBVIOUS
<1> USE DEF TypeOK, PoolInv, Generation, executors
<1>1. ASSUME NEW r \in Requests, NEW q \in Queries, RequestRefresh(r, q)
      PROVE  PoolInv'
  BY <1>1 DEF RequestRefresh
<1>2. ASSUME NEW r \in Requests, GetPool(r) PROVE PoolInv'
  <2>1. pool' # 0 /\ pool' \notin dead /\ pool' # stopping /\ pool' <= pools'
        /\ pools <= pools'
    BY <1>2 DEF GetPool
  <2> QED BY <1>2, <2>1 DEF GetPool
<1>3. ASSUME NEW r \in Requests, Submit(r) PROVE PoolInv'
  BY <1>3 DEF Submit, IdleThread
<1>4. ASSUME NEW r \in Requests, SubmitRefused(r) PROVE PoolInv'
  BY <1>4 DEF SubmitRefused, IdleThread
<1>5. ASSUME NEW t \in Tasks, Take(t) PROVE PoolInv'
  BY <1>5 DEF Take
<1>6. ASSUME NEW t \in Tasks, WorkerStep(t) PROVE PoolInv'
  <2>1. CASE LoadSkipped(t) \/ Loaded(t) \/ RunSucceeds(t) \/ Fails(t)
    BY <2>1, ZenonT(40) DEF LoadSkipped, Loaded, RunSucceeds, Fails
  <2>2. CASE ClearCooldown(t) BY <2>2 DEF ClearCooldown
  <2>3. CASE HoldOff(t) BY <2>3 DEF HoldOff
  <2>4. CASE Leave(t) BY <2>4 DEF Leave, FreeTask
  <2> QED BY <1>6, <2>1, <2>2, <2>3, <2>4 DEF WorkerStep
<1>7. CASE ShutdownTake BY <1>7 DEF ShutdownTake
<1>8. CASE ShutdownStop BY <1>8 DEF ShutdownStop, FreeTask
<1>9. CASE Reset BY <1>9 DEF Reset
<1>10. CASE Tick \/ AdjustWall BY <1>10, ZenonT(40) DEF Tick, AdjustWall, SetClocks
<1>11. CASE UNCHANGED vars BY <1>11 DEF vars
<1> QED
  BY <1>1, <1>2, <1>3, <1>4, <1>5, <1>6, <1>7, <1>8, <1>9, <1>10, <1>11 DEF Next

LEMMA InitLiveMark == Init => LiveMark
BY DEF Init, LiveMark

\* A query whose mark has an owner that the step leaves as it was keeps it.
LEMMA NextLiveMark == TypeOK /\ PoolInv /\ LiveMark /\ [Next]_vars => LiveMark'
<1> SUFFICES ASSUME TypeOK, PoolInv, LiveMark, [Next]_vars PROVE LiveMark'
  OBVIOUS
<1> USE DEF TypeOK, LiveMark, Requesting, Refreshing, executors
<1>1. ASSUME NEW r \in Requests, NEW q \in Queries, RequestRefresh(r, q)
      PROVE  LiveMark'
  BY <1>1 DEF RequestRefresh
<1>2. ASSUME NEW r \in Requests, GetPool(r) PROVE LiveMark'
  BY <1>2 DEF GetPool, PoolInv
<1>3. ASSUME NEW r \in Requests, Submit(r) PROVE LiveMark'
  BY <1>3 DEF Submit, IdleThread
<1>4. ASSUME NEW r \in Requests, SubmitRefused(r) PROVE LiveMark'
  BY <1>4 DEF SubmitRefused, IdleThread
<1>5. ASSUME NEW t \in Tasks, Take(t) PROVE LiveMark'
  BY <1>5 DEF Take
<1>6. ASSUME NEW t \in Tasks, WorkerStep(t) PROVE LiveMark'
  <2>1. CASE LoadSkipped(t) BY <2>1 DEF LoadSkipped
  <2>2. CASE Loaded(t) BY <2>2 DEF Loaded
  <2>3. CASE RunSucceeds(t) BY <2>3 DEF RunSucceeds
  <2>4. CASE Fails(t) BY <2>4 DEF Fails
  <2>5. CASE ClearCooldown(t) BY <2>5 DEF ClearCooldown
  <2>6. CASE HoldOff(t) BY <2>6, SMTT(30) DEF HoldOff
  <2>7. CASE Leave(t) BY <2>7 DEF Leave, FreeTask
  <2> QED BY <1>6, <2>1, <2>2, <2>3, <2>4, <2>5, <2>6, <2>7 DEF WorkerStep
<1>7. CASE ShutdownTake BY <1>7 DEF ShutdownTake
<1>8. CASE ShutdownStop
  \* What is cancelled was queued in an executor that is no longer the pool.
  BY <1>8 DEF ShutdownStop, PoolInv, FreeTask
<1>9. CASE Reset BY <1>9 DEF Reset
<1>10. CASE Tick \/ AdjustWall BY <1>10 DEF Tick, AdjustWall, SetClocks
<1>11. CASE UNCHANGED vars BY <1>11 DEF vars
<1> QED
  BY <1>1, <1>2, <1>3, <1>4, <1>5, <1>6, <1>7, <1>8, <1>9, <1>10, <1>11 DEF Next

\* Whatever shutdown interrupts, every mark has a thread or task to remove it.
THEOREM MarksAreOwned == Spec => []NoLostMark
<1>1. LiveMark => NoLostMark
  BY DEF LiveMark, NoLostMark
<1> QED
  BY <1>1, InitPoolInv, NextPoolInv, InitLiveMark, NextLiveMark, TypeCorrect, PTL
     DEF Spec

-----------------------------------------------------------------------------
(* The scheduler: whatever has been started was due, and what is due has   *)
(* rested.                                                                 *)

LEMMA IntervalType ==
  ASSUME NEW q \in Queries
  PROVE  IntervalFor(q) \in Nat \ {0} /\ LongestRest(q) \in Nat \ {0}
<1>1. Interval[q] \in Nat \ {0} /\ MinInterval \in Nat \ {0}
  BY SchedulerAssumption
<1>2. IntervalFor(q) \in Nat \ {0}
  BY <1>1 DEF IntervalFor, Max2
<1>3. MaxFactor \in Nat \ {0} /\ MaxBackoff \in Nat \ {0}
  BY SchedulerAssumption
<1>4. IntervalFor(q) * MaxFactor \in Nat \ {0}
  <2> DEFINE i == IntervalFor(q)
  <2> HIDE DEF i
  <2>1. \A x, y \in Nat \ {0} : x * y \in Nat \ {0}
    OBVIOUS
  <2> QED BY <1>2, <1>3, <2>1 DEF i
<1> QED BY <1>2, <1>3, <1>4 DEF LongestRest, Min2

\* Doubling the factor, up to its ceiling, at least doubles the rest, up to
\* the longest.
LEMMA Doubling ==
  ASSUME NEW i \in Nat \ {0}, NEW b \in Nat \ {0}, NEW s \in Nat \ {0},
         NEW f \in Nat \ {0}, NEW m \in Nat \ {0}, s <= i * b
  PROVE  /\ Min2(2 * s, Min2(i * f, m)) <= i * Min2(b * 2, f)
         /\ Min2(2 * s, Min2(i * f, m)) <= Min2(i * Min2(b * 2, f), m)
         /\ Min2(2 * s, Min2(i * f, m)) \in Nat \ {0}
         /\ Min2(i * Min2(b * 2, f), m) \in Nat
<1>1. i * (b * 2) = 2 * (i * b) /\ i * b \in Nat \ {0} /\ i * f \in Nat \ {0}
  OBVIOUS
<1>2. CASE b * 2 <= f
  <2>1. Min2(b * 2, f) = b * 2
    BY <1>2 DEF Min2
  <2>2. 2 * s <= i * (b * 2)
    BY <1>1
  <2> HIDE <1>2
  <2> QED BY <1>1, <2>1, <2>2 DEF Min2
<1>3. CASE ~(b * 2 <= f)
  <2>1. Min2(b * 2, f) = f
    BY <1>3 DEF Min2
  <2> QED BY <1>1, <2>1 DEF Min2
<1> QED BY <1>2, <1>3

-----------------------------------------------------------------------------

Resting(q) ==
  /\ rest[q].mono \in 1 .. due[q].mono
  /\ rest[q].wall \in 1 .. due[q].wall
  /\ q \notin pending /\ current # q

RestInv(q) ==
  /\ span[q] # 0 /\ span[q] <= IntervalFor(q) * backoff[q]
  /\ current = q => q \notin pending
  /\ rest[q] = In(0) \/ Resting(q)

IInv == SchedulerTypeOK /\ \A q \in Queries : RestInv(q)

LEMMA InitInv == SchedulerInit => IInv
<1> SUFFICES ASSUME SchedulerInit PROVE IInv
  OBVIOUS
<1>1. SchedulerTypeOK
  BY SchedulerAssumption, IntervalType DEF SchedulerInit, SchedulerTypeOK, Moment, In, Unread
<1>2. ASSUME NEW q \in Queries PROVE RestInv(q)
  BY <1>2, IntervalType DEF SchedulerInit, RestInv
<1> QED BY <1>1, <1>2 DEF IInv

\* What a failed run leaves behind.
LEMMA FailedRest ==
  ASSUME IInv, NEW q \in Queries
  PROVE  /\ NextFactor(q) \in 1 .. MaxFactor
         /\ Min2(IntervalFor(q) * NextFactor(q), MaxBackoff) \in Nat
         /\ Min2(2 * span[q], LongestRest(q)) \in Nat \ {0}
         /\ Min2(2 * span[q], LongestRest(q)) <= IntervalFor(q) * NextFactor(q)
         /\ Min2(2 * span[q], LongestRest(q))
              <= Min2(IntervalFor(q) * NextFactor(q), MaxBackoff)
<1>1. /\ backoff[q] \in 1 .. MaxFactor /\ span[q] \in Nat \ {0}
      /\ span[q] <= IntervalFor(q) * backoff[q]
  BY DEF IInv, SchedulerTypeOK, RestInv
<1>2. MaxFactor \in Nat \ {0, 1} /\ MaxBackoff \in Nat \ {0} /\ IntervalFor(q) \in Nat \ {0}
  BY SchedulerAssumption, IntervalType
<1>3. backoff[q] \in Nat \ {0} /\ MaxFactor \in Nat \ {0}
  BY <1>1, <1>2
<1>4. NextFactor(q) \in 1 .. MaxFactor
  BY <1>1, <1>2 DEF NextFactor, Min2
<1> QED BY <1>1, <1>2, <1>3, <1>4, Doubling DEF NextFactor, LongestRest

\* A step that leaves the schedule and the pass alone.
LEMMA ScheduleUntouched ==
  ASSUME IInv, UNCHANGED schedule, current' = current, pending' \subseteq pending
  PROVE  \A q \in Queries : RestInv(q)'
BY DEF IInv, RestInv, Resting, schedule, In

LEMMA VisitInv == ASSUME IInv, NEW q \in Queries, Visit(q) PROVE IInv'
<1> USE DEF IInv
<1>1. \A c \in Connections : PausedAsSeen(c) \subseteq BOOLEAN
  BY DEF SchedulerTypeOK, PausedAsSeen
<1>2. ConnectionOf[q] \in Connections
  BY SchedulerAssumption
<1>3. CASE SkipFresh(q)
  <2>1. SchedulerTypeOK'
    <3>1. In(Min2(cache[q].mono, cache[q].wall)) \in Moment
      BY <1>3 DEF SkipFresh, Fresh, SchedulerTypeOK, Moment, In, Min2
    <3>2. read' \in [Connections -> BOOLEAN \cup {None}]
      BY <1>1, <1>2, <1>3 DEF SkipFresh, SchedulerTypeOK
    <3> QED BY <1>3, <3>1, <3>2 DEF SkipFresh, SchedulerTypeOK, Visiting, world
  <2>2. ASSUME NEW p \in Queries PROVE RestInv(p)'
    <3>1. CASE p = q
      <4>1. rest[q] = In(0)
        BY <1>3 DEF SkipFresh, Visiting, RestInv, Resting
      <4> QED BY <1>3, <3>1, <4>1 DEF SkipFresh, Visiting, RestInv, In
    <3>2. CASE p # q
      BY <1>3, <3>2 DEF SkipFresh, Visiting, RestInv, Resting, In, SchedulerTypeOK
    <3> QED BY <3>1, <3>2
  <2> QED BY <2>1, <2>2
<1>4. CASE SkipPaused(q)
  <2>1. SchedulerTypeOK'
    BY <1>2, <1>4 DEF SkipPaused, Visiting, SchedulerTypeOK, schedule, world
  <2>2. \A p \in Queries : RestInv(p)'
    BY <1>4, ScheduleUntouched DEF SkipPaused
  <2> QED BY <2>1, <2>2
<1>5. CASE Run(q)
  <2>1. SchedulerTypeOK'
    BY <1>2, <1>5 DEF Run, Visiting, SchedulerTypeOK, schedule, world
  <2>2. ASSUME NEW p \in Queries PROVE RestInv(p)'
    <3>1. CASE p = q
      <4>1. rest[q] = In(0)
        BY <1>5 DEF Run, Visiting, RestInv, Resting
      <4> QED BY <1>5, <3>1, <4>1 DEF Run, RestInv, schedule, In
    <3>2. CASE p # q
      BY <1>5, <3>2 DEF Run, Visiting, RestInv, Resting, schedule, In
    <3> QED BY <3>1, <3>2
  <2> QED BY <2>1, <2>2
<1> QED BY <1>3, <1>4, <1>5 DEF Visit

LEMMA EndRunInv == ASSUME IInv, NEW q \in Queries, EndRun(q) PROVE IInv'
<1> USE DEF IInv
<1>1. CASE RunFails(q)
  <2> DEFINE delay == Min2(IntervalFor(q) * NextFactor(q), MaxBackoff)
             length == Min2(2 * span[q], LongestRest(q))
  <2>1. /\ NextFactor(q) \in 1 .. MaxFactor /\ delay \in Nat
        /\ length \in Nat \ {0} /\ length <= IntervalFor(q) * NextFactor(q)
        /\ length <= delay
    BY FailedRest
  <2>2. /\ current = q /\ current' = None /\ pending' = pending
        /\ backoff' = [backoff EXCEPT ![q] = NextFactor(q)]
        /\ due' = [due EXCEPT ![q] = In(delay)]
        /\ span' = [span EXCEPT ![q] = length]
        /\ rest' = [rest EXCEPT ![q] = In(length)]
        /\ UNCHANGED <<tick, stage, read, world, cache>>
    BY <1>1 DEF RunFails, SchedulerTypeOK
  <2> HIDE DEF delay, length
  <2>3. SchedulerTypeOK'
    <3>1. In(delay) \in Moment /\ In(length) \in Moment
      BY <2>1 DEF In, Moment
    <3> QED BY <2>1, <2>2, <3>1 DEF SchedulerTypeOK, world
  <2>4. ASSUME NEW p \in Queries PROVE RestInv(p)'
    <3>1. CASE p = q
      <4>1. q \notin pending /\ None # q
        BY <2>2, SchedulerAssumption DEF RestInv
      <4>2. /\ span'[q] = length /\ backoff'[q] = NextFactor(q)
            /\ rest'[q] = [mono |-> length, wall |-> length]
            /\ due'[q] = [mono |-> delay, wall |-> delay]
        BY <2>2 DEF SchedulerTypeOK, In
      <4>3. Resting(q)'
        BY <2>1, <2>2, <4>1, <4>2 DEF Resting
      <4> QED BY <2>1, <2>2, <3>1, <4>1, <4>2, <4>3 DEF RestInv
    <3>2. CASE p # q
      BY <2>2, <3>2, SchedulerAssumption DEF RestInv, Resting, In, SchedulerTypeOK
    <3> QED BY <3>1, <3>2
  <2> QED BY <2>3, <2>4
<1>2. CASE RunReturns(q)
  <2>1. In(Interval[q]) \in Moment
    BY SchedulerAssumption DEF In, Moment
  <2>2. SchedulerTypeOK'
    BY <1>2, <2>1 DEF RunReturns, SchedulerTypeOK, Unread, schedule, world
  <2>3. \A p \in Queries : RestInv(p)'
    BY <1>2, ScheduleUntouched DEF RunReturns
  <2> QED BY <2>2, <2>3
<1>3. CASE RunRecorded(q)
  <2>1. IntervalFor(q) \in Nat \ {0} /\ 1 \in 1 .. MaxFactor
    BY IntervalType, SchedulerAssumption
  <2>2. SchedulerTypeOK'
    BY <1>3, <2>1 DEF RunRecorded, SchedulerTypeOK, Moment, In, Unread, world
  <2>3. ASSUME NEW p \in Queries PROVE RestInv(p)'
    <3>1. CASE p = q
      <4>1. q \notin pending /\ None # q
        BY <1>3, SchedulerAssumption DEF RunRecorded, RestInv
      <4>2. /\ span'[q] = IntervalFor(q) /\ backoff'[q] = 1
            /\ rest'[q] = In(IntervalFor(q)) /\ due'[q] = In(IntervalFor(q))
        BY <1>3 DEF RunRecorded, SchedulerTypeOK
      <4>3. Resting(q)'
        BY <1>3, <2>1, <4>1, <4>2 DEF RunRecorded, Resting, In
      <4> QED BY <1>3, <2>1, <3>1, <4>1, <4>2, <4>3 DEF RunRecorded, RestInv
    <3>2. CASE p # q
      BY <1>3, <3>2, SchedulerAssumption DEF RunRecorded, RestInv, Resting, In, SchedulerTypeOK
    <3> QED BY <3>1, <3>2
  <2> QED BY <2>2, <2>3
<1> QED BY <1>1, <1>2, <1>3 DEF EndRun

LEMMA PassInv == ASSUME IInv, StartTick \/ EndTick \/ TickFails PROVE IInv'
<1> USE DEF IInv
<1>1. CASE StartTick
  <2>1. SchedulerTypeOK'
    BY <1>1 DEF StartTick, SchedulerTypeOK, schedule, world
  <2>2. ASSUME NEW q \in Queries PROVE RestInv(q)'
    <3>1. current = None /\ None # q
      BY <1>1, SchedulerAssumption DEF StartTick, SchedulerTypeOK
    <3>2. CASE rest[q] = In(0)
      BY <1>1, <3>1, <3>2 DEF StartTick, RestInv, schedule, In
    <3>3. CASE Resting(q)
      <4>1. ~IsDue(q)
        BY <3>3 DEF Resting, IsDue, Passed
      <4> QED BY <1>1, <3>1, <3>3, <4>1 DEF StartTick, RestInv, Resting, schedule
    <3> QED BY <3>2, <3>3 DEF RestInv
  <2> QED BY <2>1, <2>2
<1>2. CASE EndTick \/ TickFails
  <2>1. SchedulerTypeOK'
    BY <1>2 DEF EndTick, TickFails, SchedulerTypeOK, Unread, schedule, world
  <2>2. ASSUME NEW q \in Queries PROVE RestInv(q)'
    BY <1>2, SchedulerAssumption
       DEF EndTick, TickFails, SchedulerTypeOK, RestInv, Resting, schedule, In
  <2> QED BY <2>1, <2>2
<1> QED BY <1>1, <1>2

LEMMA TimeInv ==
  ASSUME IInv, NEW awake \in {0, 1}, NEW set \in {-1, 0, 1}, Advance(awake, set)
  PROVE  IInv'
<1> USE DEF IInv
<1> DEFINE later(m) == [mono |-> Max2(m.mono - awake, 0), wall |-> Max2(m.wall - set, 0)]
<1>1. \A m \in Moment : later(m) \in Moment
  BY DEF Moment, Max2
<1>2. SchedulerTypeOK'
  <2>1. due' \in [Queries -> Moment] /\ rest' \in [Queries -> Moment]
    BY <1>1 DEF Advance, SchedulerTypeOK, In, Moment
  <2>2. cache' \in [Queries -> Moment \cup {None}]
    BY <1>1 DEF Advance, SchedulerTypeOK
  <2> QED BY <2>1, <2>2 DEF Advance, SchedulerTypeOK, pass, world
<1>3. ASSUME NEW q \in Queries PROVE RestInv(q)'
  <2>1. /\ due[q] \in Moment /\ rest[q] \in Moment
        /\ due'[q] = later(due[q])
        /\ rest'[q] = IF Passed(later(rest[q])) THEN In(0) ELSE later(rest[q])
    BY DEF Advance, SchedulerTypeOK
  <2>2. CASE rest'[q] = In(0)
    BY <2>2 DEF Advance, RestInv, pass, In
  <2>3. CASE rest'[q] # In(0)
    <3>1. rest'[q] = later(rest[q]) /\ ~Passed(later(rest[q]))
      BY <2>1, <2>3
    <3>2. Resting(q)
      <4>1. rest[q] # In(0)
        BY <3>1 DEF In, Passed, Max2
      <4> QED BY <4>1 DEF RestInv
    <3>3. /\ later(rest[q]).mono \in 1 .. later(due[q]).mono
          /\ later(rest[q]).wall \in 1 .. later(due[q]).wall
      BY <2>1, <3>1, <3>2 DEF Resting, Passed, Max2, Moment
    <3>4. Resting(q)'
      BY <2>1, <3>1, <3>2, <3>3 DEF Resting, Advance, pass
    <3> QED BY <3>4 DEF RestInv, Advance, pass
  <2> QED BY <2>2, <2>3
<1> QED BY <1>2, <1>3

LEMMA NextInv == IInv /\ [SchedulerNext]_schedulerVars => IInv'
<1> SUFFICES ASSUME IInv, [SchedulerNext]_schedulerVars PROVE IInv'
  OBVIOUS
<1>1. ASSUME NEW q \in Queries, OtherRun(q) \/ CacheLoses(q) \/ EditRules(q) PROVE IInv'
  <2>1. In(Interval[q]) \in Moment
    BY SchedulerAssumption DEF In, Moment
  <2>2. SchedulerTypeOK'
    BY <1>1, <2>1
       DEF IInv, OtherRun, CacheLoses, EditRules, SchedulerTypeOK, schedule, pass, world
  <2>3. \A p \in Queries : RestInv(p)'
    BY <1>1, ScheduleUntouched DEF OtherRun, CacheLoses, EditRules, pass
  <2> QED BY <2>2, <2>3 DEF IInv
<1>2. ASSUME NEW c \in Connections, PauseOrResume(c) PROVE IInv'
  <2>1. SchedulerTypeOK'
    BY <1>2 DEF IInv, PauseOrResume, SchedulerTypeOK, schedule, pass
  <2>2. \A p \in Queries : RestInv(p)'
    BY <1>2, ScheduleUntouched DEF PauseOrResume, pass
  <2> QED BY <2>1, <2>2 DEF IInv
<1>3. CASE Elapse \/ Sleep \/ SetBack
  BY <1>3, TimeInv DEF Elapse, Sleep, SetBack
<1>4. CASE UNCHANGED schedulerVars
  <2>1. SchedulerTypeOK'
    BY <1>4 DEF IInv, SchedulerTypeOK, schedulerVars, schedule, pass, world
  <2>2. \A p \in Queries : RestInv(p)'
    BY <1>4, ScheduleUntouched DEF schedulerVars, schedule, pass
  <2> QED BY <2>1, <2>2 DEF IInv
<1> QED BY <1>1, <1>2, <1>3, <1>4, VisitInv, EndRunInv, PassInv DEF SchedulerNext

\* The schedule, the backoff factors and the pass keep their types and bounds.
THEOREM SchedulerTypeCorrect == SchedulerSpec => []SchedulerTypeOK
<1>1. SchedulerInit => IInv
  BY InitInv
<1>2. IInv /\ [SchedulerNext]_schedulerVars => IInv'
  BY NextInv
<1>3. IInv => SchedulerTypeOK
  BY DEF IInv
<1> QED BY <1>1, <1>2, <1>3, PTL DEF SchedulerSpec

\* A run the scheduler starts finds the rest after the previous one over.
THEOREM Rests == SchedulerSpec => RestsBetweenRuns
<1>1. SchedulerInit => IInv
  BY InitInv
<1>2. IInv /\ [SchedulerNext]_schedulerVars => IInv'
  BY NextInv
<1>3. IInv => \A q \in Queries : Run(q) => Passed(rest[q])
  BY DEF IInv, RestInv, Resting, Run, Visiting, Passed, In
<1>4. IInv /\ [SchedulerNext]_schedulerVars => [\A q \in Queries : Run(q) => Passed(rest[q])]_schedulerVars
  BY <1>3
<1> QED BY <1>1, <1>2, <1>4, PTL DEF SchedulerSpec, RestsBetweenRuns
=============================================================================
