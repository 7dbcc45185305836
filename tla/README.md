# Formal model of the fraud analyzer engine

TLA+ specifications of the analyzer service (`src/services/analyzer/app/`), the
TLC configurations that check them, and theorems about them proved with TLAPS.

The service is one Python process. Request handlers run in a thread pool; two
background parts, a pool of refresh threads and one scheduler thread, run the
same queries. They share an application database (PostgreSQL at READ COMMITTED
in production, SQLite in WAL mode in development), two in-process caches, a
registry of connection pools to the customers' databases, and a few module-level
dictionaries with a lock each. Almost everything that is hard about the service
lies between those: a lock that is not held across a statement, a row that was
loaded a while ago, a cache that is cleared before somebody fills it, two clocks.

## The system

| Component | State | Operations | Interacts through |
|---|---|---|---|
| Result cache (`queries/result_cache.py`) | entries, their order, a byte total | get, get_stale, set, invalidate, patch_charts, clear | called by every path that runs or edits a query |
| Rendered cache (`queries/rendered_cache.py`) | encoded responses by key, byte total | get, store, get_or_render, invalidate_query | polls; purged by the result cache |
| Query serving (`queries/{router,polling,execution,service}.py`) | the saved query and its relations | poll, forced run, update | both caches, refresher, targets |
| Refresher (`queries/refresher.py`) | in-flight marks, cooldowns on two clocks, the pool | request_refresh, _refresh, shutdown, reset | polls ask; stores results |
| Scheduler (`queries/scheduler.py`) | next due on two clocks, backoff | run_due_once, run_forever | result cache, connections, flagged rows |
| Chart publishing (`charts/service.py`) | publishing columns of a chart | publish, cancel, approve, reject, unpublish, replace | freezes edits of the query |
| Flagged rows (`flag_rules/flagged_rows.py`, `dismissals.py`) | stored findings, dismissals | sync, delete_rows, dismiss, restore, apply | every run syncs; every poll filters |
| Connections (`connections/service.py`, `db/target_registry.py`) | profiles, pooled engines | create, test, update, pause, resume, delete; get, evict, dispose | every run needs an engine |
| Rules and lists (`flag_rules/service.py`, `lists/`) | rules, list items, cached member sets | create, whole-set replace, delete; cached_members | invalidate results; every flagged run reads them |
| Flag engine (`flag_rules/{engine,schemas}.py`, `lists/matching.py`) | none | evaluate, sixteen comparisons, shape of a rule | every run |
| SQL guard (`security/sql_guard.py`, `policy/`) | a memo of accepted texts | validate | every run and every saved query |
| Users, sign-in, sessions (`users/`, `auth/`, `cli.py`) | accounts, sessions, failed attempts, row locks, the audit log | create, update, reset; authenticate, change password, issue, resolve, revoke | every request resolves a session |
| Saved queries, execution log (`queries/service.py`) | queries, their charts, rows of the log | create, delete, log, prune | a deletion cascades to charts, boards and the log |
| Dashboards (`dashboards/`) | boards and the places of charts on them | create, update, delete, claim | validates charts of `queries` |
| Rate limit | windows of clients | hit | every request |
| Fingerprints, crypto, addressing | none | pure functions | - |

`PROJECT.json` lists every component with its status, the hazards of this code
at the lines where they bite, and which property covers which hazard.

### What is hard here

* **Results outlive the definition they were made from.** A run reads the SQL
  first, the rules after the statement and the charts last, and stores its result
  whenever it is done; an edit invalidates once, after its commit.
* **Marks and rests without a transaction.** Refreshes are deduplicated by a set
  of marks that request threads, workers and a shutdown touch; what failed must
  rest on clocks that sleep or are set.
* **Decisions on rows read earlier.** Approve reads a chart, its query and its
  rules one statement after another, compares, and then writes conditionally.
* **Read, compare, commit.** `sync` of the review queue is run by several threads
  at once, with nothing but a unique constraint and counts of updated rows between
  them.
* **Sessions that never look again.** Sessions neither flush nor expire by
  themselves, and an UPDATE names only what differs from what was loaded: of two
  requests on one account, each leaves some columns of the other.
* **Whole-set replacement.** Rules, list items and the places of a board are saved by
  deleting the rows a request has seen and inserting its own; what another inserted
  in between stays.
* **Two codes for one question.** A list decides membership by keys, `in` by
  comparisons; the guard reads a statement the target reads again.

## Modules

Each component has a module; an MC module instantiates it where constants need
values a `.cfg` cannot write or where symmetry is used; its theorems are in the
module with the suffix `Proofs`. Operators named after a mistake, just before the
definition they vary ("Mutant: ..."), are what a plausible bug would look like;
the specifications do not use them.

| Module | Models | Proofs |
|---|---|---|
| `Refresher` | `refresher.py`: every critical section of the lock, the pool and its shutdown | `BackgroundProofs` |
| `Scheduler` | `scheduler.py`: a tick as the pass it is | `BackgroundProofs` |
| `Polled` | what those two share: the saved queries and their intervals | - |
| `ResultCache` | `result_cache.py`: every operation, with bytes, order and ages | `ServingProofs` |
| `QueryServing` | one query between polls, refresh, scheduler and edits; composes the two caches | `ServingProofs` |
| `Publication` | abstract: the life of a request to publish | - |
| `ChartPublishing` | the handlers of `charts/service.py`, and the edits they freeze; refines `Publication` | `ChartPublishingProofs` |
| `FlaggedQueue` | `sync`, deletion, dismissals and what a card shows | `FlaggedQueueProofs` |
| `Targets` | profiles, and the registry of engines built from them | `TargetsProofs` |
| `Accounts` | `users/service.py`, `auth/`, the commands of `cli.py`: accounts, sessions, the audit log | `AccountsProofs` |
| `Lists` | lists, rule sets, the cache of member sets and the runs that flag with them | `ListsProofs` |
| `FlagEngine` | how a rule decides about a row: operators only, no state | `TargetsProofs` |
| `SqlGuard` | the SELECT-only validator: operators only, no state | `TargetsProofs` |
| `Execution` | a run from the statement to its flags; composes `SqlGuard` and `FlagEngine` | `TargetsProofs` |
| `Workspaces` | queries, the log of their runs, charts and the boards that place them | `WorkspacesProofs` |

A module of proofs takes the components that go together: the two background parts, the two
views of serving, the targets and what is run on them. Where two specifications meet in one,
the second names its own `CacheSpec`, `SchedulerSpec`, `ExecutionSpec`, and its definitions likewise.

### Refresher

`inFlight`, `cooldown`, `pool` are the module's variables of the same names; a
request thread is `thread[r]` (tested and marked, got the pool, submitting), a
submitted refresh `task[t]` (queued, loading, running, failed, leaving).
`RequestRefresh` is the first critical section of `request_refresh`, `GetPool` and
`Submit`/`SubmitRefused` the rest of it; `Take`, `LoadSkipped`, `Loaded`,
`RunSucceeds`, `Fails`, `ClearCooldown`, `HoldOff`, `Leave` are `_refresh`
in order, with its `finally`; `ShutdownTake` and `ShutdownStop` are `shutdown`
before and after it gives up the lock. What a refresh writes elsewhere is one
stage here and the subject of `QueryServing`.

### ResultCache

`entries`, `order` and `total` are `_entries` and `_total_bytes`. An entry holds
its size and its age: what the monotonic and the wall clock say (`mono`, `wall`), and
history that only properties read: how long ago the run was that the result is of
(`real`), how much of that the machine slept (`asleep`), how far the wall clock was set
(`ahead`). Time adds a step to every age in `AgeEntries`; the monotonic clock gets none of
`Sleep`, and `AdjustWall` moves the wall clock alone. A store begins an age and a redraw
must not: `FreshForItsInterval` ties what is served as fresh to `real`, in both
directions, for every order of stores, reads, redraws and clocks. Each function of the module
is one action, since each holds the lock throughout. `recent` records the order in
which entries were last stored or served, independently of `order`. A move to the end of
`OrderedDict` is a removal (`RemoveAt`) and an append.

### QueryServing

A result is the record of the versions it was made from (`made["sql"]`, `"rules"`,
`"charts"`) and of its run (`id`, the `executed_at` the rendered cache keys on).
`StartRun`, `Evaluate`, `Build` are the three reads of `run_saved_query` in their
order, `Store` the caching. `PollHit` and `PollMiss` are the branches of `poll_one`,
`Respond`/`RenderedHit`/`StoreRendered` the branches of the router that
encode and keep bytes. An edit commits, then invalidates or, for charts, rereads
and patches, then purges the rendered bytes, each a step of its own. An entry is
fresh or stale; ages are in `ResultCache`, the dedup and rest of refreshes in
`Refresher`: here a refresh is either under way or not. `late` is history: the
kinds of edit that were committed while the thing stored was being made.

### Scheduler

A moment is what is left until each clock reaches it. `StartTick` picks the due
queries, `Visit` (skip fresh, skip paused, run) and `EndRun` (failed, returned,
recorded) go through them one at a time, `TickFails` is an exception outside the
`try`, `EndTick` the sleep. `rest` and `span` are history: the rest the last run
earned. Rules, the connection, other runs of the query and the cache change under
it.

### ChartPublishing and Publication

A thread's `req[t]` holds what its handler has read. A definition is the version of
its query, rules and mapping; the fingerprint is injective in them (the code
hashes a canonical encoding). `ApproveStarts`, `ApproveReadsQuery`,
`ApproveCompares`, `ApproveWrites` are the statements of `approve`. Every write is
the conditional UPDATE of the code (`StillAsked`). Edits are `EditStarts` (the
freeze is tested) and, later, the commit. `Publication` promises only this: a
request is asked for once and decided at most once, in one step, while its chart is
pending on it.

### FlaggedQueue

`RunQuery`, `ReadExisting` and `SyncCommits`/`SyncFails` are a run and `sync`: the
read of the table, and the commit, which goes through only if no updated row is
gone and no inserted one exists. A finding is the fingerprint of a row;
`firstSeen` its `first_seen_at`. `Served` is `apply_dismissals`; a `card` is what a
reader's screen last got, with the hash it was told.

### Targets

`row[c]` is the stored profile, `op[t]` the profile as thread `t` loaded it and what
it is doing. `EditCommits` writes the columns that differ from what was loaded;
`Dispose`, `Probe`, `Record` and `Drop` follow in the order of each handler.
`GetEngine` is the body of `get_engine` under its lock, eviction included. History:
`behind` are the columns others have written since the load, `late` what an
engine's builder was behind on, `tested` and `mixed` the verdict recorded last.
A field with the same value before and after an edit is not written, as in the ORM,
except those in `Rewritten`: a password is encrypted anew, so it always differs.

### Accounts

`row[u]` is the stored account and `req[t]` what a request is doing: `loaded` is the row as
its session has it, `want` what the handler makes of it. `Written` is the UPDATE: of each
column, what was wanted if it differs from what was loaded, else what is stored now.
`update_user` is `Admit` (the session of the administrator), `PatchLoads` with the early return
of `guard_last_admin`, `Finds` and `Guard` (SELECT ... FOR UPDATE finds its rows, waits for
them, and looks again at each), `PatchCommits`. Signing in is `LoginLoads`, then `LoginFails` or
`LoginSucceeds` and `Issue`; a change of a password is `ChangeLoads` and its three commits,
`ChangeCommits`, `ChangeRevokes`, `ChangeRestores`. `Crash` may come between any two of them.
Passwords are numbers. History: `issued` are the passwords somebody else chose, `proof` is what
a session was opened with, `excused` the sessions whose opening overlapped what was to end them,
`mixed` the accounts two overlapping requests wrote, `raced` a change the guard let through on a
row loaded before its target became an administrator.

### Lists

A save is known by its number, which is what the items and rules it writes hold. A save of a
list is `SaveLoads` (the rows its DELETE has seen), `SaveReplaces` (it waited for whoever deletes
the same rows), `SaveCommits` (with `version = version + 1` computed by the database), then
`SaveFinds` and one `Invalidate` for each query found; one of a rule set is `RulesLoad`,
`RulesClear`, `RulesCommit`. A run loads rules and versions at once (`RunLoads`), resolves each list
from the cache (`Resolves`) or reads it and stores the set (`Reads`, `Remembers`), and stores its
result. Foreign keys are the guards of the commits.

### SqlGuard, FlagEngine, Execution

`SqlGuard` takes a statement as the sequence of tokens the parser reads in it and answers as
`validate` does, check by check in the order of the code; `Words` are the positions that are
no comments, `Stripped` what is left when those go. `FlagEngine` has a text as a member of
a lexicon that says what the coercions read in it (a number, a boolean, its folded key, its
rank, what it contains); every operator of `engine.py` is one operator over cells. `Execution` is
the run: `Ask`, of a saved query or a preview (`RowLimits`, `PreviewLimits`: no limit asked for is
the default, one out of its range is refused, a preview has a ceiling of its own), the guard, the fetch of one row past the limit, coercion within a budget of
bytes row by row, then the rules row by row. `held` is history: all the rows the target has, with which
`TruncatedTellsTheRest` compares the rows that are kept, one by one, and their widths, summed anew
(`Weight`), with the budget. The properties compare with reference definitions:
a statement is generated from what its author means, so `VerdictMatchesStatement` compares the
verdict on the tokens with that meaning; `ListsReadLikeIn` compares list membership with the
comparison of every item.

### Workspaces

`query`, `chart` and `board` are owners, `items[b][c]` the place of a chart on a board. Handlers
read, wait, and commit once: `CreateStarts`/`CreateCommits`, `DeleteStarts`/`DeleteCommits` with
their cascades; a save of a board is its validation (`validated`), the items its session loads
(`loaded`), and the commit that deletes those and inserts its own; a chart asked for twice keeps
its first position, and `PlaceOf` is how many others are first met before it. The log is a set of
rows, each with an `id` nobody else has (`UnusedId`). A start of the service
(`Restart`) prunes the log before anything is served. `torn` and `helped` are history: boards that
two overlapping saves wrote or a chart has left, and boards an administrator arranged, who may
place what the owner may not see.

## What the runs check

Numbers are distinct states. Each property has a mutant: a definition changed the
way a plausible bug would change it, for which TLC finds the property violated.

| Run | Bounds | Shows |
|---|---|---|
| `Refresher` | 1 query, 2 polls, 1 worker, 2 queued tasks, 1 shutdown, clocks to 2; 91 000 | one refresh per query; a failed one rests; no mark is lost or kept for ever |
| `ResultCache` | 3 queries, sizes 1, 2, 4, budget 3, 2 entries, interval 2, grace 1, ages to 3; 56 000 | books, freshness counted from the run, bounds restored by a store, LRU order |
| `QueryServing` | 1 reader, refresher, scheduler, 1 rules and 1 chart edit; 3.1 million | what is old in either cache overlapped an edit |
| `QueryServingLive` | 1 SQL and 1 chart edit; 133 000 | everything served comes to match the saved query |
| `Scheduler` | 2 queries, rests 1, 2, 3; 285 000 | rests are kept; nobody starves |
| `ChartPublishing` | 1 chart, 2 requests, 2 threads, edits of all three parts; 1.3 million | refinement of `Publication`; an approval publishes what was reviewed |
| `FlaggedQueue` | 2 findings, 2 overlapping runs, 1 reader and tab, 2 changes; 1.1 million | the queue follows the runs; `first_seen_at` survives; "unchanged" is true; it settles |
| `Targets` | 2 connections, 2 threads, 1 engine, 2 commits; 2.7 million | engines follow profiles; the status is the last verdict |
| `Accounts` | 2 accounts, 2 threads, 3 sessions, 3 requests, lock at 2 failures; 1.7 million | an administrator remains; sessions end with what opened them; issued passwords are replaced; the log tells the accounts |
| `Lists` | 1 list, 1 query, 2 rule names, 2 editors, 2 runs, 2 saves; 1.6 million | member sets are current; saves replace; rules read lists that exist; results follow both |
| `Execution` | statements with at most 2 traits, 14 texts, up to 3 rows, limits none and 0 to 3 of 2, default 2, preview 1, budget 5; 38 000 | verdicts, the rows returned, budgets, outcomes, and lists against `in` |
| `Workspaces` | 2 users, 2 queries, 3 charts, 1 board, 2 threads, 3 requests, 1 row and 1 day kept, clock to 2; 582 000 | boards are whole and show their owner's charts; a prune keeps the newest |

Why the bounds are enough to mean something. Every run has two actors that can
interleave at each read and write, and one event more than is needed for a race:
two polls and a worker (so that one refresh waits behind another), three results
where two fit (so that an eviction has a choice), an edit before and one during a
run, two requests for a chart (so that a withdrawn one can be mistaken for its
successor), two rests before the ceiling, one place for two engines, two administrators who
demote each other, a list saved while it is deleted and read, one row kept of two. Every action
of every module is taken in some run. Where a bound is in a guard it has a name:
`MaxTime`, `MaxShutdowns`, `MaxAge`, `MaxEdits`, `MaxAhead`, `MaxChanges`,
`MaxCommits`, `MaxRequests`, `MaxSaves`; identities of results (`Ids`) are used again once nobody holds them.

`Accounts`, `Lists` and `Workspaces` set `CHECK_DEADLOCK FALSE`: the requests are bounded, and when
they have been made the system really rests. The type invariants of `Scheduler`, `FlaggedQueue` and
`QueryServing`, `ResultCache`, `Lists` and `Workspaces` are theorems and are not run again.

Symmetry is used in safety runs only: threads and requests are compared with one
another and nothing else; queries of `ResultCache` share one TTL.

### Fairness

* `Refresher`: threads that hold a mark go on; an executor's queue is first in,
  first out, so a task is not passed over for ever (strong fairness of `Take`);
  statements end because each has a timeout. Polls, clocks, shutdowns are not forced.
* `QueryServing` (`QueryServingLive` only): a reader keeps polling; entries grow
  old; a target that is asked again and again answers some time (strong fairness of
  `Evaluate`). Edits, forced runs and evictions are not forced.
* `Scheduler`: `run_forever` ticks, runs end, time passes. Nothing is assumed of
  failures; `KeepsWatching` excludes only passes that break off again and again
  with runs left to do.
* `FlaggedQueue`: the scheduler runs the query, a sync that was started ends.

The other runs state safety only: what people do next nobody promises, and their requests end
in one of a handful of steps.

## What is proved

For every value of the constants, under the named assumptions of each module.
The assumptions say what a constant is (a natural number, a nonempty set, `None`
outside the values, results made of driver values) and nothing about its size, except that `Ids` of
`QueryServing` has more elements than can be held at once: `FreshIdType` proves that one is then
always free; and `PolicyAssumption` of `Execution`, which says of the lists of `sql_allowlist.py`
what they must hold and leave out for the meaning of a statement to decide: only SELECT may lead,
INSERT, UPDATE and INTO are forbidden, the words a plain read is written with are not. It is weaker
than the lists. Every safety property of every run is a theorem.

* **`BackgroundProofs`**, the refresher — `TypeCorrect`, `SingleFlight`, `CooldownRespected`,
  `MarksAreOwned`. `OneRefreshPerQuery` says nothing of request threads, so it is
  not inductive: `SoleOwner` makes the mark a token that exactly one thread or task
  holds. `RestedOwners` says that the holder's query owes no rest, `ColdWhileOwed`
  that a query that owes one is still cooling down on both clocks; `LiveMark` adds to
  `NoLostMark` that a queued owner sits in an executor that is still alive. The scheduler —
  `SchedulerTypeCorrect`, `Rests`. `RestInv`: a query that has not rested is not due, pending or
  running, and the rest earned is no longer than the one the code computes from the backoff
  factor (lemma `Doubling`).
* **`ServingProofs`**, one query — `TypeCorrect`, `InvalidationReachesCache`,
  `PurgeReachesRendered`. `ServingInv` adds what a runner between its reads and its
  store knows: whatever it holds that is older than the database is marked late for
  it, and a chart edit between its commit and its redraw is pending.
* **`ServingProofs`**, the result cache — `CacheTypeCorrect`, `BytesAreAccounted`, `FreshForInterval`,
  `StoresRestoreBounds`, `EvictsOldest`. The books are a sum over the entries held: that a sum over
  a finite set splits at any element is proved by induction on the set (a counterexample of least
  size, by well-founded induction, has no element to take away), and each operation then adds and
  takes away what it stores and drops. That the loop of evictions ends within both bounds is an
  argument about the length of the prefix it drops. LRU is not inductive over `order` alone:
  `Ranked` says that `order` and the history `recent` put the entries in the same line. `Clocked`
  says what the two clocks of an entry have to do with its true age, and is kept by all that does
  not begin an age anew.
* **`ChartPublishingProofs`** — `TypeCorrect`, `ReviewCounts`, and `DecidedOnce`,
  the refinement of `Publication`. `Book` relates a request's outcome to the chart
  that waits on it, one chart per request; `Reviewing` says what a thread in the
  middle of `approve` may still rely on.
* **`FlaggedQueueProofs`** — `TypeCorrect`, `QueueIsThePresent`, `FirstSeenKept`,
  `CardsAreRight`. `Reads`: what a sync between its read and its commit holds is
  stored unless it is known to be gone, and while it is alone nobody has inserted.
* **`TargetsProofs`**, the profiles — `EnginesFollow`, `StatusHolds`, `TargetsTypes`. `Knows`: the
  profile a thread has loaded differs from the stored one only in columns others have written since,
  and in what it has set and not committed. `Fits` says which columns each kind of
  edit writes; without it a reconnect, which disposes nothing, would break the first. `Orderly`: the
  order holds the connections that have an engine, each once, and no more than the bound; so an
  eviction drops one of them and the registry stays within its limit.
* **`TargetsProofs`**, a run — `TruncatedTells`, `OutcomesAddUp`, `ListsRead`, `VerdictMatches`.
  `Answered` says how the rows fetched, those coerced and their bytes stand to the result and the
  limit at each step; `Kept` that the rows are the coerced first rows of the target's and that the
  bytes on the books are their sum. A sum over a sequence is a recursive function: that there is one
  for these rows and what it comes to is carried along the run, row by row (`SumsOfOneMore`), and
  needs no induction over data. `Evaluated` says how hits, tallies and warnings stand to the rules used and those
  that are not, in their order. `ListsRead` needs no invariant but the members of a stored set
  (`MembersAre`): the two ways to compare agree on every pair of readings.
* **`TargetsProofs`**, the guard — `VerdictMatches`, for any word, and any number of semicolons and
  place of the comment. Its second half holds for any tokens at all (`GuardStands`): stripping what has been
  stripped changes nothing, a text without a semicolon is one statement (`SpansOne`), and the checks
  say the same of a statement with its semicolon and without (`WithoutEnd`, `WithEnd`). The first
  half goes by how a statement is written: a comment among its words is all that stripping takes
  away (`StrippedInserted`); what is left is a statement, semicolons and perhaps another, and is
  accepted if one of the two is empty and the other passes (`PartsOf`, `VerdictOf`). What passes is
  found part by part: the type is the command behind the table of a WITH, whose own command is in
  parentheses (`TypeOfOne`), no call goes over the end of a part (`JoinedCalls`), and forbidden
  words, locks and ambiguous literals are a matter of the set of tokens (`PassesIs`).
* **`AccountsProofs`** — `TypesHold`, `AdministratorRemains`, `LogTells`. That somebody can
  administer is not inductive: `Held` says that locked rows are active administrators' and that a
  guarded change which takes one away holds two, so the other is left when it commits; that
  nobody else writes a locked row is what `Free` gives. `Same` (lemmas `WritesKeep`, `LapseKeeps`)
  is why no other handler matters: it writes neither column. `Existing` (what a request is about is
  stored; accounts are never deleted) makes the types inductive.
* **`AccountsProofs`**, credentials — `SessionsFollow`, `IssuedReplaced`, both from `CInv`. `Sound`
  says of a request what it may still rely on when it was not overtaken: a sign-in that has proved
  a password holds the present one, a change knows the session it came with; `Numbered` that the next
  password is new. A handler either keeps the credentials of an account (`Keeps`) or overtakes
  everybody who is about to open a session of it.
* **`ListsProofs`** — `ListTypes`, `MembersCurrent`, `SavesReplaceAll`, `NoRuleWithoutList`,
  `FlagsFollow`, all from `LInv`. `Versioned`: a version a list has had never returns with other
  items, so a set remembered under it is current. `Replaces`: a save that was not overtaken has seen
  every row its DELETE should take. `Evaluates`: a run that was not overtaken holds the rules and the
  members there are, or those of a save whose invalidation is still to come (`Drops`).
* **`WorkspacesProofs`** — `TypeCorrect`, `BoardsShow`, `BoardsWhole`, `PruneKeeps`. A save holds
  charts it validated while others delete and claim; `Sound` says that each of them is still its
  caller's or deleted for good, and `Kept` and `Placing` that what is stored refers to what is stored.
  That both tables are claimed in one transaction is used: a claim of the queries alone breaks it.
  `Whole` adds that a save that is not late has loaded what the board still holds; `PlacesFill`, by
  induction on the charts asked for, that places run from zero without a gap. A prune drops by age
  and by the age of the newest row without room: `CutoffIs` finds that row, `TrimmedFits` counts what is left.

Only model-checked: all liveness (`MarkReleased`, `EventuallyCurrent`, `KeepsWatching`,
`EventuallyThePresent`: the prover has no ENABLED). The theorem about the guard is about the
statements of `Statements`, with what sqlparse makes of a text as its premise: that `Stripped`,
`Spans` and `TypeOf` are sqlparse's is not proved.

## Where the source disagrees with itself

What was met while modelling. The modules do what the code does, and the properties say
what does hold; the sentences quoted here claim more.

Serving and scheduling:

* `queries/service.py:227` "The cached result belongs to the old definition. Anything else would
  serve rows from SQL the user just replaced": a run in flight stores such a result after the
  invalidation. `OldOnlyIfOverlapped` allows exactly that, and `EventuallyCurrent` that it does not last.
* `queries/rendered_cache.py:37` "two responses with the same served hash are the same
  response": the key has no trace of the charts, and bytes encoded across a redraw are stored
  after its purge (line 183); `RenderedOldOnlyIfOverlapped`.
* `queries/scheduler.py:136` "Every failure is caught and turned into backoff": the sync after
  a run is outside the `try` (line 181). `RestsBetweenRuns` is about the rest that was recorded.
* `queries/scheduler.py:160`: a failed scheduled run leaves no row in the execution log, a failed
  poll or refresh does. A refresh that stored its result and fails in the sync counts as failed.

* `queries/polling.py:97` "Only a query nobody has ever run blocks, and only once":
  every poll before the first stored result runs the query.
* `queries/result_cache.py:13` "The bound is bytes": a redraw may exceed it until the
  next store (`StoreRestoresBounds`).
* `queries/result_cache.py:109` "at most one interval old": the grace is one setting,
  five minutes by default, whatever the interval.
* `clock.py:20` "The only mistake left is a wall clock stepped *forward*": a machine that slept while
  its wall clock was set back looks younger on both clocks (`Unseen` in `FreshForItsInterval`).
* `queries/scheduler.py:24` a failed query "doubles its own delay": up to a limit that
  may be shorter than its own interval.
* `queries/router.py:158` on drift under a published chart: the freeze is tested before
  the SQL is tried on the target, and the edit commits after it. `drifted` marks it.
* `flag_rules/flagged_rows.py:4` "makes the stored set equal the matched set": two
  overlapping syncs leave the union; the next quiet run mends it.
* `flag_rules/flagged_rows.py:17` "A dismissed row is never re-inserted": every match
  is stored, as lines 83-86 explain.
* `flag_rules/dismissals.py:77` the second tab "is not an error": when both have read
  before either commits, the second commit violates the unique constraint.
* `flag_rules/flagged_rows.py:66` "removing the last rule should empty its section":
  only a run does, and the scheduler skips such a query.
* `connections/service.py:105` a changed password "must not keep serving from a pool
  built with the old credentials": a thread that loaded the profile before the change
  builds a pool from it after the disposal, and later threads use that pool. The same
  holds of `connections/models.py`, "the engine holds nothing open" while paused, and
  of a deleted connection.

Accounts:

* `users/service.py:63` "Refuse a change that would leave nobody able to administer": the early
  return (lines 104-107) looks at a row the session may have loaded long before; a target
  promoted since is deactivated without a count. `raced` in `AdminRemains`.
* `auth/service.py:51-58`, "the last admin cannot be locked out": the count takes no lock. One of
  two administrators is locked for failures, then the other is demoted: the sole one left is locked.
* Overlapping writes of a password mix their columns (`mixed`): a reset during a change may leave a
  password that has to be changed without an expiry, or one with the other's.
* A change of a password puts its own session back after ending all of them, also when a reset or
  a logout ended it in between; a sign-in that overlaps a reset may open its session after it; a
  crash after the first of the three commits leaves the other sessions. These are `excused`.
* `failed_login_count` is read, increased in Python and written: overlapping failures count once.

Lists and rules:

* Overlapping saves of one list, or of one rule set, leave the rows of both (`mixed`).
* `flag_rules/service.py:130` answers any integrity error with "A list used by these rules no longer
  exists", also the one two overlapping saves of a rule of the same name get;
  `lists/service.py:345` answers "A list named ... already exists" when the list was deleted
  meanwhile.
* `lists/service.py:349`: if the lookup of the queries fails, the list is saved and the results
  flagged with the old items stay until they expire.
* `flag_rules/engine.py:416` "can never match" is said of `neq` as of `eq`, and of `eq 1` on a
  numeric column: neither is true of the engine.
* A list trims and folds the cells it compares, `in` compares them as they are; a cell that is a
  boolean falls between two texts. `ListsReadLikeIn` states where the two agree.

Queries and boards:

* `queries/service.py:380` "Keep only the newest ``keep`` rows per query": rows as old as the newest
  row without room go with it, so fewer may stay (`PruneKeepsNewest` says so).
* `dashboards/service.py:133` "cannot leave a gap or a duplicate position behind": two overlapping
  saves leave the union, with duplicates; and `dashboards/models.py:41` "Contiguous from 0
  after any write" is not so after a chart is deleted. Both are `torn`.
* A chart deleted under a save of a board is answered as a name that is taken.
* `queries/router.py:175`: the freeze is tested when a deletion starts; a chart published before its
  commit is deleted all the same.

## Not modelled

* The rate limit: one window per client under one lock.
* Secrets, paths and addressing: pure functions over strings and library ciphers.
* Introspection: reads of a target's catalogue.
* Drivers: how an engine is configured for each database, deadlines, translation of errors.
* The idle timeout of a session and the hours of a temporary password; names and addresses.
* The lexing of sqlparse (external: `SqlGuard` begins with its tokens) and the guard's memo.
* Configuration, logging, formatting, generated and deployment code.

The notes in `PROJECT.json` say what of a partly modelled component is left.

A crash is an action where something stored is left half done by it: `Crash` in `Accounts` (a
change of a password has three commits) and in `Lists` (a save, then the invalidations), `Restart`
in `Workspaces` (a start prunes). Elsewhere caches, marks and due times are in memory and start
empty, which is `Init`, and a handler commits once, after which its thread may stop for good.

## Plan

In this order:

1. **Rate limit**: the window of a client and the bound on clients.
2. **Targets**: the translation of driver errors and the deadlines of statements, with what a failed
   run leaves behind.
3. The idle timeout of sessions in `Accounts`, renewed by every request.
