----------------------------- MODULE FlaggedQueue -----------------------------
(***************************************************************************)
(* The review queue of one query: the findings stored after every run      *)
(* (features/flag_rules/flagged_rows.py) and what each reader has dismissed *)
(* of them (dismissals.py).                                                *)
(*                                                                         *)
(* Any number of runs may be under way at once -- a blocking poll in a     *)
(* request thread, a background refresh, the scheduler -- and sync gives   *)
(* each of them its own read of the table and, later, one commit.  A       *)
(* commit goes through only if the rows it updates still exist and the     *)
(* rows it inserts do not exist yet (the unit of work counts the rows of   *)
(* an UPDATE; uq_flagged_rows_row refuses a second INSERT).  Otherwise it  *)
(* is rolled back as a whole.                                              *)
(***************************************************************************)
EXTENDS Integers, FiniteSets

CONSTANTS
  Findings,  \* fingerprints of the rows the rules may match
  Runs,      \* threads that run the query
  Scheduled, \* those of them that are the scheduler's
  CachesFirst, \* those that cache their result before they sync, not after
  Users,     \* readers of the queue
  Tabs,      \* requests to dismiss rows
  MaxTime,   \* bound on the clock
  MaxChanges, \* bound on changes of the data and the rules, and deletions
  None       \* no row, and no cached result

ASSUME RunsAssumption == Scheduled \subseteq Runs /\ CachesFirst \subseteq Runs
ASSUME TabsAssumption == Tabs # {} => Users # {}
ASSUME BoundsAssumption == MaxTime \in Nat /\ MaxChanges \in Nat
ASSUME NoneAssumption == None \notin Nat

VARIABLES
  hits,      \* the rows of the target the query's rules match now
  ruled,     \* the query has rules
  firstSeen, \* flagged_rows: first_seen_at of each stored finding, or None
  run,       \* run[r]: a run and the sync that follows it
  dismissed, \* flag_dismissals, by user
  tab,       \* tab[t]: a request to dismiss, between its reads and its commit
  cache,     \* flagged rows of the cached result, unfiltered, or None
  card,      \* card[u]: the marks u's dashboard shows and the hash they came with
  now,       \* utcnow()
  changes,   \* how often the data or the rules changed or rows were deleted
  last       \* history: the sync that committed last

vars == <<hits, ruled, firstSeen, run, dismissed, tab, cache, card, now,
          changes, last>>
world == <<hits, ruled, changes>>
reading == <<dismissed, tab, card>>

Stored == {f \in Findings : firstSeen[f] # None}

IdleRun == [step |-> "idle", matched |-> {}, held |-> {}, gone |-> {},
            alone |-> TRUE, at |-> 0]
IdleTab == [busy |-> FALSE, fresh |-> {}, user |-> CHOOSE u \in Users : TRUE]

RunType == [step : {"idle", "ran", "read"}, matched : SUBSET Findings,
            held : SUBSET Findings, gone : SUBSET Findings,
            alone : BOOLEAN, at : 0 .. MaxTime]
LastType == [matched : SUBSET Findings, alone : BOOLEAN, cleared : SUBSET Findings]
TabType == [busy : BOOLEAN, fresh : SUBSET Findings, user : Users]
\* A hash is the result it was taken of and, when a dismissal removed a mark,
\* the stamp of the reader's dismissals; {} when none did.
Card == [marks : SUBSET Findings, of : SUBSET Findings, stamp : SUBSET Findings]

\* The tables and the requests hold what the code may put there.
TypeOK ==
  /\ hits \subseteq Findings /\ ruled \in BOOLEAN
  /\ firstSeen \in [Findings -> (0 .. MaxTime) \cup {None}]
  /\ run \in [Runs -> RunType]
  /\ dismissed \in [Users -> SUBSET Findings]
  /\ tab \in [Tabs -> TabType]
  /\ cache \in (SUBSET Findings) \cup {None}
  /\ card \in [Users -> Card]
  /\ now \in 0 .. MaxTime /\ changes \in 0 .. MaxChanges
  /\ last \in LastType

Init ==
  /\ hits = {} /\ ruled = TRUE
  /\ firstSeen = [f \in Findings |-> None]
  /\ run = [r \in Runs |-> IdleRun]
  /\ dismissed = [u \in Users |-> {}]
  /\ tab = [t \in Tabs |-> IdleTab]
  /\ cache = None
  /\ card = [u \in Users |-> [marks |-> {}, of |-> {}, stamp |-> {}]]
  /\ now = 0 /\ changes = 0
  /\ last = [matched |-> {}, alone |-> TRUE, cleared |-> {}]

-----------------------------------------------------------------------------
(* A run and its sync.                                                     *)

\* The query is executed and its rules evaluated.  A refresh and the scheduler
\* cache the result at once, a request only after the sync.  The
\* scheduler leaves a query without rules alone; any other run of it matches
\* nothing.
RunQuery(r) ==
  /\ run[r].step = "idle"
  /\ r \in Scheduled => ruled
  /\ LET matched == IF ruled THEN hits ELSE {}
     IN  /\ run' = [run EXCEPT ![r] = [IdleRun EXCEPT !.step = "ran",
                                                      !.matched = matched]]
         /\ cache' = IF r \in CachesFirst THEN matched ELSE cache
  /\ UNCHANGED <<world, firstSeen, reading, now, last>>

\* sync looks at the clock, then reads the stored findings of the query.
ReadExisting(r) ==
  /\ run[r].step = "ran"
  /\ run' = [run EXCEPT ![r] = [@ EXCEPT !.step = "read", !.held = Stored,
                                         !.gone = {}, !.alone = TRUE, !.at = now]]
  /\ UNCHANGED <<world, firstSeen, reading, cache, now, last>>

\* No row to update has been deleted since it was read, none to insert is there.
Fits(r) ==
  /\ run[r].matched \cap run[r].gone = {}
  /\ (run[r].matched \ run[r].held) \cap Stored = {}

\* Mutant: rows that no longer match are kept.
DroppedNever(r) == {}

\* What the commit deletes: rows it read that no longer match.  They are
\* deleted by id, so a row inserted again since then stays.
Dropped(r) == run[r].held \ (run[r].matched \cup run[r].gone)

\* Mutant: an update renews first_seen_at.
SyncedAnew(r) ==
  [f \in Findings |-> IF f \in run[r].matched THEN run[r].at
                      ELSE IF f \in Dropped(r) THEN None
                      ELSE firstSeen[f]]

\* Mutant: a stored row that was dismissed by anybody is left out.
SyncedUndismissed(r) ==
  [f \in Findings |->
     IF f \in run[r].matched \ (run[r].held \cup UNION {dismissed[u] : u \in Users})
     THEN run[r].at
     ELSE IF f \in Dropped(r) THEN None
     ELSE firstSeen[f]]

\* first_seen_at after the commit: kept rows keep theirs.
Synced(r) ==
  [f \in Findings |-> IF f \in run[r].matched \ run[r].held THEN run[r].at
                      ELSE IF f \in Dropped(r) THEN None
                      ELSE firstSeen[f]]

\* The rows in lost are deleted: whoever had read them now holds rows that are
\* gone.
Forget(runs, lost) ==
  [r \in Runs |-> [runs[r] EXCEPT !.gone = @ \cup (runs[r].held \cap lost)]]

SyncCommits(r) ==
  /\ run[r].step = "read"
  /\ Fits(r)
  /\ firstSeen' = Synced(r)
  /\ run' = LET others == [s \in Runs |-> [run[s] EXCEPT !.alone = FALSE]]
            IN  [Forget(others, Dropped(r)) EXCEPT ![r] = IdleRun]
  /\ last' = [matched |-> run[r].matched, alone |-> run[r].alone, cleared |-> {}]
  /\ cache' = IF r \in CachesFirst THEN cache ELSE run[r].matched
  /\ UNCHANGED <<world, reading, now>>

\* StaleDataError or IntegrityError: nothing of the sync is kept.
SyncFails(r) ==
  /\ run[r].step = "read"
  /\ ~Fits(r)
  /\ run' = [run EXCEPT ![r] = IdleRun]
  /\ UNCHANGED <<world, firstSeen, reading, cache, now, last>>

-----------------------------------------------------------------------------
(* People working on the queue.                                            *)

Change == changes < MaxChanges /\ changes' = changes + 1

\* DELETE flagged-rows, of the named findings or of all.
DeleteRows(fingerprints) ==
  /\ fingerprints \cap Stored # {}
  /\ firstSeen' = [f \in Findings |-> IF f \in fingerprints THEN None
                                      ELSE firstSeen[f]]
  /\ run' = Forget(run, fingerprints)
  /\ last' = [last EXCEPT !.cleared = @ \cup fingerprints]
  /\ Change
  /\ UNCHANGED <<hits, ruled, reading, cache, now>>

\* dismiss reads which of the wanted rows are stored and not yet dismissed; if
\* none is, it has nothing to commit.
DismissReads(t, u, wanted) ==
  /\ ~tab[t].busy
  /\ ~(wanted \cap Stored \subseteq dismissed[u])
  /\ tab' = [tab EXCEPT ![t] = [busy |-> TRUE, user |-> u,
                                fresh |-> (wanted \cap Stored) \ dismissed[u]]]
  /\ UNCHANGED <<world, firstSeen, run, dismissed, cache, card, now, last>>

\* dismiss inserts them.  uq_flag_dismissals_row refuses the whole request
\* when another one of the same reader recorded one of them since.
DismissCommits(t) ==
  /\ tab[t].busy
  /\ tab' = [tab EXCEPT ![t] = IdleTab]
  /\ LET u == tab[t].user
         clash == tab[t].fresh \cap dismissed[u] # {}
     IN  dismissed' = [dismissed EXCEPT ![u] = IF clash THEN @
                                               ELSE @ \cup tab[t].fresh]
  /\ UNCHANGED <<world, firstSeen, run, cache, card, now, last>>

Restore(u, fingerprints) ==
  /\ dismissed[u] \cap fingerprints # {}
  /\ dismissed' = [dismissed EXCEPT ![u] = @ \ fingerprints]
  /\ UNCHANGED <<world, firstSeen, run, tab, cache, card, now, last>>

\* Mutant: the hash is that of the data alone.
ServedUnstamped(u) ==
  [marks |-> cache \ dismissed[u], of |-> cache, stamp |-> {}]

\* What a poll serves u of the cached result, with the hash it is served under.
Served(u) ==
  LET removed == cache \cap dismissed[u]
  IN  [marks |-> cache \ removed, of |-> cache,
       stamp |-> IF removed = {} THEN {} ELSE dismissed[u]]

SameHash(c, d) == c.of = d.of /\ c.stamp = d.stamp

\* A card polls with the hash of what it shows; on "unchanged" it keeps it.
Poll(u) ==
  /\ cache # None
  /\ card' = [card EXCEPT ![u] =
                IF SameHash(@, Served(u)) THEN @ ELSE Served(u)]
  /\ UNCHANGED <<world, firstSeen, run, dismissed, tab, cache, now, last>>

-----------------------------------------------------------------------------
(* The surroundings.                                                       *)

DataChanges(h) ==
  /\ hits # h
  /\ hits' = h
  /\ Change
  /\ UNCHANGED <<ruled, firstSeen, run, reading, cache, now, last>>

\* replace_rules: the last rule is removed, or a first one saved.  The cached
\* result is dropped.
RulesChange ==
  /\ ruled' = ~ruled
  /\ cache' = None
  /\ Change
  /\ UNCHANGED <<hits, firstSeen, run, reading, now, last>>

Tick ==
  /\ now < MaxTime
  /\ now' = now + 1
  /\ UNCHANGED <<world, firstSeen, run, reading, cache, last>>

Sync(r) == ReadExisting(r) \/ SyncCommits(r) \/ SyncFails(r)

People ==
  \/ \E fs \in SUBSET Findings : DeleteRows(fs)
  \/ \E t \in Tabs, u \in Users, w \in SUBSET Findings : DismissReads(t, u, w)
  \/ \E t \in Tabs : DismissCommits(t)
  \/ \E u \in Users, fs \in SUBSET Findings : Restore(u, fs)

Next ==
  \/ \E r \in Runs : RunQuery(r) \/ Sync(r)
  \/ People
  \/ \E u \in Users : Poll(u)
  \/ \E h \in SUBSET Findings : DataChanges(h)
  \/ RulesChange
  \/ Tick

Spec == Init /\ [][Next]_vars

(* The scheduler never stops running a due query, and a sync that was      *)
(* started ends.  Nobody has to poll, to delete or to dismiss.             *)
Fairness ==
  /\ \A r \in Scheduled : WF_vars(RunQuery(r))
  /\ \A r \in Runs : WF_vars(Sync(r))
FairSpec == Spec /\ Fairness

-----------------------------------------------------------------------------
(* Properties.                                                             *)

\* However runs overlap, the queue holds every finding of the last sync that
\* was committed, apart from those deleted since; and nothing else, if no other
\* sync was committed between that sync's read and its commit
\* (flagged_rows.sync: the stored set equals the matched set).
QueueFollowsRuns ==
  /\ last.matched \ last.cleared \subseteq Stored
  /\ last.alone => Stored \subseteq last.matched

\* A finding that stays stored keeps the moment it was first seen: "this has
\* been sitting here for three days" survives every re-run
\* (flagged_rows.sync).
FirstSeenSurvives ==
  [][\A f \in Stored \cap Stored' : firstSeen'[f] = firstSeen[f]]_vars

\* A card that would be told "unchanged" shows exactly the marks it would be
\* served: no two results or sets of dismissals share a hash and differ in the
\* marks (dismissals.apply_dismissals).
UnchangedIsTrue ==
  cache # None => \A u \in Users :
    SameHash(card[u], Served(u)) => card[u].marks = Served(u).marks

\* Once the data and the rules have stopped changing and nobody deletes, the
\* queue of a query with rules comes to hold exactly what they match, whatever
\* syncs were under way (flagged_rows: the table is the present).
EventuallyThePresent == <>[](ruled => Stored = hits)
=============================================================================
