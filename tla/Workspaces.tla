----------------------------- MODULE Workspaces -----------------------------
(***************************************************************************)
(* What people keep: their saved queries and the log of the runs of them   *)
(* (features/queries/service.py), the charts of a query, and the boards    *)
(* charts are placed on (features/dashboards/service.py).                  *)
(*                                                                         *)
(* One connection, on Postgres at READ COMMITTED.  A request reads, then   *)
(* waits for the target or for the database, then commits once; deleting a *)
(* row takes along what refers to it (ON DELETE CASCADE), and a commit     *)
(* that refers to what is gone is refused.  Roles do not change; Accounts  *)
(* is about those.  Names are left out: one that is taken refuses the      *)
(* commit, like anything else that can fail (Refused).                     *)
(***************************************************************************)
EXTENDS Integers, Sequences, FiniteSets, FiniteSetsExt, SequencesExt

CONSTANTS
  Users,
  Admins,
  Queries, Charts, Boards,
  Threads,       \* requests in flight, and the scheduler
  Starts,        \* queries, charts and boards there are at the start
  Arrangements,  \* the lists of charts a board is asked to hold
  Retention,     \* settings.log_retention_days (0: no limit)
  Keep,          \* settings.max_logs_per_query (0: no limit)
  MaxTime,       \* bound on the clock
  MaxRequests,   \* bound on the requests that are made
  Nobody,        \* the owner of rows older than accounts
  None,          \* not stored yet; no query, no caller, no place
  Gone           \* deleted: ids are not used again

ASSUME WorkspacesAssumption ==
  /\ Admins \subseteq Users /\ Nobody \notin Users
  /\ {None, Gone} \cap (Users \cup Queries \cup Charts \cup Boards \cup {Nobody} \cup Nat) = {}
  /\ None # Gone
  /\ Arrangements \subseteq Seq(Charts)
  /\ \A start \in Starts :
       /\ start.query \in [Queries -> Users \cup {Nobody, None}]
       /\ start.chart \in [Charts -> Queries \cup {None}]
       /\ start.board \in [Boards -> Users \cup {Nobody, None}]
       /\ start.want \in [Boards -> Seq(Charts)]
       /\ \A c \in Charts : start.chart[c] # None => start.query[start.chart[c]] # None
       /\ \A b \in Boards : \A c \in ToSet(start.want[b]) :
            /\ start.chart[c] # None /\ start.board[b] # None
            /\ start.query[start.chart[c]] = start.board[b]
  /\ Retention \in Nat /\ Keep \in Nat /\ MaxTime \in Nat /\ MaxRequests \in Nat

VARIABLES
  connected,  \* the connection is stored
  query,      \* query[q]: its owner
  chart,      \* chart[c]: the query it draws
  shared,     \* shared[c]: whether it is published, or waits to be
  board,      \* board[b]: its owner
  items,      \* items[b][c]: the place of c on b
  log,        \* the rows of the execution log
  now,
  req,        \* req[t]: the request a thread serves
  begun,      \* how many requests were made
  torn,       \* history: boards two overlapping requests wrote, or a chart left
  helped      \* history: boards an administrator arranged

library == <<connected, query, chart, shared>>
arranged == <<board, items, torn, helped>>
vars == <<library, arranged, log, now, req, begun>>

Owners == Users \cup {Nobody}
Empty == [c \in Charts |-> None]

\* Duplicates collapse, keeping the first position: a chart stands behind those
\* that occur before it does.
First(c, want) == Min({i \in DOMAIN want : want[i] = c})
Ahead(c, want) == {d \in ToSet(want) : First(d, want) < First(c, want)}
PlaceOf(c, want) == Cardinality(Ahead(c, want))

Placed(places) == {c \in Charts : places[c] # None}
IsStored(row) == row \notin {None, Gone}
StoredCharts == {c \in Charts : IsStored(chart[c])}

\* A row of a preview names no query; one of the scheduler no user.
Row == [id : Nat, query : Queries \cup {None}, user : Users \cup {None}, at : 0 .. MaxTime]

Requests ==
  [at : {"idle", "creating", "deleting", "running", "validated", "loaded"},
   user : Users \cup {None}, query : Queries \cup {None}, board : Boards \cup {None},
   want : Seq(Charts), loaded : [Charts -> Nat \cup {None}], late : BOOLEAN]
Request(at, u, q, b, want) ==
  [at |-> at, user |-> u, query |-> q, board |-> b,
   want |-> want, loaded |-> Empty, late |-> FALSE]
Idle == Request("idle", None, None, None, <<>>)

\* The tables hold what the code may put there.
TypeOK ==
  /\ connected \in BOOLEAN
  /\ query \in [Queries -> Owners \cup {None, Gone}]
  /\ chart \in [Charts -> Queries \cup {None, Gone}]
  /\ shared \in [Charts -> {"no", "asked", "yes"}]
  /\ board \in [Boards -> Owners \cup {None, Gone}]
  /\ items \in [Boards -> [Charts -> Nat \cup {None}]]
  /\ log \subseteq Row /\ now \in 0 .. MaxTime
  /\ req \in [Threads -> Requests] /\ begun \in 0 .. MaxRequests
  /\ torn \subseteq Boards /\ helped \subseteq Boards

Init ==
  /\ connected = TRUE
  /\ \E start \in Starts :
       /\ query = start.query /\ chart = start.chart /\ board = start.board
       /\ items = [b \in Boards |-> [c \in Charts |->
                     IF Contains(start.want[b], c) THEN PlaceOf(c, start.want[b]) ELSE None]]
  /\ shared = [c \in Charts |-> "no"]
  /\ log = {} /\ now = 0
  /\ req = [t \in Threads |-> Idle] /\ begun = 0
  /\ torn = {} /\ helped = {}

-----------------------------------------------------------------------------
(* Who may see what.                                                       *)

\* visible_to and get_owned, of queries and of boards alike.
VisibleTo(u, owner) == IsStored(owner) /\ (u \in Admins \/ owner = u)

\* Charts of queries the caller may see.
ChartsVisibleTo(u) == {c \in StoredCharts : VisibleTo(u, query[chart[c]])}

\* frozen_by: a chart is published or waits for an administrator.
FrozenBy(q) == {c \in Charts : chart[c] = q /\ shared[c] # "no"}
PublishedOf(q) == {c \in Charts : chart[c] = q /\ shared[c] = "yes"}

Begin(t, r) ==
  /\ req[t].at = "idle" /\ begun < MaxRequests
  /\ begun' = begun + 1
  /\ req' = [req EXCEPT ![t] = r]

\* The charts in lost are deleted, and leave every board.
Unplace(lost) ==
  /\ chart' = [c \in Charts |-> IF c \in lost THEN Gone ELSE chart[c]]
  /\ items' = [b \in Boards |-> [c \in Charts |-> IF c \in lost THEN None ELSE items[b][c]]]
  /\ torn' = torn \cup {b \in Boards : Placed(items[b]) \cap lost # {}}

-----------------------------------------------------------------------------
(* Queries (queries/service.py).                                           *)

\* create_query: the SQL is tried on the target before anything is stored.
CreateStarts(t, u) ==
  /\ connected
  /\ Begin(t, Request("creating", u, None, None, <<>>))
  /\ UNCHANGED <<library, arranged, log, now>>

\* One commit stores the query with a table chart of its own.
CreateCommits(t, q, c) ==
  /\ req[t].at = "creating" /\ connected
  /\ query[q] = None /\ chart[c] = None
  /\ query' = [query EXCEPT ![q] = req[t].user]
  /\ chart' = [chart EXCEPT ![c] = q]
  /\ req' = [req EXCEPT ![t] = Idle]
  /\ UNCHANGED <<connected, shared, arranged, log, now, begun>>

\* delete_query: get_owned, then guard_frozen.
DeleteStarts(t, u, q) ==
  /\ VisibleTo(u, query[q])
  /\ u \in Admins \/ FrozenBy(q) = {}
  /\ Begin(t, Request("deleting", u, q, None, <<>>))
  /\ UNCHANGED <<library, arranged, log, now>>

RowsOf(q, rows) == {r \in rows : r.query = q}

\* The commit takes along the charts, their places and the log of the query;
\* deleting what is already gone is no error.
DeleteCommits(t) ==
  LET q == req[t].query
  IN  /\ req[t].at = "deleting"
      /\ query' = [query EXCEPT ![q] = Gone]
      /\ Unplace({c \in Charts : chart[c] = q})
      /\ log' = log \ RowsOf(q, log)
      /\ req' = [req EXCEPT ![t] = Idle]
      /\ UNCHANGED <<connected, shared, board, helped, now, begun>>

\* delete_connection: all of it goes.
DeleteConnection ==
  /\ connected /\ begun < MaxRequests
  /\ connected' = FALSE /\ begun' = begun + 1
  /\ query' = [q \in Queries |-> Gone]
  /\ Unplace(StoredCharts)
  /\ log' = {}
  /\ UNCHANGED <<shared, board, helped, now, req>>

\* replace_charts, as far as boards are concerned: a chart is added to a query,
\* or one with a name that is no longer there is removed.
AddChart(c, q) ==
  /\ IsStored(query[q]) /\ chart[c] = None /\ begun < MaxRequests
  /\ chart' = [chart EXCEPT ![c] = q]
  /\ begun' = begun + 1
  /\ UNCHANGED <<connected, query, shared, arranged, log, now, req>>

RemoveChart(c, u) ==
  /\ c \in StoredCharts /\ begun < MaxRequests
  /\ VisibleTo(u, query[chart[c]]) /\ (u \in Admins \/ FrozenBy(chart[c]) = {})
  /\ Unplace({c})
  /\ begun' = begun + 1
  /\ UNCHANGED <<connected, query, shared, board, helped, log, now, req>>

\* Publishing a chart, asking for it, and taking it back: see ChartPublishing.
Share(c, s) ==
  /\ c \in StoredCharts /\ shared[c] # s /\ begun < MaxRequests
  /\ shared' = [shared EXCEPT ![c] = s]
  /\ begun' = begun + 1
  /\ UNCHANGED <<connected, query, chart, arranged, log, now, req>>

\* claim-unowned, for any account, and what create-admin offers: one transaction
\* for both tables.
ClaimUnowned(u) ==
  /\ \E row \in {query[q] : q \in Queries} \cup {board[b] : b \in Boards} : row = Nobody
  /\ query' = [q \in Queries |-> IF query[q] = Nobody THEN u ELSE query[q]]
  /\ board' = [b \in Boards |-> IF board[b] = Nobody THEN u ELSE board[b]]
  /\ UNCHANGED <<connected, chart, shared, items, torn, helped, log, now, req, begun>>

-----------------------------------------------------------------------------
(* Runs and their log.                                                     *)

\* A run of an owner, of an administrator, of the reader of a published chart,
\* or of the scheduler; or a preview, of no query.
RunStarts(t, u, q) ==
  /\ IF q = None THEN connected /\ u # None
     ELSE /\ IsStored(query[q])
          /\ u = None \/ VisibleTo(u, query[q]) \/ PublishedOf(q) # {}
  /\ Begin(t, Request("running", u, q, None, <<>>))
  /\ UNCHANGED <<library, arranged, log, now>>

UnusedId == CHOOSE n \in 0 .. Cardinality(log) : \A r \in log : r.id # n

\* log_execution: a row that refers to what has been deleted is refused, and the
\* refusal swallowed.  A failure of the scheduler leaves no row.
RunEnds(t, success) ==
  LET r == req[t]
      refers == IF r.query = None THEN connected ELSE IsStored(query[r.query])
      logs == refers /\ (success \/ r.user # None)
  IN  /\ r.at = "running"
      /\ log' = IF logs THEN log \cup {[id |-> UnusedId, query |-> r.query, user |-> r.user, at |-> now]}
                ELSE log
      /\ req' = [req EXCEPT ![t] = Idle]
      /\ UNCHANGED <<library, arranged, now, begun>>

\* How many rows are as new as x.
AsNew(rows, x) == Cardinality({r \in rows : r.at >= x})

\* executed_at of the newest row there is no room for.
Cutoff(rows) == Max({x \in {r.at : r \in rows} : AsNew(rows, x) > Keep})

OverQuota(rows) == {q \in Queries : Cardinality(RowsOf(q, rows)) > Keep}

\* Mutant: rows as old as the cutoff stay.
TrimmedBefore(rows) ==
  {r \in rows : Keep > 0 /\ r.query \in OverQuota(rows) => r.at >= Cutoff(RowsOf(r.query, rows))}
\* _trim_per_query: each query over its quota loses the rows no newer than the
\* cutoff; rows of no query have no quota.
Trimmed(rows) ==
  {r \in rows : Keep > 0 /\ r.query \in OverQuota(rows) => r.at > Cutoff(RowsOf(r.query, rows))}

InTime(rows) == {r \in rows : Retention = 0 \/ r.at + Retention >= now}

\* prune_execution_logs: the age of rows, then the depth of each query.
Pruned(rows) == Trimmed(InTime(rows))

\* The service is started again, whatever was in flight, and prunes before it
\* serves; a failure to prune is swallowed.
Restart(prunes) ==
  /\ begun < MaxRequests /\ begun' = begun + 1
  /\ req' = [t \in Threads |-> Idle]
  /\ log' = IF prunes THEN Pruned(log) ELSE log
  /\ UNCHANGED <<library, arranged, now>>

-----------------------------------------------------------------------------
(* Boards (dashboards/service.py).                                         *)

\* Mutant: a chart is only looked for.
FoundAmongAll(u, want) == ToSet(want) \subseteq StoredCharts
\* _validate_chart_ids: every chart is stored and the caller may see it.
Found(u, want) == ToSet(want) \subseteq ChartsVisibleTo(u)

CreateBoardStarts(t, u, want) ==
  /\ Found(u, want)
  /\ Begin(t, Request("loaded", u, None, None, want))
  /\ UNCHANGED <<library, arranged, log, now>>

\* get_owned, and the charts validated.
UpdateBoardStarts(t, u, b, want) ==
  /\ VisibleTo(u, board[b])
  /\ Found(u, want)
  /\ Begin(t, Request("validated", u, None, b, want))
  /\ UNCHANGED <<library, arranged, log, now>>

\* dashboard.items.clear() reads the items, those of a board that is gone too.
LoadsItems(t) ==
  LET r == req[t]
  IN  /\ r.at = "validated"
      /\ req' = [req EXCEPT ![t] = [Request("loaded", r.user, None, r.board, r.want)
                                      EXCEPT !.loaded = items[r.board]]]
      /\ UNCHANGED <<library, arranged, log, now, begun>>

\* Mutant: positions go on from what the board held.
RearrangedAfter(b, r) ==
  [c \in Charts |->
     IF Contains(r.want, c) THEN PlaceOf(c, r.want) + Cardinality(Placed(items[b]))
     ELSE IF r.loaded[c] # None THEN None ELSE items[b][c]]
\* _apply_items: loaded items are deleted, or updated if they are wanted again
\* (an item is its board and its chart); others are inserted.
Rearranged(b, r) ==
  [c \in Charts |->
     IF Contains(r.want, c) THEN PlaceOf(c, r.want)
     ELSE IF r.loaded[c] # None THEN None ELSE items[b][c]]

\* Every row to update is still there, every row to insert is not, and what it
\* refers to is.
Fits(b, r) ==
  \A c \in ToSet(r.want) :
    IF r.loaded[c] # None THEN items[b][c] # None
    ELSE items[b][c] = None /\ IsStored(chart[c])

\* The items of b are written: whoever has loaded them is late.
Writes(t, b) ==
  /\ items' = [items EXCEPT ![b] = Rearranged(b, req[t])]
  /\ torn' = IF req[t].late THEN torn \cup {b} ELSE torn \ {b}
  /\ helped' = IF req[t].user \in Admins THEN helped \cup {b} ELSE helped
  /\ req' = [x \in Threads |-> IF x = t THEN Idle
                               ELSE IF req[x].board = b THEN [req[x] EXCEPT !.late = TRUE]
                               ELSE req[x]]

CreateBoardCommits(t, b) ==
  /\ req[t].at = "loaded" /\ req[t].board = None
  /\ board[b] = None /\ Fits(b, req[t])
  /\ board' = [board EXCEPT ![b] = req[t].user]
  /\ Writes(t, b)
  /\ UNCHANGED <<library, log, now, begun>>

UpdateBoardCommits(t) ==
  LET b == req[t].board
  IN  /\ req[t].at = "loaded" /\ b # None
      /\ IsStored(board[b]) /\ Fits(b, req[t])
      /\ Writes(t, b)
      /\ UNCHANGED <<library, board, log, now, begun>>

\* delete_dashboard, with its items.
DeleteBoard(u, b) ==
  /\ VisibleTo(u, board[b]) /\ begun < MaxRequests
  /\ board' = [board EXCEPT ![b] = Gone]
  /\ items' = [items EXCEPT ![b] = Empty]
  /\ begun' = begun + 1
  /\ UNCHANGED <<library, torn, helped, log, now, req>>

-----------------------------------------------------------------------------

\* A request ends without a commit, or its commit is refused.
Refused(t) ==
  /\ req[t].at \notin {"idle", "running"}
  /\ req' = [req EXCEPT ![t] = Idle]
  /\ UNCHANGED <<library, arranged, log, now, begun>>

Tick ==
  /\ now < MaxTime /\ now' = now + 1
  /\ UNCHANGED <<library, arranged, log, req, begun>>

OfQueries(t) ==
  \/ \E u \in Users : CreateStarts(t, u) \/ \E q \in Queries : DeleteStarts(t, u, q)
  \/ \E q \in Queries, c \in Charts : CreateCommits(t, q, c)
  \/ DeleteCommits(t)
  \/ \E u \in Users \cup {None}, q \in Queries \cup {None} : RunStarts(t, u, q)
  \/ \E success \in BOOLEAN : RunEnds(t, success)

OfBoards(t) ==
  \/ \E u \in Users, want \in Arrangements :
       CreateBoardStarts(t, u, want) \/ \E b \in Boards : UpdateBoardStarts(t, u, b, want)
  \/ LoadsItems(t) \/ UpdateBoardCommits(t)
  \/ \E b \in Boards : CreateBoardCommits(t, b)

Next ==
  \/ \E t \in Threads : OfQueries(t) \/ OfBoards(t) \/ Refused(t)
  \/ \E c \in Charts, u \in Users : RemoveChart(c, u)
  \/ \E c \in Charts, q \in Queries : AddChart(c, q)
  \/ \E c \in Charts, s \in {"no", "asked", "yes"} : Share(c, s)
  \/ \E u \in Users : ClaimUnowned(u) \/ \E b \in Boards : DeleteBoard(u, b)
  \/ DeleteConnection
  \/ \E prunes \in BOOLEAN : Restart(prunes)
  \/ Tick

Spec == Init /\ [][Next]_vars

-----------------------------------------------------------------------------
(* Properties.                                                             *)

\* A board places stored charts only, and its positions run from 0 without a
\* gap or a duplicate -- until a chart on it is deleted, or two requests that
\* overlap write it (_apply_items, DashboardItem.position: "Contiguous from 0
\* after any write").
BoardsStayWhole ==
  \A b \in Boards :
    LET placed == Placed(items[b])
    IN  /\ \A c \in placed : IsStored(chart[c])
        /\ placed # {} => IsStored(board[b])
        /\ b \notin torn =>
             {items[b][c] : c \in placed} = 0 .. Cardinality(placed) - 1

\* What an analyst placed, that analyst may see: however charts, queries and
\* owners come and go, a board that no administrator arranged holds charts of
\* its owner's queries only (_validate_chart_ids).
BoardsShowOwn ==
  \A b \in Boards \ helped : \A c \in Placed(items[b]) :
    query[chart[c]] = board[b]

\* A prune removes the row of a query only if it is past its time or as many
\* rows of the query as the log keeps are at least as new, besides itself, and
\* leaves no query more than that; it removes the row of a preview only if that
\* is past its time (prune_execution_logs, "Keep only the newest").
Expired(r) == Retention > 0 /\ r.at + Retention < now
PruneKeepsNewest ==
  [][Restart(TRUE) =>
       \A q \in Queries \cup {None} :
         LET before == RowsOf(q, log)
             after == RowsOf(q, log')
         IN  /\ after \subseteq before
             /\ q # None /\ Keep > 0 => Cardinality(after) <= Keep
             /\ \A r \in before \ after :
                  \/ Expired(r)
                  \/ q # None /\ Keep > 0 /\ AsNew(before, r.at) > Keep]_vars
=============================================================================
