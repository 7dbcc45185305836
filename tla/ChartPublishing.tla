--------------------------- MODULE ChartPublishing ---------------------------
(***************************************************************************)
(* Publishing the charts of one query (features/charts/service.py) while   *)
(* the query is edited (the routers' guard_frozen, then the edit).         *)
(*                                                                         *)
(* Every transition of a chart is one conditional UPDATE, decided from     *)
(* what its request thread read earlier; approve reads the chart, its      *)
(* query and its rules one statement after the other.  A definition is     *)
(* the version of each of its parts; its fingerprint tells two definitions *)
(* apart exactly.  Whatever page an administrator has open, what comes     *)
(* back to approve is some fingerprint.                                    *)
(***************************************************************************)
EXTENDS Integers

CONSTANTS
  Charts,
  Owner,       \* the query's owner
  Admins,
  Threads,     \* request threads that are in the middle of an operation
  Requests,    \* publish_requested_at, one value per request
  Versions,    \* contents a part of the definition may have
  Edited,      \* the parts that are edited: "query", "rules", "charts"
  AdminsEdit,  \* whether an administrator edits the query, frozen or not
  None

Users == Admins \cup {Owner}
Fingerprints == [query : Versions, rules : Versions, chart : Versions]

\* The publishing columns of a chart's row.
Rows == [public : BOOLEAN, requestedAt : Requests \cup {None},
         requestedBy : Users \cup {None}, publishedBy : Users \cup {None},
         rejected : BOOLEAN]

ASSUME PublishingAssumption ==
  /\ Edited \subseteq {"query", "rules", "charts"}
  /\ 0 \in Versions /\ AdminsEdit \in BOOLEAN
  /\ None \notin Requests /\ None \notin Users
  /\ None \notin Fingerprints /\ None \notin Rows

VARIABLES
  chart,    \* chart[c]: the row's publishing columns, or None without a row
  parts,    \* the committed query and rules
  mapping,  \* mapping[c]: the committed type and fields of a chart
  req,      \* req[t]: what a request thread has read so far
  outcome,  \* history: what became of each request
  seen,     \* history: the fingerprint a public chart was approved by, or None
  drifted   \* history: an edit was committed while the chart was asked for or public

vars == <<chart, parts, mapping, req, outcome, seen, drifted>>

NoPrint == [query |-> 0, rules |-> 0, chart |-> 0]
IdleReq == [at |-> "idle", chart |-> None, stamp |-> None, by |-> None,
            given |-> NoPrint, found |-> NoPrint]
Private == [public |-> FALSE, requestedAt |-> None, requestedBy |-> None,
            publishedBy |-> None, rejected |-> FALSE]

\* A thread between two steps: of an edit, of an approval, of a refusal.
Reqs == [at : {"idle", "query", "rules", "charts", "pending", "queried", "compared",
               "rejecting"},
         chart : Charts \cup {None}, stamp : Requests \cup {None},
         by : Users \cup {None}, given : Fingerprints, found : Fingerprints]
Outcomes == {"unused", "open", "approved", "overtaken", "rejected", "withdrawn", "dropped"}

\* A waiting request names who asked, a public chart who published it.
TypeOK ==
  /\ chart \in [Charts -> Rows \cup {None}]
  /\ \A c \in Charts : chart[c] # None =>
       /\ (chart[c].requestedAt = None) = (chart[c].requestedBy = None)
       /\ chart[c].public = (chart[c].publishedBy # None)
  /\ parts \in [query : Versions, rules : Versions]
  /\ mapping \in [Charts -> Versions]
  /\ req \in [Threads -> Reqs]
  /\ outcome \in [Requests -> Outcomes]
  /\ seen \in [Charts -> Fingerprints \cup {None}]
  /\ drifted \in [Charts -> BOOLEAN]

Init ==
  /\ chart = [c \in Charts |-> Private]
  /\ parts = [query |-> 0, rules |-> 0]
  /\ mapping = [c \in Charts |-> 0]
  /\ req = [t \in Threads |-> IdleReq]
  /\ outcome = [s \in Requests |-> "unused"]
  /\ seen = [c \in Charts |-> None]
  /\ drifted = [c \in Charts |-> FALSE]

-----------------------------------------------------------------------------

Exists(c) == chart[c] # None
IsPublic(c) == IF Exists(c) THEN chart[c].public ELSE FALSE
IsPending(c) == IF Exists(c) THEN chart[c].requestedAt # None ELSE FALSE

\* definition_fingerprint, of what is stored now.
FingerprintOf(c) ==
  [query |-> parts.query, rules |-> parts.rules, chart |-> mapping[c]]

\* frozen_by
Frozen == \E c \in Charts : IsPublic(c) \/ IsPending(c)

definition == <<parts, mapping>>

\* The chart becomes private, or public by way of `print'.
Publish(c, by, print) ==
  /\ chart' = [chart EXCEPT ![c] = [Private EXCEPT !.public = TRUE, !.publishedBy = by]]
  /\ seen' = [seen EXCEPT ![c] = print]

-----------------------------------------------------------------------------
(* The author's and the administrators' clicks: one conditional UPDATE.     *)

\* publish, by an administrator: at once, overtaking a waiting request.
PublishAtOnce(u, c) ==
  /\ u \in Admins
  /\ Exists(c) /\ ~IsPublic(c)
  /\ Publish(c, u, None)
  /\ outcome' = [s \in Requests |->
       IF s = chart[c].requestedAt THEN "overtaken" ELSE outcome[s]]
  /\ UNCHANGED <<definition, req, drifted>>

\* publish, by anyone else: asks for it.
Ask(u, c, s) ==
  /\ u \notin Admins
  /\ Exists(c) /\ ~IsPublic(c) /\ ~IsPending(c)
  /\ outcome[s] = "unused"
  /\ chart' = [chart EXCEPT ![c] = [Private EXCEPT !.requestedAt = s, !.requestedBy = u]]
  /\ outcome' = [outcome EXCEPT ![s] = "open"]
  /\ drifted' = [drifted EXCEPT ![c] = FALSE]
  /\ UNCHANGED <<definition, req, seen>>

\* Mutant: a withdrawal leaves the name of who asked.
CancelKeepsRequester(u, c) ==
  /\ Exists(c) /\ ~IsPublic(c)
  /\ IsPending(c) \/ chart[c].rejected
  /\ chart' = [chart EXCEPT ![c] =
       IF IsPending(c) THEN [@ EXCEPT !.requestedAt = None] ELSE [@ EXCEPT !.rejected = FALSE]]
  /\ outcome' = [s \in Requests |->
       IF s = chart[c].requestedAt THEN "withdrawn" ELSE outcome[s]]
  /\ UNCHANGED <<definition, req, seen, drifted>>

\* cancel_request: withdraws a request, or clears a rejection.
Cancel(u, c) ==
  /\ Exists(c) /\ ~IsPublic(c)
  /\ IsPending(c) \/ chart[c].rejected
  /\ chart' = [chart EXCEPT ![c] =
       IF IsPending(c) THEN [@ EXCEPT !.requestedAt = None, !.requestedBy = None]
                       ELSE [@ EXCEPT !.rejected = FALSE]]
  /\ outcome' = [s \in Requests |->
       IF s = chart[c].requestedAt THEN "withdrawn" ELSE outcome[s]]
  /\ UNCHANGED <<definition, req, seen, drifted>>

\* unpublish: whoever published may, and an administrator always.
Unpublish(u, c) ==
  /\ IsPublic(c)
  /\ u \in Admins \/ chart[c].publishedBy = u
  /\ chart' = [chart EXCEPT ![c] = [@ EXCEPT !.public = FALSE, !.publishedBy = None]]
  /\ seen' = [seen EXCEPT ![c] = None]
  /\ UNCHANGED <<definition, req, outcome, drifted>>

-----------------------------------------------------------------------------
(* approve and reject: read, decide, write if nothing changed.             *)

\* _pending_chart, and the row's own part of the definition.
ReadPending(t, c, given, step) ==
  /\ req[t].at = "idle"
  /\ IsPending(c) /\ ~IsPublic(c)
  /\ req' = [req EXCEPT ![t] =
       [at |-> step, chart |-> c, stamp |-> chart[c].requestedAt,
        by |-> chart[c].requestedBy, given |-> given,
        found |-> [NoPrint EXCEPT !.chart = mapping[c]]]]
  /\ UNCHANGED <<chart, definition, outcome, seen, drifted>>

ApproveStarts(t, c) == \E given \in Fingerprints : ReadPending(t, c, given, "pending")
RejectStarts(t, c) == ReadPending(t, c, NoPrint, "rejecting")

\* chart.query is loaded.
ApproveReadsQuery(t) ==
  /\ req[t].at = "pending"
  /\ req' = [req EXCEPT ![t] = [@ EXCEPT !.at = "queried", !.found.query = parts.query]]
  /\ UNCHANGED <<chart, definition, outcome, seen, drifted>>

\* Mutant: the fingerprints are not compared.
ApproveComparesNothing(t) ==
  /\ req[t].at = "queried"
  /\ req' = [req EXCEPT ![t] = [@ EXCEPT !.at = "compared", !.found.rules = parts.rules]]
  /\ UNCHANGED <<chart, definition, outcome, seen, drifted>>

\* _rules_of, and the comparison: DEFINITION_CHANGED, or go on.
ApproveCompares(t) ==
  LET found == [req[t].found EXCEPT !.rules = parts.rules]
  IN  /\ req[t].at = "queried"
      /\ req' = [req EXCEPT ![t] =
           IF found = @.given THEN [@ EXCEPT !.at = "compared", !.found = found]
                              ELSE IdleReq]
      /\ UNCHANGED <<chart, definition, outcome, seen, drifted>>

\* Mutant: the write asks only that the chart is not public yet.
StillAskedLoosely(t) == Exists(req[t].chart) /\ ~IsPublic(req[t].chart)

\* The conditions of approve's and reject's UPDATE.
StillAsked(t) ==
  LET c == req[t].chart
  IN  /\ Exists(c) /\ ~IsPublic(c)
      /\ chart[c].requestedAt = req[t].stamp
      /\ chart[c].requestedBy = req[t].by

\* The UPDATE; when it matches nothing, _undecided answers PUBLISH_NOT_PENDING.
ApproveWrites(t) ==
  /\ req[t].at = "compared"
  /\ req' = [req EXCEPT ![t] = IdleReq]
  /\ IF StillAsked(t)
       THEN /\ Publish(req[t].chart, req[t].by, req[t].given)
            /\ outcome' = [outcome EXCEPT ![req[t].stamp] = "approved"]
       ELSE UNCHANGED <<chart, seen, outcome>>
  /\ UNCHANGED <<definition, drifted>>

RejectWrites(t) ==
  LET c == req[t].chart
  IN  /\ req[t].at = "rejecting"
      /\ req' = [req EXCEPT ![t] = IdleReq]
      /\ IF StillAsked(t)
           THEN /\ chart' = [chart EXCEPT ![c] = [Private EXCEPT !.rejected = TRUE]]
                /\ outcome' = [outcome EXCEPT ![req[t].stamp] = "rejected"]
           ELSE UNCHANGED <<chart, outcome>>
      /\ UNCHANGED <<definition, seen, drifted>>

-----------------------------------------------------------------------------
(* Edits: update_query, replace_rules, put_charts.                          *)

\* guard_frozen
MayEdit(u) == u \in Admins \/ ~Frozen

\* The guard passed; new SQL is now tried on the target.
EditStarts(t, u, kind) ==
  /\ req[t].at = "idle"
  /\ kind \in Edited
  /\ u = Owner \/ AdminsEdit
  /\ MayEdit(u)
  /\ req' = [req EXCEPT ![t] = [IdleReq EXCEPT !.at = kind]]
  /\ UNCHANGED <<chart, definition, outcome, seen, drifted>>

\* What an edit that lands now is to the charts: a drift of those asked for or public.
Lands == drifted' = [c \in Charts |-> drifted[c] \/ IsPublic(c) \/ IsPending(c)]

\* The new SQL does not run, or the statement fails.
EditFails(t) ==
  /\ req[t].at \in {"query", "rules", "charts"}
  /\ req' = [req EXCEPT ![t] = IdleReq]
  /\ UNCHANGED <<chart, definition, outcome, seen, drifted>>

UpdateQuery(t) ==
  /\ req[t].at = "query"
  /\ \E v \in Versions : parts' = [parts EXCEPT !.query = v]
  /\ req' = [req EXCEPT ![t] = IdleReq]
  /\ Lands
  /\ UNCHANGED <<chart, mapping, outcome, seen>>

ReplaceRules(t) ==
  /\ req[t].at = "rules"
  /\ \E v \in Versions : parts' = [parts EXCEPT !.rules = v]
  /\ req' = [req EXCEPT ![t] = IdleReq]
  /\ Lands
  /\ UNCHANGED <<chart, mapping, outcome, seen>>

\* The requests that waited on one of these charts.
WaitingOn(cs) == {s \in Requests : \E c \in cs : IsPending(c) /\ chart[c].requestedAt = s}

\* replace_charts: the charts it is given are redrawn, or added as private rows;
\* the others are removed, whatever their state.
ReplaceCharts(t) ==
  /\ req[t].at = "charts"
  /\ \E given \in SUBSET Charts :
       LET removed == {c \in Charts \ given : Exists(c)}
       IN  /\ \E drawn \in [given -> Versions] :
                mapping' = [c \in Charts |-> IF c \in given THEN drawn[c] ELSE mapping[c]]
           /\ chart' = [c \in Charts |->
                CASE c \notin given -> None
                  [] c \in given /\ ~Exists(c) -> Private
                  [] OTHER -> chart[c]]
           /\ seen' = [c \in Charts |-> IF c \in given THEN seen[c] ELSE None]
           /\ outcome' = [s \in Requests |->
                IF s \in WaitingOn(removed) THEN "dropped" ELSE outcome[s]]
  /\ req' = [req EXCEPT ![t] = IdleReq]
  /\ Lands
  /\ UNCHANGED parts

-----------------------------------------------------------------------------

Next ==
  \/ \E u \in Users, c \in Charts :
       \/ PublishAtOnce(u, c) \/ Cancel(u, c) \/ Unpublish(u, c)
       \/ \E s \in Requests : Ask(u, c, s)
  \/ \E t \in Threads :
       \/ \E c \in Charts : ApproveStarts(t, c) \/ RejectStarts(t, c)
       \/ ApproveReadsQuery(t) \/ ApproveCompares(t) \/ ApproveWrites(t) \/ RejectWrites(t)
       \/ \E u \in Users, kind \in Edited : EditStarts(t, u, kind)
       \/ EditFails(t) \/ UpdateQuery(t) \/ ReplaceRules(t) \/ ReplaceCharts(t)

Spec == Init /\ [][Next]_vars

-----------------------------------------------------------------------------
(* Properties.                                                             *)

Status(c) ==
  CASE ~Exists(c) -> "absent"
    [] IsPublic(c) -> "public"
    [] IsPending(c) /\ ~IsPublic(c) -> "pending"
    [] OTHER -> "private"

Promise == INSTANCE Publication WITH
  status <- [c \in Charts |-> Status(c)],
  request <- [c \in Charts |-> IF Exists(c) THEN chart[c].requestedAt ELSE None]

\* However clicks of an author and of administrators cross, every request is
\* decided at most once, while its chart is pending on it: a withdrawn request
\* is not published, an approved one not withdrawn.
RequestsDecidedOnce == Promise!Spec

\* What an approval published is what the administrator was shown, unless an
\* edit was committed while the request was waiting or after: an author cannot
\* withdraw, edit, ask again and have the earlier review count.
ApprovedAsReviewed ==
  \A c \in Charts :
    IsPublic(c) /\ seen[c] # None => drifted[c] \/ seen[c] = FingerprintOf(c)
=============================================================================
