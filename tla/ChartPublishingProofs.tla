------------------------ MODULE ChartPublishingProofs ------------------------
(***************************************************************************)
(* Proofs about ChartPublishing, for any numbers of charts, threads,       *)
(* administrators, requests and versions.                                  *)
(***************************************************************************)
EXTENDS ChartPublishing, TLAPS

\* The rows a chart may have: who asked is known while a request waits, and who
\* published while the chart is public.
WellFormed(r) ==
  /\ r \in Rows
  /\ (r.requestedAt = None) = (r.requestedBy = None)
  /\ r.public = (r.publishedBy # None)

\* The same rows, written by the operations.
LEMMA PrivateRow ==
  /\ WellFormed(Private)
  /\ Private.public = FALSE /\ Private.requestedAt = None
  /\ IdleReq \in Reqs /\ NoPrint \in Fingerprints
  /\ IdleReq.at = "idle"
BY PublishingAssumption DEF WellFormed, Private, Rows, IdleReq, Reqs, NoPrint, Fingerprints

LEMMA PublicRow ==
  ASSUME NEW u \in Users
  PROVE  LET r == [Private EXCEPT !.public = TRUE, !.publishedBy = u]
         IN  WellFormed(r) /\ r.public = TRUE /\ r.requestedAt = None
BY PublishingAssumption DEF WellFormed, Private, Rows

LEMMA PendingRow ==
  ASSUME NEW u \in Users, NEW s \in Requests
  PROVE  LET r == [Private EXCEPT !.requestedAt = s, !.requestedBy = u]
         IN  WellFormed(r) /\ r.public = FALSE /\ r.requestedAt = s /\ r.requestedBy = u
BY PublishingAssumption DEF WellFormed, Private, Rows

LEMMA RejectedRow ==
  LET r == [Private EXCEPT !.rejected = TRUE]
  IN  WellFormed(r) /\ r.public = FALSE /\ r.requestedAt = None
BY PublishingAssumption DEF WellFormed, Private, Rows

LEMMA CancelledRow ==
  ASSUME NEW r, WellFormed(r), ~r.public
  PROVE  LET w == [r EXCEPT !.requestedAt = None, !.requestedBy = None]
             n == [r EXCEPT !.rejected = FALSE]
         IN  /\ WellFormed(w) /\ w.public = FALSE /\ w.requestedAt = None
             /\ WellFormed(n) /\ n.public = FALSE /\ n.requestedAt = r.requestedAt
BY PublishingAssumption DEF WellFormed, Rows

LEMMA RetractedRow ==
  ASSUME NEW r, WellFormed(r)
  PROVE  LET w == [r EXCEPT !.public = FALSE, !.publishedBy = None]
         IN  WellFormed(w) /\ w.public = FALSE /\ w.requestedAt = r.requestedAt
BY PublishingAssumption DEF WellFormed, Rows

-----------------------------------------------------------------------------
(* Types.                                                                  *)

\* TypeOK, chart by chart.
ChartsOK == chart \in [Charts -> {r \in Rows : WellFormed(r)} \cup {None}]
RestOK ==
  /\ parts \in [query : Versions, rules : Versions]
  /\ mapping \in [Charts -> Versions]
  /\ req \in [Threads -> Reqs]
  /\ outcome \in [Requests -> Outcomes]
  /\ seen \in [Charts -> Fingerprints \cup {None}]
  /\ drifted \in [Charts -> BOOLEAN]

\* A thread that reads or decides a request knows the chart, the request and its author.
Reading(t) == req[t].at \in {"pending", "queried", "compared", "rejecting"}
Informed ==
  \A t \in Threads : Reading(t) =>
    req[t].chart \in Charts /\ req[t].stamp \in Requests /\ req[t].by \in Users

Typing == ChartsOK /\ RestOK /\ Informed

LEMMA TypingImplies == Typing => TypeOK
BY DEF Typing, ChartsOK, RestOK, TypeOK, WellFormed

LEMMA TypingInit == Init => Typing
BY PublishingAssumption, PrivateRow
   DEF Init, Typing, ChartsOK, RestOK, Informed, Reading, WellFormed, Outcomes

\* A chart's row may be replaced by a well-formed one, or by none.
LEMMA RowReplaced ==
  ASSUME ChartsOK, NEW c \in Charts, NEW r, WellFormed(r) \/ r = None,
         chart' = [chart EXCEPT ![c] = r]
  PROVE  ChartsOK' /\ chart'[c] = r
BY DEF ChartsOK, WellFormed

\* An existing chart's row is well-formed.
LEMMA RowOfChart ==
  ASSUME ChartsOK, NEW c \in Charts, Exists(c)
  PROVE  WellFormed(chart[c]) /\ chart[c] \in Rows
BY PublishingAssumption DEF ChartsOK, Exists, WellFormed

\* A thread that starts, goes on or ends keeps RestOK and Informed.
LEMMA ReqReplaced ==
  ASSUME Typing, NEW t \in Threads, NEW r \in Reqs,
         req' = [req EXCEPT ![t] = r],
         \/ r.at \in {"idle", "query", "rules", "charts"}
         \/ r.chart \in Charts /\ r.stamp \in Requests /\ r.by \in Users
  PROVE  req' \in [Threads -> Reqs] /\ Informed'
BY DEF Typing, RestOK, Informed, Reading

LEMMA TypingNext == Typing /\ [Next]_vars => Typing'
<1> SUFFICES ASSUME Typing, [Next]_vars PROVE Typing'
  OBVIOUS
<1> USE DEF Typing, definition
<1>1. ASSUME NEW u \in Users, NEW c \in Charts, PublishAtOnce(u, c) PROVE Typing'
  <2>1. ChartsOK'
    BY <1>1, RowReplaced, PublicRow DEF PublishAtOnce, Publish
  <2>2. outcome' \in [Requests -> Outcomes]
    BY <1>1 DEF PublishAtOnce, RestOK, Outcomes
  <2>3. RestOK' /\ Informed'
    BY <1>1, <2>2 DEF PublishAtOnce, Publish, RestOK, Informed, Reading
  <2> QED BY <2>1, <2>3
<1>2. ASSUME NEW u \in Users, NEW c \in Charts, Cancel(u, c) PROVE Typing'
  <2>1. ChartsOK'
    <3>1. WellFormed(chart[c]) /\ ~chart[c].public
      BY <1>2, RowOfChart, PublishingAssumption DEF Cancel, IsPublic
    <3> QED BY <1>2, <3>1, RowReplaced, CancelledRow DEF Cancel
  <2>2. outcome' \in [Requests -> Outcomes]
    BY <1>2 DEF Cancel, RestOK, Outcomes
  <2>3. RestOK' /\ Informed'
    BY <1>2, <2>2 DEF Cancel, RestOK, Informed, Reading
  <2> QED BY <2>1, <2>3
<1>3. ASSUME NEW u \in Users, NEW c \in Charts, Unpublish(u, c) PROVE Typing'
  <2>1. ChartsOK'
    <3>1. WellFormed(chart[c])
      BY <1>3, RowOfChart DEF Unpublish, IsPublic
    <3> QED BY <1>3, <3>1, RowReplaced, RetractedRow DEF Unpublish
  <2>2. RestOK' /\ Informed'
    BY <1>3 DEF Unpublish, RestOK, Informed, Reading
  <2> QED BY <2>1, <2>2
<1>4. ASSUME NEW u \in Users, NEW c \in Charts, NEW s \in Requests, Ask(u, c, s)
      PROVE  Typing'
  <2>1. ChartsOK'
    BY <1>4, RowReplaced, PendingRow DEF Ask
  <2>2. RestOK' /\ Informed'
    BY <1>4 DEF Ask, RestOK, Informed, Reading, Outcomes
  <2> QED BY <2>1, <2>2
<1>5. ASSUME NEW t \in Threads, NEW c \in Charts, NEW given \in Fingerprints,
             NEW step \in {"pending", "rejecting"}, ReadPending(t, c, given, step)
      PROVE  Typing'
  <2> DEFINE r == [at |-> step, chart |-> c, stamp |-> chart[c].requestedAt,
                   by |-> chart[c].requestedBy, given |-> given,
                   found |-> [NoPrint EXCEPT !.chart = mapping[c]]]
  <2>1. WellFormed(chart[c]) /\ chart[c].requestedAt # None
    BY <1>5, RowOfChart DEF ReadPending, IsPending, Exists
  <2>2. chart[c].requestedAt \in Requests /\ chart[c].requestedBy \in Users
    BY <2>1 DEF WellFormed, Rows
  <2>3. [NoPrint EXCEPT !.chart = mapping[c]] \in Fingerprints
    BY PublishingAssumption DEF NoPrint, Fingerprints, RestOK
  <2>4. r \in Reqs /\ r.chart \in Charts /\ r.stamp \in Requests /\ r.by \in Users
    BY <2>2, <2>3 DEF Reqs
  <2>5. req' = [req EXCEPT ![t] = r]
    BY <1>5 DEF ReadPending
  <2> HIDE DEF r
  <2>6. req' \in [Threads -> Reqs] /\ Informed'
    BY <2>4, <2>5, ReqReplaced
  <2> QED BY <1>5, <2>6 DEF ReadPending, RestOK, ChartsOK
<1>6. ASSUME NEW t \in Threads, ApproveReadsQuery(t) PROVE Typing'
  <2> DEFINE r == [req[t] EXCEPT !.at = "queried", !.found.query = parts.query]
  <2>1. req[t] \in Reqs /\ parts.query \in Versions /\ req[t].at = "pending"
    BY <1>6 DEF RestOK, ApproveReadsQuery
  <2>2. r \in Reqs /\ r.chart = req[t].chart /\ r.stamp = req[t].stamp /\ r.by = req[t].by
    BY <2>1 DEF Reqs, Fingerprints
  <2>3. req' = [req EXCEPT ![t] = r]
    BY <1>6 DEF ApproveReadsQuery
  <2>4. r.chart \in Charts /\ r.stamp \in Requests /\ r.by \in Users
    BY <2>1, <2>2 DEF Informed, Reading
  <2> HIDE DEF r
  <2>5. req' \in [Threads -> Reqs] /\ Informed'
    BY <2>2, <2>3, <2>4, ReqReplaced
  <2> QED BY <1>6, <2>5 DEF ApproveReadsQuery, RestOK, ChartsOK
<1>7. ASSUME NEW t \in Threads, ApproveCompares(t) PROVE Typing'
  <2> DEFINE found == [req[t].found EXCEPT !.rules = parts.rules]
             r == [req[t] EXCEPT !.at = "compared", !.found = found]
  <2>1. req[t] \in Reqs /\ parts.rules \in Versions /\ req[t].at = "queried"
    BY <1>7 DEF RestOK, ApproveCompares
  <2>2. found \in Fingerprints
    BY <2>1 DEF Reqs, Fingerprints
  <2>3. req' = [req EXCEPT ![t] = r] \/ req' = [req EXCEPT ![t] = IdleReq]
    BY <1>7 DEF ApproveCompares
  <2> HIDE DEF found
  <2>4. r \in Reqs /\ r.chart = req[t].chart /\ r.stamp = req[t].stamp /\ r.by = req[t].by
    BY <2>1, <2>2 DEF Reqs
  <2>5. r.chart \in Charts /\ r.stamp \in Requests /\ r.by \in Users
    BY <2>1, <2>4 DEF Informed, Reading
  <2> HIDE DEF r
  <2>6. req' \in [Threads -> Reqs] /\ Informed'
    BY <2>3, <2>4, <2>5, ReqReplaced, PrivateRow
  <2> QED BY <1>7, <2>6 DEF ApproveCompares, RestOK, ChartsOK
<1>8. ASSUME NEW t \in Threads, ApproveWrites(t) PROVE Typing'
  <2>1. req' \in [Threads -> Reqs] /\ Informed'
    BY <1>8, ReqReplaced, PrivateRow DEF ApproveWrites
  <2>2. req[t].chart \in Charts /\ req[t].stamp \in Requests /\ req[t].by \in Users
        /\ req[t].given \in Fingerprints
    BY <1>8 DEF ApproveWrites, Informed, Reading, RestOK, Reqs
  <2>3. ChartsOK' /\ seen' \in [Charts -> Fingerprints \cup {None}]
    <3>1. CASE StillAsked(t)
      BY <1>8, <2>2, <3>1, RowReplaced, PublicRow DEF ApproveWrites, Publish, RestOK
    <3>2. CASE ~StillAsked(t)
      BY <1>8, <3>2 DEF ApproveWrites, ChartsOK, RestOK
    <3> QED BY <3>1, <3>2
  <2>4. outcome' \in [Requests -> Outcomes]
    BY <1>8, <2>2 DEF ApproveWrites, RestOK, Outcomes
  <2> QED BY <1>8, <2>1, <2>3, <2>4 DEF ApproveWrites, RestOK
<1>9. ASSUME NEW t \in Threads, RejectWrites(t) PROVE Typing'
  <2>1. req' \in [Threads -> Reqs] /\ Informed'
    BY <1>9, ReqReplaced, PrivateRow DEF RejectWrites
  <2>2. req[t].chart \in Charts /\ req[t].stamp \in Requests
    BY <1>9 DEF RejectWrites, Informed, Reading
  <2>3. ChartsOK'
    <3>1. CASE StillAsked(t)
      BY <1>9, <2>2, <3>1, RowReplaced, RejectedRow DEF RejectWrites
    <3>2. CASE ~StillAsked(t)
      BY <1>9, <3>2 DEF RejectWrites, ChartsOK
    <3> QED BY <3>1, <3>2
  <2>4. outcome' \in [Requests -> Outcomes]
    BY <1>9, <2>2 DEF RejectWrites, RestOK, Outcomes
  <2> QED BY <1>9, <2>1, <2>3, <2>4 DEF RejectWrites, RestOK
<1>10. ASSUME NEW t \in Threads, NEW u \in Users, NEW kind \in Edited,
              EditStarts(t, u, kind)
       PROVE  Typing'
  <2> DEFINE r == [IdleReq EXCEPT !.at = kind]
  <2>1. r \in Reqs /\ r.at \in {"idle", "query", "rules", "charts"}
    BY PrivateRow, PublishingAssumption DEF Reqs
  <2>2. req' = [req EXCEPT ![t] = r]
    BY <1>10 DEF EditStarts
  <2> HIDE DEF r
  <2>3. req' \in [Threads -> Reqs] /\ Informed'
    BY <2>1, <2>2, ReqReplaced
  <2> QED BY <1>10, <2>3 DEF EditStarts, RestOK, ChartsOK
<1>11. ASSUME NEW t \in Threads, EditFails(t) PROVE Typing'
  <2>1. req' \in [Threads -> Reqs] /\ Informed'
    BY <1>11, ReqReplaced, PrivateRow DEF EditFails
  <2> QED BY <1>11, <2>1 DEF EditFails, RestOK, ChartsOK
<1>12. ASSUME NEW t \in Threads, UpdateQuery(t) \/ ReplaceRules(t) PROVE Typing'
  <2>1. req' \in [Threads -> Reqs] /\ Informed'
    BY <1>12, ReqReplaced, PrivateRow DEF UpdateQuery, ReplaceRules
  <2>2. parts' \in [query : Versions, rules : Versions]
    BY <1>12 DEF UpdateQuery, ReplaceRules, RestOK
  <2>3. drifted' \in [Charts -> BOOLEAN]
    BY <1>12 DEF UpdateQuery, ReplaceRules, Lands, RestOK
  <2> QED BY <1>12, <2>1, <2>2, <2>3 DEF UpdateQuery, ReplaceRules, RestOK, ChartsOK
<1>13. ASSUME NEW t \in Threads, ReplaceCharts(t) PROVE Typing'
  <2>1. req' \in [Threads -> Reqs] /\ Informed'
    BY <1>13, ReqReplaced, PrivateRow DEF ReplaceCharts
  <2>2. PICK given \in SUBSET Charts :
          LET removed == {c \in Charts \ given : Exists(c)}
          IN  /\ \E drawn \in [given -> Versions] :
                   mapping' = [c \in Charts |-> IF c \in given THEN drawn[c] ELSE mapping[c]]
              /\ chart' = [c \in Charts |->
                   CASE c \notin given -> None
                     [] c \in given /\ ~Exists(c) -> Private
                     [] OTHER -> chart[c]]
              /\ seen' = [c \in Charts |-> IF c \in given THEN seen[c] ELSE None]
              /\ outcome' = [s \in Requests |->
                   IF s \in WaitingOn(removed) THEN "dropped" ELSE outcome[s]]
    BY <1>13 DEF ReplaceCharts
  <2>3. ChartsOK'
    BY <2>2, PrivateRow, RowOfChart DEF ChartsOK, WellFormed
  <2>4. mapping' \in [Charts -> Versions] /\ seen' \in [Charts -> Fingerprints \cup {None}]
    BY <2>2 DEF RestOK
  <2>5. outcome' \in [Requests -> Outcomes]
    BY <2>2 DEF RestOK, Outcomes
  <2>6. drifted' \in [Charts -> BOOLEAN] /\ parts' = parts
    BY <1>13 DEF ReplaceCharts, Lands, RestOK
  <2> QED BY <2>1, <2>3, <2>4, <2>5, <2>6 DEF RestOK
<1>14. CASE UNCHANGED vars
  BY <1>14 DEF vars, ChartsOK, RestOK, Informed, Reading
<1>15. NoPrint \in Fingerprints
  BY PrivateRow
<1> HIDE DEF Typing
<1> QED
  BY <1>1, <1>2, <1>3, <1>4, <1>5, <1>6, <1>7, <1>8, <1>9, <1>10, <1>11, <1>12, <1>13,
     <1>14, <1>15
     DEF Next, ApproveStarts, RejectStarts

\* The charts, the request threads and the recorded requests keep their types
\* through any clicks, decisions and edits: a request always names who asked, a
\* public chart who published.
THEOREM TypeCorrect == Spec => []TypeOK
<1>1. Spec => []Typing
  BY TypingInit, TypingNext, PTL DEF Spec
<1> QED BY <1>1, TypingImplies, PTL

-----------------------------------------------------------------------------
(* Requests: the chart that waits on one, and the threads that read it.    *)

\* A waiting chart is private and its request open, ...
Waiting ==
  \A c \in Charts : IsPending(c) =>
    ~IsPublic(c) /\ chart[c].requestedAt \in Requests
    /\ outcome[chart[c].requestedAt] = "open"

\* ... no two charts wait on one request, ...
OneChartPerRequest ==
  \A c, d \in Charts :
    IsPending(c) /\ IsPending(d) /\ chart[c].requestedAt = chart[d].requestedAt => c = d

\* ... and a request that was read has been asked.
Asked == \A t \in Threads : Reading(t) => outcome[req[t].stamp] # "unused"

Book == Waiting /\ OneChartPerRequest /\ Asked

\* What an approval has read is still so, or an edit was committed meanwhile,
\* or its write will match nothing.
Reviewing ==
  \A t \in Threads :
    /\ req[t].at \in {"pending", "queried", "compared"}
    /\ StillAsked(t)
    /\ ~drifted[req[t].chart]
    => /\ req[t].found.chart = mapping[req[t].chart]
       /\ req[t].at \in {"queried", "compared"} => req[t].found.query = parts.query
       /\ req[t].at = "compared" =>
            req[t].found.rules = parts.rules /\ req[t].found = req[t].given

IInv == Typing /\ Book /\ Reviewing /\ ApprovedAsReviewed

\* The row of chart c becomes r, on which nobody waits, and nothing but c's
\* request is decided.
Settles(c, r) ==
  /\ Exists(c) /\ chart' = [chart EXCEPT ![c] = r]
  /\ WellFormed(r) /\ r.requestedAt = None
  /\ outcome' \in [Requests -> Outcomes]
  /\ \A s \in Requests :
       outcome'[s] # outcome[s] => IsPending(c) /\ s = chart[c].requestedAt
                                   /\ outcome'[s] \notin {"unused", "open"}

LEMMA SettlesKeepsBook ==
  ASSUME Typing, Book, NEW c \in Charts, NEW r, Settles(c, r),
         \A t \in Threads : req'[t] = req[t] \/ req'[t] = IdleReq
  PROVE  Book'
<1>1. \A d \in Charts : d # c => chart'[d] = chart[d]
  BY DEF Settles, Typing, ChartsOK
<1>2. ~IsPending(c)'
  BY DEF Settles, IsPending, Exists, Typing, ChartsOK
<1>3. Waiting'
  <2> SUFFICES ASSUME NEW d \in Charts, IsPending(d)'
               PROVE  (~IsPublic(d) /\ chart[d].requestedAt \in Requests
                       /\ outcome[chart[d].requestedAt] = "open")'
    BY DEF Waiting
  <2>1. d # c /\ chart'[d] = chart[d] /\ IsPending(d)
    BY <1>1, <1>2 DEF IsPending, Exists
  <2>2. ~IsPublic(d) /\ chart[d].requestedAt \in Requests
        /\ outcome[chart[d].requestedAt] = "open"
    BY <2>1 DEF Book, Waiting
  <2>3. ~(IsPending(c) /\ chart[c].requestedAt = chart[d].requestedAt)
    BY <2>1 DEF Book, OneChartPerRequest
  <2> QED BY <2>1, <2>2, <2>3 DEF Settles, IsPublic, Exists
<1>4. OneChartPerRequest'
  BY <1>1, <1>2 DEF OneChartPerRequest, Book, IsPending, Exists
<1>5. Asked'
  <2> SUFFICES ASSUME NEW t \in Threads, Reading(t)'
               PROVE  outcome'[req'[t].stamp] # "unused"
    BY DEF Asked
  <2>1. req'[t] = req[t] /\ Reading(t)
    BY PrivateRow DEF Reading
  <2>2. req[t].stamp \in Requests /\ outcome[req[t].stamp] # "unused"
    BY <2>1 DEF Typing, Informed, Book, Asked
  <2> QED BY <2>1, <2>2 DEF Settles
<1> QED BY <1>3, <1>4, <1>5 DEF Book

\* A thread whose write would match did so before, and c is not its chart.
LEMMA SettlesKeepsReviewing ==
  ASSUME Typing, Reviewing, NEW c \in Charts, NEW r, Settles(c, r),
         \A t \in Threads : req'[t] = req[t] \/ req'[t] = IdleReq,
         UNCHANGED <<parts, mapping, drifted>>
  PROVE  Reviewing'
<1> SUFFICES ASSUME NEW t \in Threads,
                    req'[t].at \in {"pending", "queried", "compared"},
                    StillAsked(t)', ~drifted'[req'[t].chart]
             PROVE  /\ req'[t].found.chart = mapping'[req'[t].chart]
                    /\ req'[t].at \in {"queried", "compared"} =>
                         req'[t].found.query = parts'.query
                    /\ req'[t].at = "compared" =>
                         req'[t].found.rules = parts'.rules /\ req'[t].found = req'[t].given
  BY DEF Reviewing
<1>1. req'[t] = req[t] /\ Reading(t)
  BY PrivateRow DEF Reading
<1>2. req[t].chart \in Charts /\ req[t].stamp \in Requests
  BY <1>1 DEF Typing, Informed
<1>3. req[t].chart # c
  BY <1>1, <1>2, PublishingAssumption DEF StillAsked, Settles, Typing, ChartsOK
<1>4. StillAsked(t)
  BY <1>1, <1>2, <1>3
     DEF StillAsked, Exists, IsPublic, Settles, Typing, ChartsOK
<1> QED BY <1>1, <1>4 DEF Reviewing

\* The charts other than c are as reviewed as they were.
LEMMA SettlesKeepsReviewed ==
  ASSUME Typing, ApprovedAsReviewed, NEW c \in Charts, NEW r, Settles(c, r),
         UNCHANGED <<parts, mapping, drifted>>,
         \A d \in Charts \ {c} : seen'[d] = seen[d],
         r.public /\ seen'[c] # None => drifted[c] \/ seen'[c] = FingerprintOf(c)
  PROVE  ApprovedAsReviewed'
BY DEF ApprovedAsReviewed, FingerprintOf, IsPublic, Exists, Settles, Typing, ChartsOK

\* The operations that settle a chart.
LEMMA PublishAtOnceSettles ==
  ASSUME Typing, Book, NEW u \in Users, NEW c \in Charts, PublishAtOnce(u, c)
  PROVE  \E r : Settles(c, r)
<1> DEFINE r == [Private EXCEPT !.public = TRUE, !.publishedBy = u]
<1>1. WellFormed(r) /\ r.requestedAt = None
  BY PublicRow
<1>2. chart' = [chart EXCEPT ![c] = r]
  BY DEF PublishAtOnce, Publish
<1> HIDE DEF r
<1>3. Settles(c, r)
  BY <1>1, <1>2, PublishingAssumption
     DEF Settles, PublishAtOnce, IsPending, Typing, RestOK, Outcomes
<1> QED BY <1>3

LEMMA CancelSettles ==
  ASSUME Typing, Book, NEW u \in Users, NEW c \in Charts, Cancel(u, c)
  PROVE  \E r : Settles(c, r) /\ ~r.public
<1> DEFINE w == [chart[c] EXCEPT !.requestedAt = None, !.requestedBy = None]
           n == [chart[c] EXCEPT !.rejected = FALSE]
           r == IF IsPending(c) THEN w ELSE n
<1>1. WellFormed(chart[c]) /\ ~chart[c].public
  BY RowOfChart, PublishingAssumption DEF Cancel, IsPublic, Typing
<1>2. ~IsPending(c) => chart[c].requestedAt = None
  BY DEF IsPending, Cancel
<1>3. WellFormed(r) /\ r.requestedAt = None /\ ~r.public
  BY <1>1, <1>2, CancelledRow
<1>4. chart' = [chart EXCEPT ![c] = r]
  BY DEF Cancel
<1> HIDE DEF r
<1>5. /\ Exists(c)
      /\ outcome' = [s \in Requests |->
           IF s = chart[c].requestedAt THEN "withdrawn" ELSE outcome[s]]
  BY DEF Cancel
<1>6. Settles(c, r)
  BY <1>3, <1>4, <1>5, PublishingAssumption
     DEF Settles, IsPending, Typing, RestOK, Outcomes
<1> QED BY <1>3, <1>6

LEMMA UnpublishSettles ==
  ASSUME Typing, Book, NEW u \in Users, NEW c \in Charts, Unpublish(u, c)
  PROVE  \E r : Settles(c, r) /\ ~r.public
<1> DEFINE r == [chart[c] EXCEPT !.public = FALSE, !.publishedBy = None]
<1>1. WellFormed(chart[c]) /\ Exists(c)
  BY RowOfChart DEF Unpublish, IsPublic, Typing
<1>2. chart[c].requestedAt = None
  BY <1>1 DEF Book, Waiting, Unpublish, IsPending
<1>3. WellFormed(r) /\ r.requestedAt = None /\ ~r.public
  BY <1>1, <1>2, RetractedRow
<1>4. chart' = [chart EXCEPT ![c] = r]
  BY DEF Unpublish
<1> HIDE DEF r
<1>5. Settles(c, r)
  BY <1>1, <1>3, <1>4 DEF Settles, Unpublish, Typing, RestOK, Outcomes
<1> QED BY <1>3, <1>5

\* A decision whose UPDATE matches settles the chart it read, which still waits
\* on the request it read.
LEMMA DecisionFindsRequest ==
  ASSUME Typing, NEW t \in Threads, Reading(t), StillAsked(t)
  PROVE  /\ req[t].chart \in Charts /\ req[t].stamp \in Requests /\ req[t].by \in Users
         /\ Exists(req[t].chart) /\ IsPending(req[t].chart)
         /\ chart[req[t].chart].requestedAt = req[t].stamp
BY PublishingAssumption DEF Typing, Informed, StillAsked, IsPending

LEMMA ApproveSettles ==
  ASSUME Typing, Book, NEW t \in Threads, ApproveWrites(t), StillAsked(t)
  PROVE  \E r : Settles(req[t].chart, r)
<1> DEFINE c == req[t].chart
           r == [Private EXCEPT !.public = TRUE, !.publishedBy = req[t].by]
<1>1. c \in Charts /\ req[t].stamp \in Requests /\ req[t].by \in Users
      /\ Exists(c) /\ IsPending(c) /\ chart[c].requestedAt = req[t].stamp
  BY DecisionFindsRequest DEF ApproveWrites, Reading
<1>2. WellFormed(r) /\ r.requestedAt = None
  BY <1>1, PublicRow
<1>3. chart' = [chart EXCEPT ![c] = r]
  BY DEF ApproveWrites, Publish
<1> HIDE DEF r
<1>4. Settles(c, r)
  BY <1>1, <1>2, <1>3 DEF Settles, ApproveWrites, Typing, RestOK, Outcomes
<1> QED BY <1>4

LEMMA RejectSettles ==
  ASSUME Typing, Book, NEW t \in Threads, RejectWrites(t), StillAsked(t)
  PROVE  \E r : Settles(req[t].chart, r) /\ ~r.public
<1> DEFINE c == req[t].chart
           r == [Private EXCEPT !.rejected = TRUE]
<1>1. c \in Charts /\ req[t].stamp \in Requests
      /\ Exists(c) /\ IsPending(c) /\ chart[c].requestedAt = req[t].stamp
  BY DecisionFindsRequest DEF RejectWrites, Reading
<1>2. WellFormed(r) /\ r.requestedAt = None /\ ~r.public
  BY RejectedRow
<1>3. chart' = [chart EXCEPT ![c] = r]
  BY DEF RejectWrites
<1> HIDE DEF r
<1>4. Settles(c, r)
  BY <1>1, <1>2, <1>3 DEF Settles, RejectWrites, Typing, RestOK, Outcomes
<1> QED BY <1>2, <1>4

\* A thread's step that touches no chart and no request.
LEMMA ReadingKeepsBook ==
  ASSUME Typing, Book, UNCHANGED <<chart, outcome>>,
         \A t \in Threads : Reading(t)' =>
           \/ Reading(t) /\ req'[t].stamp = req[t].stamp
           \/ outcome[req'[t].stamp] # "unused"
  PROVE  Book'
BY DEF Book, Waiting, OneChartPerRequest, Asked, IsPending, IsPublic, Exists

-----------------------------------------------------------------------------
(* The invariant.                                                          *)

LEMMA IInvInit == Init => IInv
<1> SUFFICES ASSUME Init PROVE IInv
  OBVIOUS
<1>1. \A c \in Charts : ~IsPublic(c) /\ ~IsPending(c)
  BY PrivateRow, PublishingAssumption DEF Init, IsPublic, IsPending
<1>2. \A t \in Threads : req[t].at = "idle"
  BY PrivateRow DEF Init
<1>3. Book /\ Reviewing /\ ApprovedAsReviewed
  BY <1>1, <1>2
     DEF Book, Waiting, OneChartPerRequest, Asked, Reading, Reviewing, ApprovedAsReviewed
<1> QED BY <1>3, TypingInit DEF IInv

\* A step that settles one chart.
LEMMA SettlingStep ==
  ASSUME IInv, Typing', NEW c \in Charts, NEW r, Settles(c, r),
         \A t \in Threads : req'[t] = req[t] \/ req'[t] = IdleReq,
         UNCHANGED <<parts, mapping, drifted>>,
         \A d \in Charts \ {c} : seen'[d] = seen[d],
         r.public /\ seen'[c] # None => drifted[c] \/ seen'[c] = FingerprintOf(c)
  PROVE  IInv'
BY SettlesKeepsBook, SettlesKeepsReviewing, SettlesKeepsReviewed DEF IInv

\* A request thread that starts, reads or gives up.
LEMMA ThreadStep ==
  ASSUME IInv, Typing', NEW t \in Threads, NEW r,
         req' = [req EXCEPT ![t] = r],
         UNCHANGED <<chart, parts, mapping, outcome, seen, drifted>>,
         Reading(t)' => outcome[r.stamp] # "unused",
         /\ r.at \in {"pending", "queried", "compared"}
         /\ StillAsked(t)' /\ ~drifted[r.chart]
         => /\ r.found.chart = mapping[r.chart]
            /\ r.at \in {"queried", "compared"} => r.found.query = parts.query
            /\ r.at = "compared" => r.found.rules = parts.rules /\ r.found = r.given
  PROVE  IInv'
<1>1. req'[t] = r /\ \A x \in Threads \ {t} : req'[x] = req[x]
  BY DEF IInv, Typing, RestOK
<1>2. Book'
  <2>1. \A x \in Threads : Reading(x)' =>
          (Reading(x) /\ req'[x].stamp = req[x].stamp) \/ outcome[req'[x].stamp] # "unused"
    BY <1>1 DEF Reading
  <2> QED BY <2>1, ReadingKeepsBook DEF IInv
<1>3. Reviewing'
  BY <1>1 DEF Reviewing, IInv, StillAsked, Exists, IsPublic
<1>4. ApprovedAsReviewed'
  BY DEF ApprovedAsReviewed, FingerprintOf, IsPublic, Exists, IInv
<1> QED BY <1>2, <1>3, <1>4 DEF IInv

\* An edit of the query or of its rules: whoever has read the old definition
\* reviews a chart that is marked as drifted.
LEMMA EditStep ==
  ASSUME IInv, Typing', NEW t \in Threads, req' = [req EXCEPT ![t] = IdleReq],
         Lands, UNCHANGED <<chart, outcome, seen>>
  PROVE  IInv'
<1>1. req'[t] = IdleReq /\ \A x \in Threads \ {t} : req'[x] = req[x]
  BY DEF IInv, Typing, RestOK
<1>2. Book'
  <2>1. \A x \in Threads : Reading(x)' => Reading(x) /\ req'[x].stamp = req[x].stamp
    BY <1>1, PrivateRow DEF Reading
  <2> QED BY <2>1, ReadingKeepsBook DEF IInv
<1>3. Reviewing'
  <2> SUFFICES ASSUME NEW x \in Threads, req'[x].at \in {"pending", "queried", "compared"},
                      StillAsked(x)', ~drifted'[req'[x].chart]
               PROVE  FALSE
    BY DEF Reviewing
  <2>1. req'[x] = req[x] /\ Reading(x) /\ StillAsked(x)
    BY <1>1, PrivateRow DEF Reading, StillAsked, Exists, IsPublic
  <2>2. req[x].chart \in Charts /\ IsPending(req[x].chart)
    BY <2>1, DecisionFindsRequest DEF IInv
  <2> QED BY <2>1, <2>2 DEF Lands
<1>4. ApprovedAsReviewed'
  BY DEF ApprovedAsReviewed, Lands, IsPublic, Exists
<1> QED BY <1>2, <1>3, <1>4 DEF IInv

\* Another chart set: what stays is unchanged, what goes takes its request along.
LEMMA ReplaceChartsStep ==
  ASSUME IInv, Typing', NEW t \in Threads, ReplaceCharts(t)
  PROVE  IInv'
<1>1. req'[t] = IdleReq /\ \A x \in Threads \ {t} : req'[x] = req[x]
  BY DEF IInv, Typing, RestOK, ReplaceCharts
<1>2. PICK given \in SUBSET Charts :
        LET removed == {c \in Charts \ given : Exists(c)}
        IN  /\ chart' = [c \in Charts |->
                 CASE c \notin given -> None
                   [] c \in given /\ ~Exists(c) -> Private
                   [] OTHER -> chart[c]]
            /\ outcome' = [s \in Requests |->
                 IF s \in WaitingOn(removed) THEN "dropped" ELSE outcome[s]]
  BY DEF ReplaceCharts
<1>3. ASSUME NEW c \in Charts, IsPublic(c)' \/ IsPending(c)'
      PROVE  chart'[c] = chart[c] /\ c \in given /\ Exists(c)
  BY <1>2, <1>3, PrivateRow DEF IsPublic, IsPending, Exists
<1>4. ASSUME NEW c \in Charts
      PROVE  /\ IsPublic(c)' => IsPublic(c)
             /\ IsPending(c)' => IsPending(c)
             /\ IsPublic(c)' \/ IsPending(c)' => drifted'[c]
  BY <1>3 DEF IsPublic, IsPending, Exists, ReplaceCharts, Lands
<1>5. Waiting'
  <2> SUFFICES ASSUME NEW c \in Charts, IsPending(c)'
               PROVE  (~IsPublic(c) /\ chart[c].requestedAt \in Requests
                       /\ outcome[chart[c].requestedAt] = "open")'
    BY DEF Waiting
  <2> DEFINE s == chart[c].requestedAt
  <2>1. chart'[c] = chart[c] /\ c \in given /\ IsPending(c)
    BY <1>3, <1>4
  <2>2. ~IsPublic(c) /\ s \in Requests /\ outcome[s] = "open"
    BY <2>1 DEF IInv, Book, Waiting
  <2>3. s \notin WaitingOn({d \in Charts \ given : Exists(d)})
    BY <2>1 DEF IInv, Book, OneChartPerRequest, WaitingOn
  <2> HIDE DEF s
  <2>4. outcome'[s] = "open"
    BY <1>2, <2>2, <2>3
  <2>5. ~IsPublic(c)'
    BY <1>4, <2>2
  <2> QED BY <2>1, <2>2, <2>4, <2>5 DEF s
<1>6. OneChartPerRequest'
  BY <1>3, <1>4 DEF OneChartPerRequest, IInv, Book
<1>7. Asked'
  <2> SUFFICES ASSUME NEW x \in Threads, Reading(x)'
               PROVE  outcome'[req'[x].stamp] # "unused"
    BY DEF Asked
  <2>1. req'[x] = req[x] /\ Reading(x)
    BY <1>1, PrivateRow DEF Reading
  <2>2. req[x].stamp \in Requests /\ outcome[req[x].stamp] # "unused"
    BY <2>1 DEF IInv, Typing, Informed, Book, Asked
  <2> QED BY <1>2, <2>1, <2>2
<1>8. Reviewing'
  <2> SUFFICES ASSUME NEW x \in Threads, req'[x].at \in {"pending", "queried", "compared"},
                      StillAsked(x)', ~drifted'[req'[x].chart]
               PROVE  FALSE
    BY DEF Reviewing
  <2>1. req'[x] = req[x] /\ Reading(x)
    BY <1>1, PrivateRow DEF Reading
  <2>2. req[x].chart \in Charts /\ req[x].stamp \in Requests
    BY <2>1 DEF IInv, Typing, Informed
  <2>3. IsPending(req[x].chart)'
    BY <2>1, <2>2, PublishingAssumption DEF StillAsked, IsPending, Exists
  <2> QED BY <1>4, <2>1, <2>2, <2>3
<1>9. ApprovedAsReviewed'
  BY <1>4 DEF ApprovedAsReviewed
<1> QED BY <1>5, <1>6, <1>7, <1>8, <1>9 DEF IInv, Book

LEMMA IInvNext == IInv /\ [Next]_vars => IInv'
<1> SUFFICES ASSUME IInv, [Next]_vars PROVE IInv'
  OBVIOUS
<1> USE DEF definition
<1>0. Typing' /\ Typing /\ Book
  BY TypingNext DEF IInv
<1>1. ASSUME NEW u \in Users, NEW c \in Charts, PublishAtOnce(u, c) PROVE IInv'
  <2>1. PICK r : Settles(c, r)
    BY <1>0, <1>1, PublishAtOnceSettles
  <2>2. seen' = [seen EXCEPT ![c] = None] /\ UNCHANGED <<req, parts, mapping, drifted>>
    BY <1>1 DEF PublishAtOnce, Publish
  <2>3. seen'[c] = None /\ \A d \in Charts \ {c} : seen'[d] = seen[d]
    BY <1>0, <2>2 DEF Typing, RestOK
  <2> QED BY <1>0, <2>1, <2>2, <2>3, SettlingStep
<1>2. ASSUME NEW u \in Users, NEW c \in Charts, Cancel(u, c) PROVE IInv'
  <2>1. PICK r : Settles(c, r) /\ ~r.public
    BY <1>0, <1>2, CancelSettles
  <2>2. UNCHANGED <<req, parts, mapping, drifted, seen>>
    BY <1>2 DEF Cancel
  <2> QED BY <1>0, <2>1, <2>2, SettlingStep
<1>3. ASSUME NEW u \in Users, NEW c \in Charts, Unpublish(u, c) PROVE IInv'
  <2>1. PICK r : Settles(c, r) /\ ~r.public
    BY <1>0, <1>3, UnpublishSettles
  <2>2. seen' = [seen EXCEPT ![c] = None] /\ UNCHANGED <<req, parts, mapping, drifted>>
    BY <1>3 DEF Unpublish
  <2>3. \A d \in Charts \ {c} : seen'[d] = seen[d]
    BY <1>0, <2>2 DEF Typing, RestOK
  <2> QED BY <1>0, <2>1, <2>2, <2>3, SettlingStep
<1>4. ASSUME NEW u \in Users, NEW c \in Charts, NEW s \in Requests, Ask(u, c, s)
      PROVE  IInv'
  <2> DEFINE r == [Private EXCEPT !.requestedAt = s, !.requestedBy = u]
  <2>1. WellFormed(r) /\ ~r.public /\ r.requestedAt = s
    BY PendingRow
  <2>2. chart' = [chart EXCEPT ![c] = r]
    BY <1>4 DEF Ask
  <2> HIDE DEF r
  <2>3. chart'[c] = r /\ \A d \in Charts \ {c} : chart'[d] = chart[d]
    BY <1>0, <2>2 DEF Typing, ChartsOK
  <2>4. /\ outcome[s] = "unused" /\ outcome'[s] = "open"
        /\ \A x \in Requests \ {s} : outcome'[x] = outcome[x]
        /\ UNCHANGED <<req, parts, mapping, seen>>
        /\ \A d \in Charts \ {c} : drifted'[d] = drifted[d]
    BY <1>0, <1>4 DEF Ask, Typing, RestOK
  <2>5. Waiting'
    BY <1>0, <2>1, <2>3, <2>4 DEF Book, Waiting, IsPending, IsPublic, Exists
  <2>6. OneChartPerRequest'
    BY <1>0, <2>1, <2>3, <2>4 DEF Book, Waiting, OneChartPerRequest, IsPending, Exists
  <2>7. Asked'
    BY <1>0, <2>4 DEF Book, Asked, Reading, Typing, Informed
  <2>8. Reviewing'
    <3> SUFFICES ASSUME NEW t \in Threads, req[t].at \in {"pending", "queried", "compared"},
                        StillAsked(t)', ~drifted'[req[t].chart]
                 PROVE  StillAsked(t) /\ ~drifted[req[t].chart]
      BY <2>4 DEF IInv, Reviewing
    <3>1. Reading(t) /\ req[t].chart \in Charts /\ req[t].stamp \in Requests
      BY <1>0 DEF Reading, Typing, Informed
    <3>2. req[t].stamp # s
      BY <1>0, <2>4, <3>1 DEF Book, Asked
    <3>3. req[t].chart # c
      BY <2>1, <2>3, <2>4, <3>2 DEF StillAsked
    <3> QED BY <2>3, <2>4, <3>1, <3>3 DEF StillAsked, Exists, IsPublic
  <2>9. ApprovedAsReviewed'
    BY <2>1, <2>3, <2>4 DEF IInv, ApprovedAsReviewed, IsPublic, Exists, FingerprintOf
  <2> QED BY <1>0, <2>5, <2>6, <2>7, <2>8, <2>9 DEF IInv, Book
<1>5. ASSUME NEW t \in Threads, NEW c \in Charts, NEW given \in Fingerprints,
             NEW step \in {"pending", "rejecting"}, ReadPending(t, c, given, step)
      PROVE  IInv'
  <2> DEFINE r == [at |-> step, chart |-> c, stamp |-> chart[c].requestedAt,
                   by |-> chart[c].requestedBy, given |-> given,
                   found |-> [NoPrint EXCEPT !.chart = mapping[c]]]
  <2>1. req' = [req EXCEPT ![t] = r] /\ UNCHANGED <<chart, parts, mapping, outcome, seen, drifted>>
    BY <1>5 DEF ReadPending
  <2>2. outcome[r.stamp] # "unused"
    BY <1>0, <1>5 DEF ReadPending, Book, Waiting
  <2>3. r.found.chart = mapping[r.chart] /\ r.at \notin {"queried", "compared"}
    BY DEF NoPrint
  <2> HIDE DEF r
  <2> QED BY <1>0, <2>1, <2>2, <2>3, ThreadStep
<1>6. ASSUME NEW t \in Threads, ApproveReadsQuery(t) PROVE IInv'
  <2> DEFINE r == [req[t] EXCEPT !.at = "queried", !.found.query = parts.query]
  <2>1. req' = [req EXCEPT ![t] = r] /\ UNCHANGED <<chart, parts, mapping, outcome, seen, drifted>>
    BY <1>6 DEF ApproveReadsQuery
  <2>2. req[t] \in Reqs /\ req[t].at = "pending" /\ Reading(t)
    BY <1>0, <1>6 DEF Typing, RestOK, ApproveReadsQuery, Reading
  <2>3. /\ r.at = "queried" /\ r.chart = req[t].chart /\ r.stamp = req[t].stamp
        /\ r.by = req[t].by
        /\ r.found.chart = req[t].found.chart /\ r.found.query = parts.query
    BY <2>2 DEF Reqs, Fingerprints
  <2> HIDE DEF r
  <2>4. outcome[r.stamp] # "unused"
    BY <1>0, <2>2, <2>3 DEF Book, Asked
  <2>5. req'[t] = r
    BY <1>0, <2>1 DEF Typing, RestOK
  <2>6. StillAsked(t)' => StillAsked(t)
    BY <2>1, <2>3, <2>5 DEF StillAsked, Exists, IsPublic
  <2>7. StillAsked(t)' /\ ~drifted[r.chart] => r.found.chart = mapping[r.chart]
    BY <2>2, <2>3, <2>6 DEF IInv, Reviewing
  <2> QED BY <1>0, <2>1, <2>3, <2>4, <2>7, ThreadStep
<1>7. ASSUME NEW t \in Threads, ApproveCompares(t) PROVE IInv'
  <2> DEFINE found == [req[t].found EXCEPT !.rules = parts.rules]
             r == [req[t] EXCEPT !.at = "compared", !.found = found]
  <2>1. UNCHANGED <<chart, parts, mapping, outcome, seen, drifted>>
    BY <1>7 DEF ApproveCompares
  <2>2. req[t] \in Reqs /\ req[t].at = "queried" /\ Reading(t)
    BY <1>0, <1>7 DEF Typing, RestOK, ApproveCompares, Reading
  <2>3. CASE found # req[t].given
    <3>1. req' = [req EXCEPT ![t] = IdleReq]
      BY <1>7, <2>3 DEF ApproveCompares
    <3>2. req'[t] = IdleReq
      BY <1>0, <3>1 DEF Typing, RestOK
    <3> QED BY <1>0, <2>1, <3>1, <3>2, PrivateRow, ThreadStep DEF Reading
  <2>4. CASE found = req[t].given
    <3>1. req' = [req EXCEPT ![t] = r]
      BY <1>7, <2>4 DEF ApproveCompares
    <3>2. /\ found.chart = req[t].found.chart /\ found.query = req[t].found.query
          /\ found.rules = parts.rules
      BY <2>2 DEF Reqs, Fingerprints
    <3> HIDE DEF found
    <3>3. /\ r.at = "compared" /\ r.chart = req[t].chart /\ r.stamp = req[t].stamp
          /\ r.by = req[t].by /\ r.found = found /\ r.given = req[t].given
      BY <2>2 DEF Reqs
    <3> HIDE DEF r
    <3>4. outcome[r.stamp] # "unused"
      BY <1>0, <2>2, <3>3 DEF Book, Asked
    <3>5. req'[t] = r
      BY <1>0, <3>1 DEF Typing, RestOK
    <3>6. StillAsked(t)' => StillAsked(t)
      BY <2>1, <3>3, <3>5 DEF StillAsked, Exists, IsPublic
    <3>7. StillAsked(t)' /\ ~drifted[r.chart] =>
            req[t].found.chart = mapping[r.chart] /\ req[t].found.query = parts.query
      BY <2>2, <3>3, <3>6 DEF IInv, Reviewing
    <3> QED BY <1>0, <2>1, <2>4, <3>1, <3>2, <3>3, <3>4, <3>7, ThreadStep
  <2> QED BY <2>3, <2>4
<1>8. ASSUME NEW t \in Threads, ApproveWrites(t) PROVE IInv'
  <2>1. req' = [req EXCEPT ![t] = IdleReq] /\ UNCHANGED <<parts, mapping, drifted>>
    BY <1>8 DEF ApproveWrites
  <2>2. req'[t] = IdleReq /\ \A x \in Threads \ {t} : req'[x] = req[x]
    BY <1>0, <2>1 DEF Typing, RestOK
  <2>3. CASE StillAsked(t)
    <3> DEFINE c == req[t].chart
    <3>1. PICK r : Settles(c, r)
      BY <1>0, <1>8, <2>3, ApproveSettles
    <3>2. c \in Charts /\ Reading(t)
      BY <1>0, <1>8, <2>3, DecisionFindsRequest DEF Reading, ApproveWrites
    <3>3. seen' = [seen EXCEPT ![c] = req[t].given]
      BY <1>8, <2>3 DEF ApproveWrites, Publish
    <3>4. seen'[c] = req[t].given /\ \A d \in Charts \ {c} : seen'[d] = seen[d]
      BY <1>0, <3>2, <3>3 DEF Typing, RestOK
    <3>5. ~drifted[c] => req[t].given = FingerprintOf(c)
      <4>1. req[t] \in Reqs /\ req[t].at = "compared"
        BY <1>0, <1>8 DEF Typing, RestOK, ApproveWrites
      <4>2. ~drifted[c] => /\ req[t].found.chart = mapping[c]
                           /\ req[t].found.query = parts.query
                           /\ req[t].found.rules = parts.rules
                           /\ req[t].found = req[t].given
        BY <2>3, <4>1 DEF IInv, Reviewing
      <4>3. req[t].found \in Fingerprints
        BY <4>1 DEF Reqs
      <4> QED BY <4>2, <4>3 DEF Fingerprints, FingerprintOf
    <3> HIDE DEF c
    <3> QED BY <1>0, <2>1, <2>2, <3>1, <3>2, <3>4, <3>5, SettlingStep
  <2>4. CASE ~StillAsked(t)
    BY <1>0, <1>8, <2>1, <2>2, <2>4, PrivateRow, ThreadStep DEF ApproveWrites, Reading
  <2> QED BY <2>3, <2>4
<1>9. ASSUME NEW t \in Threads, RejectWrites(t) PROVE IInv'
  <2>1. req' = [req EXCEPT ![t] = IdleReq] /\ UNCHANGED <<parts, mapping, drifted, seen>>
    BY <1>9 DEF RejectWrites
  <2>2. req'[t] = IdleReq /\ \A x \in Threads \ {t} : req'[x] = req[x]
    BY <1>0, <2>1 DEF Typing, RestOK
  <2>3. CASE StillAsked(t)
    <3>1. PICK r : Settles(req[t].chart, r) /\ ~r.public
      BY <1>0, <1>9, <2>3, RejectSettles
    <3>2. req[t].chart \in Charts
      BY <1>0, <1>9, <2>3, DecisionFindsRequest DEF Reading, RejectWrites
    <3> QED BY <1>0, <2>1, <2>2, <3>1, <3>2, SettlingStep
  <2>4. CASE ~StillAsked(t)
    BY <1>0, <1>9, <2>1, <2>2, <2>4, PrivateRow, ThreadStep DEF RejectWrites, Reading
  <2> QED BY <2>3, <2>4
<1>10. ASSUME NEW t \in Threads, NEW u \in Users, NEW kind \in Edited,
              EditStarts(t, u, kind)
       PROVE  IInv'
  <2> DEFINE r == [IdleReq EXCEPT !.at = kind]
  <2>1. r.at \in {"query", "rules", "charts"}
    BY PublishingAssumption DEF IdleReq
  <2>2. req' = [req EXCEPT ![t] = r] /\ UNCHANGED <<chart, parts, mapping, outcome, seen, drifted>>
    BY <1>10 DEF EditStarts
  <2> HIDE DEF r
  <2>3. req'[t] = r
    BY <1>0, <2>2 DEF Typing, RestOK
  <2> QED BY <1>0, <2>1, <2>2, <2>3, ThreadStep DEF Reading
<1>11. ASSUME NEW t \in Threads, EditFails(t) PROVE IInv'
  <2>1. /\ req' = [req EXCEPT ![t] = IdleReq]
        /\ UNCHANGED <<chart, parts, mapping, outcome, seen, drifted>>
    BY <1>11 DEF EditFails
  <2>2. req'[t] = IdleReq
    BY <1>0, <2>1 DEF Typing, RestOK
  <2> QED BY <1>0, <2>1, <2>2, PrivateRow, ThreadStep DEF Reading
<1>12. ASSUME NEW t \in Threads, UpdateQuery(t) \/ ReplaceRules(t) PROVE IInv'
  BY <1>0, <1>12, EditStep DEF UpdateQuery, ReplaceRules
<1>13. ASSUME NEW t \in Threads, ReplaceCharts(t) PROVE IInv'
  BY <1>0, <1>13, ReplaceChartsStep
<1>14. CASE UNCHANGED vars
  BY <1>0, <1>14
     DEF vars, IInv, Book, Waiting, OneChartPerRequest, Asked, Reviewing, Reading,
         ApprovedAsReviewed, StillAsked, IsPending, IsPublic, Exists, FingerprintOf
<1>15. NoPrint \in Fingerprints
  BY PrivateRow
<1> QED
  BY <1>1, <1>2, <1>3, <1>4, <1>5, <1>6, <1>7, <1>8, <1>9, <1>10, <1>11, <1>12, <1>13,
     <1>14, <1>15
     DEF Next, ApproveStarts, RejectStarts

\* The approval is bound to what was reviewed: whatever an author withdraws, edits
\* and asks again, and whoever decides meanwhile, a chart published by an approval
\* has the definition that the administrator was shown, unless an edit was
\* committed while the request waited or after.
THEOREM ReviewCounts == Spec => []ApprovedAsReviewed
<1>1. Spec => []IInv
  BY IInvInit, IInvNext, PTL DEF Spec
<1> QED BY <1>1, PTL DEF IInv

-----------------------------------------------------------------------------
(* ChartPublishing implements Publication.                                 *)

statusOf == [c \in Charts |-> Status(c)]
requestOf == [c \in Charts |-> IF Exists(c) THEN chart[c].requestedAt ELSE None]

\* One row changes: so do that chart's status and request, and no other's.
LEMMA OneRowChanges ==
  ASSUME ChartsOK, NEW c \in Charts, NEW r, WellFormed(r),
         chart' = [chart EXCEPT ![c] = r]
  PROVE  /\ statusOf' = [statusOf EXCEPT ![c] =
                          IF r.public THEN "public"
                          ELSE IF r.requestedAt # None THEN "pending" ELSE "private"]
         /\ requestOf' = [requestOf EXCEPT ![c] = r.requestedAt]
<1>1. chart'[c] = r /\ r # None /\ r.public \in BOOLEAN
  BY PublishingAssumption DEF ChartsOK, WellFormed, Rows
<1>2. \A d \in Charts \ {c} : chart'[d] = chart[d]
  BY DEF ChartsOK
<1>3. \A d \in Charts \ {c} : Status(d)' = Status(d)
  BY <1>2 DEF Status, Exists, IsPublic, IsPending
<1>4. Status(c)' = IF r.public THEN "public"
                   ELSE IF r.requestedAt # None THEN "pending" ELSE "private"
  BY <1>1 DEF Status, Exists, IsPublic, IsPending
<1>5. \A d \in Charts \ {c} : requestOf'[d] = requestOf[d]
  BY <1>2 DEF requestOf, Exists
<1>6. requestOf'[c] = r.requestedAt
  BY <1>1 DEF requestOf, Exists
<1> QED BY <1>3, <1>4, <1>5, <1>6 DEF statusOf, requestOf

\* A waiting chart, as the promise sees it.
LEMMA PendingStatus ==
  ASSUME IInv, NEW c \in Charts, IsPending(c)
  PROVE  /\ statusOf[c] = "pending" /\ requestOf[c] = chart[c].requestedAt
         /\ chart[c].requestedAt \in Requests
         /\ outcome[chart[c].requestedAt] = "open"
BY DEF IInv, Book, Waiting, statusOf, requestOf, Status, IsPending

\* A private or public chart on which nobody waits.
LEMMA SettledStatus ==
  ASSUME NEW c \in Charts, Exists(c), ~IsPending(c)
  PROVE  /\ statusOf[c] = IF IsPublic(c) THEN "public" ELSE "private"
         /\ requestOf[c] = None /\ chart[c].requestedAt = None
BY DEF statusOf, requestOf, Status, IsPending

\* Rows unchanged.
LEMMA NoRowChanges ==
  ASSUME UNCHANGED <<chart, outcome>>
  PROVE  UNCHANGED <<statusOf, requestOf, outcome>>
BY DEF statusOf, requestOf, Status, Exists, IsPublic, IsPending

\* A decision: the chart leaves its request, which is decided.
LEMMA DecisionMaps ==
  ASSUME IInv, NEW c \in Charts, IsPending(c), NEW r, WellFormed(r), r.requestedAt = None,
         chart' = [chart EXCEPT ![c] = r],
         NEW decision \in {"approved", "overtaken", "rejected", "withdrawn"},
         outcome' = [outcome EXCEPT ![chart[c].requestedAt] = decision],
         r.public <=> decision \in {"approved", "overtaken"}
  PROVE  Promise!Next
<1> DEFINE s == chart[c].requestedAt
<1>1. statusOf' = [statusOf EXCEPT ![c] = IF r.public THEN "public" ELSE "private"]
  BY OneRowChanges DEF IInv, Typing
<1>2. requestOf' = [requestOf EXCEPT ![c] = None]
  BY OneRowChanges DEF IInv, Typing
<1>3. s \in Requests /\ statusOf[c] = "pending" /\ requestOf[c] = s /\ outcome[s] = "open"
  BY PendingStatus
<1>4. Promise!Becomes(decision) = IF r.public THEN "public" ELSE "private"
  BY DEF Promise!Becomes
<1>5. outcome' = [outcome EXCEPT ![s] = decision]
  OBVIOUS
<1> HIDE DEF s
<1>6. Promise!Decide(c, s, decision)
  BY <1>1, <1>2, <1>3, <1>4, <1>5 DEF Promise!Decide, statusOf, requestOf
<1> QED BY <1>3, <1>6 DEF Promise!Next

LEMMA PromiseInit == Init => Promise!Init
<1> SUFFICES ASSUME Init PROVE Promise!Init
  OBVIOUS
<1>1. \A c \in Charts : Exists(c) /\ ~IsPublic(c) /\ ~IsPending(c) /\ chart[c].requestedAt = None
  BY PrivateRow, PublishingAssumption DEF Init, Exists, IsPublic, IsPending, WellFormed
<1> QED BY <1>1 DEF Promise!Init, Init, Status

LEMMA PromiseNext == IInv /\ IInv' /\ [Next]_vars => [Promise!Next]_<<statusOf, requestOf, outcome>>
<1> SUFFICES ASSUME IInv, IInv', [Next]_vars
             PROVE  Promise!Next \/ UNCHANGED <<statusOf, requestOf, outcome>>
  OBVIOUS
<1>0. Typing /\ Book /\ ChartsOK /\ outcome \in [Requests -> Outcomes]
  BY DEF IInv, Typing, RestOK
<1>1. ASSUME NEW u \in Users, NEW c \in Charts, PublishAtOnce(u, c) PROVE Promise!Next
  <2> DEFINE r == [Private EXCEPT !.public = TRUE, !.publishedBy = u]
  <2>1. WellFormed(r) /\ r.requestedAt = None /\ r.public = TRUE
    BY PublicRow
  <2>2. chart' = [chart EXCEPT ![c] = r] /\ Exists(c) /\ ~IsPublic(c)
    BY <1>1 DEF PublishAtOnce, Publish
  <2>3. outcome' = [s \in Requests |->
          IF s = chart[c].requestedAt THEN "overtaken" ELSE outcome[s]]
    BY <1>1 DEF PublishAtOnce
  <2> HIDE DEF r
  <2>4. CASE IsPending(c)
    <3>1. outcome' = [outcome EXCEPT ![chart[c].requestedAt] = "overtaken"]
      BY <1>0, <2>3, <2>4, PendingStatus
    <3> QED BY <2>1, <2>2, <2>4, <3>1, DecisionMaps
  <2>5. CASE ~IsPending(c)
    <3>1. statusOf[c] = "private" /\ requestOf[c] = None /\ chart[c].requestedAt = None
      BY <2>2, <2>5, SettledStatus
    <3>2. outcome' = outcome
      BY <1>0, <2>3, <3>1, PublishingAssumption
    <3>3. /\ statusOf' = [statusOf EXCEPT ![c] = "public"]
          /\ requestOf' = [requestOf EXCEPT ![c] = None]
      BY <1>0, <2>1, <2>2, OneRowChanges
    <3>4. requestOf' = requestOf
      BY <3>1, <3>3 DEF requestOf
    <3>5. Promise!PublishAtOnce(c)
      BY <3>1, <3>2, <3>3, <3>4 DEF Promise!PublishAtOnce, statusOf, requestOf
    <3> QED BY <3>5 DEF Promise!Next
  <2> QED BY <2>4, <2>5
<1>2. ASSUME NEW u \in Users, NEW c \in Charts, Cancel(u, c)
      PROVE  Promise!Next \/ UNCHANGED <<statusOf, requestOf, outcome>>
  <2> DEFINE w == [chart[c] EXCEPT !.requestedAt = None, !.requestedBy = None]
             n == [chart[c] EXCEPT !.rejected = FALSE]
  <2>1. Exists(c) /\ ~IsPublic(c) /\ WellFormed(chart[c]) /\ ~chart[c].public
    BY <1>0, <1>2, RowOfChart DEF Cancel, IsPublic
  <2>2. /\ WellFormed(w) /\ w.public = FALSE /\ w.requestedAt = None
        /\ WellFormed(n) /\ n.public = FALSE /\ n.requestedAt = chart[c].requestedAt
    BY <2>1, CancelledRow
  <2>3. chart' = [chart EXCEPT ![c] = IF IsPending(c) THEN w ELSE n]
    BY <1>2 DEF Cancel
  <2>4. outcome' = [s \in Requests |->
          IF s = chart[c].requestedAt THEN "withdrawn" ELSE outcome[s]]
    BY <1>2 DEF Cancel
  <2> HIDE DEF w, n
  <2>5. CASE IsPending(c)
    <3>1. outcome' = [outcome EXCEPT ![chart[c].requestedAt] = "withdrawn"]
      BY <1>0, <2>4, <2>5, PendingStatus
    <3> QED BY <2>2, <2>3, <2>5, <3>1, DecisionMaps
  <2>6. CASE ~IsPending(c)
    <3>1. statusOf[c] = "private" /\ requestOf[c] = None /\ chart[c].requestedAt = None
      BY <2>1, <2>6, SettledStatus
    <3>2. outcome' = outcome
      BY <1>0, <2>4, <3>1, PublishingAssumption
    <3>3. /\ statusOf' = [statusOf EXCEPT ![c] = "private"]
          /\ requestOf' = [requestOf EXCEPT ![c] = None]
      BY <1>0, <2>2, <2>3, <2>6, <3>1, OneRowChanges
    <3> QED BY <3>1, <3>2, <3>3 DEF statusOf, requestOf
  <2> QED BY <2>5, <2>6
<1>3. ASSUME NEW u \in Users, NEW c \in Charts, Unpublish(u, c) PROVE Promise!Next
  <2> DEFINE r == [chart[c] EXCEPT !.public = FALSE, !.publishedBy = None]
  <2>1. Exists(c) /\ IsPublic(c) /\ ~IsPending(c) /\ WellFormed(chart[c])
    BY <1>0, <1>3, RowOfChart DEF Unpublish, IsPublic, Book, Waiting
  <2>2. statusOf[c] = "public" /\ requestOf[c] = None /\ chart[c].requestedAt = None
    BY <2>1, SettledStatus
  <2>3. WellFormed(r) /\ r.public = FALSE /\ r.requestedAt = None
    BY <2>1, <2>2, RetractedRow
  <2>4. chart' = [chart EXCEPT ![c] = r] /\ outcome' = outcome
    BY <1>3 DEF Unpublish
  <2> HIDE DEF r
  <2>5. /\ statusOf' = [statusOf EXCEPT ![c] = "private"]
        /\ requestOf' = [requestOf EXCEPT ![c] = None]
    BY <1>0, <2>3, <2>4, OneRowChanges
  <2>6. Promise!Retract(c)
    BY <2>2, <2>4, <2>5 DEF Promise!Retract, statusOf, requestOf
  <2> QED BY <2>6 DEF Promise!Next
<1>4. ASSUME NEW u \in Users, NEW c \in Charts, NEW s \in Requests, Ask(u, c, s)
      PROVE  Promise!Next
  <2> DEFINE r == [Private EXCEPT !.requestedAt = s, !.requestedBy = u]
  <2>1. WellFormed(r) /\ r.public = FALSE /\ r.requestedAt = s
    BY PendingRow
  <2>2. /\ chart' = [chart EXCEPT ![c] = r] /\ outcome' = [outcome EXCEPT ![s] = "open"]
        /\ Exists(c) /\ ~IsPublic(c) /\ ~IsPending(c) /\ outcome[s] = "unused"
    BY <1>4 DEF Ask
  <2> HIDE DEF r
  <2>3. /\ statusOf' = [statusOf EXCEPT ![c] = "pending"]
        /\ requestOf' = [requestOf EXCEPT ![c] = s]
    BY <1>0, <2>1, <2>2, OneRowChanges, PublishingAssumption
  <2>4. statusOf[c] = "private"
    BY <2>2, SettledStatus
  <2>5. Promise!Ask(c, s)
    BY <2>2, <2>3, <2>4 DEF Promise!Ask, statusOf, requestOf
  <2> QED BY <2>5 DEF Promise!Next
<1>5. ASSUME NEW t \in Threads, ApproveWrites(t)
      PROVE  Promise!Next \/ UNCHANGED <<statusOf, requestOf, outcome>>
  <2>1. CASE StillAsked(t)
    <3> DEFINE c == req[t].chart
               r == [Private EXCEPT !.public = TRUE, !.publishedBy = req[t].by]
    <3>1. c \in Charts /\ req[t].by \in Users /\ IsPending(c)
          /\ chart[c].requestedAt = req[t].stamp
      BY <1>0, <1>5, <2>1, DecisionFindsRequest DEF Reading, ApproveWrites
    <3>2. WellFormed(r) /\ r.public = TRUE /\ r.requestedAt = None
      BY <3>1, PublicRow
    <3>3. /\ chart' = [chart EXCEPT ![c] = r]
          /\ outcome' = [outcome EXCEPT ![chart[c].requestedAt] = "approved"]
      BY <1>5, <2>1, <3>1 DEF ApproveWrites, Publish
    <3> HIDE DEF c, r
    <3> QED BY <3>1, <3>2, <3>3, DecisionMaps
  <2>2. CASE ~StillAsked(t)
    BY <1>5, <2>2, NoRowChanges DEF ApproveWrites
  <2> QED BY <2>1, <2>2
<1>6. ASSUME NEW t \in Threads, RejectWrites(t)
      PROVE  Promise!Next \/ UNCHANGED <<statusOf, requestOf, outcome>>
  <2>1. CASE StillAsked(t)
    <3> DEFINE c == req[t].chart
               r == [Private EXCEPT !.rejected = TRUE]
    <3>1. c \in Charts /\ IsPending(c) /\ chart[c].requestedAt = req[t].stamp
      BY <1>0, <1>6, <2>1, DecisionFindsRequest DEF Reading, RejectWrites
    <3>2. WellFormed(r) /\ r.public = FALSE /\ r.requestedAt = None
      BY RejectedRow
    <3>3. /\ chart' = [chart EXCEPT ![c] = r]
          /\ outcome' = [outcome EXCEPT ![chart[c].requestedAt] = "rejected"]
      BY <1>6, <2>1, <3>1 DEF RejectWrites
    <3> HIDE DEF c, r
    <3> QED BY <3>1, <3>2, <3>3, DecisionMaps
  <2>2. CASE ~StillAsked(t)
    BY <1>6, <2>2, NoRowChanges DEF RejectWrites
  <2> QED BY <2>1, <2>2
<1>7. ASSUME NEW t \in Threads, ReplaceCharts(t) PROVE Promise!Next
  <2>1. PICK given \in SUBSET Charts :
          LET removed == {c \in Charts \ given : Exists(c)}
          IN  /\ chart' = [c \in Charts |->
                   CASE c \notin given -> None
                     [] c \in given /\ ~Exists(c) -> Private
                     [] OTHER -> chart[c]]
              /\ outcome' = [s \in Requests |->
                   IF s \in WaitingOn(removed) THEN "dropped" ELSE outcome[s]]
    BY <1>7 DEF ReplaceCharts
  <2>2. ASSUME NEW c \in Charts
        PROVE  /\ Status(c)' = CASE c \notin given -> "absent"
                                 [] c \in given /\ Status(c) = "absent" -> "private"
                                 [] OTHER -> Status(c)
               /\ requestOf'[c] = IF c \in given THEN requestOf[c] ELSE None
    <3>1. CASE c \notin given
      <4>1. chart'[c] = None
        BY <2>1, <3>1
      <4>2. Status(c)' = "absent"
        BY <4>1 DEF Status, Exists, IsPublic, IsPending
      <4>3. requestOf'[c] = None
        BY <4>1 DEF requestOf, Exists
      <4> QED BY <3>1, <4>2, <4>3
    <3>2. CASE c \in given /\ ~Exists(c)
      <4>1. chart'[c] = Private /\ Private # None
        BY <2>1, <3>2, PrivateRow, PublishingAssumption DEF WellFormed
      <4> QED BY <3>2, <4>1, PrivateRow DEF Status, requestOf, Exists, IsPublic, IsPending
    <3>3. CASE c \in given /\ Exists(c)
      <4>1. chart'[c] = chart[c]
        BY <2>1, <3>3
      <4> QED BY <3>3, <4>1 DEF Status, requestOf, Exists, IsPublic, IsPending
    <3> QED BY <3>1, <3>2, <3>3
  <2>3. statusOf' = [c \in Charts |->
          CASE c \notin given -> "absent"
            [] c \in given /\ statusOf[c] = "absent" -> "private"
            [] OTHER -> statusOf[c]]
    BY <2>2 DEF statusOf
  <2>4. requestOf' = [c \in Charts |-> IF c \in given THEN requestOf[c] ELSE None]
    BY <2>2 DEF requestOf
  <2>5. ASSUME NEW s \in Requests
        PROVE  s \in WaitingOn({c \in Charts \ given : Exists(c)})
               <=> \E c \in Charts \ given : requestOf[c] = s
    BY PublishingAssumption DEF WaitingOn, requestOf, IsPending
  <2>6. outcome' = [s \in Requests |->
          IF \E c \in Charts \ given : requestOf[c] = s THEN "dropped" ELSE outcome[s]]
    BY <2>1, <2>5
  <2>7. Promise!Replace(given)
    BY <2>3, <2>4, <2>6 DEF Promise!Replace, statusOf, requestOf
  <2> QED BY <2>7 DEF Promise!Next
<1>8. ASSUME NEW t \in Threads,
             \/ \E c \in Charts : ApproveStarts(t, c) \/ RejectStarts(t, c)
             \/ ApproveReadsQuery(t) \/ ApproveCompares(t)
             \/ \E u \in Users, kind \in Edited : EditStarts(t, u, kind)
             \/ EditFails(t) \/ UpdateQuery(t) \/ ReplaceRules(t)
      PROVE  UNCHANGED <<statusOf, requestOf, outcome>>
  <2>1. UNCHANGED <<chart, outcome>>
    BY <1>8 DEF ApproveStarts, RejectStarts, ReadPending, ApproveReadsQuery,
                ApproveCompares, EditStarts, EditFails, UpdateQuery, ReplaceRules
  <2> QED BY <2>1, NoRowChanges
<1>9. CASE UNCHANGED vars
  BY <1>9, NoRowChanges DEF vars
<1> QED
  BY <1>1, <1>2, <1>3, <1>4, <1>5, <1>6, <1>7, <1>8, <1>9 DEF Next

\* ChartPublishing implements Publication: whatever crosses, a request is decided
\* at most once, in one step, while its chart waits on that very request.
THEOREM DecidedOnce == Spec => RequestsDecidedOnce
<1>1. Spec => []IInv
  BY IInvInit, IInvNext, PTL DEF Spec
<1>2. [Promise!Next]_<<statusOf, requestOf, outcome>> => [Promise!Next]_(Promise!vars)
  BY DEF Promise!vars, statusOf, requestOf
<1> QED
  BY <1>1, <1>2, PromiseInit, PromiseNext, PTL DEF Spec, RequestsDecidedOnce, Promise!Spec
=============================================================================
