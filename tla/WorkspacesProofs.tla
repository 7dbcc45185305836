--------------------------- MODULE WorkspacesProofs ---------------------------
(***************************************************************************)
(* What people keep, whatever is stored, however many requests overlap and *)
(* however long the log is: a board that no administrator arranged shows   *)
(* charts of its owner's queries only (BoardsShow); boards place stored    *)
(* charts, in a line (BoardsWhole); and a prune of the log takes only what *)
(* is old or outnumbered (PruneKeeps).                                     *)
(*                                                                         *)
(* None of these is inductive.  A save holds the charts it validated, and  *)
(* the items it loaded, across other requests before it places them.  IInv *)
(* adds what a request in flight may rely on (Sound: a validated chart is  *)
(* still the caller's, or deleted for good) and what the foreign keys keep *)
(* (Kept, Placing); Whole adds that a save that is not late has loaded     *)
(* what the board still holds, so that nothing stays beside what it        *)
(* places.                                                                 *)
(***************************************************************************)
EXTENDS Workspaces, FiniteSetTheorems, WellFoundedInduction, TLAPS

Typed ==
  /\ query \in [Queries -> Owners \cup {None, Gone}]
  /\ chart \in [Charts -> Queries \cup {None, Gone}]
  /\ board \in [Boards -> Owners \cup {None, Gone}]
  /\ items = [b \in Boards |-> [c \in Charts |-> items[b][c]]]
  /\ req = [t \in Threads |-> req[t]]

\* The query of a stored chart is stored.
Kept == \A c \in Charts : IsStored(chart[c]) => IsStored(query[chart[c]])

\* What a board places is stored, the board too, and its owner's.
Placing ==
  \A b \in Boards : \A c \in Charts : items[b][c] # None =>
    /\ IsStored(chart[c]) /\ IsStored(board[b])
    /\ b \notin helped => query[chart[c]] = board[b]

Own(c, u) == chart[c] = Gone \/ (IsStored(chart[c]) /\ query[chart[c]] = u)

\* r has the fields of a request.
Shape(r) ==
  r = [at |-> r.at, user |-> r.user, query |-> r.query, board |-> r.board,
       want |-> r.want, loaded |-> r.loaded, late |-> r.late]

Sound(r) ==
  /\ Shape(r)
  /\ r.at = "creating" => r.user \in Users
  /\ r.at = "validated" => r.board # None
  /\ r.at \in {"validated", "loaded"} =>
       /\ r.user \in Users /\ r.want \in Seq(Charts) /\ r.board \in Boards \cup {None}
       /\ r.user \notin Admins =>
            /\ \A c \in ToSet(r.want) : Own(c, r.user)
            /\ r.board # None => board[r.board] \in {r.user, Gone}

IInv == Typed /\ Kept /\ Placing /\ \A t \in Threads : Sound(req[t])

LEMMA Distinct ==
  /\ None # Gone /\ None \notin Users /\ Gone \notin Users
  /\ None # Nobody /\ Gone # Nobody /\ Nobody \notin Users
  /\ None \notin Queries /\ Gone \notin Queries /\ None \notin Boards
  /\ Admins \subseteq Users
BY WorkspacesAssumption

LEMMA Members ==
  ASSUME NEW want \in Seq(Charts)
  PROVE  /\ ToSet(want) \subseteq Charts
         /\ \A c : Contains(want, c) <=> c \in ToSet(want)
BY DEF ToSet, Contains

LEMMA Built ==
  \A a, u, q, b, w :
    LET r == Request(a, u, q, b, w)
    IN  Shape(r) /\ r.at = a /\ r.user = u /\ r.board = b /\ r.want = w
BY DEF Shape, Request

LEMMA IdleSound == Sound(Idle) /\ Sound(Idle)'
BY Built DEF Sound, Idle

\* No board that is there at the start mixes owners (WorkspacesAssumption).
LEMMA InitInv == Init => IInv
<1> SUFFICES ASSUME Init PROVE IInv
  OBVIOUS
<1>1. PICK start \in Starts :
        /\ query = start.query /\ chart = start.chart /\ board = start.board
        /\ items = [b \in Boards |-> [c \in Charts |->
                      IF Contains(start.want[b], c) THEN PlaceOf(c, start.want[b]) ELSE None]]
  BY DEF Init
<1>2. /\ start.query \in [Queries -> Users \cup {Nobody, None}]
      /\ start.chart \in [Charts -> Queries \cup {None}]
      /\ start.board \in [Boards -> Users \cup {Nobody, None}]
      /\ start.want \in [Boards -> Seq(Charts)]
      /\ \A c \in Charts : start.chart[c] # None => start.query[start.chart[c]] # None
      /\ \A b \in Boards : \A c \in ToSet(start.want[b]) :
           /\ start.chart[c] # None /\ start.board[b] # None
           /\ start.query[start.chart[c]] = start.board[b]
  BY WorkspacesAssumption
<1>3. Typed
  <2>1. req = [t \in Threads |-> req[t]]
    BY DEF Init
  <2>2. items = [b \in Boards |-> [c \in Charts |-> items[b][c]]]
    BY <1>1
  <2> QED BY <1>1, <1>2, <2>1, <2>2 DEF Typed, Owners
<1>4. Kept
  BY <1>1, <1>2, Distinct DEF Kept, IsStored
<1>5. ASSUME NEW b \in Boards, NEW c \in Charts, items[b][c] # None
      PROVE  /\ IsStored(chart[c]) /\ IsStored(board[b])
             /\ query[chart[c]] = board[b]
  <2>1. c \in ToSet(start.want[b])
    BY <1>1, <1>2, <1>5, Members
  <2> QED BY <1>1, <1>2, <2>1, Distinct DEF IsStored
<1>6. \A t \in Threads : Sound(req[t])
  BY IdleSound DEF Init
<1> QED BY <1>3, <1>4, <1>5, <1>6 DEF IInv, Placing

\* Nothing but a request changes, and what it holds is sound.
LEMMA RequestInv ==
  ASSUME IInv, UNCHANGED <<query, chart, board, items, helped>>,
         req' = [t \in Threads |-> req'[t]],
         \A t \in Threads : req'[t] = req[t] \/ Sound(req'[t])
  PROVE  IInv'
<1>1. Typed' /\ Kept' /\ Placing'
  BY DEF IInv, Typed, Kept, Placing, IsStored
<1>2. \A t \in Threads : Sound(req'[t])
  BY DEF IInv
<1>3. ASSUME NEW t \in Threads PROVE Sound(req[t])'
  BY <1>2, <1>3 DEF Sound, Own, IsStored
<1> QED BY <1>1, <1>3 DEF IInv

LEMMA BeginInv ==
  ASSUME IInv, UNCHANGED <<query, chart, board, items, helped>>,
         NEW t \in Threads, NEW r, Sound(r), req' = [req EXCEPT ![t] = r]
  PROVE  IInv'
<1>1. req = [x \in Threads |-> req[x]]
  BY DEF IInv, Typed
<1>2. req' = [x \in Threads |-> req'[x]]
  BY <1>1
<1>3. \A x \in Threads : req'[x] = req[x] \/ Sound(req'[x])
  BY <1>1
<1> QED BY <1>2, <1>3, RequestInv

\* Requests stay as they are, but for those that end.
Ends == /\ req' = [t \in Threads |-> req'[t]]
        /\ \A t \in Threads : req'[t] = req[t] \/ req'[t] = Idle

LEMMA EndsOne ==
  ASSUME IInv, NEW t \in Threads, req' = [req EXCEPT ![t] = Idle] PROVE Ends
<1>1. req = [x \in Threads |-> req[x]]
  BY DEF IInv, Typed
<1> QED BY <1>1 DEF Ends

LEMMA EndsNone == ASSUME IInv, UNCHANGED req PROVE Ends
BY DEF IInv, Typed, Ends

\* A request that saw its charts and its board stays sound while charts are
\* added or deleted, and queries and boards keep their owner, are claimed if
\* they had none, or are deleted.
LEMMA SoundStep ==
  ASSUME IInv, Ends,
         \A c \in Charts : chart[c] # None => chart'[c] \in {chart[c], Gone},
         \A c \in Charts : IsStored(chart[c]) /\ chart'[c] = chart[c] =>
                             \/ query'[chart[c]] = query[chart[c]]
                             \/ query[chart[c]] = Nobody,
         \A b \in Boards : board[b] \in Users => board'[b] \in {board[b], Gone},
         \A b \in Boards : board[b] = Gone => board'[b] = Gone
  PROVE  \A t \in Threads : Sound(req[t])'
<1> SUFFICES ASSUME NEW t \in Threads PROVE Sound(req[t])'
  OBVIOUS
<1>1. CASE req'[t] = Idle
  BY <1>1, Built DEF Sound, Idle
<1>2. CASE req'[t] = req[t]
  <2> DEFINE r == req[t]
  <2>1. Sound(r)
    BY DEF IInv
  <2>2. r.at = "creating" => r.user \in Users
    BY <2>1 DEF Sound
  <2>3. ASSUME r.at \in {"validated", "loaded"}, r.user \notin Admins
        PROVE  /\ \A c \in ToSet(r.want) : Own(c, r.user)'
               /\ r.board # None => board'[r.board] \in {r.user, Gone}
    <3>1. r.user \in Users /\ r.want \in Seq(Charts) /\ r.board \in Boards \cup {None}
      BY <2>1, <2>3 DEF Sound
    <3>2. ASSUME NEW c \in ToSet(r.want) PROVE Own(c, r.user)'
      <4>1. c \in Charts /\ Own(c, r.user)
        BY <2>1, <2>3, <3>1, Members DEF Sound
      <4>2. r.user \in Users /\ r.user # Nobody
        BY <3>1, Distinct
      <4>3. CASE chart[c] = Gone
        BY <4>1, <4>3, Distinct, <1>2 DEF Own
      <4>4. CASE IsStored(chart[c]) /\ query[chart[c]] = r.user
        BY <4>1, <4>2, <4>4, <1>2 DEF Own, IsStored
      <4> QED BY <4>1, <4>3, <4>4 DEF Own
    <3>3. r.board # None => board'[r.board] \in {r.user, Gone}
      BY <2>1, <2>3, <3>1 DEF Sound
    <3> QED BY <3>2, <3>3
  <2> QED BY <1>2, <2>1, <2>3 DEF Sound
<1> QED BY <1>1, <1>2 DEF Ends

\* Charts are deleted, and queries with all of theirs.
LEMMA UnplaceInv ==
  ASSUME IInv, Ends, NEW lost \in SUBSET Charts, Unplace(lost), UNCHANGED <<board, helped>>,
         query' \in [Queries -> Owners \cup {None, Gone}],
         \A q \in Queries : query'[q] = query[q] \/ \A c \in Charts : chart[c] = q => c \in lost
  PROVE  IInv'
<1>1. /\ chart' = [c \in Charts |-> IF c \in lost THEN Gone ELSE chart[c]]
      /\ items' = [b \in Boards |-> [c \in Charts |-> IF c \in lost THEN None ELSE items[b][c]]]
  BY DEF Unplace
<1>2. Typed'
  <2>1. items' = [b \in Boards |-> [c \in Charts |-> items'[b][c]]]
    BY <1>1
  <2>2. chart' \in [Charts -> Queries \cup {None, Gone}]
    BY <1>1 DEF IInv, Typed
  <2>3. board' \in [Boards -> Owners \cup {None, Gone}]
    BY DEF IInv, Typed
  <2> QED BY <2>1, <2>2, <2>3 DEF Typed, Ends
<1>3. \A c \in Charts : IsStored(chart'[c]) =>
        c \notin lost /\ chart'[c] = chart[c] /\ chart[c] \in Queries /\ query'[chart[c]] = query[chart[c]]
  BY <1>1 DEF IsStored, IInv, Typed
<1>4. Kept'
  BY <1>3 DEF Kept, IInv, IsStored
<1>5. Placing'
  <2> SUFFICES ASSUME NEW b \in Boards, NEW c \in Charts, items'[b][c] # None
               PROVE  /\ IsStored(chart'[c]) /\ IsStored(board'[b])
                      /\ b \notin helped' => query'[chart'[c]] = board'[b]
    BY DEF Placing, IsStored
  <2>1. c \notin lost /\ items[b][c] # None
    BY <1>1
  <2>2. IsStored(chart[c]) /\ IsStored(board[b]) /\ (b \notin helped => query[chart[c]] = board[b])
    BY <2>1 DEF IInv, Placing
  <2>3. IsStored(chart'[c])
    BY <1>1, <2>1, <2>2
  <2> QED BY <1>3, <2>2, <2>3
<1>6. \A t \in Threads : Sound(req[t])'
  <2>1. \A c \in Charts : chart[c] # None => chart'[c] \in {chart[c], Gone}
    BY <1>1
  <2>2. \A c \in Charts : IsStored(chart[c]) /\ chart'[c] = chart[c] =>
          query'[chart[c]] = query[chart[c]]
    BY <1>3
  <2> QED BY <2>1, <2>2, SoundStep
<1> QED BY <1>2, <1>4, <1>5, <1>6 DEF IInv

LEMMA DeleteInv == ASSUME IInv, NEW t \in Threads, DeleteCommits(t) PROVE IInv'
<1> DEFINE q == req[t].query
           lost == {c \in Charts : chart[c] = q}
<1>1. /\ query' = [query EXCEPT ![q] = Gone] /\ Unplace(lost)
      /\ req' = [req EXCEPT ![t] = Idle] /\ UNCHANGED <<board, helped>>
  BY DEF DeleteCommits
<1>2. Ends
  BY <1>1, EndsOne
<1>3. query' \in [Queries -> Owners \cup {None, Gone}]
  BY <1>1 DEF IInv, Typed
<1>4. \A p \in Queries : query'[p] = query[p] \/ \A c \in Charts : chart[c] = p => c \in lost
  BY <1>1 DEF IInv, Typed
<1> QED BY <1>1, <1>2, <1>3, <1>4, UnplaceInv

LEMMA DisconnectInv == ASSUME IInv, DeleteConnection PROVE IInv'
<1>1. /\ query' = [q \in Queries |-> Gone] /\ Unplace(StoredCharts)
      /\ UNCHANGED <<board, helped, req>>
  BY DEF DeleteConnection
<1>2. Ends
  BY <1>1, EndsNone
<1>3. \A q \in Queries : \A c \in Charts : chart[c] = q => c \in StoredCharts
  BY Distinct DEF StoredCharts, IsStored
<1>4. query' \in [Queries -> Owners \cup {None, Gone}] /\ StoredCharts \in SUBSET Charts
  BY <1>1 DEF StoredCharts
<1> QED BY <1>1, <1>2, <1>3, <1>4, UnplaceInv

LEMMA RemoveInv == ASSUME IInv, NEW c \in Charts, NEW u \in Users, RemoveChart(c, u) PROVE IInv'
<1>1. Unplace({c}) /\ UNCHANGED <<query, board, helped, req>>
  BY DEF RemoveChart
<1>2. Ends
  BY <1>1, EndsNone
<1>3. query' \in [Queries -> Owners \cup {None, Gone}]
  BY <1>1 DEF IInv, Typed
<1> QED BY <1>1, <1>2, <1>3, UnplaceInv

\* A chart is new to boards, whether its query is or not.
LEMMA AddedInv ==
  ASSUME IInv, Ends, NEW c \in Charts, chart[c] = None, NEW q \in Queries,
         chart' = [chart EXCEPT ![c] = q], UNCHANGED <<board, items, helped>>,
         \/ query' = query /\ IsStored(query[q])
         \/ \E u \in Users : query[q] = None /\ query' = [query EXCEPT ![q] = u]
  PROVE  IInv'
<1>1. Typed'
  <2>1. query' \in [Queries -> Owners \cup {None, Gone}]
    BY DEF IInv, Typed, Owners
  <2>2. chart' \in [Charts -> Queries \cup {None, Gone}]
    BY DEF IInv, Typed
  <2> QED BY <2>1, <2>2 DEF IInv, Typed, Ends
<1>2. /\ \A d \in Charts : d # c => chart'[d] = chart[d]
      /\ chart'[c] = q /\ IsStored(query'[q])
      /\ \A p \in Queries : IsStored(query[p]) => query'[p] = query[p]
  BY Distinct DEF IInv, Typed, IsStored
<1>3. \A d \in Charts : IsStored(chart[d]) =>
        d # c /\ chart[d] \in Queries /\ IsStored(query[chart[d]]) /\ query'[chart[d]] = query[chart[d]]
  BY <1>2 DEF IInv, Typed, Kept, IsStored
<1>4. Kept'
  BY <1>2, <1>3 DEF Kept, IsStored
<1>5. Placing'
  BY <1>2, <1>3 DEF Placing, IInv, IsStored
<1>6. \A t \in Threads : Sound(req[t])'
  <2>1. \A d \in Charts : chart[d] # None => chart'[d] \in {chart[d], Gone}
    BY <1>2
  <2> QED BY <2>1, <1>3, SoundStep
<1> QED BY <1>1, <1>4, <1>5, <1>6 DEF IInv

LEMMA CreateInv ==
  ASSUME IInv, NEW t \in Threads, NEW q \in Queries, NEW c \in Charts, CreateCommits(t, q, c)
  PROVE  IInv'
<1>1. /\ req[t].at = "creating" /\ query[q] = None /\ chart[c] = None
      /\ query' = [query EXCEPT ![q] = req[t].user] /\ chart' = [chart EXCEPT ![c] = q]
      /\ req' = [req EXCEPT ![t] = Idle] /\ UNCHANGED <<board, items, helped>>
  BY DEF CreateCommits, arranged
<1>2. req[t].user \in Users
  BY <1>1 DEF IInv, Sound
<1>3. Ends
  BY <1>1, EndsOne
<1> QED BY <1>1, <1>2, <1>3, AddedInv

LEMMA AddInv == ASSUME IInv, NEW c \in Charts, NEW q \in Queries, AddChart(c, q) PROVE IInv'
<1>1. /\ IsStored(query[q]) /\ chart[c] = None /\ chart' = [chart EXCEPT ![c] = q]
      /\ UNCHANGED <<query, board, items, helped, req>>
  BY DEF AddChart, arranged
<1>2. Ends
  BY <1>1, EndsNone
<1> QED BY <1>1, <1>2, AddedInv

\* Both tables change hands together: a board and what it shows stay of one owner.
LEMMA ClaimInv == ASSUME IInv, NEW u \in Users, ClaimUnowned(u) PROVE IInv'
<1>1. /\ query' = [q \in Queries |-> IF query[q] = Nobody THEN u ELSE query[q]]
      /\ board' = [b \in Boards |-> IF board[b] = Nobody THEN u ELSE board[b]]
      /\ UNCHANGED <<chart, items, helped, req>>
  BY DEF ClaimUnowned
<1>2. Typed'
  <2>1. query' \in [Queries -> Owners \cup {None, Gone}]
    BY <1>1 DEF IInv, Typed, Owners
  <2>2. board' \in [Boards -> Owners \cup {None, Gone}]
    BY <1>1 DEF IInv, Typed, Owners
  <2> QED BY <1>1, <2>1, <2>2 DEF IInv, Typed
<1>3. Kept'
  BY <1>1, Distinct DEF IInv, Typed, Kept, IsStored
<1>4. Placing'
  BY <1>1, Distinct DEF IInv, Typed, Placing, IsStored
<1>5. \A t \in Threads : Sound(req[t])'
  <2>1. Ends
    BY <1>1, EndsNone
  <2>2. \A c \in Charts : chart[c] # None => chart'[c] \in {chart[c], Gone}
    BY <1>1
  <2>3. \A c \in Charts : IsStored(chart[c]) =>
          query'[chart[c]] = query[chart[c]] \/ query[chart[c]] = Nobody
    BY <1>1 DEF IInv, Typed, IsStored
  <2>4. /\ \A b \in Boards : board[b] \in Users => board'[b] \in {board[b], Gone}
        /\ \A b \in Boards : board[b] = Gone => board'[b] = Gone
    BY <1>1, Distinct
  <2> QED BY <2>1, <2>2, <2>3, <2>4, SoundStep
<1> QED BY <1>2, <1>3, <1>4, <1>5 DEF IInv

LEMMA DropInv == ASSUME IInv, NEW u \in Users, NEW b \in Boards, DeleteBoard(u, b) PROVE IInv'
<1>1. /\ board' = [board EXCEPT ![b] = Gone] /\ items' = [items EXCEPT ![b] = Empty]
      /\ UNCHANGED <<query, chart, helped, req>>
  BY DEF DeleteBoard, library
<1>2. Typed'
  <2>1. items' = [a \in Boards |-> [c \in Charts |-> items'[a][c]]]
    BY <1>1 DEF IInv, Typed, Empty
  <2>2. board' \in [Boards -> Owners \cup {None, Gone}]
    BY <1>1 DEF IInv, Typed
  <2> QED BY <1>1, <2>1, <2>2 DEF IInv, Typed
<1>3. Kept'
  BY <1>1 DEF IInv, Kept, IsStored
<1>4. Placing'
  BY <1>1 DEF IInv, Typed, Placing, IsStored, Empty
<1>5. \A t \in Threads : Sound(req[t])'
  <2>1. Ends
    BY <1>1, EndsNone
  <2>2. \A a \in Boards : board'[a] \in {board[a], Gone}
    BY <1>1 DEF IInv, Typed
  <2> QED BY <1>1, <2>1, <2>2, SoundStep
<1> QED BY <1>2, <1>3, <1>4, <1>5 DEF IInv

\* A request that has read what it needs is sound.
LEMMA StartsInv ==
  ASSUME IInv, NEW t \in Threads, OfQueries(t) \/ OfBoards(t) \/ Refused(t)
  PROVE  \/ IInv'
         \/ \E q \in Queries, c \in Charts : CreateCommits(t, q, c)
         \/ DeleteCommits(t) \/ LoadsItems(t) \/ UpdateBoardCommits(t)
         \/ \E b \in Boards : CreateBoardCommits(t, b)
<1>1. ASSUME NEW u \in Users, CreateStarts(t, u) PROVE IInv'
  <2> DEFINE r == Request("creating", u, None, None, <<>>)
  <2>f. /\ Shape(r)
        /\ r.at = "creating" /\ r.user = u /\ r.want = <<>> /\ r.board = None
    BY Built
  <2> HIDE DEF r
  <2>1. Sound(r)
    BY <2>f DEF Sound
  <2>2. req' = [req EXCEPT ![t] = r] /\ UNCHANGED <<query, chart, board, items, helped>>
    BY <1>1 DEF CreateStarts, Begin, library, arranged, r
  <2> QED BY <2>1, <2>2, BeginInv
<1>2. ASSUME NEW u \in Users, NEW q \in Queries, DeleteStarts(t, u, q) PROVE IInv'
  <2> DEFINE r == Request("deleting", u, q, None, <<>>)
  <2>f. /\ Shape(r)
        /\ r.at = "deleting" /\ r.user = u /\ r.want = <<>> /\ r.board = None
    BY Built
  <2> HIDE DEF r
  <2>1. Sound(r)
    BY <2>f DEF Sound
  <2>2. req' = [req EXCEPT ![t] = r] /\ UNCHANGED <<query, chart, board, items, helped>>
    BY <1>2 DEF DeleteStarts, Begin, library, arranged, r
  <2> QED BY <2>1, <2>2, BeginInv
<1>3. ASSUME NEW u, NEW q, RunStarts(t, u, q) PROVE IInv'
  <2> DEFINE r == Request("running", u, q, None, <<>>)
  <2>f. /\ Shape(r)
        /\ r.at = "running" /\ r.user = u /\ r.want = <<>> /\ r.board = None
    BY Built
  <2> HIDE DEF r
  <2>1. Sound(r)
    BY <2>f DEF Sound
  <2>2. req' = [req EXCEPT ![t] = r] /\ UNCHANGED <<query, chart, board, items, helped>>
    BY <1>3 DEF RunStarts, Begin, library, arranged, r
  <2> QED BY <2>1, <2>2, BeginInv
<1>4. ASSUME NEW success, RunEnds(t, success) PROVE IInv'
  <2>1. req' = [req EXCEPT ![t] = Idle] /\ UNCHANGED <<query, chart, board, items, helped>>
    BY <1>4 DEF RunEnds, library, arranged
  <2> QED BY <2>1, IdleSound, BeginInv
<1>5. ASSUME Refused(t) PROVE IInv'
  <2>1. req' = [req EXCEPT ![t] = Idle] /\ UNCHANGED <<query, chart, board, items, helped>>
    BY <1>5 DEF Refused, library, arranged
  <2> QED BY <2>1, IdleSound, BeginInv
<1>6. ASSUME NEW u \in Users, NEW want \in Arrangements, Found(u, want)
      PROVE  want \in Seq(Charts) /\ (u \notin Admins => \A c \in ToSet(want) : Own(c, u))
  <2>1. want \in Seq(Charts)
    BY WorkspacesAssumption
  <2>2. ASSUME NEW c \in ToSet(want), u \notin Admins PROVE Own(c, u)
    BY <1>6, <2>2 DEF Found, ChartsVisibleTo, StoredCharts, VisibleTo, Own, IsStored
  <2> QED BY <2>1, <2>2
<1>7. ASSUME NEW u \in Users, NEW want \in Arrangements, CreateBoardStarts(t, u, want) PROVE IInv'
  <2> DEFINE r == Request("loaded", u, None, None, want)
  <2>f. /\ Shape(r)
        /\ r.at = "loaded" /\ r.user = u /\ r.want = want /\ r.board = None
    BY Built
  <2> HIDE DEF r
  <2>1. Found(u, want)
    BY <1>7 DEF CreateBoardStarts
  <2>2. Sound(r)
    BY <1>6, <2>1, <2>f DEF Sound
  <2>3. req' = [req EXCEPT ![t] = r] /\ UNCHANGED <<query, chart, board, items, helped>>
    BY <1>7 DEF CreateBoardStarts, Begin, library, arranged, r
  <2> QED BY <2>2, <2>3, BeginInv
<1>8. ASSUME NEW u \in Users, NEW b \in Boards, NEW want \in Arrangements,
             UpdateBoardStarts(t, u, b, want)
      PROVE  IInv'
  <2> DEFINE r == Request("validated", u, None, b, want)
  <2>f. /\ Shape(r)
        /\ r.at = "validated" /\ r.user = u /\ r.want = want /\ r.board = b
    BY Built
  <2> HIDE DEF r
  <2>1. Found(u, want) /\ VisibleTo(u, board[b])
    BY <1>8 DEF UpdateBoardStarts
  <2>2. u \notin Admins => board[b] = u
    BY <2>1 DEF VisibleTo
  <2>3. Sound(r)
    BY <1>6, <2>1, <2>2, Distinct, <2>f DEF Sound
  <2>4. req' = [req EXCEPT ![t] = r] /\ UNCHANGED <<query, chart, board, items, helped>>
    BY <1>8 DEF UpdateBoardStarts, Begin, library, arranged, r
  <2> QED BY <2>3, <2>4, BeginInv
<1> QED BY <1>1, <1>2, <1>3, <1>4, <1>5, <1>7, <1>8 DEF OfQueries, OfBoards

LEMMA LoadsInv == ASSUME IInv, NEW t \in Threads, LoadsItems(t) PROVE IInv'
<1> DEFINE o == req[t]
           n == Request("loaded", o.user, None, o.board, o.want)
           r == [n EXCEPT !.loaded = items[o.board]]
<1>1. o.at = "validated" /\ req' = [req EXCEPT ![t] = r]
      /\ UNCHANGED <<query, chart, board, items, helped>>
  BY DEF LoadsItems, library, arranged
<1>2. Sound(o)
  BY DEF IInv
<1>3. Sound(r)
  <2>1. /\ n = [at |-> n.at, user |-> n.user, query |-> n.query, board |-> n.board,
                want |-> n.want, loaded |-> n.loaded, late |-> n.late]
        /\ n.at = "loaded" /\ n.user = o.user /\ n.want = o.want /\ n.board = o.board
    BY Built DEF Shape
  <2> HIDE DEF n
  <2>2. /\ Shape(r) /\ r.at = "loaded" /\ r.user = o.user /\ r.want = o.want
        /\ r.board = o.board
    BY <2>1 DEF Shape
  <2> HIDE DEF r
  <2> QED BY <1>1, <1>2, <2>2 DEF Sound
<1> HIDE DEF r
<1> QED BY <1>1, <1>3, BeginInv

\* Writing the items of a board: what was validated is placed if it is stored.
LEMMA WritesInv ==
  ASSUME IInv, NEW t \in Threads, NEW b \in Boards, req[t].at = "loaded", Fits(b, req[t]),
         Writes(t, b), UNCHANGED <<query, chart>>,
         \/ /\ req[t].board = None /\ board[b] = None
            /\ board' = [board EXCEPT ![b] = req[t].user]
         \/ req[t].board = b /\ IsStored(board[b]) /\ board' = board
  PROVE  IInv'
<1> DEFINE r == req[t]
<1>1. /\ items' = [items EXCEPT ![b] = Rearranged(b, r)]
      /\ helped' = IF r.user \in Admins THEN helped \cup {b} ELSE helped
      /\ req' = [x \in Threads |-> IF x = t THEN Idle
                                   ELSE IF req[x].board = b THEN [req[x] EXCEPT !.late = TRUE]
                                   ELSE req[x]]
  BY DEF Writes
<1>2. /\ r.user \in Users /\ r.want \in Seq(Charts)
      /\ r.user \notin Admins =>
           /\ \A c \in ToSet(r.want) : Own(c, r.user)
           /\ r.board # None => board[r.board] \in {r.user, Gone}
  BY DEF IInv, Sound
<1>3. /\ board'[b] \in Owners /\ (r.user \notin Admins => board'[b] = r.user)
      /\ \A a \in Boards : a # b => board'[a] = board[a]
      /\ board[b] # None => board' = board
  BY <1>2, Distinct DEF IInv, Typed, IsStored, Owners
<1>4. Typed'
  <2>1. items' = [a \in Boards |-> [c \in Charts |-> items'[a][c]]]
    BY <1>1 DEF IInv, Typed, Rearranged
  <2>2. board' \in [Boards -> Owners \cup {None, Gone}]
    BY <1>2 DEF IInv, Typed, Owners
  <2>3. req' = [x \in Threads |-> req'[x]]
    BY <1>1
  <2> QED BY <2>1, <2>2, <2>3 DEF IInv, Typed
<1>5. Kept'
  BY DEF IInv, Kept, IsStored
<1>6. Placing'
  <2> SUFFICES ASSUME NEW a \in Boards, NEW c \in Charts, items'[a][c] # None
               PROVE  /\ IsStored(chart[c]) /\ IsStored(board'[a])
                      /\ a \notin helped' => query[chart[c]] = board'[a]
    BY DEF Placing, IsStored
  <2>1. CASE a # b
    BY <1>1, <1>3, <2>1 DEF IInv, Typed, Placing
  <2>2. CASE a = b /\ c \in ToSet(r.want)
    <3>1. IsStored(chart[c])
      BY <2>2 DEF Fits, IInv, Placing
    <3>2. b \notin helped' => query[chart[c]] = board'[b]
      BY <1>1, <1>2, <1>3, <2>2, <3>1 DEF Own, IsStored
    <3> QED BY <1>3, <2>2, <3>1, <3>2, Distinct DEF IsStored, Owners
  <2>3. CASE a = b /\ c \notin ToSet(r.want)
    <3>1. items[b][c] # None
      <4>1. items'[b] = Rearranged(b, r)
        BY <1>1 DEF IInv, Typed
      <4>2. ~Contains(r.want, c)
        BY <1>2, <2>3, Members
      <4> QED BY <2>3, <4>1, <4>2 DEF Rearranged
    <3>2. IsStored(chart[c]) /\ IsStored(board[b]) /\ (b \notin helped => query[chart[c]] = board[b])
      BY <3>1 DEF IInv, Placing
    <3>3. board' = board
      BY <1>3, <3>2 DEF IsStored
    <3> QED BY <1>1, <2>3, <3>2, <3>3
  <2> QED BY <2>1, <2>2, <2>3
<1>7. ASSUME NEW x \in Threads PROVE Sound(req[x])'
  <2> DEFINE o == req[x]
             p == req'[x]
  <2>1. CASE x = t
    BY <1>1, <2>1, Built DEF Sound, Idle
  <2>2. CASE x # t
    <3>1. Sound(o)
      BY DEF IInv
    <3>2. /\ p.at = o.at /\ p.user = o.user /\ p.want = o.want /\ p.board = o.board
          /\ Shape(p)
      <4>1. p = o \/ p = [o EXCEPT !.late = TRUE]
        BY <1>1, <2>2
      <4>2. o = [at |-> o.at, user |-> o.user, query |-> o.query, board |-> o.board,
                 want |-> o.want, loaded |-> o.loaded, late |-> o.late]
        BY <3>1 DEF Sound, Shape
      <4> QED BY <4>1, <4>2 DEF Shape
    <3>3. ASSUME o.at \in {"validated", "loaded"}, o.user \notin Admins, o.board # None
          PROVE  board'[o.board] \in {o.user, Gone}
      <4>1. o.board \in Boards /\ board[o.board] \in {o.user, Gone} /\ o.user \in Users
        BY <3>1, <3>3 DEF Sound
      <4>2. board[o.board] # None
        BY <4>1, Distinct
      <4> QED BY <1>3, <4>1, <4>2
    <3> QED BY <3>1, <3>2, <3>3 DEF Sound, Own, IsStored
  <2> QED BY <2>1, <2>2
<1> QED BY <1>4, <1>5, <1>6, <1>7 DEF IInv

LEMMA BoardInv ==
  ASSUME IInv, NEW t \in Threads,
         UpdateBoardCommits(t) \/ \E b \in Boards : CreateBoardCommits(t, b)
  PROVE  IInv'
<1>1. CASE UpdateBoardCommits(t)
  <2> DEFINE b == req[t].board
  <2>1. /\ req[t].at = "loaded" /\ b # None /\ IsStored(board[b]) /\ Fits(b, req[t])
        /\ Writes(t, b) /\ UNCHANGED <<query, chart, board>>
    BY <1>1 DEF UpdateBoardCommits, library
  <2>2. b \in Boards
    BY <2>1 DEF IInv, Sound
  <2> QED BY <2>1, <2>2, WritesInv
<1>2. ASSUME NEW b \in Boards, CreateBoardCommits(t, b) PROVE IInv'
  <2>1. /\ req[t].at = "loaded" /\ req[t].board = None /\ board[b] = None
        /\ board' = [board EXCEPT ![b] = req[t].user]
        /\ Fits(b, req[t]) /\ Writes(t, b) /\ UNCHANGED <<query, chart>>
    BY <1>2 DEF CreateBoardCommits, library
  <2> QED BY <2>1, WritesInv
<1> QED BY <1>1, <1>2

LEMMA NextInv == IInv /\ [Next]_vars => IInv'
<1> SUFFICES ASSUME IInv, [Next]_vars PROVE IInv'
  OBVIOUS
<1>1. ASSUME NEW t \in Threads, OfQueries(t) \/ OfBoards(t) \/ Refused(t) PROVE IInv'
  BY <1>1, StartsInv, CreateInv, DeleteInv, LoadsInv, BoardInv
<1>2. ASSUME NEW c \in Charts, NEW s, Share(c, s) PROVE IInv'
  <2>1. UNCHANGED <<query, chart, board, items, helped, req>>
    BY <1>2 DEF Share, arranged
  <2>2. req' = [t \in Threads |-> req'[t]]
    BY <2>1 DEF IInv, Typed
  <2> QED BY <2>1, <2>2, RequestInv
<1>3. ASSUME NEW prunes, Restart(prunes) PROVE IInv'
  <2>1. req' = [t \in Threads |-> Idle] /\ UNCHANGED <<query, chart, board, items, helped>>
    BY <1>3 DEF Restart, library, arranged
  <2> QED BY <2>1, IdleSound, RequestInv
<1>4. CASE Tick \/ UNCHANGED vars
  <2>1. UNCHANGED <<query, chart, board, items, helped, req>>
    BY <1>4 DEF Tick, vars, library, arranged
  <2>2. req' = [t \in Threads |-> req'[t]]
    BY <2>1 DEF IInv, Typed
  <2> QED BY <2>1, <2>2, RequestInv
<1> QED BY <1>1, <1>2, <1>3, <1>4, RemoveInv, AddInv, ClaimInv, DropInv, DisconnectInv DEF Next

LEMMA Invariance == Spec => []IInv
<1>1. Init => IInv
  BY InitInv
<1>2. IInv /\ [Next]_vars => IInv'
  BY NextInv
<1> QED BY <1>1, <1>2, PTL DEF Spec

\* A board that no administrator arranged shows charts of its owner's queries
\* only (_validate_chart_ids, _claim_unowned, ON DELETE CASCADE).
THEOREM BoardsShow == Spec => []BoardsShowOwn
<1>1. IInv => BoardsShowOwn
  BY DEF IInv, Placing, BoardsShowOwn, Placed
<1> QED BY <1>1, Invariance, PTL

-----------------------------------------------------------------------------
(* The places on a board.                                                   *)

\* A set of numbers up to a bound has a least one.
LEMMA LeastOf ==
  ASSUME NEW S, NEW L \in Nat, S \subseteq 0 .. L, S # {}
  PROVE  \E m \in S : \A y \in S : m <= y
<1> DEFINE T == {0 .. n : n \in S}
<1>1. IsFiniteSet(0 .. L)
  BY FS_Interval
<1>2. T \subseteq SUBSET (0 .. L) /\ T # {}
  <2>1. \A n \in S : 0 .. n \subseteq 0 .. L
    OBVIOUS
  <2> QED BY <2>1
<1>3. IsWellFoundedOn(StrictSubsetOrdering(0 .. L), SUBSET (0 .. L))
  <2>1. IsWellFoundedOn(StrictSubsetOrdering(0 .. L), FiniteSubsetsOf(0 .. L))
    BY FS_StrictSubsetOrderingWellFounded
  <2>2. FiniteSubsetsOf(0 .. L) = SUBSET (0 .. L)
    BY <1>1, FS_FiniteSubsetsOfFinite
  <2> QED BY ONLY <2>1, <2>2
<1> HIDE DEF T
<1>4. \E u \in T : \A v \in T : ~ (<<v, u>> \in StrictSubsetOrdering(0 .. L))
  BY <1>2, <1>3, WFMin
<1>5. PICK n \in S : \A v \in T : ~ (<<v, 0 .. n>> \in StrictSubsetOrdering(0 .. L))
  BY <1>4 DEF T
<1>6. ASSUME NEW y \in S PROVE n <= y
  <2> SUFFICES ASSUME y < n PROVE FALSE
    OBVIOUS
  <2>1. 0 .. y \in T
    BY DEF T
  <2>2. 0 .. y \subseteq 0 .. n /\ 0 .. y # 0 .. n /\ 0 .. n \subseteq 0 .. L
    <3>1. n \in 0 .. n /\ n \notin 0 .. y
      OBVIOUS
    <3>2. 0 .. y \subseteq 0 .. n /\ 0 .. n \subseteq 0 .. L
      OBVIOUS
    <3> QED BY <3>1, <3>2
  <2>3. <<0 .. y, 0 .. n>> \in StrictSubsetOrdering(0 .. L)
    BY <2>2 DEF StrictSubsetOrdering
  <2> QED BY <1>5, <2>1, <2>3
<1> QED BY <1>6

\* Where a chart occurs first.
LEMMA FirstIs ==
  ASSUME NEW want \in Seq(Charts), NEW c \in ToSet(want)
  PROVE  First(c, want) \in DOMAIN want /\ First(c, want) \in Nat /\ want[First(c, want)] = c
<1> DEFINE K == {i \in DOMAIN want : want[i] = c}
<1>1. K \subseteq 0 .. Len(want) /\ Len(want) \in Nat
  OBVIOUS
<1>2. K # {}
  BY DEF ToSet
<1>3. \E m \in K : \A y \in K : m <= y
  <2> HIDE DEF K
  <2> QED BY ONLY <1>1, <1>2, LeastOf
<1>4. First(c, want) \in K
  BY <1>3 DEF First, Min
<1> QED BY <1>1, <1>4

\* The places of what is asked for run from 0 without a gap or a duplicate.
LEMMA PlacesFill ==
  ASSUME NEW want \in Seq(Charts)
  PROVE  /\ {PlaceOf(c, want) : c \in ToSet(want)} = 0 .. Cardinality(ToSet(want)) - 1
         /\ \A c \in ToSet(want) : PlaceOf(c, want) \in Nat
<1> DEFINE S == ToSet(want)
           n == Cardinality(S)
<1>1. IsFiniteSet(S) /\ n \in Nat
  <2>1. want \in Surjection(1 .. Len(want), S)
    <3>1. want \in [1 .. Len(want) -> S] /\ \A c \in S : \E i \in 1 .. Len(want) : want[i] = c
      BY DEF ToSet
    <3> QED BY <3>1 DEF Surjection
  <2>2. IsFiniteSet(1 .. Len(want))
    BY FS_Interval
  <2> HIDE DEF S
  <2>3. IsFiniteSet(S)
    BY <2>1, <2>2, FS_Surjection
  <2> QED BY <2>3, FS_CardinalityType
<1>2. \A c \in S : First(c, want) \in Nat /\ want[First(c, want)] = c
  BY FirstIs
<1>3. \A c : Ahead(c, want) = {d \in S : First(d, want) < First(c, want)}
  BY DEF Ahead
<1> HIDE DEF S, n
<1>4. ASSUME NEW c \in S PROVE IsFiniteSet(Ahead(c, want)) /\ PlaceOf(c, want) \in Nat /\ PlaceOf(c, want) \in 0 .. n - 1
  <2> DEFINE R == S \ {c}
  <2>1. IsFiniteSet(R) /\ Cardinality(R) = n - 1
    BY <1>1, FS_RemoveElement DEF n
  <2>2. Ahead(c, want) \in SUBSET R
    BY <1>2, <1>3
  <2> HIDE DEF R
  <2>3. IsFiniteSet(Ahead(c, want)) /\ Cardinality(Ahead(c, want)) <= n - 1
    BY <2>1, <2>2, FS_Subset
  <2>4. Cardinality(Ahead(c, want)) \in Nat
    BY <2>3, FS_CardinalityType
  <2> QED BY <1>1, <2>3, <2>4 DEF PlaceOf
<1>5. ASSUME NEW c \in S, NEW d \in S, First(c, want) < First(d, want)
      PROVE  PlaceOf(c, want) # PlaceOf(d, want)
  <2>1. Ahead(c, want) \in SUBSET Ahead(d, want)
    BY <1>2, <1>3, <1>5
  <2>2. c \in Ahead(d, want) /\ c \notin Ahead(c, want)
    BY <1>2, <1>3, <1>5
  <2>3. Cardinality(Ahead(c, want)) = Cardinality(Ahead(d, want)) => Ahead(c, want) = Ahead(d, want)
    BY <1>4, <2>1, FS_Subset
  <2> QED BY <2>2, <2>3 DEF PlaceOf
<1>6. ASSUME NEW c \in S, NEW d \in S, PlaceOf(c, want) = PlaceOf(d, want) PROVE c = d
  <2>1. ~(First(c, want) < First(d, want)) /\ ~(First(d, want) < First(c, want))
    BY <1>5, <1>6
  <2>2. First(c, want) = First(d, want)
    BY <1>2, <2>1
  <2> QED BY <1>2, <2>2
<1> DEFINE T == 0 .. n - 1
           f == [c \in S |-> PlaceOf(c, want)]
<1>7. IsFiniteSet(T) /\ Cardinality(T) = n
  <2>1. 0 \in Int /\ n - 1 \in Int
    BY <1>1
  <2>2. IsFiniteSet(T) /\ Cardinality(T) = IF 0 > n - 1 THEN 0 ELSE n - 1 - 0 + 1
    BY <2>1, FS_Interval
  <2> HIDE DEF T
  <2> QED BY <1>1, <2>2
<1>8. f \in Injection(S, T)
  BY <1>4, <1>6 DEF Injection, IsInjective
<1>9. f \in Surjection(S, T)
  <2> HIDE DEF f, T
  <2> QED BY <1>1, <1>7, <1>8, FS_Injection DEF n
<1>10. {PlaceOf(c, want) : c \in S} = T
  BY <1>4, <1>9 DEF Surjection
<1> QED BY <1>4, <1>10 DEF S, n

\* Positions from 0 without a gap or a duplicate.
Filled(places) == {places[c] : c \in Placed(places)} = 0 .. Cardinality(Placed(places)) - 1

LEMMA EmptyFilled == ASSUME NEW places, \A c \in Charts : places[c] = None PROVE Filled(places)
<1>1. Placed(places) = {} /\ Cardinality({}) = 0 /\ 0 .. 0 - 1 = {}
  BY FS_EmptySet DEF Placed
<1> QED BY <1>1 DEF Filled

LEMMA PlacedFilled ==
  ASSUME NEW want \in Seq(Charts), NEW places,
         \A c \in Charts : places[c] = IF Contains(want, c) THEN PlaceOf(c, want) ELSE None
  PROVE  Filled(places)
<1>1. ToSet(want) \subseteq Charts /\ \A c : Contains(want, c) <=> c \in ToSet(want)
  BY Members
<1>2. /\ {PlaceOf(c, want) : c \in ToSet(want)} = 0 .. Cardinality(ToSet(want)) - 1
      /\ \A c \in ToSet(want) : PlaceOf(c, want) \in Nat
  BY PlacesFill
<1>3. None \notin Nat
  BY WorkspacesAssumption
<1>4. Placed(places) = ToSet(want)
  BY <1>1, <1>2, <1>3 DEF Placed
<1>5. {places[c] : c \in ToSet(want)} = {PlaceOf(c, want) : c \in ToSet(want)}
  BY <1>1
<1> QED BY <1>2, <1>4, <1>5 DEF Filled

\* A board that was neither torn nor lost a chart is filled, and a request that
\* no other has overtaken has loaded all that is on its board.
Whole ==
  /\ \A b \in Boards \ torn : Filled(items[b])
  /\ \A t \in Threads : req[t].at = "loaded" /\ ~req[t].late /\ req[t].board # None =>
       \A c \in Charts : items[req[t].board][c] # None => req[t].loaded[c] # None

LEMMA WholeInit == Init => Whole
<1> SUFFICES ASSUME Init PROVE Whole
  OBVIOUS
<1>1. PICK start \in Starts :
        items = [b \in Boards |-> [c \in Charts |->
                   IF Contains(start.want[b], c) THEN PlaceOf(c, start.want[b]) ELSE None]]
  BY DEF Init
<1>2. start.want \in [Boards -> Seq(Charts)]
  BY WorkspacesAssumption
<1>3. ASSUME NEW b \in Boards PROVE Filled(items[b])
  <2>1. start.want[b] \in Seq(Charts)
    BY <1>2
  <2>2. \A c \in Charts : items[b][c] = IF Contains(start.want[b], c) THEN PlaceOf(c, start.want[b]) ELSE None
    BY <1>1
  <2> QED BY <2>1, <2>2, PlacedFilled
<1>4. \A t \in Threads : req[t].at = "idle"
  BY DEF Init, Idle, Request
<1> QED BY <1>3, <1>4 DEF Whole

\* Boards are as they were, and no request has loaded anything new.
LEMMA WholeKept ==
  ASSUME Whole, UNCHANGED <<items, torn>>,
         \A t \in Threads : req'[t] = req[t] \/ req'[t].at # "loaded" \/ req'[t].board = None
  PROVE  Whole'
BY DEF Whole, Filled, Placed

LEMMA IdleAt == Idle.at = "idle" /\ Idle.board = None
BY DEF Idle, Request

\* What is deleted leaves boards that count as torn, or were without it.
LEMMA WholeUnplace ==
  ASSUME IInv, Whole, Ends, NEW lost, Unplace(lost)
  PROVE  Whole'
<1>1. /\ items' = [b \in Boards |-> [c \in Charts |-> IF c \in lost THEN None ELSE items[b][c]]]
      /\ torn' = torn \cup {b \in Boards : Placed(items[b]) \cap lost # {}}
  BY DEF Unplace
<1>2. ASSUME NEW b \in Boards \ torn' PROVE Filled(items'[b])
  <2>1. b \notin torn /\ \A c \in Charts : c \in lost => items[b][c] = None
    BY <1>1 DEF Placed
  <2>2. items[b] = [c \in Charts |-> items[b][c]]
    BY DEF IInv, Typed
  <2>3. items'[b] = [c \in Charts |-> IF c \in lost THEN None ELSE items[b][c]]
    BY <1>1
  <2>4. items'[b] = items[b]
    BY <2>1, <2>2, <2>3
  <2> QED BY <2>1, <2>4 DEF Whole
<1>3. ASSUME NEW t \in Threads, req'[t].at = "loaded", ~req'[t].late, req'[t].board # None,
             NEW c \in Charts, items'[req'[t].board][c] # None
      PROVE  req'[t].loaded[c] # None
  <2>1. req'[t] = req[t]
    BY <1>3, IdleAt DEF Ends
  <2>2. req[t].board \in Boards
    BY <1>3, <2>1 DEF IInv, Sound
  <2>3. items[req[t].board][c] # None
    BY <1>1, <1>3, <2>1, <2>2
  <2> QED BY <1>3, <2>1, <2>3 DEF Whole
<1>4. \A b \in Boards \ torn' : Filled(items[b])'
  BY <1>2 DEF Filled, Placed
<1> QED BY <1>3, <1>4 DEF Whole

LEMMA WholeDrop == ASSUME IInv, Whole, NEW u \in Users, NEW b \in Boards, DeleteBoard(u, b) PROVE Whole'
<1>1. items' = [items EXCEPT ![b] = Empty] /\ UNCHANGED <<torn, req>> /\ items = [a \in Boards |-> items[a]]
  BY DEF DeleteBoard, IInv, Typed
<1>2. /\ \A c \in Charts : items'[b][c] = None
      /\ \A a \in Boards \ {b} : items'[a] = items[a]
  BY <1>1 DEF Empty
<1>3. \A a \in Boards \ torn' : Filled(items'[a])
  BY <1>1, <1>2, EmptyFilled DEF Whole
<1>4. \A a \in Boards \ torn' : Filled(items[a])'
  BY <1>3 DEF Filled, Placed
<1>5. ASSUME NEW t \in Threads, req'[t].at = "loaded", ~req'[t].late, req'[t].board # None,
             NEW c \in Charts, items'[req'[t].board][c] # None
      PROVE  req'[t].loaded[c] # None
  <2>1. req[t].board \in Boards
    BY <1>1, <1>5 DEF IInv, Sound
  <2>2. items[req[t].board][c] # None
    BY <1>1, <1>2, <1>5, <2>1
  <2> QED BY <1>1, <1>5, <2>2 DEF Whole
<1> QED BY <1>4, <1>5 DEF Whole

LEMMA WholeLoads == ASSUME IInv, Whole, NEW t \in Threads, LoadsItems(t) PROVE Whole'
<1> DEFINE o == req[t]
           n == Request("loaded", o.user, None, o.board, o.want)
           r == [n EXCEPT !.loaded = items[o.board]]
<1>1. req' = [req EXCEPT ![t] = r] /\ UNCHANGED <<items, torn>> /\ req = [x \in Threads |-> req[x]]
  BY DEF LoadsItems, arranged, IInv, Typed
<1>2. r.board = o.board /\ r.loaded = items[o.board]
  BY DEF Request
<1> HIDE DEF r
<1>3. \A x \in Threads : req'[x] = IF x = t THEN r ELSE req[x]
  BY <1>1
<1>4. \A x \in Threads : req'[x].at = "loaded" /\ ~req'[x].late /\ req'[x].board # None =>
        \A c \in Charts : items'[req'[x].board][c] # None => req'[x].loaded[c] # None
  BY <1>1, <1>2, <1>3 DEF Whole
<1>5. \A b \in Boards \ torn' : Filled(items[b])'
  BY <1>1 DEF Whole, Filled, Placed
<1> QED BY <1>4, <1>5 DEF Whole

\* A request that was not overtaken leaves on the board what it was asked to
\* place, in a line; those it overtook are late.
LEMMA WholeWrites ==
  ASSUME IInv, Whole, NEW t \in Threads, NEW b \in Boards, req[t].at = "loaded", Writes(t, b),
         \/ req[t].board = None /\ board[b] = None
         \/ req[t].board = b
  PROVE  Whole'
<1> DEFINE r == req[t]
<1>1. /\ items' = [items EXCEPT ![b] = Rearranged(b, r)]
      /\ torn' = IF r.late THEN torn \cup {b} ELSE torn \ {b}
      /\ req' = [x \in Threads |-> IF x = t THEN Idle
                                   ELSE IF req[x].board = b THEN [req[x] EXCEPT !.late = TRUE]
                                   ELSE req[x]]
      /\ items = [a \in Boards |-> items[a]]
  BY DEF Writes, IInv, Typed
<1>2. r.want \in Seq(Charts)
  BY DEF IInv, Sound
<1>3. items'[b] = Rearranged(b, r) /\ \A a \in Boards \ {b} : items'[a] = items[a]
  BY <1>1
<1>4. ASSUME ~r.late PROVE Filled(items'[b])
  <2>1. \A c \in Charts : items[b][c] # None => r.loaded[c] # None
    <3>1. CASE r.board = None /\ board[b] = None
      BY <3>1 DEF IInv, Placing, IsStored
    <3>2. CASE r.board = b
      <4>1. b # None
        BY Distinct
      <4> QED BY <1>4, <3>2, <4>1 DEF Whole
    <3> QED BY <3>1, <3>2
  <2>2. \A c \in Charts : items'[b][c] = IF Contains(r.want, c) THEN PlaceOf(c, r.want) ELSE None
    BY <1>3, <2>1 DEF Rearranged
  <2> QED BY <1>2, <2>2, PlacedFilled
<1>5. ASSUME NEW a \in Boards \ torn' PROVE Filled(items'[a])
  <2>1. CASE a = b
    BY <1>1, <1>4, <1>5, <2>1
  <2>2. CASE a # b
    BY <1>1, <1>3, <1>5, <2>2 DEF Whole
  <2> QED BY <2>1, <2>2
<1>6. \A a \in Boards \ torn' : Filled(items[a])'
  BY <1>5 DEF Filled, Placed
<1>7. ASSUME NEW x \in Threads, req'[x].at = "loaded", ~req'[x].late, req'[x].board # None,
             NEW c \in Charts, items'[req'[x].board][c] # None
      PROVE  req'[x].loaded[c] # None
  <2> DEFINE o == req[x]
  <2>1. x # t
    BY <1>1, <1>7, IdleAt
  <2>2. o.board # b
    <3> SUFFICES ASSUME o.board = b PROVE FALSE
      OBVIOUS
    <3>1. req'[x] = [o EXCEPT !.late = TRUE]
      BY <1>1, <2>1
    <3>2. o = [at |-> o.at, user |-> o.user, query |-> o.query, board |-> o.board,
               want |-> o.want, loaded |-> o.loaded, late |-> o.late]
      BY DEF IInv, Sound, Shape
    <3> HIDE DEF o
    <3>3. req'[x].late
      BY <3>1, <3>2
    <3> QED BY <1>7, <3>3
  <2>3. req'[x] = o
    BY <1>1, <2>1, <2>2
  <2>4. o.board \in Boards
    BY <1>7, <2>3 DEF IInv, Sound
  <2>5. items[o.board][c] # None
    BY <1>3, <1>7, <2>2, <2>3, <2>4
  <2> QED BY <1>7, <2>3, <2>5 DEF Whole
<1> QED BY <1>6, <1>7 DEF Whole

\* Requests that begin, or go on without loading the items of a board.
LEMMA WholeStarts ==
  ASSUME IInv, Whole, NEW t \in Threads, OfQueries(t) \/ OfBoards(t) \/ Refused(t)
  PROVE  \/ Whole'
         \/ DeleteCommits(t) \/ LoadsItems(t) \/ UpdateBoardCommits(t)
         \/ \E b \in Boards : CreateBoardCommits(t, b)
<1>1. ASSUME NEW r, r.at # "loaded" \/ r.board = None, req' = [req EXCEPT ![t] = r], UNCHANGED <<items, torn>>
      PROVE  Whole'
  <2>1. req = [x \in Threads |-> req[x]]
    BY DEF IInv, Typed
  <2>2. \A x \in Threads : req'[x] = req[x] \/ req'[x].at # "loaded" \/ req'[x].board = None
    BY <1>1, <2>1
  <2> QED BY <1>1, <2>2, WholeKept
<1>2. \A a, u, q, b, w : Request(a, u, q, b, w).at = a /\ Request(a, u, q, b, w).board = b
  BY Built
<1>3. ASSUME NEW u \in Users, CreateStarts(t, u) PROVE Whole'
  BY <1>1, <1>2, <1>3 DEF CreateStarts, Begin, arranged
<1>4. ASSUME NEW u \in Users, NEW q \in Queries, DeleteStarts(t, u, q) PROVE Whole'
  BY <1>1, <1>2, <1>4 DEF DeleteStarts, Begin, arranged
<1>5. ASSUME NEW u, NEW q, RunStarts(t, u, q) PROVE Whole'
  BY <1>1, <1>2, <1>5 DEF RunStarts, Begin, arranged
<1>6. ASSUME NEW success, RunEnds(t, success) PROVE Whole'
  BY <1>1, <1>6, IdleAt DEF RunEnds, arranged
<1>7. ASSUME Refused(t) PROVE Whole'
  BY <1>1, <1>7, IdleAt DEF Refused, arranged
<1>8. ASSUME NEW u \in Users, NEW want \in Arrangements, CreateBoardStarts(t, u, want) PROVE Whole'
  <2> DEFINE r == Request("loaded", u, None, None, want)
  <2>1. req' = [req EXCEPT ![t] = r] /\ UNCHANGED <<items, torn>>
    BY <1>8 DEF CreateBoardStarts, Begin, arranged
  <2>2. r.board = None
    BY <1>2
  <2> HIDE DEF r
  <2> QED BY <1>1, <2>1, <2>2
<1>9. ASSUME NEW u \in Users, NEW b \in Boards, NEW want \in Arrangements, UpdateBoardStarts(t, u, b, want)
      PROVE  Whole'
  BY <1>1, <1>2, <1>9 DEF UpdateBoardStarts, Begin, arranged
<1>10. ASSUME NEW q \in Queries, NEW c \in Charts, CreateCommits(t, q, c) PROVE Whole'
  BY <1>1, <1>10, IdleAt DEF CreateCommits, arranged
<1> QED BY <1>3, <1>4, <1>5, <1>6, <1>7, <1>8, <1>9, <1>10 DEF OfQueries, OfBoards

LEMMA WholeStep == ASSUME IInv, Whole, [Next]_vars PROVE Whole'
<1>1. ASSUME NEW t \in Threads, OfQueries(t) \/ OfBoards(t) \/ Refused(t) PROVE Whole'
  <2>1. CASE DeleteCommits(t)
    <3>1. Unplace({c \in Charts : chart[c] = req[t].query}) /\ req' = [req EXCEPT ![t] = Idle]
      BY <2>1 DEF DeleteCommits
    <3> QED BY <3>1, EndsOne, WholeUnplace
  <2>2. CASE LoadsItems(t)
    BY <2>2, WholeLoads
  <2>3. CASE UpdateBoardCommits(t)
    <3>1. req[t].at = "loaded" /\ req[t].board # None /\ Writes(t, req[t].board)
      BY <2>3 DEF UpdateBoardCommits
    <3>2. req[t].board \in Boards
      BY <3>1 DEF IInv, Sound
    <3> QED BY <3>1, <3>2, WholeWrites
  <2>4. ASSUME NEW b \in Boards, CreateBoardCommits(t, b) PROVE Whole'
    <3>1. req[t].at = "loaded" /\ req[t].board = None /\ board[b] = None /\ Writes(t, b)
      BY <2>4 DEF CreateBoardCommits
    <3> QED BY <3>1, WholeWrites
  <2> QED BY <1>1, <2>1, <2>2, <2>3, <2>4, WholeStarts
<1>2. ASSUME NEW c \in Charts, NEW u \in Users, RemoveChart(c, u) PROVE Whole'
  <2>1. Unplace({c}) /\ UNCHANGED req
    BY <1>2 DEF RemoveChart
  <2> QED BY <2>1, EndsNone, WholeUnplace
<1>3. CASE DeleteConnection
  <2>1. Unplace(StoredCharts) /\ UNCHANGED req
    BY <1>3 DEF DeleteConnection
  <2> QED BY <2>1, EndsNone, WholeUnplace
<1>4. ASSUME NEW u \in Users, NEW b \in Boards, DeleteBoard(u, b) PROVE Whole'
  BY <1>4, WholeDrop
<1>5. ASSUME NEW prunes, Restart(prunes) PROVE Whole'
  BY <1>5, IdleAt, WholeKept DEF Restart, arranged
<1>6. ASSUME NEW c \in Charts, NEW s, Share(c, s) PROVE Whole'
  BY <1>6, WholeKept DEF Share, arranged
<1>7. ASSUME NEW c \in Charts, NEW q \in Queries, AddChart(c, q) PROVE Whole'
  BY <1>7, WholeKept DEF AddChart, arranged
<1>8. ASSUME NEW u \in Users, ClaimUnowned(u) PROVE Whole'
  BY <1>8, WholeKept DEF ClaimUnowned
<1>9. CASE Tick \/ UNCHANGED vars
  BY <1>9, WholeKept DEF Tick, vars, arranged
<1> QED BY <1>1, <1>2, <1>3, <1>4, <1>5, <1>6, <1>7, <1>8, <1>9 DEF Next

\* A board shows stored charts, from position 0 without a gap or a duplicate,
\* until one of them is deleted or two requests that overlap write the board
\* (_apply_items, DashboardItem.position).
THEOREM BoardsWhole == Spec => []BoardsStayWhole
<1>1. Init => Whole
  BY WholeInit
<1>2. IInv /\ Whole /\ [Next]_vars => Whole'
  BY WholeStep
<1>3. IInv /\ Whole => BoardsStayWhole
  BY DEF IInv, Placing, Placed, Whole, Filled, BoardsStayWhole
<1> QED BY <1>1, <1>2, <1>3, Invariance, PTL DEF Spec

-----------------------------------------------------------------------------
(* The log keeps the newest rows.  The rows that are kept of a query over    *)
(* its quota are newer than the cutoff; were they too many, the oldest of    *)
(* them would be a cutoff itself, and a newer one.                           *)

LEMMA GreatestOf ==
  ASSUME NEW S, NEW L \in Nat, S \subseteq 0 .. L, S # {}
  PROVE  Max(S) \in S /\ \A y \in S : y <= Max(S)
<1> DEFINE T == {L - y : y \in S}
<1>1. T \subseteq 0 .. L /\ T # {}
  <2>1. \A y \in S : y \in 0 .. L /\ L - y \in 0 .. L
    OBVIOUS
  <2> QED BY ONLY <2>1, S # {} DEF T
<1> HIDE DEF T
<1>2. PICK m \in T : \A z \in T : m <= z
  BY <1>1, LeastOf
<1> USE DEF T
<1>3. L - m \in S /\ \A y \in S : L - m >= y
  BY <1>2
<1>4. \A y \in S : y \in Int
  OBVIOUS
<1>5. Max(S) \in S /\ \A y \in S : Max(S) >= y
  BY <1>3 DEF Max
<1> QED BY <1>4, <1>5

\* Rows that are as new, of more rows or since longer, are no fewer.
LEMMA AsNewGrows ==
  ASSUME NEW rows, NEW more, IsFiniteSet(more), rows \subseteq more,
         \A r \in more : r.at \in 0 .. MaxTime,
         NEW x \in 0 .. MaxTime, NEW y \in 0 .. MaxTime, x <= y
  PROVE  AsNew(rows, y) \in Nat /\ AsNew(more, x) \in Nat /\ AsNew(rows, y) <= AsNew(more, x)
<1> DEFINE A == {r \in rows : r.at >= y}
           B == {r \in more : r.at >= x}
<1>1. A \in SUBSET B /\ B \in SUBSET more
  BY WorkspacesAssumption
<1>2. AsNew(rows, y) = Cardinality(A) /\ AsNew(more, x) = Cardinality(B)
  BY DEF AsNew
<1> HIDE DEF A, B
<1>3. IsFiniteSet(B)
  BY <1>1, FS_Subset
<1>4. IsFiniteSet(A) /\ Cardinality(A) <= Cardinality(B)
  BY <1>1, <1>3, FS_Subset
<1> QED BY <1>2, <1>3, <1>4, FS_CardinalityType

LEMMA OldestOf ==
  ASSUME NEW rows, IsFiniteSet(rows), rows # {}, \A r \in rows : r.at \in 0 .. MaxTime
  PROVE  \E o \in rows : /\ \A r \in rows : o.at <= r.at
                         /\ AsNew(rows, o.at) = Cardinality(rows)
<1> DEFINE S == {r.at : r \in rows}
<1>1. S \subseteq 0 .. MaxTime /\ S # {} /\ MaxTime \in Nat
  BY WorkspacesAssumption
<1> HIDE DEF S
<1>2. PICK m \in S : \A y \in S : m <= y
  BY <1>1, LeastOf
<1> USE DEF S
<1>3. PICK o \in rows : m = o.at
  OBVIOUS
<1>4. \A r \in rows : o.at <= r.at
  BY <1>2, <1>3
<1>5. {r \in rows : r.at >= o.at} = rows
  BY <1>4, <1>1
<1> QED BY <1>4, <1>5 DEF AsNew

\* The cutoff of a query over its quota: as many rows as the log keeps, and
\* one, are as new; of no later time is that so.
LEMMA CutoffIs ==
  ASSUME NEW rows, IsFiniteSet(rows), \A r \in rows : r.at \in 0 .. MaxTime,
         Cardinality(rows) > Keep
  PROVE  /\ Cutoff(rows) \in 0 .. MaxTime /\ AsNew(rows, Cutoff(rows)) > Keep
         /\ \A r \in rows : AsNew(rows, r.at) > Keep => r.at <= Cutoff(rows)
<1> DEFINE K == {x \in {r.at : r \in rows} : AsNew(rows, x) > Keep}
<1>1. rows # {}
  BY FS_EmptySet, WorkspacesAssumption
<1>2. PICK o \in rows : AsNew(rows, o.at) = Cardinality(rows)
  BY <1>1, OldestOf
<1>3. K \subseteq 0 .. MaxTime /\ K # {} /\ MaxTime \in Nat
  BY <1>2, WorkspacesAssumption
<1>4. Cutoff(rows) = Max(K)
  BY DEF Cutoff
<1>5. Max(K) \in K /\ \A y \in K : y <= Max(K)
  <2> HIDE DEF K
  <2> QED BY <1>3, GreatestOf
<1> QED BY <1>3, <1>4, <1>5

\* What a prune leaves of a query fits its quota.
LEMMA TrimmedFits ==
  ASSUME NEW rows, IsFiniteSet(rows), \A r \in rows : r.at \in 0 .. MaxTime,
         NEW q \in Queries, Keep > 0
  PROVE  Cardinality(RowsOf(q, Trimmed(rows))) <= Keep
<1> DEFINE R == RowsOf(q, rows)
           A == RowsOf(q, Trimmed(rows))
<1>1. R \in SUBSET rows /\ A \in SUBSET R
  BY DEF RowsOf, Trimmed
<1>2. IsFiniteSet(R) /\ \A r \in R : r.at \in 0 .. MaxTime
  BY <1>1, FS_Subset
<1>3. IsFiniteSet(A) /\ Cardinality(A) \in Nat /\ Cardinality(R) \in Nat /\ Cardinality(A) <= Cardinality(R)
  BY <1>1, <1>2, FS_Subset, FS_CardinalityType
<1>4. Keep \in Nat /\ MaxTime \in Nat
  BY WorkspacesAssumption
<1>5. CASE q \notin OverQuota(rows)
  <2>1. ~ (Cardinality(R) > Keep)
    BY <1>5 DEF OverQuota
  <2> QED BY <2>1, <1>3, <1>4
<1>6. CASE q \in OverQuota(rows)
  <2>1. Cardinality(R) > Keep
    BY <1>6 DEF OverQuota
  <2>2. \A r \in A : r.at > Cutoff(R)
    BY <1>6 DEF RowsOf, Trimmed
  <2> HIDE DEF R, A
  <2>3. /\ Cutoff(R) \in 0 .. MaxTime
        /\ \A r \in R : AsNew(R, r.at) > Keep => r.at <= Cutoff(R)
    BY <1>2, <2>1, CutoffIs
  <2> SUFFICES ASSUME ~ (Cardinality(A) <= Keep) PROVE FALSE
    BY DEF A
  <2>4. A # {} /\ \A r \in A : r.at \in 0 .. MaxTime
    <3>1. Cardinality({}) <= Keep
      BY <1>4, FS_EmptySet
    <3> QED BY <1>1, <1>2, <3>1
  <2>5. PICK o \in A : AsNew(A, o.at) = Cardinality(A)
    BY <1>3, <2>4, OldestOf
  <2>6. o \in R /\ o.at \in 0 .. MaxTime
    BY <1>1, <2>4
  <2>7. AsNew(R, o.at) \in Nat /\ AsNew(A, o.at) <= AsNew(R, o.at)
    BY <1>1, <1>2, <2>6, AsNewGrows
  <2>8. AsNew(R, o.at) > Keep
    BY <1>3, <1>4, <2>5, <2>7
  <2> QED BY <1>4, <2>2, <2>3, <2>6, <2>8
<1> QED BY <1>5, <1>6

Logged == IsFiniteSet(log) /\ now \in 0 .. MaxTime /\ \A r \in log : r.at \in 0 .. MaxTime

LEMMA LoggedInit == Init => Logged
BY FS_EmptySet, WorkspacesAssumption DEF Init, Logged

\* Fewer rows are logged as the rows are.
LEMMA LoggedLess ==
  ASSUME Logged, NEW rows, rows \subseteq log
  PROVE  IsFiniteSet(rows) /\ \A r \in rows : r.at \in 0 .. MaxTime
BY FS_Subset DEF Logged

LEMMA LoggedStep == ASSUME Logged, [Next]_vars PROVE Logged'
<1>1. ASSUME UNCHANGED <<log, now>> PROVE Logged'
  BY <1>1 DEF Logged
<1>2. ASSUME log' \subseteq log, now' = now PROVE Logged'
  <2>1. IsFiniteSet(log') /\ \A r \in log' : r.at \in 0 .. MaxTime
    BY <1>2, LoggedLess
  <2> QED BY <2>1, <1>2 DEF Logged
<1>3. ASSUME NEW t \in Threads, OfQueries(t) \/ OfBoards(t) \/ Refused(t) PROVE Logged'
  <2>1. CASE DeleteCommits(t)
    BY <2>1, <1>2 DEF DeleteCommits
  <2>2. ASSUME NEW success \in BOOLEAN, RunEnds(t, success) PROVE Logged'
    <3>1. now' = now
      BY <2>2 DEF RunEnds
    <3>2. CASE log' = log
      BY <3>1, <3>2, <1>1
    <3>3. CASE \E i : log' = log \cup {[id |-> i, query |-> req[t].query, user |-> req[t].user, at |-> now]}
      <4>1. PICK i : log' = log \cup {[id |-> i, query |-> req[t].query, user |-> req[t].user, at |-> now]}
        BY <3>3
      <4> DEFINE new == [id |-> i, query |-> req[t].query, user |-> req[t].user, at |-> now]
      <4>2. new.at = now
        OBVIOUS
      <4>3. log' = log \cup {new}
        BY <4>1
      <4> HIDE DEF new
      <4>4. IsFiniteSet(log')
        BY <4>3, FS_AddElement DEF Logged
      <4> QED BY <3>1, <4>2, <4>3, <4>4 DEF Logged
    <3> QED BY <2>2, <3>2, <3>3 DEF RunEnds
  <2>3. CASE OfBoards(t) \/ Refused(t)
    BY <2>3, <1>1 DEF OfBoards, CreateBoardStarts, UpdateBoardStarts, LoadsItems, UpdateBoardCommits,
       CreateBoardCommits, Refused
  <2>4. ASSUME NEW u, NEW q, CreateStarts(t, u) \/ DeleteStarts(t, u, q) \/ RunStarts(t, u, q) PROVE Logged'
    BY <2>4, <1>1 DEF CreateStarts, DeleteStarts, RunStarts
  <2>5. ASSUME NEW q, NEW c, CreateCommits(t, q, c) PROVE Logged'
    BY <2>5, <1>1 DEF CreateCommits
  <2> QED BY <1>3, <2>1, <2>2, <2>3, <2>4, <2>5 DEF OfQueries
<1>4. ASSUME NEW prunes, Restart(prunes) PROVE Logged'
  BY <1>4, <1>2 DEF Restart, Pruned, Trimmed, InTime
<1>5. CASE DeleteConnection
  BY <1>5, <1>2 DEF DeleteConnection
<1>6. CASE Tick
  BY <1>6, WorkspacesAssumption DEF Tick, Logged
<1>7. ASSUME NEW c, NEW u, RemoveChart(c, u) \/ AddChart(c, u) \/ Share(c, u) PROVE Logged'
  BY <1>7, <1>1 DEF RemoveChart, AddChart, Share
<1>8. ASSUME NEW u, NEW b, ClaimUnowned(u) \/ DeleteBoard(u, b) PROVE Logged'
  BY <1>8, <1>1 DEF ClaimUnowned, DeleteBoard
<1>9. CASE UNCHANGED vars
  BY <1>9, <1>1 DEF vars
<1> QED BY <1>3, <1>4, <1>5, <1>6, <1>7, <1>8, <1>9 DEF Next

\* What a prune does to the rows of a query, or to those of no query.
LEMMA Prunes ==
  ASSUME Logged, Restart(TRUE), NEW q \in Queries \cup {None}
  PROVE  /\ RowsOf(q, log') \subseteq RowsOf(q, log)
         /\ q # None /\ Keep > 0 => Cardinality(RowsOf(q, log')) <= Keep
         /\ \A r \in RowsOf(q, log) \ RowsOf(q, log') :
              Expired(r) \/ (q # None /\ Keep > 0 /\ AsNew(RowsOf(q, log), r.at) > Keep)
<1> DEFINE rows == InTime(log)
           R == RowsOf(q, rows)
           before == RowsOf(q, log)
<1>1. log' = Trimmed(rows)
  BY DEF Restart, Pruned
<1>2. rows \subseteq log /\ R \subseteq rows /\ R \subseteq before /\ before \subseteq log /\ R \subseteq log
  BY DEF InTime, RowsOf
<1>3. RowsOf(q, log') \subseteq before
  BY <1>1 DEF Trimmed, InTime, RowsOf
<1>4. ASSUME q # None, Keep > 0 PROVE Cardinality(RowsOf(q, log')) <= Keep
  <2>1. IsFiniteSet(rows) /\ \A r \in rows : r.at \in 0 .. MaxTime
    <3> HIDE DEF rows
    <3> QED BY <1>2, LoggedLess
  <2> HIDE DEF rows
  <2>2. q \in Queries
    BY <1>4
  <2>3. Cardinality(RowsOf(q, Trimmed(rows))) <= Keep
    BY <1>4, <2>1, <2>2, TrimmedFits
  <2> QED BY <1>1, <2>3
<1>5. ASSUME NEW r \in before, r \notin RowsOf(q, log')
      PROVE  Expired(r) \/ (q # None /\ Keep > 0 /\ AsNew(before, r.at) > Keep)
  <2>1. r \in log /\ r.query = q /\ r.at \in 0 .. MaxTime /\ now \in 0 .. MaxTime /\ MaxTime \in Nat
        /\ Retention \in Nat
    BY WorkspacesAssumption DEF RowsOf, Logged
  <2>2. CASE r \notin rows
    BY <2>1, <2>2 DEF InTime, Expired
  <2>3. CASE r \in rows
    <3>1. Keep > 0 /\ q \in OverQuota(rows) /\ ~ (r.at > Cutoff(R))
      BY <1>1, <1>5, <2>1, <2>3 DEF RowsOf, Trimmed
    <3>2. q \in Queries /\ Cardinality(R) > Keep
      BY <3>1 DEF OverQuota
    <3>3. q # None
      BY <3>2, Distinct
    <3> HIDE DEF rows, R, before
    <3>4. IsFiniteSet(before) /\ \A x \in before : x.at \in 0 .. MaxTime
      BY <1>2, LoggedLess
    <3>5. IsFiniteSet(R) /\ \A x \in R : x.at \in 0 .. MaxTime
      BY <1>2, LoggedLess
    <3>6. Cutoff(R) \in 0 .. MaxTime /\ AsNew(R, Cutoff(R)) > Keep
      BY <3>2, <3>5, CutoffIs
    <3>7. r.at <= Cutoff(R)
      BY <2>1, <3>1, <3>6
    <3>8. AsNew(R, Cutoff(R)) \in Nat /\ AsNew(before, r.at) \in Nat
          /\ AsNew(R, Cutoff(R)) <= AsNew(before, r.at)
      BY <1>2, <2>1, <3>4, <3>6, <3>7, AsNewGrows
    <3>9. AsNew(before, r.at) > Keep
      BY <3>6, <3>8, WorkspacesAssumption
    <3> QED BY <3>1, <3>3, <3>9
  <2> QED BY <2>2, <2>3
<1> QED BY <1>3, <1>4, <1>5

\* A prune takes nothing from a query that is not past its time or older than
\* as many rows as the log keeps, leaves a query no more than that, and takes
\* from the previews only what is past its time (prune_execution_logs,
\* _trim_per_query).
THEOREM PruneKeeps == Spec => PruneKeepsNewest
<1>1. Logged /\ [Next]_vars => Logged'
  BY LoggedStep
<1>2. Logged =>
        [Restart(TRUE) =>
           \A q \in Queries \cup {None} :
             LET before == RowsOf(q, log)
                 after == RowsOf(q, log')
             IN  /\ after \subseteq before
                 /\ q # None /\ Keep > 0 => Cardinality(after) <= Keep
                 /\ \A r \in before \ after :
                      \/ Expired(r)
                      \/ q # None /\ Keep > 0 /\ AsNew(before, r.at) > Keep]_vars
  BY Prunes
<1> QED BY <1>1, <1>2, LoggedInit, PTL DEF Spec, PruneKeepsNewest
-----------------------------------------------------------------------------
(* Types.                                                                  *)

\* There is always a number no row has, so each row logged is one of its own.
LEMMA UnusedIsFree == ASSUME Logged PROVE UnusedId \in Nat /\ \A r \in log : r.id # UnusedId
<1> DEFINE N == 0 .. Cardinality(log)
           ids == {r.id : r \in log}
           f == [r \in log |-> r.id]
<1>1. IsFiniteSet(log) /\ Cardinality(log) \in Nat
  BY FS_CardinalityType DEF Logged
<1>2. IsFiniteSet(ids) /\ Cardinality(ids) <= Cardinality(log)
  <2>1. f \in Surjection(log, ids)
    BY DEF Surjection
  <2> HIDE DEF f, ids
  <2> QED BY <1>1, <2>1, FS_Surjection
<1>3. Cardinality(N) = Cardinality(log) + 1
  BY <1>1, FS_Interval
<1>4. Cardinality(ids) \in Nat
  BY <1>2, FS_CardinalityType
<1>5. ~(N \subseteq ids)
  <2> HIDE DEF ids, N
  <2> SUFFICES ASSUME N \in SUBSET ids PROVE FALSE
    OBVIOUS
  <2>1. Cardinality(N) <= Cardinality(ids)
    BY <1>2, FS_Subset
  <2> QED BY <1>1, <1>2, <1>3, <1>4, <2>1
<1>6. PICK n \in N : n \notin ids
  BY <1>5
<1>7. \E x \in N : \A r \in log : r.id # x
  BY <1>6
<1> QED BY <1>1, <1>7 DEF UnusedId

LEMMA PlaceType == ASSUME NEW want \in Seq(Charts), NEW c PROVE PlaceOf(c, want) \in Nat
<1>1. IsFiniteSet(ToSet(want))
  <2>1. want \in Surjection(1 .. Len(want), ToSet(want))
    BY DEF Surjection, ToSet
  <2> QED BY <2>1, FS_Surjection, FS_Interval
<1>2. Ahead(c, want) \in SUBSET ToSet(want)
  BY DEF Ahead
<1> QED BY <1>1, <1>2, FS_Subset, FS_CardinalityType DEF PlaceOf

LEMMA RequestType ==
  ASSUME NEW a \in {"idle", "creating", "deleting", "running", "validated", "loaded"},
         NEW u \in Users \cup {None}, NEW q \in Queries \cup {None}, NEW b \in Boards \cup {None},
         NEW w \in Seq(Charts)
  PROVE  Request(a, u, q, b, w) \in Requests
BY DEF Request, Requests, Empty

LEMMA IdleType == Idle \in Requests
<1>1. <<>> \in Seq(Charts)
  OBVIOUS
<1> QED BY <1>1, RequestType DEF Idle

\* The places a save writes are numbers.
LEMMA RearrangedType ==
  ASSUME NEW b \in Boards, NEW r, r.want \in Seq(Charts), items[b] \in [Charts -> Nat \cup {None}]
  PROVE  Rearranged(b, r) \in [Charts -> Nat \cup {None}]
<1>1. \A c \in Charts : PlaceOf(c, r.want) \in Nat
  BY PlaceType
<1> QED BY <1>1 DEF Rearranged

LEMMA TypesInit == Init => TypeOK
<1> SUFFICES ASSUME Init PROVE TypeOK
  OBVIOUS
<1>1. PICK start \in Starts :
        /\ query = start.query /\ chart = start.chart /\ board = start.board
        /\ items = [b \in Boards |-> [c \in Charts |->
                      IF Contains(start.want[b], c) THEN PlaceOf(c, start.want[b]) ELSE None]]
  BY DEF Init
<1>2. /\ start.query \in [Queries -> Users \cup {Nobody, None}]
      /\ start.chart \in [Charts -> Queries \cup {None}]
      /\ start.board \in [Boards -> Users \cup {Nobody, None}]
      /\ start.want \in [Boards -> Seq(Charts)]
  BY WorkspacesAssumption
<1>3. \A b \in Boards, c \in Charts : PlaceOf(c, start.want[b]) \in Nat
  BY <1>2, PlaceType
<1>4. items \in [Boards -> [Charts -> Nat \cup {None}]]
  BY <1>1, <1>3
<1>5. req \in [Threads -> Requests]
  BY IdleType DEF Init
<1>6. /\ query \in [Queries -> Owners \cup {None, Gone}]
      /\ chart \in [Charts -> Queries \cup {None, Gone}]
      /\ board \in [Boards -> Owners \cup {None, Gone}]
  BY <1>1, <1>2 DEF Owners
<1> QED BY <1>4, <1>5, <1>6, WorkspacesAssumption DEF Init, TypeOK

LEMMA UnplaceType ==
  ASSUME TypeOK, NEW lost, Unplace(lost)
  PROVE  /\ chart' \in [Charts -> Queries \cup {None, Gone}]
         /\ items' \in [Boards -> [Charts -> Nat \cup {None}]]
         /\ torn' \subseteq Boards
BY DEF TypeOK, Unplace

LEMMA BeginType ==
  ASSUME TypeOK, NEW t \in Threads, NEW r \in Requests, Begin(t, r),
         UNCHANGED <<library, arranged, log, now>>
  PROVE  TypeOK'
<1>1. req' \in [Threads -> Requests] /\ begun' \in 0 .. MaxRequests
  BY WorkspacesAssumption DEF TypeOK, Begin
<1> QED BY <1>1 DEF TypeOK, library, arranged

LEMMA EndType ==
  ASSUME TypeOK, NEW t \in Threads, req' = [req EXCEPT ![t] = Idle]
  PROVE  req' \in [Threads -> Requests]
BY IdleType DEF TypeOK

LEMMA WritesType ==
  ASSUME TypeOK, NEW t \in Threads, NEW b \in Boards, Writes(t, b)
  PROVE  /\ items' \in [Boards -> [Charts -> Nat \cup {None}]]
         /\ torn' \subseteq Boards /\ helped' \subseteq Boards
         /\ req' \in [Threads -> Requests]
<1>1. req[t] \in Requests
  BY DEF TypeOK
<1>2. req[t].want \in Seq(Charts) /\ items[b] \in [Charts -> Nat \cup {None}]
  BY <1>1 DEF TypeOK, Requests
<1>3. Rearranged(b, req[t]) \in [Charts -> Nat \cup {None}]
  BY <1>2, RearrangedType
<1>4. \A x \in Threads : [req[x] EXCEPT !.late = TRUE] \in Requests
  BY ZenonT(40) DEF TypeOK, Requests
<1>5. req' \in [Threads -> Requests]
  BY <1>4, IdleType DEF TypeOK, Writes
<1> QED BY <1>3, <1>5 DEF TypeOK, Writes

LEMMA RunType ==
  ASSUME TypeOK, Logged, NEW t \in Threads, NEW success \in BOOLEAN, RunEnds(t, success)
  PROVE  TypeOK'
<1> DEFINE new == [id |-> UnusedId, query |-> req[t].query, user |-> req[t].user, at |-> now]
<1>1. req[t].query \in Queries \cup {None} /\ req[t].user \in Users \cup {None}
  BY DEF TypeOK, Requests
<1>2. new \in Row
  BY <1>1, UnusedIsFree DEF TypeOK, Row
<1>3. log' = log \cup {new} \/ log' = log
  BY DEF RunEnds
<1>4. log' \subseteq Row
  BY <1>2, <1>3 DEF TypeOK
<1>5. req' \in [Threads -> Requests]
  BY EndType DEF RunEnds
<1> QED BY <1>4, <1>5 DEF TypeOK, RunEnds, library, arranged

LEMMA QueryTypes ==
  ASSUME TypeOK, IInv, Logged, NEW t \in Threads, OfQueries(t) PROVE TypeOK'
<1>0. <<>> \in Seq(Charts)
  OBVIOUS
<1>1. ASSUME NEW u \in Users, CreateStarts(t, u) PROVE TypeOK'
  BY <1>0, <1>1, RequestType, BeginType DEF CreateStarts
<1>2. ASSUME NEW u \in Users, NEW q \in Queries, DeleteStarts(t, u, q) PROVE TypeOK'
  BY <1>0, <1>2, RequestType, BeginType DEF DeleteStarts
<1>3. ASSUME NEW u \in Users \cup {None}, NEW q \in Queries \cup {None}, RunStarts(t, u, q) PROVE TypeOK'
  BY <1>0, <1>3, RequestType, BeginType DEF RunStarts
<1>4. ASSUME NEW q \in Queries, NEW c \in Charts, CreateCommits(t, q, c) PROVE TypeOK'
  <2>1. req[t].user \in Users
    BY <1>4 DEF CreateCommits, IInv, Sound
  <2>2. req' \in [Threads -> Requests]
    BY <1>4, EndType DEF CreateCommits
  <2> QED BY <1>4, <2>1, <2>2 DEF CreateCommits, TypeOK, Owners, arranged
<1>5. CASE DeleteCommits(t)
  <2>1. req' \in [Threads -> Requests]
    BY <1>5, EndType DEF DeleteCommits
  <2>2. /\ chart' \in [Charts -> Queries \cup {None, Gone}]
        /\ items' \in [Boards -> [Charts -> Nat \cup {None}]]
        /\ torn' \subseteq Boards
    BY <1>5, UnplaceType DEF DeleteCommits
  <2>3. query' \in [Queries -> Owners \cup {None, Gone}] /\ log' \subseteq Row
    BY <1>5 DEF DeleteCommits, TypeOK
  <2> QED BY <1>5, <2>1, <2>2, <2>3 DEF DeleteCommits, TypeOK
<1> QED BY <1>1, <1>2, <1>3, <1>4, <1>5, RunType DEF OfQueries

LEMMA BoardTypes ==
  ASSUME TypeOK, IInv, NEW t \in Threads, OfBoards(t) \/ Refused(t) PROVE TypeOK'
<1>1. ASSUME NEW u \in Users, NEW want \in Arrangements, CreateBoardStarts(t, u, want) PROVE TypeOK'
  <2>1. want \in Seq(Charts)
    BY WorkspacesAssumption
  <2> QED BY <1>1, <2>1, RequestType, BeginType DEF CreateBoardStarts
<1>2. ASSUME NEW u \in Users, NEW want \in Arrangements, NEW b \in Boards, UpdateBoardStarts(t, u, b, want)
      PROVE  TypeOK'
  <2>1. want \in Seq(Charts)
    BY WorkspacesAssumption
  <2> QED BY <1>2, <2>1, RequestType, BeginType DEF UpdateBoardStarts
<1>3. CASE LoadsItems(t)
  <2> DEFINE r == req[t]
             l == Request("loaded", r.user, None, r.board, r.want)
  <2>1. r \in Requests /\ r.board # None
    BY <1>3 DEF TypeOK, LoadsItems, IInv, Sound
  <2>2. l \in Requests /\ items[r.board] \in [Charts -> Nat \cup {None}]
    BY <2>1, RequestType DEF TypeOK, Requests
  <2>3. [l EXCEPT !.loaded = items[r.board]] \in Requests
    <3> HIDE DEF l
    <3> QED BY <2>2 DEF Requests
  <2>4. req' = [req EXCEPT ![t] = [l EXCEPT !.loaded = items[r.board]]]
    BY <1>3 DEF LoadsItems
  <2> HIDE DEF l
  <2>5. req' \in [Threads -> Requests]
    BY <2>3, <2>4 DEF TypeOK
  <2> QED BY <1>3, <2>5 DEF LoadsItems, TypeOK, library, arranged
<1>4. CASE UpdateBoardCommits(t)
  <2> DEFINE b == req[t].board
  <2>1. b \in Boards /\ Writes(t, b)
    BY <1>4 DEF UpdateBoardCommits, TypeOK, Requests
  <2> HIDE DEF b
  <2>2. UNCHANGED <<library, board, log, now, begun>>
    BY <1>4 DEF UpdateBoardCommits
  <2> QED BY <2>1, <2>2, WritesType DEF TypeOK, library
<1>5. ASSUME NEW b \in Boards, CreateBoardCommits(t, b) PROVE TypeOK'
  <2>1. req[t].user \in Users
    BY <1>5 DEF CreateBoardCommits, IInv, Sound
  <2>2. board' \in [Boards -> Owners \cup {None, Gone}]
    BY <1>5, <2>1 DEF CreateBoardCommits, TypeOK, Owners
  <2>3. Writes(t, b) /\ UNCHANGED <<library, log, now, begun>>
    BY <1>5 DEF CreateBoardCommits
  <2> QED BY <2>2, <2>3, WritesType DEF TypeOK, library
<1>6. CASE Refused(t)
  <2>1. req' \in [Threads -> Requests]
    BY <1>6, EndType DEF Refused
  <2> QED BY <1>6, <2>1 DEF Refused, TypeOK, library, arranged
<1> QED BY <1>1, <1>2, <1>3, <1>4, <1>5, <1>6 DEF OfBoards

LEMMA OtherTypes ==
  ASSUME TypeOK, [Next]_vars
  PROVE  TypeOK' \/ \E t \in Threads : OfQueries(t) \/ OfBoards(t) \/ Refused(t)
<1>0. begun < MaxRequests /\ begun' = begun + 1 => begun' \in 0 .. MaxRequests
  BY WorkspacesAssumption DEF TypeOK
<1>1. ASSUME NEW c \in Charts, NEW u \in Users, RemoveChart(c, u) PROVE TypeOK'
  <2>1. /\ chart' \in [Charts -> Queries \cup {None, Gone}]
        /\ items' \in [Boards -> [Charts -> Nat \cup {None}]]
        /\ torn' \subseteq Boards
    BY <1>1, UnplaceType DEF RemoveChart
  <2> QED BY <1>0, <1>1, <2>1 DEF RemoveChart, TypeOK
<1>2. ASSUME NEW c \in Charts, NEW q \in Queries, AddChart(c, q) PROVE TypeOK'
  BY <1>0, <1>2 DEF AddChart, TypeOK, arranged
<1>3. ASSUME NEW c \in Charts, NEW s \in {"no", "asked", "yes"}, Share(c, s) PROVE TypeOK'
  BY <1>0, <1>3 DEF Share, TypeOK, arranged
<1>4. ASSUME NEW u \in Users, ClaimUnowned(u) PROVE TypeOK'
  BY <1>4 DEF ClaimUnowned, TypeOK, Owners
<1>5. ASSUME NEW u \in Users, NEW b \in Boards, DeleteBoard(u, b) PROVE TypeOK'
  BY <1>0, <1>5 DEF DeleteBoard, TypeOK, Empty, library
<1>6. CASE DeleteConnection
  <2>1. /\ chart' \in [Charts -> Queries \cup {None, Gone}]
        /\ items' \in [Boards -> [Charts -> Nat \cup {None}]]
        /\ torn' \subseteq Boards
    BY <1>6, UnplaceType DEF DeleteConnection
  <2> QED BY <1>0, <1>6, <2>1 DEF DeleteConnection, TypeOK
<1>7. ASSUME NEW prunes \in BOOLEAN, Restart(prunes) PROVE TypeOK'
  <2>1. log' \subseteq Row
    BY <1>7 DEF Restart, TypeOK, Pruned, Trimmed, InTime
  <2>2. req' \in [Threads -> Requests]
    BY <1>7, IdleType DEF Restart
  <2> QED BY <1>0, <1>7, <2>1, <2>2 DEF Restart, TypeOK, library, arranged
<1>8. CASE Tick \/ UNCHANGED vars
  BY <1>8, WorkspacesAssumption DEF Tick, vars, TypeOK, library, arranged
<1> QED BY <1>1, <1>2, <1>3, <1>4, <1>5, <1>6, <1>7, <1>8 DEF Next

\* The tables hold what the code may put there, and the positions on a board are
\* numbers, whatever overlaps (models.py of queries, charts and dashboards).
THEOREM TypeCorrect == Spec => []TypeOK
<1>1. TypeOK /\ IInv /\ Logged /\ [Next]_vars => TypeOK'
  BY OtherTypes, QueryTypes, BoardTypes
<1>2. Logged /\ [Next]_vars => Logged'
  BY LoggedStep
<1> QED BY <1>1, <1>2, TypesInit, LoggedInit, Invariance, PTL DEF Spec
=============================================================================
