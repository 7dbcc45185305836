-------------------------- MODULE FlaggedQueueProofs --------------------------
(***************************************************************************)
(* The review queue, for every number of findings, runs, readers and tabs. *)
(* Reads says what a sync between its read and its commit may still rely   *)
(* on: the rows it holds are there unless they are in gone, and as long as *)
(* it is alone nobody has inserted a row.  Stamps says that a card's marks *)
(* are a function of its hash.                                             *)
(***************************************************************************)
EXTENDS FlaggedQueue, TLAPS

Reads ==
  \A r \in Runs : run[r].step = "read" =>
    /\ run[r].held \ run[r].gone \subseteq Stored
    /\ run[r].alone => /\ Stored \subseteq run[r].held
                       /\ Stored \cap run[r].gone = {}

Stamps == \A u \in Users : card[u].marks = card[u].of \ card[u].stamp

-----------------------------------------------------------------------------
(* Types.                                                                  *)

LEMMA IdleRunType == IdleRun \in RunType
BY BoundsAssumption DEF IdleRun, RunType

LEMMA StoredType == Stored \subseteq Findings
BY DEF Stored

LEMMA IdleTabType == ASSUME Tabs # {} PROVE IdleTab \in TabType
BY TabsAssumption DEF IdleTab, TabType

LEMMA InitTypeOK == Init => TypeOK
<1> SUFFICES ASSUME Init PROVE TypeOK
  OBVIOUS
<1>1. run \in [Runs -> RunType]
  BY IdleRunType DEF Init
<1>2. tab \in [Tabs -> TabType]
  BY IdleTabType DEF Init
<1>3. card \in [Users -> Card]
  <2>1. [marks |-> {}, of |-> {}, stamp |-> {}] \in Card
    BY DEF Card
  <2> QED
    BY <2>1 DEF Init
<1>4. last \in LastType
  BY DEF Init, LastType
<1>5. firstSeen \in [Findings -> (0 .. MaxTime) \cup {None}]
  BY DEF Init
<1>6. dismissed \in [Users -> SUBSET Findings]
  BY DEF Init
<1>7. now \in 0 .. MaxTime /\ changes \in 0 .. MaxChanges
  BY BoundsAssumption DEF Init
<1> QED
  <2>1. hits \subseteq Findings
    BY DEF Init
  <2>2. ruled \in BOOLEAN
    BY Zenon DEF Init
  <2>3. cache \in (SUBSET Findings) \cup {None}
    BY Zenon DEF Init
  <2> QED
    BY <1>1, <1>2, <1>3, <1>4, <1>5, <1>6, <1>7, <2>1, <2>2, <2>3, Zenon DEF TypeOK

\* Deleting rows under the reads of others leaves them well typed.
LEMMA ForgetType ==
  ASSUME NEW runs \in [Runs -> RunType], NEW lost
  PROVE  Forget(runs, lost) \in [Runs -> RunType]
<1> SUFFICES ASSUME NEW r \in Runs
             PROVE  [runs[r] EXCEPT !.gone = @ \cup (runs[r].held \cap lost)] \in RunType
  BY DEF Forget
<1> QED
  BY DEF RunType

LEMMA ServedType == ASSUME TypeOK, cache # None, NEW u \in Users PROVE Served(u) \in Card
BY DEF TypeOK, Served, Card

LEMMA StepTypeOK == TypeOK /\ [Next]_vars => TypeOK'
<1> SUFFICES ASSUME TypeOK, [Next]_vars PROVE TypeOK'
  OBVIOUS
<1> USE DEF world, reading
<1>1. ASSUME NEW r \in Runs, RunQuery(r) PROVE TypeOK'
  <2>1. run' \in [Runs -> RunType]
    <3> DEFINE m == IF ruled THEN hits ELSE {}
    <3>1. [IdleRun EXCEPT !.step = "ran", !.matched = m] \in RunType
      BY IdleRunType DEF RunType, TypeOK
    <3> QED
      BY <1>1, <3>1 DEF RunQuery, TypeOK
  <2>2. cache' \in (SUBSET Findings) \cup {None}
    BY <1>1 DEF RunQuery, TypeOK
  <2> QED
    BY <1>1, <2>1, <2>2 DEF RunQuery, TypeOK
<1>2. ASSUME NEW r \in Runs, ReadExisting(r) PROVE TypeOK'
  <2>1. run' \in [Runs -> RunType]
    <3>1. [run[r] EXCEPT !.step = "read", !.held = Stored, !.gone = {},
                         !.alone = TRUE, !.at = now] \in RunType
      BY StoredType DEF RunType, TypeOK
    <3> QED
      BY <1>2, <3>1 DEF ReadExisting, TypeOK
  <2> QED
    BY <1>2, <2>1 DEF ReadExisting, TypeOK
<1>3. ASSUME NEW r \in Runs, SyncCommits(r) PROVE TypeOK'
  <2>0. run[r] \in RunType
    BY DEF TypeOK
  <2>1. run' \in [Runs -> RunType]
    <3> DEFINE others == [s \in Runs |-> [run[s] EXCEPT !.alone = FALSE]]
    <3>1. others \in [Runs -> RunType]
      BY ZenonT(40) DEF TypeOK, RunType
    <3>2. Forget(others, Dropped(r)) \in [Runs -> RunType]
      BY <3>1, ForgetType
    <3> QED
      BY <1>3, <3>2, IdleRunType DEF SyncCommits
  <2>2. firstSeen' \in [Findings -> (0 .. MaxTime) \cup {None}]
    BY <1>3, <2>0 DEF SyncCommits, Synced, TypeOK, RunType
  <2>3. last' \in LastType
    BY <1>3, <2>0 DEF SyncCommits, LastType, RunType
  <2>4. cache' \in (SUBSET Findings) \cup {None}
    BY <1>3, <2>0 DEF SyncCommits, TypeOK, RunType
  <2> QED
    BY <1>3, <2>1, <2>2, <2>3, <2>4 DEF SyncCommits, TypeOK
<1>4. ASSUME NEW r \in Runs, SyncFails(r) PROVE TypeOK'
  <2>1. run' \in [Runs -> RunType]
    BY <1>4, IdleRunType DEF SyncFails, TypeOK
  <2> QED
    BY <1>4, <2>1 DEF SyncFails, TypeOK
<1>5. ASSUME NEW fs \in SUBSET Findings, DeleteRows(fs) PROVE TypeOK'
  <2>1. run' \in [Runs -> RunType]
    BY <1>5, ForgetType DEF DeleteRows, TypeOK
  <2>2. firstSeen' \in [Findings -> (0 .. MaxTime) \cup {None}]
    BY <1>5 DEF DeleteRows, TypeOK
  <2>3. last' \in LastType
    BY <1>5 DEF DeleteRows, TypeOK, LastType
  <2>4. changes' \in 0 .. MaxChanges
    BY <1>5, BoundsAssumption DEF DeleteRows, Change, TypeOK
  <2> QED
    BY <1>5, <2>1, <2>2, <2>3, <2>4 DEF DeleteRows, TypeOK
<1>6. ASSUME NEW t \in Tabs, NEW u \in Users, NEW w \in SUBSET Findings,
             DismissReads(t, u, w)
      PROVE TypeOK'
  <2>1. tab' \in [Tabs -> TabType]
    <3>1. [busy |-> TRUE, user |-> u, fresh |-> (w \cap Stored) \ dismissed[u]] \in TabType
      BY DEF TabType
    <3> QED
      BY <1>6, <3>1 DEF DismissReads, TypeOK
  <2> QED
    BY <1>6, <2>1 DEF DismissReads, TypeOK
<1>7. ASSUME NEW t \in Tabs, DismissCommits(t) PROVE TypeOK'
  <2>0. tab[t] \in TabType
    BY DEF TypeOK
  <2>1. tab' \in [Tabs -> TabType]
    BY <1>7, IdleTabType DEF DismissCommits, TypeOK
  <2>2. dismissed' \in [Users -> SUBSET Findings]
    BY <1>7, <2>0 DEF DismissCommits, TypeOK, TabType
  <2> QED
    BY <1>7, <2>1, <2>2 DEF DismissCommits, TypeOK
<1>8. ASSUME NEW u \in Users, NEW fs \in SUBSET Findings, Restore(u, fs) PROVE TypeOK'
  <2>1. dismissed' \in [Users -> SUBSET Findings]
    BY <1>8 DEF Restore, TypeOK
  <2> QED
    BY <1>8, <2>1 DEF Restore, TypeOK
<1>9. ASSUME NEW u \in Users, Poll(u) PROVE TypeOK'
  <2>1. card' \in [Users -> Card]
    BY <1>9, ServedType DEF Poll, TypeOK
  <2> QED
    BY <1>9, <2>1 DEF Poll, TypeOK
<1>10. ASSUME NEW h \in SUBSET Findings, DataChanges(h) PROVE TypeOK'
  BY <1>10, BoundsAssumption DEF DataChanges, Change, TypeOK
<1>11. CASE RulesChange
  <2>1. ruled' \in BOOLEAN
    BY <1>11, Zenon DEF RulesChange
  <2> QED
    BY <1>11, <2>1, BoundsAssumption DEF RulesChange, Change, TypeOK
<1>12. CASE Tick
  BY <1>12, BoundsAssumption DEF Tick, TypeOK
<1>13. CASE UNCHANGED vars
  BY <1>13 DEF vars, TypeOK
<1> QED
  BY <1>1, <1>2, <1>3, <1>4, <1>5, <1>6, <1>7, <1>8, <1>9, <1>10, <1>11, <1>12,
     <1>13, Zenon DEF Next, Sync, People

\* Every reachable state is well typed (TypeOK).
THEOREM TypeCorrect == Spec => []TypeOK
BY InitTypeOK, StepTypeOK, PTL DEF Spec

-----------------------------------------------------------------------------
(* The queue and the runs.                                                 *)

IInv == TypeOK /\ Reads /\ QueueFollowsRuns

\* What is stored after a sync: nothing of it is dropped that it matched.
LEMMA StoredAfterSync ==
  ASSUME TypeOK, NEW r \in Runs, SyncCommits(r)
  PROVE  /\ Stored' = (Stored \cup (run[r].matched \ run[r].held)) \ Dropped(r)
         /\ Dropped(r) \cap run[r].matched = {}
<1>1. run[r] \in RunType
  BY DEF TypeOK
<1>2. run[r].at # None
  BY <1>1, NoneAssumption, BoundsAssumption DEF RunType
<1>3. Dropped(r) \cap run[r].matched = {} /\ run[r].matched \subseteq Findings
  BY <1>1 DEF Dropped, RunType
<1>4. \A f \in Findings : firstSeen'[f] = IF f \in run[r].matched \ run[r].held
                                         THEN run[r].at
                                         ELSE IF f \in Dropped(r) THEN None
                                         ELSE firstSeen[f]
  BY DEF SyncCommits, Synced
<1>5. \A f \in Findings : firstSeen'[f] # None <=>
        f \in run[r].matched \ run[r].held \/ (f \notin Dropped(r) /\ firstSeen[f] # None)
  BY <1>2, <1>4
<1>6. Stored' = {f \in Findings : firstSeen'[f] # None}
  BY DEF Stored
<1> QED
  BY <1>3, <1>5, <1>6 DEF Stored

LEMMA StoredAfterDelete ==
  ASSUME NEW fs \in SUBSET Findings, DeleteRows(fs)
  PROVE  Stored' = Stored \ fs
BY DEF Stored, DeleteRows

\* What another run still knows after rows were deleted.
LEMMA ForgetFields ==
  ASSUME NEW runs \in [Runs -> RunType], NEW lost, NEW r \in Runs
  PROVE  /\ Forget(runs, lost)[r].step = runs[r].step
         /\ Forget(runs, lost)[r].held = runs[r].held
         /\ Forget(runs, lost)[r].alone = runs[r].alone
         /\ Forget(runs, lost)[r].gone = runs[r].gone \cup (runs[r].held \cap lost)
BY DEF Forget, RunType

LEMMA InitIInv == Init => IInv
<1> SUFFICES ASSUME Init PROVE IInv
  OBVIOUS
<1>1. Reads
  BY DEF Init, Reads, IdleRun
<1>2. QueueFollowsRuns
  BY DEF Init, QueueFollowsRuns, Stored
<1> QED
  BY <1>1, <1>2, InitTypeOK DEF IInv

LEMMA CommitKeepsIInv ==
  ASSUME IInv, NEW r \in Runs, SyncCommits(r)
  PROVE  Reads' /\ QueueFollowsRuns'
<1> DEFINE others == [s \in Runs |-> [run[s] EXCEPT !.alone = FALSE]]
<1>1. /\ Stored' = (Stored \cup (run[r].matched \ run[r].held)) \ Dropped(r)
      /\ Dropped(r) \cap run[r].matched = {}
  BY StoredAfterSync DEF IInv
<1>2. run \in [Runs -> RunType] /\ run[r] \in RunType /\ run[r].step = "read"
  BY DEF IInv, TypeOK, SyncCommits
<1>3. others \in [Runs -> RunType]
  BY <1>2 DEF RunType
<1>4. run' = [Forget(others, Dropped(r)) EXCEPT ![r] = IdleRun]
  BY DEF SyncCommits
<1>5. Forget(others, Dropped(r)) \in [Runs -> RunType]
  BY <1>3, ForgetType
<1>6. Reads'
  <2> SUFFICES ASSUME NEW s \in Runs, run'[s].step = "read"
               PROVE  /\ run'[s].held \ run'[s].gone \subseteq Stored'
                      /\ ~run'[s].alone
    BY DEF Reads
  <2>1. s # r
    BY <1>4, <1>5 DEF IdleRun
  <2>2. run'[s] = Forget(others, Dropped(r))[s]
    BY <1>4, <1>5, <2>1
  <2>3. /\ others[s].step = run[s].step /\ others[s].held = run[s].held
        /\ others[s].gone = run[s].gone /\ others[s].alone = FALSE
    BY <1>2 DEF RunType
  <2> HIDE DEF others
  <2>4. /\ run[s].step = "read" /\ ~run'[s].alone
        /\ run'[s].held = run[s].held
        /\ run'[s].gone = run[s].gone \cup (run[s].held \cap Dropped(r))
    BY <1>3, <2>2, <2>3, ForgetFields
  <2>5. run[s].held \ run[s].gone \subseteq Stored
    BY <2>4 DEF IInv, Reads
  <2> QED
    BY <1>1, <2>4, <2>5
<1>7. QueueFollowsRuns'
  <2>1. last'.matched = run[r].matched /\ last'.cleared = {} /\ last'.alone = run[r].alone
    BY DEF SyncCommits
  <2>2. /\ run[r].held \ run[r].gone \subseteq Stored
        /\ run[r].alone => /\ Stored \subseteq run[r].held
                           /\ Stored \cap run[r].gone = {}
    BY <1>2 DEF IInv, Reads
  <2>3. run[r].matched \cap run[r].gone = {}
    BY DEF SyncCommits, Fits
  <2>4. run[r].matched \subseteq Stored'
    BY <1>1, <2>2, <2>3
  <2>5. run[r].alone => Stored' \subseteq run[r].matched
    BY <1>1, <2>2 DEF Dropped
  <2> QED
    BY <2>1, <2>4, <2>5 DEF QueueFollowsRuns
<1> QED
  BY <1>6, <1>7

LEMMA DeleteKeepsIInv ==
  ASSUME IInv, NEW fs \in SUBSET Findings, DeleteRows(fs)
  PROVE  Reads' /\ QueueFollowsRuns'
<1>1. Stored' = Stored \ fs
  BY StoredAfterDelete
<1>2. run \in [Runs -> RunType] /\ run' = Forget(run, fs)
  BY DEF IInv, TypeOK, DeleteRows
<1>3. Reads'
  <2> SUFFICES ASSUME NEW s \in Runs, run'[s].step = "read"
               PROVE  /\ run'[s].held \ run'[s].gone \subseteq Stored'
                      /\ run'[s].alone => /\ Stored' \subseteq run'[s].held
                                          /\ Stored' \cap run'[s].gone = {}
    BY DEF Reads
  <2>1. /\ run'[s].step = run[s].step /\ run'[s].held = run[s].held
        /\ run'[s].alone = run[s].alone
        /\ run'[s].gone = run[s].gone \cup (run[s].held \cap fs)
    BY <1>2, ForgetFields
  <2>2. /\ run[s].held \ run[s].gone \subseteq Stored
        /\ run[s].alone => /\ Stored \subseteq run[s].held
                           /\ Stored \cap run[s].gone = {}
    BY <2>1 DEF IInv, Reads
  <2> QED
    BY <1>1, <2>1, <2>2
<1>4. QueueFollowsRuns'
  <2>1. /\ last'.matched = last.matched /\ last'.alone = last.alone
        /\ last'.cleared = last.cleared \cup fs
    BY DEF IInv, TypeOK, LastType, DeleteRows
  <2> QED
    BY <1>1, <2>1 DEF IInv, QueueFollowsRuns
<1> QED
  BY <1>3, <1>4

LEMMA StepIInv == IInv /\ [Next]_vars => IInv'
<1> SUFFICES ASSUME IInv, [Next]_vars PROVE IInv'
  OBVIOUS
<1>0. TypeOK'
  BY StepTypeOK DEF IInv
<1> USE DEF world, reading
<1>1. ASSUME NEW r \in Runs, RunQuery(r) PROVE Reads' /\ QueueFollowsRuns'
  <2>1. \A s \in Runs : run'[s].step = "read" => run'[s] = run[s]
    BY <1>1, IdleRunType DEF RunQuery, IInv, TypeOK, RunType
  <2> QED
    BY <1>1, <2>1 DEF RunQuery, IInv, Reads, QueueFollowsRuns, Stored
<1>2. ASSUME NEW r \in Runs, ReadExisting(r) PROVE Reads' /\ QueueFollowsRuns'
  <2>1. run[r] \in RunType
    BY DEF IInv, TypeOK
  <2>2. run'[r].held = Stored /\ run'[r].gone = {}
    BY <1>2, <2>1 DEF ReadExisting, IInv, TypeOK, RunType
  <2>3. \A s \in Runs \ {r} : run'[s] = run[s]
    BY <1>2 DEF ReadExisting, IInv, TypeOK
  <2>4. Stored' = Stored
    BY <1>2 DEF ReadExisting, Stored
  <2>5. Reads'
    BY <2>2, <2>3, <2>4 DEF IInv, Reads
  <2> QED
    BY <1>2, <2>4, <2>5 DEF ReadExisting, IInv, QueueFollowsRuns
<1>3. ASSUME NEW r \in Runs, SyncCommits(r) PROVE Reads' /\ QueueFollowsRuns'
  BY <1>3, CommitKeepsIInv
<1>4. ASSUME NEW r \in Runs, SyncFails(r) PROVE Reads' /\ QueueFollowsRuns'
  <2>1. \A s \in Runs : run'[s].step = "read" => run'[s] = run[s]
    BY <1>4 DEF SyncFails, IdleRun, IInv, TypeOK
  <2> QED
    BY <1>4, <2>1 DEF SyncFails, IInv, Reads, QueueFollowsRuns, Stored
<1>5. ASSUME NEW fs \in SUBSET Findings, DeleteRows(fs) PROVE Reads' /\ QueueFollowsRuns'
  BY <1>5, DeleteKeepsIInv
<1>6. ASSUME UNCHANGED <<firstSeen, run, last>> PROVE Reads' /\ QueueFollowsRuns'
  BY <1>6 DEF IInv, Reads, QueueFollowsRuns, Stored
<1>7. \/ \E r \in Runs : RunQuery(r) \/ Sync(r)
      \/ \E fs \in SUBSET Findings : DeleteRows(fs)
      \/ UNCHANGED <<firstSeen, run, last>>
  BY DEF Next, People, DismissReads, DismissCommits, Restore, Poll, DataChanges,
         RulesChange, Tick, vars
<1> QED
  BY <1>0, <1>1, <1>2, <1>3, <1>4, <1>5, <1>6, <1>7, Zenon DEF IInv, Sync

\* However syncs overlap, the queue holds what the last committed one matched
\* (QueueFollowsRuns).
THEOREM QueueIsThePresent == Spec => []QueueFollowsRuns
<1>1. IInv => QueueFollowsRuns
  BY DEF IInv
<1> QED
  BY <1>1, InitIInv, StepIInv, PTL DEF Spec

LEMMA StepFirstSeen ==
  TypeOK /\ [Next]_vars => \A f \in Stored \cap Stored' : firstSeen'[f] = firstSeen[f]
<1> SUFFICES ASSUME TypeOK, [Next]_vars, NEW f \in Stored \cap Stored'
             PROVE  firstSeen'[f] = firstSeen[f]
  OBVIOUS
<1> USE DEF world, reading
<1>1. f \in Findings /\ firstSeen'[f] # None
  BY DEF Stored
<1>2. ASSUME NEW r \in Runs, SyncCommits(r) PROVE firstSeen'[f] = firstSeen[f]
  <2>1. f \notin run[r].matched \ run[r].held
    BY <1>2 DEF SyncCommits, Fits
  <2> QED
    BY <1>1, <1>2, <2>1 DEF SyncCommits, Synced
<1>3. ASSUME NEW fs \in SUBSET Findings, DeleteRows(fs) PROVE firstSeen'[f] = firstSeen[f]
  BY <1>1, <1>3 DEF DeleteRows
<1>4. \/ \E r \in Runs : SyncCommits(r)
      \/ \E fs \in SUBSET Findings : DeleteRows(fs)
      \/ UNCHANGED firstSeen
  BY DEF Next, Sync, People, RunQuery, ReadExisting, SyncFails, DismissReads,
         DismissCommits, Restore, Poll, DataChanges, RulesChange, Tick, vars
<1> QED
  BY <1>2, <1>3, <1>4

\* A finding that stays stored keeps its first_seen_at (FirstSeenSurvives).
THEOREM FirstSeenKept == Spec => FirstSeenSurvives
<1>1. TypeOK /\ [Next]_vars =>
        [\A f \in Stored \cap Stored' : firstSeen'[f] = firstSeen[f]]_vars
  BY StepFirstSeen
<1> QED
  BY <1>1, InitTypeOK, StepTypeOK, PTL DEF Spec, FirstSeenSurvives

-----------------------------------------------------------------------------
(* The cards.                                                              *)

LEMMA ServedMarks ==
  ASSUME NEW u \in Users
  PROVE  Served(u).marks = Served(u).of \ Served(u).stamp
BY DEF Served

LEMMA StepStamps == TypeOK /\ Stamps /\ [Next]_vars => Stamps'
<1> SUFFICES ASSUME TypeOK, Stamps, [Next]_vars PROVE Stamps'
  OBVIOUS
<1> USE DEF world, reading
<1>1. ASSUME NEW u \in Users, Poll(u) PROVE Stamps'
  <2>1. card' = [card EXCEPT ![u] = IF SameHash(card[u], Served(u)) THEN card[u]
                                    ELSE Served(u)]
    BY <1>1 DEF Poll
  <2>2. \A v \in Users : card'[v] = card[v] \/ card'[v] = Served(v)
    BY <2>1 DEF TypeOK
  <2> QED
    BY <2>2, ServedMarks DEF Stamps
<1>2. ASSUME UNCHANGED card PROVE Stamps'
  BY <1>2 DEF Stamps
<1>3. (\E u \in Users : Poll(u)) \/ UNCHANGED card
  BY DEF Next, Sync, People, RunQuery, ReadExisting, SyncCommits, SyncFails, DeleteRows,
         DismissReads, DismissCommits, Restore, DataChanges, RulesChange, Tick, vars
<1> QED
  BY <1>1, <1>2, <1>3

\* "unchanged" is only ever said to a card that shows the right marks
\* (UnchangedIsTrue).
THEOREM CardsAreRight == Spec => []UnchangedIsTrue
<1>1. Init => TypeOK /\ Stamps
  BY InitTypeOK DEF Init, Stamps
<1>2. TypeOK /\ Stamps => UnchangedIsTrue
  BY ServedMarks DEF Stamps, UnchangedIsTrue, SameHash
<1> QED
  BY <1>1, <1>2, StepTypeOK, StepStamps, PTL DEF Spec
=============================================================================
