---------------------------- MODULE ListsProofs ----------------------------
(***************************************************************************)
(* Lists, for any lists, rules, requests and runs.  A save that replaces a *)
(* list or a rule set overtakes the saves of the same rows and the runs    *)
(* that read them; what is not overtaken saw the rows as they are when it  *)
(* commits, or stores its result.  The version a list has is never had     *)
(* again with other items, so a set remembered under it is current.        *)
(***************************************************************************)
EXTENDS Lists, TLAPS

LEMMA Constants ==
  /\ ItemLists # {} /\ Queries # {} /\ Admins \subseteq Threads /\ MaxSaves \in Nat
  /\ None \notin ItemLists /\ None \notin Threads /\ None \notin Results
  /\ ItemLists \cap Queries = {}
BY ListsAssumption

-----------------------------------------------------------------------------
(* Types.                                                                  *)

LEMMA IdleType == Idle \in Requests /\ Idle.at = "idle"
<1>1. (CHOOSE l \in ItemLists : TRUE) \in ItemLists /\ (CHOOSE q \in Queries : TRUE) \in Queries
  BY Constants
<1> QED BY <1>1 DEF Idle, Requests

LEMMA IdleRunType == IdleRun \in Runs /\ IdleRun.at = "idle"
<1>1. (CHOOSE l \in ItemLists : TRUE) \in ItemLists /\ (CHOOSE q \in Queries : TRUE) \in Queries
  BY Constants
<1>2. Nothing \in [ItemLists -> SUBSET Nat] /\ [l \in ItemLists |-> 0] \in [ItemLists -> Nat]
  BY DEF Nothing
<1> QED BY <1>1, <1>2 DEF IdleRun, Runs

LEMMA PurgingType ==
  ASSUME NEW todo \in SUBSET Queries
  PROVE  /\ Purging(todo) \in Requests /\ Purging(todo).at \in {"idle", "purging"}
         /\ todo # {} => Purging(todo).at = "purging" /\ Purging(todo).todo = todo
<1>1. CASE todo = {}
  BY <1>1, IdleType DEF Purging
<1>2. CASE todo # {}
  <2> DEFINE r == [Idle EXCEPT !.at = "purging", !.todo = todo]
  <2>1. r \in Requests /\ r.at = "purging" /\ r.todo = todo
    BY IdleType DEF Requests, Idle
  <2> HIDE DEF r
  <2>2. Purging(todo) = r
    BY <1>2 DEF Purging, r
  <2> QED BY <2>1, <2>2
<1> QED BY <1>1, <1>2

\* What Overtakes and RunsLate leave of the requests and the runs.
LEMMA OvertakesType ==
  ASSUME TypeOK, NEW t \in Threads, NEW r \in Requests, NEW threads, Overtakes(t, r, threads)
  PROVE  /\ req' \in [Threads -> Requests] /\ req'[t] = r
         /\ \A x \in Threads \ {t} :
              /\ req'[x].at = req[x].at /\ req'[x].list = req[x].list /\ req'[x].query = req[x].query
              /\ req'[x].oldItems = req[x].oldItems /\ req'[x].newItems = req[x].newItems
              /\ req'[x].oldRules = req[x].oldRules /\ req'[x].newRules = req[x].newRules
              /\ req'[x].todo = req[x].todo
              /\ req'[x].late <=> req[x].late \/ x \in threads
<1>1. \A x \in Threads : req[x] \in Requests /\ [req[x] EXCEPT !.late = TRUE] \in Requests
  BY DEF TypeOK, Requests
<1>2. req' \in [Threads -> Requests] /\ req'[t] = r
  BY <1>1 DEF Overtakes
<1>3. \A x \in Threads \ {t} :
        req'[x] = IF x \in threads THEN [req[x] EXCEPT !.late = TRUE] ELSE req[x]
  BY DEF Overtakes
<1> QED BY <1>1, <1>2, <1>3, SMTT(30) DEF Requests

LEMMA RunsLateType ==
  ASSUME TypeOK, NEW runners, RunsLate(runners)
  PROVE  /\ run' \in [Runners -> Runs]
         /\ \A p \in Runners :
              /\ run'[p].at = run[p].at /\ run'[p].query = run[p].query /\ run'[p].rules = run[p].rules
              /\ run'[p].seen = run[p].seen /\ run'[p].got = run[p].got /\ run'[p].todo = run[p].todo
              /\ run'[p].list = run[p].list
              /\ run'[p].late <=> run[p].late \/ p \in runners
<1>1. \A p \in Runners : run[p] \in Runs /\ [run[p] EXCEPT !.late = TRUE] \in Runs
  BY DEF TypeOK, Runs
<1>2. \A p \in Runners : run'[p] = IF p \in runners THEN [run[p] EXCEPT !.late = TRUE] ELSE run[p]
  BY DEF RunsLate
<1>3. run' \in [Runners -> Runs]
  BY <1>1 DEF RunsLate
<1> QED BY <1>1, <1>2, <1>3, SMTT(30) DEF Runs

LEMMA TypeInit == Init => TypeOK
<1> SUFFICES ASSUME Init PROVE TypeOK
  OBVIOUS
<1>1. PICK old \in SUBSET ItemLists :
        /\ list = [l \in ItemLists |->
             IF l \in old
               THEN [state |-> "stored", creator |-> None, version |-> 1, items |-> {0}]
               ELSE [state |-> "unmade", creator |-> None, version |-> 0, items |-> {}]]
        /\ rules \in [Queries ->
             {{}} \cup {{[by |-> 0, name |-> n, list |-> l]} : n \in RuleNames, l \in old \cup {None}}]
  BY DEF Init
<1>2. list \in [ItemLists -> Stored]
  BY <1>1 DEF Stored
<1>3. rules \in [Queries -> SUBSET Rules]
  BY <1>1 DEF Rules
<1>4. req \in [Threads -> Requests] /\ run \in [Runners -> Runs] /\ cached \in [Queries -> Results \cup {None}]
  BY IdleType, IdleRunType DEF Init
<1>5. members = {} /\ saves \in 0 .. MaxSaves /\ mixed \subseteq ItemLists \cup Queries
  BY Constants DEF Init
<1> QED BY <1>2, <1>3, <1>4, <1>5 DEF TypeOK

\* An edit or a save of a list.
LEMMA ListTypeStep ==
  ASSUME TypeOK, NEW t \in Threads, NEW l \in ItemLists,
         \/ CreateList(t, l) \/ SaveLoads(t, l) \/ DeleteLoads(t, l)
         \/ SaveReplaces(t) \/ SaveCommits(t) \/ SaveFinds(t) \/ DeleteCommits(t)
  PROVE  TypeOK'
<1>t. /\ list \in [ItemLists -> Stored] /\ req \in [Threads -> Requests] /\ req[t] \in Requests
      /\ req[t].list \in ItemLists /\ saves \in Nat /\ saves \in 0 .. MaxSaves /\ saves + 1 \in Nat
      /\ mixed \subseteq ItemLists \cup Queries
  BY Constants DEF TypeOK, Requests
<1>b. Begin(t) => saves' = saves + 1 /\ saves' \in 0 .. MaxSaves
  BY <1>t, Constants DEF Begin
<1>1. CASE CreateList(t, l)
  <2> PICK kept \in {{}, {saves'}} :
        list' = [list EXCEPT ![l] = [state |-> "stored", creator |-> t, version |-> 1, items |-> kept]]
    BY <1>1 DEF CreateList
  <2>1. [state |-> "stored", creator |-> t, version |-> 1, items |-> kept] \in Stored
    BY <1>1, <1>b, <1>t DEF CreateList, Stored
  <2> QED BY <1>1, <1>b, <1>t, <2>1 DEF CreateList, TypeOK
<1>2. CASE SaveLoads(t, l)
  <2> PICK kept \in {{}, {saves'}} :
        req' = [req EXCEPT ![t] = [Idle EXCEPT !.at = "waiting", !.list = l,
                                    !.oldItems = list[l].items, !.newItems = kept]]
    BY <1>2 DEF SaveLoads
  <2>1. list[l].items \in SUBSET Nat /\ kept \in SUBSET Nat
    BY <1>2, <1>b, <1>t DEF SaveLoads, Stored
  <2>2. [Idle EXCEPT !.at = "waiting", !.list = l,
                     !.oldItems = list[l].items, !.newItems = kept] \in Requests
    BY <2>1, IdleType DEF Requests
  <2> QED BY <1>2, <1>b, <1>t, <2>2 DEF SaveLoads, TypeOK
<1>3. CASE DeleteLoads(t, l)
  <2>1. [Idle EXCEPT !.at = "deleting", !.list = l] \in Requests
    BY IdleType DEF Requests
  <2> QED BY <1>3, <1>t, <2>1 DEF DeleteLoads, TypeOK
<1>4. CASE SaveReplaces(t)
  <2>1. [req[t] EXCEPT !.at = "replaced"] \in Requests
    BY <1>t DEF Requests
  <2> QED BY <1>4, <1>t, <2>1 DEF SaveReplaces, TypeOK
<1>5. CASE SaveCommits(t)
  <2> DEFINE n == Bumped(t)
             items == (list[req[t].list].items \ req[t].oldItems) \cup req[t].newItems
             new == [list[req[t].list] EXCEPT !.version = n, !.items = items]
             over == [Idle EXCEPT !.at = "committed", !.list = req[t].list]
  <2>1. n \in Nat /\ items \in SUBSET Nat /\ list[req[t].list] \in Stored
    BY <1>t DEF Bumped, Stored, Requests
  <2> HIDE DEF n, items
  <2>2. new \in Stored /\ over \in Requests
    BY <1>t, <2>1, IdleType DEF Stored, Requests
  <2>3. /\ list' = [list EXCEPT ![req[t].list] = new] /\ Overtakes(t, over, SavesOf(req[t].list))
        /\ RunsLate(RunsWith(req[t].list)) /\ mixed' = Mixed(req[t].list, req[t].late)
        /\ UNCHANGED <<rules, members, cached, saves>>
    BY <1>5 DEF SaveCommits, n, items
  <2> HIDE DEF new, over
  <2>4. list' \in [ItemLists -> Stored] /\ mixed' \subseteq ItemLists \cup Queries
    BY <1>t, <2>2, <2>3 DEF Mixed
  <2>5. req' \in [Threads -> Requests] /\ run' \in [Runners -> Runs]
    BY <2>2, <2>3, OvertakesType, RunsLateType
  <2> QED BY <2>3, <2>4, <2>5 DEF TypeOK
<1>6. CASE SaveFinds(t)
  <2>1. Purging(UsedBy(req[t].list)) \in Requests
    BY PurgingType DEF UsedBy
  <2> QED BY <1>6, <1>t, <2>1 DEF SaveFinds, TypeOK
<1>7. CASE DeleteCommits(t)
  <2> DEFINE new == [list[req[t].list] EXCEPT !.state = "deleted", !.items = {}]
  <2>1. new \in Stored
    BY <1>t, ZenonT(40) DEF Stored
  <2>2. /\ list' = [list EXCEPT ![req[t].list] = new] /\ Overtakes(t, Idle, SavesOf(req[t].list))
        /\ RunsLate(RunsWith(req[t].list)) /\ mixed' = mixed \ {req[t].list}
        /\ UNCHANGED <<rules, members, cached, saves>>
    BY <1>7 DEF DeleteCommits
  <2> HIDE DEF new
  <2>3. req' \in [Threads -> Requests] /\ run' \in [Runners -> Runs]
    BY <2>2, IdleType, OvertakesType, RunsLateType
  <2> QED BY <1>t, <2>1, <2>2, <2>3 DEF TypeOK
<1> QED BY <1>1, <1>2, <1>3, <1>4, <1>5, <1>6, <1>7

\* A save of a rule set, and what follows a save.
LEMMA RulesTypeStep ==
  ASSUME TypeOK, NEW t \in Threads, NEW q \in Queries,
         \/ \E names \in SUBSET RuleNames :
              \E reads \in [names -> ItemLists \cup {None}] : RulesLoad(t, q, reads)
         \/ RulesClear(t) \/ RulesCommit(t) \/ Invalidate(t, q) \/ Refused(t) \/ LookupFails(t)
  PROVE  TypeOK'
<1>t. /\ rules \in [Queries -> SUBSET Rules] /\ req \in [Threads -> Requests] /\ req[t] \in Requests
      /\ req[t].query \in Queries /\ saves \in Nat /\ saves \in 0 .. MaxSaves /\ saves + 1 \in Nat
      /\ mixed \subseteq ItemLists \cup Queries /\ cached \in [Queries -> Results \cup {None}]
  BY Constants DEF TypeOK, Requests
<1>1. ASSUME NEW names \in SUBSET RuleNames, NEW reads \in [names -> ItemLists \cup {None}],
             RulesLoad(t, q, reads)
      PROVE  TypeOK'
  <2> DEFINE new == {[by |-> saves', name |-> n, list |-> reads[n]] : n \in DOMAIN reads}
             old == rules[q]
             r == [Idle EXCEPT !.at = "loaded", !.query = q, !.oldRules = old, !.newRules = new]
  <2>1. saves' = saves + 1 /\ saves' \in 0 .. MaxSaves
    <3>1. Begin(t)
      BY <1>1 DEF RulesLoad
    <3> QED BY <3>1, <1>t, Constants DEF Begin
  <2>2. new \in SUBSET Rules /\ old \in SUBSET Rules
    BY <1>t, <2>1 DEF Rules
  <2>3. req' = [req EXCEPT ![t] = r] /\ UNCHANGED <<list, rules, run, members, cached, mixed>>
    BY <1>1 DEF RulesLoad
  <2> HIDE DEF new, old
  <2>4. r \in Requests
    BY <2>2, IdleType DEF Requests
  <2> QED BY <1>t, <2>1, <2>3, <2>4 DEF TypeOK
<1>2. CASE RulesClear(t)
  <2>1. [req[t] EXCEPT !.at = "cleared"] \in Requests
    BY <1>t DEF Requests
  <2> QED BY <1>2, <1>t, <2>1 DEF RulesClear, TypeOK
<1>3. CASE RulesCommit(t)
  <2>1. Kept(req[t]) \cup req[t].newRules \in SUBSET Rules
    BY <1>t DEF Kept, Requests
  <2>2. Purging({req[t].query}) \in Requests
    BY <1>t, PurgingType
  <2>3. /\ rules' = [rules EXCEPT ![req[t].query] = Kept(req[t]) \cup req[t].newRules]
        /\ Overtakes(t, Purging({req[t].query}), SavesOfRules(req[t].query))
        /\ RunsLate(RunsOf(req[t].query)) /\ mixed' = Mixed(req[t].query, req[t].late)
        /\ UNCHANGED <<list, members, cached, saves>>
    BY <1>3 DEF RulesCommit
  <2>4. req' \in [Threads -> Requests] /\ run' \in [Runners -> Runs]
    BY <2>2, <2>3, OvertakesType, RunsLateType
  <2> QED BY <1>t, <2>1, <2>3, <2>4 DEF TypeOK, Mixed
<1>4. CASE Invalidate(t, q)
  <2>1. Purging(req[t].todo \ {q}) \in Requests
    BY <1>t, PurgingType DEF Requests
  <2> QED BY <1>4, <1>t, <2>1 DEF Invalidate, TypeOK
<1>5. CASE Refused(t)
  BY <1>5, <1>t, IdleType DEF Refused, TypeOK
<1>6. CASE LookupFails(t)
  <2>1. \A x \in Queries : cached[x] # None => [cached[x] EXCEPT !.late = TRUE] \in Results
    BY <1>t DEF Results
  <2> QED BY <1>6, <1>t, <2>1, IdleType DEF LookupFails, TypeOK
<1> QED BY <1>1, <1>2, <1>3, <1>4, <1>5, <1>6

\* An evaluation.
LEMMA RunTypeStep ==
  ASSUME TypeOK, NEW p \in Runners,
         \/ \E q \in Queries : RunLoads(p, q)
         \/ \E l \in ItemLists : Resolves(p, l) \/ Reads(p, l)
         \/ Remembers(p) \/ RunStores(p) \/ RunEnds(p)
  PROVE  TypeOK'
<1>t. /\ list \in [ItemLists -> Stored] /\ rules \in [Queries -> SUBSET Rules]
      /\ run \in [Runners -> Runs] /\ run[p] \in Runs
      /\ run[p].list \in ItemLists /\ run[p].query \in Queries /\ run[p].late \in BOOLEAN
      /\ members \subseteq [list : ItemLists, version : Nat, items : SUBSET Nat]
      /\ cached \in [Queries -> Results \cup {None}]
  BY DEF TypeOK, Runs
<1>1. ASSUME NEW q \in Queries, RunLoads(p, q)
      PROVE  TypeOK'
  <2> DEFINE versions == [l \in ItemLists |-> list[l].version]
             used == Used(rules[q])
             r == [IdleRun EXCEPT !.at = "loaded", !.query = q, !.rules = rules[q],
                                  !.seen = versions, !.todo = used]
  <2>1. versions \in [ItemLists -> Nat] /\ used \in SUBSET ItemLists /\ rules[q] \in SUBSET Rules
    BY <1>t DEF Stored, Used, Rules
  <2>2. run' = [run EXCEPT ![p] = r] /\ UNCHANGED <<list, rules, req, members, cached, saves, mixed>>
    BY <1>1 DEF RunLoads
  <2> HIDE DEF versions, used
  <2>3. r \in Runs
    BY <2>1, IdleRunType DEF Runs
  <2> QED BY <1>t, <2>2, <2>3 DEF TypeOK
<1>2. ASSUME NEW l \in ItemLists, Resolves(p, l)
      PROVE  TypeOK'
  <2> PICK m \in Hit(l, run[p].seen[l]) :
        run' = [run EXCEPT ![p] = [run[p] EXCEPT !.todo = run[p].todo \ {l},
                  !.got = [run[p].got EXCEPT ![l] = m.items]]]
    BY <1>2 DEF Resolves
  <2> DEFINE got == [run[p].got EXCEPT ![l] = m.items]
  <2>1. got \in [ItemLists -> SUBSET Nat]
    BY <1>t DEF Hit, Runs
  <2> HIDE DEF got
  <2>2. [run[p] EXCEPT !.todo = run[p].todo \ {l}, !.got = got] \in Runs
    BY <1>t, <2>1 DEF Runs
  <2> QED BY <1>2, <1>t, <2>2 DEF Resolves, TypeOK, got
<1>3. ASSUME NEW l \in ItemLists, Reads(p, l)
      PROVE  TypeOK'
  <2> DEFINE got == [run[p].got EXCEPT ![l] = list[l].items]
  <2>1. got \in [ItemLists -> SUBSET Nat]
    BY <1>t DEF Stored, Runs
  <2> HIDE DEF got
  <2>2. [run[p] EXCEPT !.at = "loading", !.list = l, !.got = got] \in Runs
    BY <1>t, <2>1 DEF Runs
  <2> QED BY <1>3, <1>t, <2>2 DEF Reads, TypeOK, got
<1>4. CASE Remembers(p)
  <2>1. [run[p] EXCEPT !.at = "loaded", !.todo = run[p].todo \ {run[p].list}] \in Runs
    BY <1>t DEF Runs
  <2>2. run[p].seen[run[p].list] \in Nat /\ run[p].got[run[p].list] \in SUBSET Nat
    BY <1>t DEF Runs
  <2> QED BY <1>4, <1>t, <2>1, <2>2 DEF Remembers, TypeOK
<1>5. CASE RunStores(p)
  <2> DEFINE c == [rules |-> run[p].rules, got |-> run[p].got,
                   late |-> run[p].late /\ ~Current(run[p].query, run[p].rules, run[p].got)]
  <2>1. c.late \in BOOLEAN
    BY <1>t
  <2>2. c \in Results
    BY <1>t, <2>1 DEF Runs, Results
  <2>3. cached' = [cached EXCEPT ![run[p].query] = c] /\ run' = [run EXCEPT ![p] = IdleRun]
        /\ UNCHANGED <<list, rules, req, members, saves, mixed>>
    BY <1>5 DEF RunStores
  <2> HIDE DEF c
  <2> QED BY <1>t, <2>2, <2>3, IdleRunType DEF TypeOK
<1>6. CASE RunEnds(p)
  BY <1>6, <1>t, IdleRunType DEF RunEnds, TypeOK
<1> QED BY <1>1, <1>2, <1>3, <1>4, <1>5, <1>6

LEMMA TypeNext == TypeOK /\ [Next]_vars => TypeOK'
<1> SUFFICES ASSUME TypeOK, [Next]_vars PROVE TypeOK'
  OBVIOUS
<1>1. ASSUME NEW t \in Threads, NEW l \in ItemLists, CreateList(t, l) \/ SaveLoads(t, l) \/ DeleteLoads(t, l)
      PROVE  TypeOK'
  BY <1>1, ListTypeStep
<1>2. ASSUME NEW t \in Threads, SaveReplaces(t) \/ SaveCommits(t) \/ SaveFinds(t) \/ DeleteCommits(t)
      PROVE  TypeOK'
  BY <1>2, ListTypeStep, Constants
<1>3. ASSUME NEW t \in Threads, NEW q \in Queries,
             \/ \E names \in SUBSET RuleNames :
                  \E reads \in [names -> ItemLists \cup {None}] : RulesLoad(t, q, reads)
             \/ Invalidate(t, q)
      PROVE  TypeOK'
  BY <1>3, RulesTypeStep
<1>4. ASSUME NEW t \in Threads, RulesClear(t) \/ RulesCommit(t) \/ Refused(t) \/ LookupFails(t)
      PROVE  TypeOK'
  BY <1>4, RulesTypeStep, Constants
<1>5. ASSUME NEW p \in Runners,
             \/ \E q \in Queries : RunLoads(p, q)
             \/ \E l \in ItemLists : Resolves(p, l) \/ Reads(p, l)
             \/ Remembers(p) \/ RunStores(p) \/ RunEnds(p)
      PROVE  TypeOK'
  BY <1>5, RunTypeStep
<1>6. ASSUME NEW q \in Queries, Expire(q)
      PROVE  TypeOK'
  BY <1>6 DEF Expire, TypeOK
<1>7. CASE Forget
  BY <1>7 DEF Forget, TypeOK
<1>8. CASE Crash
  BY <1>8, IdleType, IdleRunType DEF Crash, TypeOK
<1>9. CASE UNCHANGED vars
  BY <1>9 DEF vars, TypeOK
<1> QED BY <1>1, <1>2, <1>3, <1>4, <1>5, <1>6, <1>7, <1>8, <1>9 DEF Next

-----------------------------------------------------------------------------
(* The inductive invariant.                                                *)

\* A list that was never made has version 0, and versions only grow.
Versioned ==
  /\ \A l \in ItemLists : list[l].state = "unmade" => list[l].version = 0
  /\ \A m \in members : m.version <= list[m.list].version
  /\ \A p \in Runners : run[p].at # "idle" => \A l \in ItemLists : run[p].seen[l] <= list[l].version

\* A save that was not overtaken deletes all there is, and inserts rows of its own.
Replaces(r) ==
  /\ r.at \in Saving =>
       /\ list[r.list].state # "unmade"
       /\ ~r.late => list[r.list].items = r.oldItems
       /\ \A a, b \in r.newItems : a = b
  /\ r.at \in Ruling =>
       /\ ~r.late => rules[r.query] = r.oldRules
       /\ \A a, b \in r.newRules : a.by = b.by

\* A run that was not overtaken has the rules and the versions there are, and
\* the items of the lists it has resolved; items that were read under the
\* version there still is are the list's.
Evaluates(r) ==
  /\ r.at # "idle" /\ ~r.late =>
       /\ r.rules = rules[r.query]
       /\ \A l \in Used(r.rules) :
            r.seen[l] = list[l].version /\ (l \notin r.todo => r.got[l] = list[l].items)
  /\ r.at = "loading" =>
       (IsStored(r.list) /\ r.seen[r.list] = list[r.list].version =>
          r.got[r.list] = list[r.list].items)

LInv ==
  /\ TypeOK /\ RulesReadLists /\ Versioned
  /\ \A t \in Threads : Replaces(req[t])
  /\ \A p \in Runners : Evaluates(run[p])
  /\ SavesReplace /\ MembersAreCurrent /\ FlagsFollowLists

\* The request has the result of q to drop yet.
Drops(t, q) == \/ req[t].at = "purging" /\ q \in req[t].todo
               \/ req[t].at = "committed" /\ q \in UsedBy(req[t].list)

LEMMA Dropped ==
  FlagsFollowLists <=>
    \A q \in Queries : cached[q] # None =>
      \/ cached[q].late
      \/ Current(q, cached[q].rules, cached[q].got)
      \/ \E t \in Threads : Drops(t, q)
BY DEF FlagsFollowLists, Drops

LEMMA UsedType == TypeOK => \A q \in Queries : Used(rules[q]) \subseteq ItemLists
BY DEF TypeOK, Used, Rules

LEMMA InvInit == Init => LInv
<1> SUFFICES ASSUME Init PROVE LInv
  OBVIOUS
<1>1. TypeOK
  BY TypeInit
<1>2. PICK old \in SUBSET ItemLists :
        /\ list = [l \in ItemLists |->
             IF l \in old
               THEN [state |-> "stored", creator |-> None, version |-> 1, items |-> {0}]
               ELSE [state |-> "unmade", creator |-> None, version |-> 0, items |-> {}]]
        /\ rules \in [Queries ->
             {{}} \cup {{[by |-> 0, name |-> n, list |-> l]} : n \in RuleNames, l \in old \cup {None}}]
  BY DEF Init
<1>3. \A l \in ItemLists : (l \in old <=> IsStored(l)) /\ (\A a, b \in list[l].items : a = b)
  BY <1>2 DEF IsStored
<1>4. \A q \in Queries : rules[q] = {} \/ \E n \in RuleNames, l \in old \cup {None} :
                           rules[q] = {[by |-> 0, name |-> n, list |-> l]}
  BY <1>2
<1>5. \A q \in Queries : /\ \A a, b \in rules[q] : a.by = b.by
                         /\ Used(rules[q]) \subseteq old
  BY <1>4 DEF Used
<1>6. members = {} /\ (\A t \in Threads : req[t].at = "idle") /\ (\A p \in Runners : run[p].at = "idle")
  BY IdleType, IdleRunType DEF Init
<1>7. \A q \in Queries : cached[q] = None
  BY DEF Init
<1>8. RulesReadLists /\ SavesReplace
  BY <1>2, <1>3, <1>5 DEF RulesReadLists, SavesReplace
<1>9. Versioned /\ MembersAreCurrent
  BY <1>2, <1>6 DEF Versioned, MembersAreCurrent
<1>10. (\A t \in Threads : Replaces(req[t])) /\ (\A p \in Runners : Evaluates(run[p]))
  BY <1>6 DEF Replaces, Evaluates, Saving, Ruling
<1> QED BY <1>1, <1>7, <1>8, <1>9, <1>10 DEF LInv, FlagsFollowLists

\* Only the request of t changes, and what it had to drop it still has.
LEMMA RequestStep ==
  ASSUME LInv, TypeOK', NEW t \in Threads, UNCHANGED <<list, rules, run, members, cached, mixed>>,
         \A x \in Threads \ {t} : req'[x] = req[x], Replaces(req[t])',
         \A q \in Queries : Drops(t, q) => Drops(t, q)'
  PROVE  LInv'
<1>1. \A x \in Threads : Replaces(req[x])'
  <2> SUFFICES ASSUME NEW x \in Threads, x # t PROVE Replaces(req[x])'
    OBVIOUS
  <2> QED BY DEF LInv, Replaces
<1>2. \A x \in Threads, q \in Queries : Drops(x, q) => Drops(x, q)'
  BY DEF Drops, UsedBy
<1>3. FlagsFollowLists'
  <2> SUFFICES ASSUME NEW q \in Queries, cached'[q] # None
               PROVE  \/ cached'[q].late
                      \/ Current(q, cached[q].rules, cached[q].got)'
                      \/ \E x \in Threads : Drops(x, q)'
    BY Dropped DEF FlagsFollowLists, Drops
  <2>1. \/ cached[q].late \/ Current(q, cached[q].rules, cached[q].got)
        \/ \E x \in Threads : Drops(x, q)
    BY Dropped DEF LInv
  <2> QED BY <2>1, <1>2 DEF Current
<1>4. \A p \in Runners : Evaluates(run[p])'
  BY DEF LInv, Evaluates, IsStored
<1>5. RulesReadLists' /\ Versioned' /\ SavesReplace' /\ MembersAreCurrent'
  BY DEF LInv, RulesReadLists, Versioned, SavesReplace, MembersAreCurrent, IsStored
<1> QED BY <1>1, <1>3, <1>4, <1>5 DEF LInv

\* Only the run of p changes, and what is remembered.
LEMMA EvaluationStep ==
  ASSUME LInv, TypeOK', NEW p \in Runners, UNCHANGED <<list, rules, req, cached, mixed>>,
         \A x \in Runners \ {p} : run'[x] = run[x], Evaluates(run[p])',
         run'[p].at # "idle" => \A l \in ItemLists : run'[p].seen[l] <= list[l].version,
         \A m \in members' : /\ m.version <= list[m.list].version
                             /\ IsStored(m.list) /\ m.version = list[m.list].version =>
                                  m.items = list[m.list].items
  PROVE  LInv'
<1>1. \A x \in Runners : Evaluates(run[x])'
  <2> SUFFICES ASSUME NEW x \in Runners, x # p PROVE Evaluates(run[x])'
    OBVIOUS
  <2> QED BY DEF LInv, Evaluates, IsStored
<1>2. Versioned' /\ MembersAreCurrent'
  BY DEF LInv, Versioned, MembersAreCurrent, IsStored
<1>3. \A x \in Threads : Replaces(req[x])'
  BY DEF LInv, Replaces
<1>4. RulesReadLists' /\ SavesReplace'
  BY DEF LInv, RulesReadLists, SavesReplace, IsStored
<1>5. FlagsFollowLists'
  BY DEF LInv, FlagsFollowLists, Current, UsedBy
<1> QED BY <1>1, <1>2, <1>3, <1>4, <1>5 DEF LInv

\* The requests that write nothing yet.
LEMMA LoadsStep ==
  ASSUME LInv, TypeOK', NEW t \in Threads, NEW l \in ItemLists,
         SaveLoads(t, l) \/ DeleteLoads(t, l)
  PROVE  LInv'
<1>t. TypeOK /\ req \in [Threads -> Requests]
  BY DEF LInv, TypeOK
<1>1. CASE SaveLoads(t, l)
  <2> PICK kept \in {{}, {saves'}} :
        req' = [req EXCEPT ![t] = [Idle EXCEPT !.at = "waiting", !.list = l,
                                    !.oldItems = list[l].items, !.newItems = kept]]
    BY <1>1 DEF SaveLoads
  <2> DEFINE r == [Idle EXCEPT !.at = "waiting", !.list = l,
                               !.oldItems = list[l].items, !.newItems = kept]
  <2>1. r.at = "waiting" /\ r.list = l /\ r.oldItems = list[l].items /\ r.newItems = kept
    BY DEF Idle
  <2>2. req' = [req EXCEPT ![t] = r]
    OBVIOUS
  <2> HIDE DEF r
  <2>3. req'[t] = r /\ \A x \in Threads \ {t} : req'[x] = req[x]
    BY <1>t, <2>2
  <2>4. IsStored(l) /\ req[t].at = "idle" /\ UNCHANGED <<list, rules, run, members, cached, mixed>>
    BY <1>1 DEF SaveLoads, Begin
  <2>5. Replaces(req[t])'
    BY <2>1, <2>3, <2>4 DEF Replaces, Ruling, IsStored
  <2> QED BY <2>3, <2>4, <2>5, RequestStep DEF Drops
<1>2. CASE DeleteLoads(t, l)
  <2> DEFINE r == [Idle EXCEPT !.at = "deleting", !.list = l]
  <2>1. r.at = "deleting"
    BY DEF Idle
  <2>2. /\ req' = [req EXCEPT ![t] = r] /\ req[t].at = "idle"
        /\ UNCHANGED <<list, rules, run, members, cached, mixed>>
    BY <1>2 DEF DeleteLoads
  <2> HIDE DEF r
  <2>3. req'[t] = r /\ \A x \in Threads \ {t} : req'[x] = req[x]
    BY <1>t, <2>2
  <2>4. Replaces(req[t])'
    BY <2>1, <2>3 DEF Replaces, Saving, Ruling
  <2> QED BY <2>2, <2>3, <2>4, RequestStep DEF Drops
<1> QED BY <1>1, <1>2

LEMMA SaveReplacesStep ==
  ASSUME LInv, TypeOK', NEW t \in Threads, SaveReplaces(t)
  PROVE  LInv'
<1>1. /\ req' = [req EXCEPT ![t] = [req[t] EXCEPT !.at = "replaced"]] /\ req[t].at = "waiting"
      /\ UNCHANGED <<list, rules, run, members, cached, mixed>>
  BY DEF SaveReplaces
<1>2. req \in [Threads -> Requests]
  BY DEF LInv, TypeOK
<1>3. /\ req'[t].at = "replaced" /\ req'[t].list = req[t].list /\ req'[t].late = req[t].late
      /\ req'[t].oldItems = req[t].oldItems /\ req'[t].newItems = req[t].newItems
  BY <1>1, <1>2 DEF Requests
<1>4. Replaces(req[t])'
  BY <1>1, <1>3 DEF LInv, Replaces, Saving, Ruling
<1> QED BY <1>1, <1>2, <1>4, RequestStep DEF Drops

LEMMA SaveFindsStep ==
  ASSUME LInv, TypeOK', NEW t \in Threads, SaveFinds(t)
  PROVE  LInv'
<1>1. /\ req' = [req EXCEPT ![t] = Purging(UsedBy(req[t].list))] /\ req[t].at = "committed"
      /\ UNCHANGED <<list, rules, run, members, cached, mixed>>
  BY DEF SaveFinds
<1>2. req \in [Threads -> Requests] /\ UsedBy(req[t].list) \in SUBSET Queries
  BY DEF LInv, TypeOK, UsedBy
<1>3. /\ Purging(UsedBy(req[t].list)).at \in {"idle", "purging"}
      /\ UsedBy(req[t].list) # {} =>
           /\ Purging(UsedBy(req[t].list)).at = "purging"
           /\ Purging(UsedBy(req[t].list)).todo = UsedBy(req[t].list)
  BY <1>2, PurgingType
<1>4. req'[t] = Purging(UsedBy(req[t].list)) /\ \A x \in Threads \ {t} : req'[x] = req[x]
  BY <1>1, <1>2
<1>5. Replaces(req[t])'
  BY <1>3, <1>4 DEF Replaces, Saving, Ruling
<1>6. \A q \in Queries : Drops(t, q) => Drops(t, q)'
  <2> SUFFICES ASSUME NEW q \in Queries, q \in UsedBy(req[t].list) PROVE Drops(t, q)'
    BY <1>1 DEF Drops
  <2> QED BY <1>3, <1>4 DEF Drops
<1> QED BY <1>1, <1>4, <1>5, <1>6, RequestStep

LEMMA RulesLoadStep ==
  ASSUME LInv, TypeOK', NEW t \in Threads, NEW q \in Queries, NEW names \in SUBSET RuleNames,
         NEW reads \in [names -> ItemLists \cup {None}], RulesLoad(t, q, reads)
  PROVE  LInv'
<1> DEFINE new == {[by |-> saves', name |-> n, list |-> reads[n]] : n \in DOMAIN reads}
           r == [Idle EXCEPT !.at = "loaded", !.query = q, !.oldRules = rules[q], !.newRules = new]
<1>1. \A a, b \in new : a.by = b.by
  OBVIOUS
<1>2. /\ req' = [req EXCEPT ![t] = r] /\ UNCHANGED <<list, rules, run, members, cached, mixed>>
      /\ Begin(t)
  BY DEF RulesLoad
<1>3. req \in [Threads -> Requests] /\ req[t].at = "idle"
  BY <1>2 DEF LInv, TypeOK, Begin
<1> HIDE DEF new
<1>4. r.at = "loaded" /\ r.query = q /\ r.oldRules = rules[q] /\ r.newRules = new
  BY DEF Idle
<1> HIDE DEF r
<1>5. req'[t] = r /\ \A x \in Threads \ {t} : req'[x] = req[x]
  BY <1>2, <1>3
<1>6. Replaces(req[t])'
  BY <1>1, <1>2, <1>4, <1>5 DEF Replaces, Saving
<1> QED BY <1>2, <1>3, <1>5, <1>6, RequestStep DEF Drops

LEMMA RulesClearStep ==
  ASSUME LInv, TypeOK', NEW t \in Threads, RulesClear(t)
  PROVE  LInv'
<1>1. /\ req' = [req EXCEPT ![t] = [req[t] EXCEPT !.at = "cleared"]] /\ req[t].at = "loaded"
      /\ UNCHANGED <<list, rules, run, members, cached, mixed>>
  BY DEF RulesClear
<1>2. req \in [Threads -> Requests]
  BY DEF LInv, TypeOK
<1>3. /\ req'[t].at = "cleared" /\ req'[t].query = req[t].query /\ req'[t].late = req[t].late
      /\ req'[t].oldRules = req[t].oldRules /\ req'[t].newRules = req[t].newRules
  BY <1>1, <1>2 DEF Requests
<1>4. Replaces(req[t])'
  BY <1>1, <1>3 DEF LInv, Replaces, Saving, Ruling
<1> QED BY <1>1, <1>2, <1>4, RequestStep DEF Drops

LEMMA RefusedStep ==
  ASSUME LInv, TypeOK', NEW t \in Threads, Refused(t)
  PROVE  LInv'
<1>1. /\ req' = [req EXCEPT ![t] = Idle] /\ req[t].at \in Saving \cup Ruling \cup {"deleting"}
      /\ UNCHANGED <<list, rules, run, members, cached, mixed>>
  BY DEF Refused
<1>2. req \in [Threads -> Requests]
  BY DEF LInv, TypeOK
<1>3. Replaces(req[t])'
  BY <1>1, <1>2, IdleType DEF Replaces, Saving, Ruling
<1> QED BY <1>1, <1>2, <1>3, RequestStep DEF Drops, Saving, Ruling

\* The requests and runs stay as they are, or are over; results are dropped, or
\* are known to be out of date.
LEMMA CachedStep ==
  ASSUME LInv, TypeOK', UNCHANGED <<list, rules, run, members, mixed>>,
         \A t \in Threads : Replaces(req[t])', FlagsFollowLists'
  PROVE  LInv'
<1>1. \A p \in Runners : Evaluates(run[p])'
  BY DEF LInv, Evaluates, IsStored
<1>2. RulesReadLists' /\ Versioned' /\ SavesReplace' /\ MembersAreCurrent'
  BY DEF LInv, RulesReadLists, Versioned, SavesReplace, MembersAreCurrent, IsStored
<1> QED BY <1>1, <1>2 DEF LInv

LEMMA InvalidateStep ==
  ASSUME LInv, TypeOK', NEW t \in Threads, NEW q \in Queries, Invalidate(t, q)
  PROVE  LInv'
<1>1. /\ cached' = [cached EXCEPT ![q] = None] /\ req' = [req EXCEPT ![t] = Purging(req[t].todo \ {q})]
      /\ req[t].at = "purging" /\ UNCHANGED <<list, rules, run, members, mixed>>
  BY DEF Invalidate
<1>2. /\ req \in [Threads -> Requests] /\ cached \in [Queries -> Results \cup {None}]
      /\ req[t].todo \ {q} \in SUBSET Queries
  BY DEF LInv, TypeOK, Requests
<1>3. req'[t] = Purging(req[t].todo \ {q}) /\ \A x \in Threads \ {t} : req'[x] = req[x]
  BY <1>1, <1>2
<1>4. /\ req'[t].at \in {"idle", "purging"}
      /\ req[t].todo \ {q} # {} => req'[t].at = "purging" /\ req'[t].todo = req[t].todo \ {q}
  BY <1>2, <1>3, PurgingType
<1>5. \A x \in Threads : Replaces(req[x])'
  <2>1. Replaces(req[t])'
    BY <1>4 DEF Replaces, Saving, Ruling
  <2>2. \A x \in Threads \ {t} : Replaces(req[x])'
    BY <1>1, <1>3 DEF LInv, Replaces
  <2> QED BY <2>1, <2>2
<1>6. FlagsFollowLists'
  <2> SUFFICES ASSUME NEW k \in Queries, cached'[k] # None
               PROVE  \/ cached'[k].late
                      \/ Current(k, cached[k].rules, cached[k].got)'
                      \/ \E x \in Threads : Drops(x, k)'
    BY Dropped DEF FlagsFollowLists, Drops
  <2>1. k # q /\ cached'[k] = cached[k]
    BY <1>1, <1>2
  <2>2. \/ cached[k].late \/ Current(k, cached[k].rules, cached[k].got)
        \/ \E x \in Threads : Drops(x, k)
    BY <2>1, Dropped DEF LInv
  <2>3. \A x \in Threads : Drops(x, k) => Drops(x, k)'
    <3>1. Drops(t, k) => Drops(t, k)'
      BY <1>1, <1>4, <2>1 DEF Drops
    <3>2. \A x \in Threads \ {t} : Drops(x, k) => Drops(x, k)'
      BY <1>1, <1>3 DEF Drops, UsedBy
    <3> QED BY <3>1, <3>2
  <2> QED BY <1>1, <2>1, <2>2, <2>3 DEF Current
<1> QED BY <1>1, <1>5, <1>6, CachedStep

LEMMA LookupFailsStep ==
  ASSUME LInv, TypeOK', NEW t \in Threads, LookupFails(t)
  PROVE  LInv'
<1>1. /\ cached' = [q \in Queries |-> IF cached[q] # None /\ q \in UsedBy(req[t].list)
                                        THEN [cached[q] EXCEPT !.late = TRUE] ELSE cached[q]]
      /\ req' = [req EXCEPT ![t] = Idle] /\ req[t].at = "committed"
      /\ UNCHANGED <<list, rules, run, members, mixed>>
  BY DEF LookupFails
<1>2. req \in [Threads -> Requests] /\ cached \in [Queries -> Results \cup {None}]
  BY DEF LInv, TypeOK
<1>3. req'[t] = Idle /\ \A x \in Threads \ {t} : req'[x] = req[x]
  BY <1>1, <1>2
<1>4. \A x \in Threads : Replaces(req[x])'
  <2>1. Replaces(req[t])'
    BY <1>3, IdleType DEF Replaces, Saving, Ruling
  <2>2. \A x \in Threads \ {t} : Replaces(req[x])'
    BY <1>1, <1>3 DEF LInv, Replaces
  <2> QED BY <2>1, <2>2
<1>5. FlagsFollowLists'
  <2> SUFFICES ASSUME NEW k \in Queries, cached'[k] # None
               PROVE  \/ cached'[k].late
                      \/ Current(k, cached[k].rules, cached[k].got)'
                      \/ \E x \in Threads : Drops(x, k)'
    BY Dropped DEF FlagsFollowLists, Drops
  <2>1. CASE cached[k] # None /\ k \in UsedBy(req[t].list)
    <3>1. cached[k] \in Results /\ cached'[k] = [cached[k] EXCEPT !.late = TRUE]
      BY <1>1, <1>2, <2>1
    <3>2. cached'[k].late
      BY <3>1 DEF Results
    <3> QED BY <3>2
  <2>2. CASE ~(cached[k] # None /\ k \in UsedBy(req[t].list))
    <3>1. cached'[k] = cached[k]
      BY <1>1, <2>2
    <3>2. \/ cached[k].late \/ Current(k, cached[k].rules, cached[k].got)
          \/ \E x \in Threads : Drops(x, k)
      BY <3>1, Dropped DEF LInv
    <3>3. ~Drops(t, k)
      BY <1>1, <2>2, <3>1 DEF Drops
    <3>4. \A x \in Threads \ {t} : Drops(x, k) => Drops(x, k)'
      BY <1>1, <1>3 DEF Drops, UsedBy
    <3> QED BY <1>1, <3>1, <3>2, <3>3, <3>4 DEF Current
  <2> QED BY <2>1, <2>2
<1> QED BY <1>1, <1>4, <1>5, CachedStep

LEMMA ExpireStep ==
  ASSUME LInv, TypeOK', NEW q \in Queries, Expire(q)
  PROVE  LInv'
<1>1. /\ cached' = [cached EXCEPT ![q] = None]
      /\ UNCHANGED <<list, rules, req, run, members, mixed>>
  BY DEF Expire
<1>2. \A k \in Queries : cached'[k] # None => cached'[k] = cached[k]
  BY <1>1 DEF LInv, TypeOK
<1>3. \A x \in Threads : Replaces(req[x])'
  BY <1>1 DEF LInv, Replaces
<1>4. FlagsFollowLists'
  BY <1>1, <1>2 DEF LInv, FlagsFollowLists, Current, UsedBy
<1> QED BY <1>1, <1>3, <1>4, CachedStep

LEMMA ForgetStep ==
  ASSUME LInv, TypeOK', Forget
  PROVE  LInv'
<1>1. members' \subseteq members /\ UNCHANGED <<list, rules, req, run, cached, mixed>>
  BY DEF Forget
<1>2. Versioned' /\ MembersAreCurrent'
  BY <1>1 DEF LInv, Versioned, MembersAreCurrent, IsStored
<1>3. (\A x \in Threads : Replaces(req[x])') /\ \A p \in Runners : Evaluates(run[p])'
  BY <1>1 DEF LInv, Replaces, Evaluates, IsStored
<1>4. RulesReadLists' /\ SavesReplace' /\ FlagsFollowLists'
  BY <1>1 DEF LInv, RulesReadLists, SavesReplace, FlagsFollowLists, Current, UsedBy, IsStored
<1> QED BY <1>2, <1>3, <1>4 DEF LInv

LEMMA CrashStep ==
  ASSUME LInv, TypeOK', Crash
  PROVE  LInv'
<1>1. /\ members' = {} /\ (\A t \in Threads : req'[t].at = "idle") /\ (\A p \in Runners : run'[p].at = "idle")
      /\ (\A q \in Queries : cached'[q] = None) /\ UNCHANGED <<list, rules, mixed>>
  BY IdleType, IdleRunType DEF Crash
<1>2. Versioned' /\ MembersAreCurrent' /\ FlagsFollowLists'
  BY <1>1 DEF LInv, Versioned, MembersAreCurrent, FlagsFollowLists
<1>3. (\A x \in Threads : Replaces(req[x])') /\ \A p \in Runners : Evaluates(run[p])'
  BY <1>1 DEF Replaces, Evaluates, Saving, Ruling
<1>4. RulesReadLists' /\ SavesReplace'
  BY <1>1 DEF LInv, RulesReadLists, SavesReplace, IsStored
<1> QED BY <1>2, <1>3, <1>4 DEF LInv

\* A run reads the rules with the versions of their lists, and then the items.
LEMMA RunLoadsStep ==
  ASSUME LInv, TypeOK', NEW p \in Runners, NEW q \in Queries, RunLoads(p, q)
  PROVE  LInv'
<1> DEFINE versions == [l \in ItemLists |-> list[l].version]
           used == Used(rules[q])
           r == [IdleRun EXCEPT !.at = "loaded", !.query = q, !.rules = rules[q],
                                !.seen = versions, !.todo = used]
<1>1. /\ run' = [run EXCEPT ![p] = r]
      /\ UNCHANGED <<list, rules, req, members, cached, mixed>>
  BY DEF RunLoads
<1>2. /\ used \subseteq ItemLists /\ run \in [Runners -> Runs] /\ list \in [ItemLists -> Stored]
      /\ \A l \in ItemLists : versions[l] = list[l].version
  BY UsedType DEF LInv, TypeOK
<1> HIDE DEF versions
<1>3. /\ r.at = "loaded" /\ r.query = q /\ r.rules = rules[q] /\ r.seen = versions /\ r.todo = used
  BY DEF IdleRun
<1> HIDE DEF r
<1>4. run'[p] = r /\ \A x \in Runners \ {p} : run'[x] = run[x]
  BY <1>1, <1>2
<1>5. Evaluates(run[p])'
  BY <1>1, <1>2, <1>3, <1>4 DEF Evaluates
<1>6. \A l \in ItemLists : versions[l] <= list[l].version
  BY <1>2 DEF Stored
<1>7. \A m \in members : /\ m.version <= list[m.list].version
                         /\ IsStored(m.list) /\ m.version = list[m.list].version =>
                              m.items = list[m.list].items
  BY DEF LInv, Versioned, MembersAreCurrent
<1> QED BY <1>1, <1>3, <1>4, <1>5, <1>6, <1>7, EvaluationStep

\* What a run has resolved l to is what a set remembered under its version says.
LEMMA ResolvesStep ==
  ASSUME LInv, TypeOK', NEW p \in Runners, NEW l \in ItemLists, Resolves(p, l)
  PROVE  LInv'
<1>0. PICK m \in Hit(l, run[p].seen[l]) :
      run' = [run EXCEPT ![p] = [run[p] EXCEPT !.todo = run[p].todo \ {l},
                !.got = [run[p].got EXCEPT ![l] = m.items]]]
  BY Zenon DEF Resolves
<1>1. /\ UNCHANGED <<list, rules, req, members, cached, mixed>>
      /\ run[p].at = "loaded" /\ m \in members /\ m.list = l /\ m.version = run[p].seen[l]
  BY DEF Resolves, Hit
<1>2. /\ run \in [Runners -> Runs] /\ run[p] \in Runs /\ run[p].got \in [ItemLists -> SUBSET Nat]
  BY DEF LInv, TypeOK, Runs
<1> DEFINE got == [run[p].got EXCEPT ![l] = m.items]
           todo == run[p].todo \ {l}
           r == [run[p] EXCEPT !.todo = todo, !.got = got]
<1>3. got[l] = m.items /\ \A k \in ItemLists \ {l} : got[k] = run[p].got[k]
  BY <1>2
<1>4. run' = [run EXCEPT ![p] = r]
  BY <1>0
<1> HIDE DEF got, todo
<1>5. /\ r.at = "loaded" /\ r.query = run[p].query /\ r.rules = run[p].rules /\ r.seen = run[p].seen
      /\ r.todo = todo /\ r.got = got /\ r.late = run[p].late
  BY <1>1, <1>2 DEF Runs
<1> HIDE DEF r
<1>6. run'[p] = r /\ \A x \in Runners \ {p} : run'[x] = run[x]
  BY <1>2, <1>4
<1>7. Evaluates(r)
  <2> SUFFICES ASSUME ~r.late
               PROVE  /\ r.rules = rules[r.query]
                      /\ \A k \in Used(r.rules) :
                           r.seen[k] = list[k].version /\ (k \notin r.todo => r.got[k] = list[k].items)
    BY <1>5 DEF Evaluates
  <2>1. /\ run[p].rules = rules[run[p].query]
        /\ \A k \in Used(run[p].rules) :
             run[p].seen[k] = list[k].version /\ (k \notin run[p].todo => run[p].got[k] = list[k].items)
    BY <1>1, <1>5 DEF LInv, Evaluates
  <2>2. ASSUME NEW k \in Used(r.rules), k \notin r.todo
        PROVE  r.got[k] = list[k].items
    <3>1. k \in ItemLists /\ IsStored(k)
      BY <1>2, <1>5, <2>1, UsedType DEF LInv, RulesReadLists, Runs
    <3>2. CASE k = l
      BY <1>1, <1>3, <1>5, <2>1, <3>1, <3>2 DEF LInv, MembersAreCurrent
    <3>3. CASE k # l
      BY <1>3, <1>5, <2>1, <2>2, <3>1, <3>3 DEF todo
    <3> QED BY <3>2, <3>3
  <2> QED BY <1>5, <2>1, <2>2
<1>8. Evaluates(run[p])'
  BY <1>1, <1>6, <1>7 DEF Evaluates, IsStored
<1>9. /\ \A k \in ItemLists : run'[p].seen[k] <= list[k].version
      /\ \A x \in members : /\ x.version <= list[x.list].version
                            /\ IsStored(x.list) /\ x.version = list[x.list].version =>
                                 x.items = list[x.list].items
  BY <1>1, <1>5, <1>6 DEF LInv, Versioned, MembersAreCurrent
<1> QED BY <1>1, <1>6, <1>8, <1>9, EvaluationStep

LEMMA ReadsStep ==
  ASSUME LInv, TypeOK', NEW p \in Runners, NEW l \in ItemLists, Reads(p, l)
  PROVE  LInv'
<1> DEFINE got == [run[p].got EXCEPT ![l] = list[l].items]
           r == [run[p] EXCEPT !.at = "loading", !.list = l, !.got = got]
<1>1. /\ UNCHANGED <<list, rules, req, members, cached, mixed>>
      /\ run' = [run EXCEPT ![p] = r] /\ run[p].at = "loaded" /\ l \in run[p].todo
  BY DEF Reads
<1>2. /\ run \in [Runners -> Runs] /\ run[p] \in Runs /\ run[p].got \in [ItemLists -> SUBSET Nat]
  BY DEF LInv, TypeOK, Runs
<1>3. got[l] = list[l].items /\ \A k \in ItemLists \ {l} : got[k] = run[p].got[k]
  BY <1>2
<1> HIDE DEF got
<1>4. /\ r.at = "loading" /\ r.query = run[p].query /\ r.rules = run[p].rules /\ r.seen = run[p].seen
      /\ r.todo = run[p].todo /\ r.got = got /\ r.late = run[p].late /\ r.list = l
  BY <1>1, <1>2 DEF Runs
<1> HIDE DEF r
<1>5. run'[p] = r /\ \A x \in Runners \ {p} : run'[x] = run[x]
  BY <1>1, <1>2
<1>6. Evaluates(r)
  <2>1. ASSUME ~r.late
        PROVE  /\ r.rules = rules[r.query]
               /\ \A k \in Used(r.rules) :
                    r.seen[k] = list[k].version /\ (k \notin r.todo => r.got[k] = list[k].items)
    <3>1. /\ run[p].rules = rules[run[p].query]
          /\ \A k \in Used(run[p].rules) :
               run[p].seen[k] = list[k].version /\ (k \notin run[p].todo => run[p].got[k] = list[k].items)
      BY <1>1, <1>4, <2>1 DEF LInv, Evaluates
    <3>2. \A k \in Used(run[p].rules) : k \in ItemLists
      BY <1>2, <3>1, UsedType DEF LInv, Runs
    <3> QED BY <1>1, <1>3, <1>4, <3>1, <3>2
  <2>2. r.got[r.list] = list[r.list].items
    BY <1>3, <1>4
  <2> QED BY <2>1, <2>2 DEF Evaluates
<1>7. Evaluates(run[p])'
  BY <1>1, <1>5, <1>6 DEF Evaluates, IsStored
<1>8. /\ \A k \in ItemLists : run'[p].seen[k] <= list[k].version
      /\ \A x \in members : /\ x.version <= list[x.list].version
                            /\ IsStored(x.list) /\ x.version = list[x.list].version =>
                                 x.items = list[x.list].items
  BY <1>1, <1>4, <1>5 DEF LInv, Versioned, MembersAreCurrent
<1> QED BY <1>1, <1>5, <1>7, <1>8, EvaluationStep

\* The set that is remembered is what the list had under the version seen.
LEMMA RemembersStep ==
  ASSUME LInv, TypeOK', NEW p \in Runners, Remembers(p)
  PROVE  LInv'
<1> DEFINE l == run[p].list
           r == [run[p] EXCEPT !.at = "loaded", !.todo = run[p].todo \ {l}]
           new == [list |-> l, version |-> run[p].seen[l], items |-> run[p].got[l]]
<1>1. /\ UNCHANGED <<list, rules, req, cached, mixed>>
      /\ run' = [run EXCEPT ![p] = r] /\ run[p].at = "loading"
      /\ members' \subseteq members \cup {new}
  BY DEF Remembers
<1>2. /\ run \in [Runners -> Runs] /\ run[p] \in Runs /\ l \in ItemLists
  BY DEF LInv, TypeOK, Runs
<1>3. /\ r.at = "loaded" /\ r.query = run[p].query /\ r.rules = run[p].rules /\ r.seen = run[p].seen
      /\ r.todo = run[p].todo \ {l} /\ r.got = run[p].got /\ r.late = run[p].late
  BY <1>1, <1>2 DEF Runs
<1>4. new.list = l /\ new.version = run[p].seen[l] /\ new.items = run[p].got[l]
  OBVIOUS
<1>5. /\ run[p].seen[l] <= list[l].version
      /\ IsStored(l) /\ run[p].seen[l] = list[l].version => run[p].got[l] = list[l].items
  BY <1>1, <1>2 DEF LInv, Versioned, Evaluates
<1> HIDE DEF l, r, new
<1>6. run'[p] = r /\ \A x \in Runners \ {p} : run'[x] = run[x]
  BY <1>1, <1>2
<1>7. Evaluates(r)
  <2> SUFFICES ASSUME ~r.late
               PROVE  /\ r.rules = rules[r.query]
                      /\ \A k \in Used(r.rules) :
                           r.seen[k] = list[k].version /\ (k \notin r.todo => r.got[k] = list[k].items)
    BY <1>3 DEF Evaluates
  <2>1. /\ run[p].rules = rules[run[p].query]
        /\ \A k \in Used(run[p].rules) :
             run[p].seen[k] = list[k].version /\ (k \notin run[p].todo => run[p].got[k] = list[k].items)
    BY <1>1, <1>3 DEF LInv, Evaluates
  <2>2. \A k \in Used(run[p].rules) : IsStored(k)
    BY <1>2, <2>1 DEF LInv, RulesReadLists, Runs
  <2> QED BY <1>3, <1>5, <2>1, <2>2
<1>8. Evaluates(run[p])'
  BY <1>1, <1>6, <1>7 DEF Evaluates, IsStored
<1>9. \A k \in ItemLists : run'[p].seen[k] <= list[k].version
  BY <1>1, <1>3, <1>6 DEF LInv, Versioned
<1>10. \A m \in members' : /\ m.version <= list[m.list].version
                           /\ IsStored(m.list) /\ m.version = list[m.list].version =>
                                m.items = list[m.list].items
  BY <1>1, <1>4, <1>5 DEF LInv, Versioned, MembersAreCurrent
<1> QED BY <1>1, <1>6, <1>8, <1>9, <1>10, EvaluationStep

LEMMA RunEndsStep ==
  ASSUME LInv, TypeOK', NEW p \in Runners, RunEnds(p)
  PROVE  LInv'
<1>1. /\ UNCHANGED <<list, rules, req, members, cached, mixed>> /\ run' = [run EXCEPT ![p] = IdleRun]
  BY DEF RunEnds
<1>2. run'[p].at = "idle" /\ \A x \in Runners \ {p} : run'[x] = run[x]
  BY <1>1, IdleRunType DEF LInv, TypeOK
<1>3. Evaluates(run[p])'
  BY <1>2 DEF Evaluates
<1>4. \A m \in members : /\ m.version <= list[m.list].version
                         /\ IsStored(m.list) /\ m.version = list[m.list].version =>
                              m.items = list[m.list].items
  BY DEF LInv, Versioned, MembersAreCurrent
<1> QED BY <1>1, <1>2, <1>3, <1>4, EvaluationStep

\* A run that was not overtaken stores flags that are current.
LEMMA RunStoresStep ==
  ASSUME LInv, TypeOK', NEW p \in Runners, RunStores(p)
  PROVE  LInv'
<1> DEFINE late == run[p].late /\ ~Current(run[p].query, run[p].rules, run[p].got)
           c == [rules |-> run[p].rules, got |-> run[p].got, late |-> late]
<1>1. /\ run[p].at = "loaded" /\ run[p].todo = {} /\ cached' = [cached EXCEPT ![run[p].query] = c]
      /\ run' = [run EXCEPT ![p] = IdleRun] /\ UNCHANGED <<list, rules, req, members, mixed>>
  BY DEF RunStores
<1>2. /\ run \in [Runners -> Runs] /\ run[p].query \in Queries /\ cached \in [Queries -> Results \cup {None}]
  BY DEF LInv, TypeOK, Runs
<1>3. late \/ Current(run[p].query, run[p].rules, run[p].got)
  BY <1>1 DEF LInv, Evaluates, Current
<1>4. c.rules = run[p].rules /\ c.got = run[p].got /\ (c.late <=> late)
  OBVIOUS
<1> HIDE DEF late, c
<1>5. c.late \/ Current(run[p].query, c.rules, c.got)
  BY <1>3, <1>4
<1>6. cached'[run[p].query] = c /\ \A q \in Queries \ {run[p].query} : cached'[q] = cached[q]
  BY <1>1, <1>2
<1>7. FlagsFollowLists'
  <2> SUFFICES ASSUME NEW k \in Queries, cached'[k] # None
               PROVE  \/ cached'[k].late
                      \/ Current(k, cached[k].rules, cached[k].got)'
                      \/ \E x \in Threads : Drops(x, k)'
    BY Dropped DEF FlagsFollowLists, Drops
  <2>1. CASE k = run[p].query
    BY <1>1, <1>5, <1>6, <2>1 DEF Current
  <2>2. CASE k # run[p].query
    <3>1. \/ cached[k].late \/ Current(k, cached[k].rules, cached[k].got)
          \/ \E x \in Threads : Drops(x, k)
      BY <1>6, <2>2, Dropped DEF LInv
    <3> QED BY <1>1, <1>6, <2>2, <3>1 DEF Current, Drops, UsedBy
  <2> QED BY <2>1, <2>2
<1>8. run'[p].at = "idle" /\ \A x \in Runners \ {p} : run'[x] = run[x]
  BY <1>1, <1>2, IdleRunType
<1>9. \A x \in Runners : Evaluates(run[x])'
  <2>1. Evaluates(run[p])'
    BY <1>8 DEF Evaluates
  <2>2. \A x \in Runners \ {p} : Evaluates(run[x])'
    BY <1>1, <1>8 DEF LInv, Evaluates, IsStored
  <2> QED BY <2>1, <2>2
<1>10. RulesReadLists' /\ Versioned' /\ SavesReplace' /\ MembersAreCurrent'
  BY <1>1, <1>8 DEF LInv, RulesReadLists, Versioned, SavesReplace, MembersAreCurrent, IsStored
<1>11. \A x \in Threads : Replaces(req[x])'
  BY <1>1 DEF LInv, Replaces
<1> QED BY <1>7, <1>9, <1>10, <1>11 DEF LInv

\* A run is late once what it reads is saved.
SameRun(p) ==
  /\ run'[p].at = run[p].at /\ run'[p].query = run[p].query /\ run'[p].rules = run[p].rules
  /\ run'[p].seen = run[p].seen /\ run'[p].got = run[p].got /\ run'[p].todo = run[p].todo
  /\ run'[p].list = run[p].list
  /\ run[p].late => run'[p].late

\* A list is made, saved or deleted: its version grows, or it is no longer there.
LEMMA ListStep ==
  ASSUME LInv, TypeOK', NEW l \in ItemLists, UNCHANGED <<rules, members, cached>>,
         \A k \in ItemLists \ {l} : list'[k] = list[k],
         list[l].version <= list'[l].version, list'[l].state # "unmade",
         IsStored(l)' => list[l].version < list'[l].version,
         \A q \in Queries : l \in Used(rules[q]) => IsStored(l)',
         \A p \in Runners :
           SameRun(p) /\ (run[p].at # "idle" /\ ~run'[p].late => l \notin Used(run[p].rules)),
         \A q \in Queries, x \in Threads : Drops(x, q) => Drops(x, q)',
         \A q \in Queries : l \in Used(rules[q]) => \E x \in Threads : Drops(x, q)'
  PROVE  /\ RulesReadLists' /\ Versioned' /\ MembersAreCurrent' /\ FlagsFollowLists'
         /\ \A p \in Runners : Evaluates(run[p])'
<1>t. /\ list \in [ItemLists -> Stored] /\ list' \in [ItemLists -> Stored]
      /\ run \in [Runners -> Runs] /\ (\A p \in Runners : run[p] \in Runs)
      /\ \A m \in members : m.list \in ItemLists /\ m.version \in Nat
  BY DEF LInv, TypeOK
<1>v. \A k \in ItemLists : list[k].version \in Nat /\ list'[k].version \in Nat
  BY <1>t DEF Stored
<1>s. \A k \in ItemLists \ {l} : IsStored(k)' <=> IsStored(k)
  BY DEF IsStored
<1>1. RulesReadLists'
  BY <1>s, UsedType DEF LInv, RulesReadLists
<1>2. Versioned'
  <2>1. \A k \in ItemLists : list'[k].state = "unmade" => list'[k].version = 0
    BY DEF LInv, Versioned
  <2>2. ASSUME NEW m \in members PROVE m.version <= list'[m.list].version
    <3>1. m.version <= list[m.list].version
      BY DEF LInv, Versioned
    <3>2. CASE m.list = l
      BY <1>t, <1>v, <3>1, <3>2
    <3>3. CASE m.list # l
      BY <1>t, <3>1, <3>3
    <3> QED BY <3>2, <3>3
  <2>3. ASSUME NEW p \in Runners, run'[p].at # "idle", NEW k \in ItemLists
        PROVE  run'[p].seen[k] <= list'[k].version
    <3>1. run'[p].seen[k] = run[p].seen[k] /\ run[p].seen[k] <= list[k].version /\ run[p].seen[k] \in Nat
      BY <1>t, <2>3 DEF SameRun, LInv, Versioned, Runs
    <3>2. CASE k = l
      BY <1>v, <3>1, <3>2
    <3>3. CASE k # l
      BY <3>1, <3>3
    <3> QED BY <3>2, <3>3
  <2> QED BY <2>1, <2>2, <2>3 DEF Versioned
<1>3. MembersAreCurrent'
  <2> SUFFICES ASSUME NEW m \in members, IsStored(m.list)', m.version = list'[m.list].version
               PROVE  m.items = list'[m.list].items
    BY DEF MembersAreCurrent
  <2>1. m.version <= list[m.list].version
    BY DEF LInv, Versioned
  <2>2. m.list # l
    BY <1>t, <1>v, <2>1
  <2> QED BY <1>s, <1>t, <2>2 DEF LInv, MembersAreCurrent
<1>4. ASSUME NEW p \in Runners PROVE Evaluates(run[p])'
  <2>1. ASSUME run'[p].at # "idle", ~run'[p].late
        PROVE  /\ run'[p].rules = rules[run'[p].query]
               /\ \A k \in Used(run'[p].rules) :
                    /\ run'[p].seen[k] = list'[k].version
                    /\ k \notin run'[p].todo => run'[p].got[k] = list'[k].items
    <3>1. /\ run[p].rules = rules[run[p].query]
          /\ \A k \in Used(run[p].rules) :
               run[p].seen[k] = list[k].version /\ (k \notin run[p].todo => run[p].got[k] = list[k].items)
      BY <2>1 DEF LInv, Evaluates, SameRun
    <3>2. \A k \in Used(run[p].rules) : k \in ItemLists \ {l}
      BY <1>t, <2>1, <3>1, UsedType DEF LInv, Runs, SameRun
    <3> QED BY <3>1, <3>2 DEF SameRun
  <2>2. ASSUME run'[p].at = "loading", list'[run[p].list].state = "stored",
               run[p].seen[run[p].list] = list'[run[p].list].version
        PROVE  run[p].got[run[p].list] = list'[run[p].list].items
    <3>1. run[p].list \in ItemLists /\ run[p].at = "loading" /\ run[p].seen[run[p].list] \in Nat
      BY <1>t, <2>2 DEF Runs, SameRun
    <3>2. run[p].seen[run[p].list] <= list[run[p].list].version
      BY <3>1 DEF LInv, Versioned
    <3>3. run[p].list # l
      BY <1>v, <2>2, <3>1, <3>2 DEF IsStored
    <3> QED BY <2>2, <3>1, <3>3 DEF LInv, Evaluates, IsStored
  <2>3. run'[p].list = run[p].list /\ run'[p].seen = run[p].seen /\ run'[p].got = run[p].got
    BY DEF SameRun
  <2> QED BY <2>1, <2>2, <2>3 DEF Evaluates, IsStored
<1>5. FlagsFollowLists'
  <2> SUFFICES ASSUME NEW q \in Queries, cached'[q] # None
               PROVE  \/ cached'[q].late
                      \/ Current(q, cached[q].rules, cached[q].got)'
                      \/ \E x \in Threads : Drops(x, q)'
    BY Dropped DEF FlagsFollowLists, Drops
  <2>1. \/ cached[q].late \/ Current(q, cached[q].rules, cached[q].got)
        \/ \E x \in Threads : Drops(x, q)
    BY Dropped DEF LInv
  <2>2. ASSUME Current(q, cached[q].rules, cached[q].got), l \notin Used(rules[q])
        PROVE  Current(q, cached[q].rules, cached[q].got)'
    <3>1. cached[q].rules = rules[q] /\ \A k \in Used(rules[q]) : cached[q].got[k] = list[k].items
      BY <2>2 DEF Current
    <3>2. \A k \in Used(rules[q]) : k \in ItemLists \ {l}
      BY <2>2, UsedType DEF LInv
    <3> QED BY <3>1, <3>2 DEF Current
  <2> QED BY <2>1, <2>2
<1> QED BY <1>1, <1>2, <1>3, <1>4, <1>5

LEMMA CreateListStep ==
  ASSUME LInv, TypeOK', NEW t \in Threads, NEW l \in ItemLists, CreateList(t, l)
  PROVE  LInv'
<1>1. /\ list[l].state = "unmade" /\ UNCHANGED <<rules, req, run, members, cached, mixed>>
      /\ \E kept \in {{}, {saves'}} :
           list' = [list EXCEPT ![l] = [state |-> "stored", creator |-> t, version |-> 1, items |-> kept]]
  BY Zenon DEF CreateList
<1>2. list \in [ItemLists -> Stored]
  BY DEF LInv, TypeOK
<1>3. /\ list'[l].state = "stored" /\ list'[l].version = 1 /\ (\A a, b \in list'[l].items : a = b)
      /\ \A k \in ItemLists \ {l} : list'[k] = list[k]
  <2> PICK kept \in {{}, {saves'}} :
        list' = [list EXCEPT ![l] = [state |-> "stored", creator |-> t, version |-> 1, items |-> kept]]
    BY <1>1, Zenon
  <2> QED BY <1>2
<1>4. list[l].version = 0 /\ ~IsStored(l) /\ IsStored(l)'
  BY <1>1, <1>3 DEF LInv, Versioned, IsStored
<1>5. \A q \in Queries : l \notin Used(rules[q])
  BY <1>4 DEF LInv, RulesReadLists
<1>6. \A p \in Runners : SameRun(p) /\ (run[p].at # "idle" /\ ~run'[p].late => l \notin Used(run[p].rules))
  BY <1>1, <1>5 DEF LInv, TypeOK, Evaluates, SameRun, Runs
<1>7. \A q \in Queries, x \in Threads : Drops(x, q) => Drops(x, q)'
  BY <1>1 DEF Drops, UsedBy
<1>8. /\ RulesReadLists' /\ Versioned' /\ MembersAreCurrent' /\ FlagsFollowLists'
      /\ \A p \in Runners : Evaluates(run[p])'
  BY <1>1, <1>3, <1>4, <1>5, <1>6, <1>7, ListStep
<1>9. SavesReplace'
  BY <1>1, <1>3 DEF LInv, SavesReplace
<1>10. ASSUME NEW x \in Threads PROVE Replaces(req[x])'
  <2>1. req[x].list \in ItemLists /\ Replaces(req[x])
    BY DEF LInv, TypeOK, Requests
  <2>2. req[x].at \in Saving => req[x].list # l
    BY <1>1, <2>1 DEF Replaces
  <2> QED BY <1>1, <1>3, <2>1, <2>2 DEF Replaces
<1> QED BY <1>8, <1>9, <1>10 DEF LInv

\* The saves of the same rows are overtaken, and what the others saw is there.
LEMMA OvertakenSaves ==
  ASSUME LInv, TypeOK', NEW t \in Threads, NEW l \in ItemLists, NEW r \in Requests,
         UNCHANGED rules, \A k \in ItemLists \ {l} : list'[k] = list[k], list'[l].state # "unmade",
         Overtakes(t, r, SavesOf(l)), r.at \in {"idle", "committed"}
  PROVE  /\ \A x \in Threads : Replaces(req[x])'
         /\ req'[t] = r
         /\ \A q \in Queries, x \in Threads \ {t} : Drops(x, q) => Drops(x, q)'
<1>1. /\ req'[t] = r
      /\ \A x \in Threads \ {t} :
           /\ req'[x].at = req[x].at /\ req'[x].list = req[x].list /\ req'[x].query = req[x].query
           /\ req'[x].oldItems = req[x].oldItems /\ req'[x].newItems = req[x].newItems
           /\ req'[x].oldRules = req[x].oldRules /\ req'[x].newRules = req[x].newRules
           /\ req'[x].todo = req[x].todo
           /\ req'[x].late <=> req[x].late \/ x \in SavesOf(l)
  BY OvertakesType DEF LInv
<1>2. Replaces(req[t])'
  BY <1>1 DEF Replaces, Saving, Ruling
<1>3. ASSUME NEW x \in Threads \ {t} PROVE Replaces(req[x])'
  <2>1. Replaces(req[x]) /\ req[x].list \in ItemLists
    BY DEF LInv, TypeOK, Requests
  <2>2. ASSUME req[x].at \in Saving
        PROVE  /\ list'[req[x].list].state # "unmade"
               /\ ~req'[x].late => list'[req[x].list].items = req[x].oldItems
    <3>1. CASE req[x].list = l
      BY <1>1, <2>2, <3>1 DEF SavesOf
    <3>2. CASE req[x].list # l
      BY <1>1, <2>1, <2>2, <3>2 DEF Replaces
    <3> QED BY <3>1, <3>2
  <2> QED BY <1>1, <2>1, <2>2 DEF Replaces
<1>4. \A q \in Queries, x \in Threads \ {t} : Drops(x, q) => Drops(x, q)'
  BY <1>1 DEF Drops, UsedBy
<1> QED BY <1>1, <1>2, <1>3, <1>4

\* The runs that read the rows are overtaken.
LEMMA OvertakenRuns ==
  ASSUME LInv, NEW l \in ItemLists, RunsLate(RunsWith(l))
  PROVE  \A p \in Runners : SameRun(p) /\ (run[p].at # "idle" /\ ~run'[p].late => l \notin Used(run[p].rules))
<1>1. \A p \in Runners :
        /\ run'[p].at = run[p].at /\ run'[p].query = run[p].query /\ run'[p].rules = run[p].rules
        /\ run'[p].seen = run[p].seen /\ run'[p].got = run[p].got /\ run'[p].todo = run[p].todo
        /\ run'[p].list = run[p].list
        /\ run'[p].late <=> run[p].late \/ p \in RunsWith(l)
  BY RunsLateType DEF LInv
<1> QED BY <1>1 DEF SameRun, RunsWith

LEMMA SaveCommitsStep ==
  ASSUME LInv, TypeOK', NEW t \in Threads, SaveCommits(t)
  PROVE  LInv'
<1>0. PICK l \in ItemLists : req[t].list = l
  BY DEF LInv, TypeOK, Requests
<1> DEFINE items == (list[l].items \ req[t].oldItems) \cup req[t].newItems
           new == [list[l] EXCEPT !.version = Bumped(t), !.items = items]
           r == [Idle EXCEPT !.at = "committed", !.list = l]
<1>1. /\ req[t].at = "replaced" /\ IsStored(l) /\ list' = [list EXCEPT ![l] = new]
      /\ Overtakes(t, r, SavesOf(l)) /\ RunsLate(RunsWith(l)) /\ mixed' = Mixed(l, req[t].late)
      /\ UNCHANGED <<rules, members, cached>>
  BY <1>0 DEF SaveCommits
<1>2. /\ list \in [ItemLists -> Stored] /\ l \in ItemLists /\ list[l] \in Stored /\ list[l].version \in Nat
      /\ Replaces(req[t])
  BY DEF LInv, TypeOK, Requests, Stored
<1>3. Bumped(t) = list[l].version + 1
  BY <1>0 DEF Bumped
<1>4. r.at = "committed" /\ r.list = l /\ r \in Requests
  <2>1. r.at = "committed" /\ r.list = l
    BY DEF Idle
  <2>2. r \in Requests
    BY IdleType DEF Requests
  <2> QED BY <2>1, <2>2
<1> HIDE DEF items, r
<1>5. new.version = list[l].version + 1 /\ new.items = items /\ new.state = "stored"
  BY <1>1, <1>2, <1>3 DEF Stored, IsStored
<1> HIDE DEF new
<1>6. list'[l] = new /\ \A k \in ItemLists \ {l} : list'[k] = list[k]
  BY <1>1, <1>2
<1>7. /\ list[l].version <= list'[l].version /\ list[l].version < list'[l].version
      /\ list'[l].state # "unmade" /\ IsStored(l)'
  BY <1>2, <1>5, <1>6 DEF IsStored
<1>8. /\ \A x \in Threads : Replaces(req[x])'
      /\ req'[t] = r
      /\ \A q \in Queries, x \in Threads \ {t} : Drops(x, q) => Drops(x, q)'
  BY <1>1, <1>2, <1>4, <1>6, <1>7, OvertakenSaves
<1>9. \A p \in Runners : SameRun(p) /\ (run[p].at # "idle" /\ ~run'[p].late => l \notin Used(run[p].rules))
  BY <1>1, <1>2, OvertakenRuns
<1>10. \A q \in Queries, x \in Threads : Drops(x, q) => Drops(x, q)'
  <2>1. \A q \in Queries : ~Drops(t, q)
    BY <1>1 DEF Drops
  <2> QED BY <1>8, <2>1
<1>11. \A q \in Queries : l \in Used(rules[q]) => Drops(t, q)'
  BY <1>1, <1>4, <1>8 DEF Drops, UsedBy
<1>12. /\ RulesReadLists' /\ Versioned' /\ MembersAreCurrent' /\ FlagsFollowLists'
       /\ \A p \in Runners : Evaluates(run[p])'
  <2>1. \A q \in Queries : l \in Used(rules[q]) => \E x \in Threads : Drops(x, q)'
    BY <1>11
  <2> QED BY <1>1, <1>2, <1>6, <1>7, <1>9, <1>10, <2>1, ListStep
<1>13. SavesReplace'
  <2>1. ASSUME NEW k \in ItemLists \ mixed', NEW a \in list'[k].items, NEW b \in list'[k].items
        PROVE  a = b
    <3>1. CASE k = l
      <4>1. ~req[t].late
        BY <1>1, <2>1, <3>1 DEF Mixed
      <4>2. items = req[t].newItems /\ \A c, d \in req[t].newItems : c = d
        BY <1>0, <1>1, <1>2, <4>1 DEF Replaces, Saving, items
      <4> QED BY <1>5, <1>6, <3>1, <4>2
    <3>2. CASE k # l
      <4>1. k \notin mixed
        BY <1>1, <2>1, <3>2 DEF Mixed
      <4> QED BY <1>6, <3>2, <4>1 DEF LInv, SavesReplace
    <3> QED BY <3>1, <3>2
  <2>2. ASSUME NEW q \in Queries \ mixed' PROVE q \notin mixed
    BY <1>1, <1>2, Constants DEF Mixed
  <2> QED BY <1>1, <2>1, <2>2 DEF LInv, SavesReplace
<1> QED BY <1>8, <1>12, <1>13 DEF LInv

LEMMA DeleteCommitsStep ==
  ASSUME LInv, TypeOK', NEW t \in Threads, DeleteCommits(t)
  PROVE  LInv'
<1>0. PICK l \in ItemLists : req[t].list = l
  BY DEF LInv, TypeOK, Requests
<1> DEFINE new == [list[l] EXCEPT !.state = "deleted", !.items = {}]
<1>1. /\ req[t].at = "deleting" /\ IsStored(l) /\ ~IsUsed(l) /\ list' = [list EXCEPT ![l] = new]
      /\ Overtakes(t, Idle, SavesOf(l)) /\ RunsLate(RunsWith(l)) /\ mixed' = mixed \ {l}
      /\ UNCHANGED <<rules, members, cached>>
  BY <1>0 DEF DeleteCommits, Restricts
<1>2. list \in [ItemLists -> Stored] /\ l \in ItemLists /\ list[l] \in Stored /\ list[l].version \in Nat
  BY DEF LInv, TypeOK, Requests, Stored
<1>3. new.version = list[l].version /\ new.items = {} /\ new.state = "deleted"
  BY <1>2 DEF Stored
<1> HIDE DEF new
<1>4. list'[l] = new /\ \A k \in ItemLists \ {l} : list'[k] = list[k]
  BY <1>1, <1>2
<1>5. list[l].version <= list'[l].version /\ list'[l].state # "unmade" /\ ~IsStored(l)'
  BY <1>2, <1>3, <1>4 DEF IsStored
<1>6. /\ \A x \in Threads : Replaces(req[x])'
      /\ \A q \in Queries, x \in Threads \ {t} : Drops(x, q) => Drops(x, q)'
  BY <1>1, <1>2, <1>4, <1>5, IdleType, OvertakenSaves
<1>7. \A p \in Runners : SameRun(p) /\ (run[p].at # "idle" /\ ~run'[p].late => l \notin Used(run[p].rules))
  BY <1>1, <1>2, OvertakenRuns
<1>8. \A q \in Queries, x \in Threads : Drops(x, q) => Drops(x, q)'
  <2>1. \A q \in Queries : ~Drops(t, q)
    BY <1>1 DEF Drops
  <2> QED BY <1>6, <2>1
<1>9. \A q \in Queries : l \notin Used(rules[q])
  BY <1>1 DEF IsUsed, UsedBy
<1>10. /\ RulesReadLists' /\ Versioned' /\ MembersAreCurrent' /\ FlagsFollowLists'
       /\ \A p \in Runners : Evaluates(run[p])'
  <2> QED BY <1>1, <1>2, <1>4, <1>5, <1>7, <1>8, <1>9, ListStep
<1>11. SavesReplace'
  <2>1. ASSUME NEW k \in ItemLists \ mixed', NEW a \in list'[k].items, NEW b \in list'[k].items
        PROVE  a = b
    BY <1>1, <1>3, <1>4, <2>1 DEF LInv, SavesReplace
  <2>2. ASSUME NEW q \in Queries \ mixed' PROVE q \notin mixed
    BY <1>1, <1>2, Constants
  <2> QED BY <1>1, <2>1, <2>2 DEF LInv, SavesReplace
<1> QED BY <1>6, <1>10, <1>11 DEF LInv

LEMMA RulesCommitStep ==
  ASSUME LInv, TypeOK', NEW t \in Threads, RulesCommit(t)
  PROVE  LInv'
<1>0. PICK k \in Queries : req[t].query = k
  BY DEF LInv, TypeOK, Requests
<1> DEFINE new == Kept(req[t]) \cup req[t].newRules
           r == Purging({k})
<1>1. /\ req[t].at = "cleared" /\ (\A l \in Used(req[t].newRules) : IsStored(l))
      /\ rules' = [rules EXCEPT ![k] = new] /\ Overtakes(t, r, SavesOfRules(k)) /\ RunsLate(RunsOf(k))
      /\ mixed' = Mixed(k, req[t].late) /\ UNCHANGED <<list, members, cached>>
  BY <1>0 DEF RulesCommit
<1>2. /\ rules \in [Queries -> SUBSET Rules] /\ run \in [Runners -> Runs] /\ req[t] \in Requests
      /\ Replaces(req[t]) /\ Kept(req[t]) = rules[k] \ req[t].oldRules
  BY <1>0 DEF LInv, TypeOK, Kept
<1>3. r \in Requests /\ r.at = "purging" /\ r.todo = {k}
  BY PurgingType
<1> HIDE DEF r
<1>4. /\ req'[t] = r
      /\ \A x \in Threads \ {t} :
           /\ req'[x].at = req[x].at /\ req'[x].list = req[x].list /\ req'[x].query = req[x].query
           /\ req'[x].oldItems = req[x].oldItems /\ req'[x].newItems = req[x].newItems
           /\ req'[x].oldRules = req[x].oldRules /\ req'[x].newRules = req[x].newRules
           /\ req'[x].todo = req[x].todo
           /\ req'[x].late <=> req[x].late \/ x \in SavesOfRules(k)
  BY <1>1, <1>3, OvertakesType DEF LInv
<1>5. \A p \in Runners :
        /\ run'[p].at = run[p].at /\ run'[p].query = run[p].query /\ run'[p].rules = run[p].rules
        /\ run'[p].seen = run[p].seen /\ run'[p].got = run[p].got /\ run'[p].todo = run[p].todo
        /\ run'[p].list = run[p].list
        /\ run'[p].late <=> run[p].late \/ p \in RunsOf(k)
  BY <1>1, RunsLateType DEF LInv
<1>6. rules'[k] = new /\ \A q \in Queries \ {k} : rules'[q] = rules[q]
  BY <1>1, <1>2
<1>7. RulesReadLists'
  <2>1. \A l \in Used(new) : l \in Used(rules[k]) \/ l \in Used(req[t].newRules)
    BY <1>2 DEF Used
  <2>2. \A l \in Used(new) : IsStored(l)
    BY <1>1, <2>1 DEF LInv, RulesReadLists
  <2> HIDE DEF new
  <2> QED BY <1>1, <1>6, <2>2 DEF LInv, RulesReadLists, IsStored
<1>8. SavesReplace'
  <2>1. ASSUME NEW q \in Queries \ mixed', NEW a \in rules'[q], NEW b \in rules'[q]
        PROVE  a.by = b.by
    <3>1. CASE q = k
      <4>1. ~req[t].late
        BY <1>1, <2>1, <3>1 DEF Mixed
      <4>2. new = req[t].newRules /\ \A c, d \in req[t].newRules : c.by = d.by
        BY <1>0, <1>1, <1>2, <4>1 DEF Replaces, Ruling
      <4> QED BY <1>6, <3>1, <4>2
    <3>2. CASE q # k
      <4>1. q \notin mixed
        BY <1>1, <2>1, <3>2 DEF Mixed
      <4> HIDE DEF new
      <4> QED BY <1>6, <2>1, <3>2, <4>1 DEF LInv, SavesReplace
    <3> QED BY <3>1, <3>2
  <2>2. ASSUME NEW l \in ItemLists \ mixed' PROVE l \notin mixed
    BY <1>1, Constants DEF Mixed
  <2> QED BY <1>1, <2>1, <2>2 DEF LInv, SavesReplace
<1> HIDE DEF new
<1>9. \A x \in Threads : Replaces(req[x])'
  <2>1. Replaces(req[t])'
    BY <1>3, <1>4 DEF Replaces, Saving, Ruling
  <2>2. ASSUME NEW x \in Threads \ {t} PROVE Replaces(req[x])'
    <3>1. Replaces(req[x]) /\ req[x].query \in Queries
      BY DEF LInv, TypeOK, Requests
    <3>2. ASSUME req[x].at \in Ruling, ~req'[x].late PROVE rules'[req[x].query] = req[x].oldRules
      <4>1. CASE req[x].query = k
        BY <1>4, <3>2, <4>1 DEF SavesOfRules
      <4>2. CASE req[x].query # k
        BY <1>4, <1>6, <3>1, <3>2, <4>2 DEF Replaces
      <4> QED BY <4>1, <4>2
    <3> QED BY <1>1, <1>4, <3>1, <3>2 DEF Replaces
  <2> QED BY <2>1, <2>2
<1>10. ASSUME NEW p \in Runners PROVE Evaluates(run[p])'
  <2>1. Evaluates(run[p]) /\ run[p].query \in Queries
    BY <1>2 DEF LInv, Runs
  <2>2. ASSUME run[p].at # "idle", ~run'[p].late PROVE rules'[run[p].query] = rules[run[p].query]
    <3>1. run[p].query # k
      BY <1>5, <2>2 DEF RunsOf
    <3> QED BY <1>6, <2>1, <3>1
  <2> QED BY <1>1, <1>5, <2>1, <2>2 DEF Evaluates, IsStored
<1>11. Versioned' /\ MembersAreCurrent'
  BY <1>1, <1>5 DEF LInv, Versioned, MembersAreCurrent, IsStored
<1>12. FlagsFollowLists'
  <2> SUFFICES ASSUME NEW q \in Queries, cached'[q] # None
               PROVE  \/ cached'[q].late
                      \/ Current(q, cached[q].rules, cached[q].got)'
                      \/ \E x \in Threads : Drops(x, q)'
    BY Dropped DEF FlagsFollowLists, Drops
  <2>1. CASE q = k
    BY <1>3, <1>4, <2>1 DEF Drops
  <2>2. CASE q # k
    <3>1. \/ cached[q].late \/ Current(q, cached[q].rules, cached[q].got)
          \/ \E x \in Threads : Drops(x, q)
      BY <1>1, Dropped DEF LInv
    <3>2. \A x \in Threads : Drops(x, q) => Drops(x, q)'
      <4>1. ~Drops(t, q)
        BY <1>1 DEF Drops
      <4>2. \A x \in Threads \ {t} : Drops(x, q) => Drops(x, q)'
        BY <1>4, <1>6, <2>2 DEF Drops, UsedBy
      <4> QED BY <4>1, <4>2
    <3>3. Current(q, cached[q].rules, cached[q].got) => Current(q, cached[q].rules, cached[q].got)'
      BY <1>1, <1>6, <2>2 DEF Current
    <3> QED BY <1>1, <3>1, <3>2, <3>3
  <2> QED BY <2>1, <2>2
<1> QED BY <1>7, <1>8, <1>9, <1>10, <1>11, <1>12 DEF LInv

LEMMA InvNext == LInv /\ [Next]_vars => LInv'
<1> SUFFICES ASSUME LInv, [Next]_vars PROVE LInv'
  OBVIOUS
<1>t. TypeOK'
  BY TypeNext DEF LInv
<1>1. ASSUME NEW t \in Threads, NEW l \in ItemLists, CreateList(t, l) \/ SaveLoads(t, l) \/ DeleteLoads(t, l)
      PROVE  LInv'
  BY <1>t, <1>1, CreateListStep, LoadsStep
<1>2. ASSUME NEW t \in Threads, SaveReplaces(t) \/ SaveCommits(t) \/ SaveFinds(t) \/ DeleteCommits(t)
      PROVE  LInv'
  BY <1>t, <1>2, SaveReplacesStep, SaveCommitsStep, SaveFindsStep, DeleteCommitsStep
<1>3. ASSUME NEW t \in Threads, NEW q \in Queries,
             \/ \E names \in SUBSET RuleNames :
                  \E reads \in [names -> ItemLists \cup {None}] : RulesLoad(t, q, reads)
             \/ Invalidate(t, q)
      PROVE  LInv'
  BY <1>t, <1>3, RulesLoadStep, InvalidateStep
<1>4. ASSUME NEW t \in Threads, RulesClear(t) \/ RulesCommit(t) \/ Refused(t) \/ LookupFails(t)
      PROVE  LInv'
  BY <1>t, <1>4, RulesClearStep, RulesCommitStep, RefusedStep, LookupFailsStep
<1>5. ASSUME NEW p \in Runners,
             \/ \E q \in Queries : RunLoads(p, q)
             \/ \E l \in ItemLists : Resolves(p, l) \/ Reads(p, l)
             \/ Remembers(p) \/ RunStores(p) \/ RunEnds(p)
      PROVE  LInv'
  BY <1>t, <1>5, RunLoadsStep, ResolvesStep, ReadsStep, RemembersStep, RunStoresStep, RunEndsStep
<1>6. ASSUME NEW q \in Queries, Expire(q)
      PROVE  LInv'
  BY <1>t, <1>6, ExpireStep
<1>7. CASE Forget
  BY <1>t, <1>7, ForgetStep
<1>8. CASE Crash
  BY <1>t, <1>8, CrashStep
<1>9. CASE UNCHANGED vars
  <2>1. (\A t \in Threads : Replaces(req[t])') /\ \A p \in Runners : Evaluates(run[p])'
    BY <1>9 DEF vars, LInv, Replaces, Evaluates, IsStored
  <2>2. RulesReadLists' /\ Versioned' /\ SavesReplace'
    BY <1>9 DEF vars, LInv, RulesReadLists, Versioned, SavesReplace, IsStored
  <2>3. MembersAreCurrent' /\ FlagsFollowLists'
    BY <1>9 DEF vars, LInv, MembersAreCurrent, FlagsFollowLists, Current, UsedBy, IsStored
  <2> QED BY <1>t, <2>1, <2>2, <2>3 DEF LInv
<1> QED BY <1>1, <1>2, <1>3, <1>4, <1>5, <1>6, <1>7, <1>8, <1>9 DEF Next

-----------------------------------------------------------------------------

\* The requests, the runs, both caches and the rows keep their types: what is
\* cached and what is written is made of what was stored or is saved.
THEOREM ListTypes == Spec => []TypeOK
<1>1. Init => TypeOK
  BY TypeInit
<1> QED BY <1>1, TypeNext, PTL DEF Spec

LEMMA Invariance == Spec => []LInv
BY InvInit, InvNext, PTL DEF Spec

\* A set of members that is remembered under the version a list has is what the
\* list holds, although version and items are read apart (lists/matching.py).
THEOREM MembersCurrent == Spec => []MembersAreCurrent
<1>1. LInv => MembersAreCurrent
  BY DEF LInv
<1> QED BY <1>1, Invariance, PTL

\* All items of a list, and all rules of a query, are of one save, unless two
\* saves overlapped (lists/service.py, flag_rules/service.py).
THEOREM SavesReplaceAll == Spec => []SavesReplace
<1>1. LInv => SavesReplace
  BY DEF LInv
<1> QED BY <1>1, Invariance, PTL

\* No rule reads a list that is gone, whatever raced with its deletion.
THEOREM NoRuleWithoutList == Spec => []RulesReadLists
<1>1. LInv => RulesReadLists
  BY DEF LInv
<1> QED BY <1>1, Invariance, PTL

\* A cached result that no save has overtaken is flagged with the rules and the
\* items as they are, or a request is on its way to drop it.
THEOREM FlagsFollow == Spec => []FlagsFollowLists
<1>1. LInv => FlagsFollowLists
  BY DEF LInv
<1> QED BY <1>1, Invariance, PTL
=============================================================================
