------------------------------- MODULE Lists -------------------------------
(***************************************************************************)
(* Named lists (features/lists/service.py), the flag rules that read them  *)
(* (flag_rules/service.py), the cache of member sets (lists/matching.py)   *)
(* and the results flagged with them, on Postgres at READ COMMITTED.       *)
(*                                                                         *)
(* A save replaces a whole list or a whole rule set: it deletes the rows   *)
(* its statement, or its session, saw, waiting for whoever has deleted the *)
(* same rows, and inserts its own.  What a save writes is known by the     *)
(* save's number.  Names are left out: a save whose name is taken is       *)
(* refused, like any other.                                                *)
(***************************************************************************)
EXTENDS Naturals, FiniteSets

CONSTANTS
  ItemLists, Queries, RuleNames,
  Threads,      \* requests that edit lists and rules, each with its user
  Admins,       \* those whose user is an administrator
  Runners,      \* threads that run and flag a query
  MaxSaves,     \* bound on the saves that are begun
  None

VARIABLES
  list,      \* list[l]: the stored list and its items
  rules,     \* rules[q]: the stored flag rules of a query
  req,       \* req[t]: the edit a thread is serving
  run,       \* run[p]: the evaluation a thread is in
  members,   \* the cache of member sets
  cached,    \* cached[q]: the cached result of a query
  saves,     \* how many saves were begun
  mixed      \* history: the lists and queries two overlapping saves wrote

vars == <<list, rules, req, run, members, cached, saves, mixed>>

Stored == [state : {"unmade", "stored", "deleted"}, creator : Threads \cup {None},
           version : Nat, items : SUBSET Nat]
\* A rule, with the list its condition reads.
Rules == [by : Nat, name : RuleNames, list : ItemLists \cup {None}]

\* olds and news, the rows to delete and to insert, of a list or a rule set;
\* todo, the results to drop; late, history: another save of the same rows
\* was committed meanwhile.
Requests == [at : {"idle", "waiting", "replaced", "committed", "purging",
                   "loaded", "cleared", "deleting"},
             list : ItemLists, query : Queries,
             oldItems : SUBSET Nat, newItems : SUBSET Nat,
             oldRules : SUBSET Rules, newRules : SUBSET Rules,
             todo : SUBSET Queries, late : BOOLEAN]

\* seen, the versions of the lists as loaded with the rules; got, the items
\* the run resolved them to; late, history: what it reads was saved meanwhile.
Runs == [at : {"idle", "loaded", "loading"}, query : Queries, rules : SUBSET Rules,
         seen : [ItemLists -> Nat], got : [ItemLists -> SUBSET Nat],
         todo : SUBSET ItemLists, list : ItemLists, late : BOOLEAN]

Results == [rules : SUBSET Rules, got : [ItemLists -> SUBSET Nat], late : BOOLEAN]

ASSUME ListsAssumption ==
  /\ ItemLists # {} /\ Queries # {} /\ Admins \subseteq Threads /\ MaxSaves \in Nat
  /\ None \notin ItemLists /\ None \notin Threads /\ None \notin Results
  /\ ItemLists \cap Queries = {}

TypeOK ==
  /\ list \in [ItemLists -> Stored]
  /\ rules \in [Queries -> SUBSET Rules]
  /\ req \in [Threads -> Requests]
  /\ run \in [Runners -> Runs]
  /\ members \subseteq [list : ItemLists, version : Nat, items : SUBSET Nat]
  /\ cached \in [Queries -> Results \cup {None}]
  /\ saves \in 0 .. MaxSaves
  /\ mixed \subseteq ItemLists \cup Queries

Nothing == [l \in ItemLists |-> {}]
Idle == [at |-> "idle", list |-> CHOOSE l \in ItemLists : TRUE,
         query |-> CHOOSE q \in Queries : TRUE, oldItems |-> {}, newItems |-> {},
         oldRules |-> {}, newRules |-> {}, todo |-> {}, late |-> FALSE]
IdleRun == [at |-> "idle", query |-> CHOOSE q \in Queries : TRUE, rules |-> {},
            seen |-> [l \in ItemLists |-> 0], got |-> Nothing, todo |-> {},
            list |-> CHOOSE l \in ItemLists : TRUE, late |-> FALSE]

\* There may be lists and rules already, saved one at a time.
Init ==
  /\ \E old \in SUBSET ItemLists :
       /\ list = [l \in ItemLists |->
            IF l \in old
              THEN [state |-> "stored", creator |-> None, version |-> 1, items |-> {0}]
              ELSE [state |-> "unmade", creator |-> None, version |-> 0, items |-> {}]]
       /\ rules \in [Queries ->
            {{}} \cup {{[by |-> 0, name |-> n, list |-> l]} : n \in RuleNames, l \in old \cup {None}}]
  /\ req = [t \in Threads |-> Idle] /\ run = [p \in Runners |-> IdleRun]
  /\ members = {} /\ cached = [q \in Queries |-> None]
  /\ saves = 0 /\ mixed = {}

-----------------------------------------------------------------------------

IsStored(l) == list[l].state = "stored"
Used(rs) == {r.list : r \in rs} \ {None}
\* _query_ids_using.
UsedBy(l) == {q \in Queries : l \in Used(rules[q])}
\* is_used.
IsUsed(l) == UsedBy(l) # {}

\* can_change.
CanChange(t, l) == t \in Admins \/ list[l].creator = t

Saving == {"waiting", "replaced"}
Ruling == {"loaded", "cleared"}

\* t's request becomes r; the threads that have seen the same rows are late.
Overtakes(t, r, threads) ==
  req' = [x \in Threads |-> IF x = t THEN r
                            ELSE IF x \in threads THEN [req[x] EXCEPT !.late = TRUE]
                            ELSE req[x]]
RunsLate(runners) ==
  run' = [p \in Runners |-> IF p \in runners THEN [run[p] EXCEPT !.late = TRUE] ELSE run[p]]

SavesOf(l) == {x \in Threads : req[x].at \in Saving /\ req[x].list = l}
SavesOfRules(q) == {x \in Threads : req[x].at \in Ruling /\ req[x].query = q}
RunsWith(l) == {p \in Runners : run[p].at # "idle" /\ l \in Used(run[p].rules)}
RunsOf(q) == {p \in Runners : run[p].at # "idle" /\ run[p].query = q}

\* Results are left to drop, or the request is over.
Purging(todo) == IF todo = {} THEN Idle ELSE [Idle EXCEPT !.at = "purging", !.todo = todo]

Mixed(x, late) == IF late THEN mixed \cup {x} ELSE mixed \ {x}

Begin(t) == req[t].at = "idle" /\ saves < MaxSaves /\ saves' = saves + 1

-----------------------------------------------------------------------------
(* Lists (lists/service.py).                                               *)

\* create_list: the list and its items, in one commit.
CreateList(t, l) ==
  /\ Begin(t) /\ list[l].state = "unmade"
  /\ \E kept \in {{}, {saves'}} :
       list' = [list EXCEPT ![l] = [state |-> "stored", creator |-> t, version |-> 1, items |-> kept]]
  /\ UNCHANGED <<rules, req, run, members, cached, mixed>>

\* get_changeable, and the rows _replace_items's DELETE is to delete: those its
\* snapshot has.
SaveLoads(t, l) ==
  /\ Begin(t) /\ IsStored(l) /\ CanChange(t, l)
  /\ \E kept \in {{}, {saves'}} :
       req' = [req EXCEPT ![t] = [Idle EXCEPT !.at = "waiting", !.list = l,
                                   !.oldItems = list[l].items, !.newItems = kept]]
  /\ UNCHANGED <<list, rules, run, members, cached, mixed>>

\* The DELETE has waited for whoever deleted the same rows; the INSERT needs
\* the list to be there.
SaveReplaces(t) ==
  LET l == req[t].list
  IN /\ req[t].at = "waiting" /\ IsStored(l)
     /\ \A x \in Threads : req[x].at = "replaced" /\ req[x].list = l =>
          req[x].oldItems \cap req[t].oldItems \cap list[l].items = {}
     /\ req' = [req EXCEPT ![t] = [req[t] EXCEPT !.at = "replaced"]]
     /\ UNCHANGED <<list, rules, run, members, cached, saves, mixed>>

\* Mutant: nothing is written, the version neither, for a list with no items.
BumpedWithItems(t) ==
  IF req[t].newItems = {} THEN list[req[t].list].version ELSE list[req[t].list].version + 1
\* version = version + 1, computed by the database.
Bumped(t) == list[req[t].list].version + 1

\* The commit of update_list writes the version with the items.
SaveCommits(t) ==
  LET r == req[t]
  IN /\ r.at = "replaced" /\ IsStored(r.list)
     /\ list' = [list EXCEPT ![r.list] = [list[r.list] EXCEPT
          !.version = Bumped(t), !.items = (list[r.list].items \ r.oldItems) \cup r.newItems]]
     /\ Overtakes(t, [Idle EXCEPT !.at = "committed", !.list = r.list], SavesOf(r.list))
     /\ RunsLate(RunsWith(r.list))
     /\ mixed' = Mixed(r.list, r.late)
     /\ UNCHANGED <<rules, members, cached, saves>>

\* The queries whose rules read the list are looked up after the commit.
SaveFinds(t) ==
  /\ req[t].at = "committed"
  /\ req' = [req EXCEPT ![t] = Purging(UsedBy(req[t].list))]
  /\ UNCHANGED <<list, rules, run, members, cached, saves, mixed>>

\* Mutant: the foreign key lets a list go that a rule reads.
CascadesOver(l) == FALSE
\* RESTRICT: the delete is refused while a condition names the list.
Restricts(l) == IsUsed(l)

\* delete_list finds the list unused.
DeleteLoads(t, l) ==
  /\ req[t].at = "idle" /\ IsStored(l) /\ CanChange(t, l) /\ ~IsUsed(l)
  /\ req' = [req EXCEPT ![t] = [Idle EXCEPT !.at = "deleting", !.list = l]]
  /\ UNCHANGED <<list, rules, run, members, cached, saves, mixed>>

\* The DELETE waits for saves that hold the list or its rows, takes the items
\* with it, and is refused if a rule reads the list by now.
DeleteCommits(t) ==
  LET l == req[t].list
  IN /\ req[t].at = "deleting" /\ IsStored(l) /\ ~Restricts(l)
     /\ \A x \in Threads : req[x].at = "replaced" /\ req[x].list = l =>
          (req[x].oldItems \cap list[l].items) \cup req[x].newItems = {}
     /\ list' = [list EXCEPT ![l] = [list[l] EXCEPT !.state = "deleted", !.items = {}]]
     /\ Overtakes(t, Idle, SavesOf(l)) /\ RunsLate(RunsWith(l))
     /\ mixed' = mixed \ {l}
     /\ UNCHANGED <<rules, members, cached, saves>>

-----------------------------------------------------------------------------
(* Rule sets (flag_rules/service.py).                                      *)

\* ensure_lists_exist, and the rules query.flag_rules loads.
RulesLoad(t, q, reads) ==
  /\ Begin(t) /\ \A l \in Used({[list |-> reads[n]] : n \in DOMAIN reads}) : IsStored(l)
  /\ req' = [req EXCEPT ![t] = [Idle EXCEPT !.at = "loaded", !.query = q,
       !.oldRules = rules[q],
       !.newRules = {[by |-> saves', name |-> n, list |-> reads[n]] : n \in DOMAIN reads}]]
  /\ UNCHANGED <<list, rules, run, members, cached, mixed>>

\* The flush deletes what was loaded, once nobody else holds it.
RulesClear(t) ==
  LET r == req[t]
  IN /\ r.at = "loaded"
     /\ \A x \in Threads : req[x].at = "cleared" /\ req[x].query = r.query =>
          req[x].oldRules \cap r.oldRules \cap rules[r.query] = {}
     /\ req' = [req EXCEPT ![t] = [r EXCEPT !.at = "cleared"]]
     /\ UNCHANGED <<list, rules, run, members, cached, saves, mixed>>

\* Mutant: the old rules are orphaned and not deleted.
KeptOrphans(r) == rules[r.query]
\* What other requests wrote after this one loaded the rules stays.
Kept(r) == rules[r.query] \ r.oldRules

\* The commit: a name that is there by now, or a list that is not, is an
\* IntegrityError (either is answered LIST_NOT_FOUND).
RulesCommit(t) ==
  LET r == req[t]
  IN /\ r.at = "cleared"
     /\ \A a \in r.newRules, b \in Kept(r) : a.name # b.name
     /\ \A l \in Used(r.newRules) : IsStored(l)
     /\ rules' = [rules EXCEPT ![r.query] = Kept(r) \cup r.newRules]
     /\ Overtakes(t, Purging({r.query}), SavesOfRules(r.query))
     /\ RunsLate(RunsOf(r.query))
     /\ mixed' = Mixed(r.query, r.late)
     /\ UNCHANGED <<list, members, cached, saves>>

-----------------------------------------------------------------------------

\* result_cache.invalidate, one query after another.
Invalidate(t, q) ==
  /\ req[t].at = "purging" /\ q \in req[t].todo
  /\ cached' = [cached EXCEPT ![q] = None]
  /\ req' = [req EXCEPT ![t] = Purging(req[t].todo \ {q})]
  /\ UNCHANGED <<list, rules, run, members, saves, mixed>>

\* Refused, or failed, before its commit.
Refused(t) ==
  /\ req[t].at \in Saving \cup Ruling \cup {"deleting"}
  /\ req' = [req EXCEPT ![t] = Idle]
  /\ UNCHANGED <<list, rules, run, members, cached, saves, mixed>>

\* The list is saved and the lookup of its queries fails: their results stay.
LookupFails(t) ==
  /\ req[t].at = "committed"
  /\ cached' = [q \in Queries |-> IF cached[q] # None /\ q \in UsedBy(req[t].list)
                                    THEN [cached[q] EXCEPT !.late = TRUE] ELSE cached[q]]
  /\ req' = [req EXCEPT ![t] = Idle]
  /\ UNCHANGED <<list, rules, run, members, saves, mixed>>

-----------------------------------------------------------------------------
(* Evaluations (flag_rules/engine.py, lists/matching.py).                  *)

\* The rules are loaded with the rows of their lists: right before they are
\* evaluated, or, for a refresh of a whole connection, before any query runs.
RunLoads(p, q) ==
  /\ run[p].at = "idle"
  /\ run' = [run EXCEPT ![p] = [IdleRun EXCEPT !.at = "loaded", !.query = q,
       !.rules = rules[q], !.seen = [l \in ItemLists |-> list[l].version],
       !.todo = Used(rules[q])]]
  /\ UNCHANGED <<list, rules, req, members, cached, saves, mixed>>

\* Mutant: the cache is keyed by the list alone.
HitOfList(l, v) == {m \in members : m.list = l}
Hit(l, v) == {m \in members : m.list = l /\ m.version = v}

\* cached_members: a hit.
Resolves(p, l) ==
  /\ run[p].at = "loaded" /\ l \in run[p].todo
  /\ \E m \in Hit(l, run[p].seen[l]) :
       run' = [run EXCEPT ![p] = [run[p] EXCEPT !.todo = run[p].todo \ {l},
                 !.got = [run[p].got EXCEPT ![l] = m.items]]]
  /\ UNCHANGED <<list, rules, req, members, cached, saves, mixed>>

\* A miss: the items are read, outside the lock.
Reads(p, l) ==
  /\ run[p].at = "loaded" /\ l \in run[p].todo /\ Hit(l, run[p].seen[l]) = {}
  /\ run' = [run EXCEPT ![p] = [run[p] EXCEPT !.at = "loading", !.list = l,
               !.got = [run[p].got EXCEPT ![l] = list[l].items]]]
  /\ UNCHANGED <<list, rules, req, members, cached, saves, mixed>>

\* The set is stored, over whatever another thread stored under the key.
Remembers(p) ==
  LET l == run[p].list
  IN /\ run[p].at = "loading"
     /\ members' = {m \in members : m.list # l \/ m.version # run[p].seen[l]}
          \cup {[list |-> l, version |-> run[p].seen[l], items |-> run[p].got[l]]}
     /\ run' = [run EXCEPT ![p] = [run[p] EXCEPT !.at = "loaded", !.todo = run[p].todo \ {l}]]
     /\ UNCHANGED <<list, rules, req, cached, saves, mixed>>

\* The least recently used set goes.
Forget ==
  /\ \E m \in members : members' = members \ {m}
  /\ UNCHANGED <<list, rules, req, run, cached, saves, mixed>>

\* The flags of this result are those of the rules and the items as stored.
Current(q, rs, got) == rs = rules[q] /\ \A l \in Used(rs) : got[l] = list[l].items

\* result_cache.set; late, history: it was overtaken, and is out of date.
RunStores(p) ==
  LET r == run[p]
  IN /\ r.at = "loaded" /\ r.todo = {}
     /\ cached' = [cached EXCEPT ![r.query] =
          [rules |-> r.rules, got |-> r.got,
           late |-> r.late /\ ~Current(r.query, r.rules, r.got)]]
     /\ run' = [run EXCEPT ![p] = IdleRun]
     /\ UNCHANGED <<list, rules, req, members, saves, mixed>>

\* A run fails; a preview, which flags with rules nobody saved, stores nothing.
RunEnds(p) ==
  /\ run[p].at # "idle"
  /\ run' = [run EXCEPT ![p] = IdleRun]
  /\ UNCHANGED <<list, rules, req, members, cached, saves, mixed>>

\* get_stale drops an entry that is past its grace; a store of another result may
\* evict it before that.
Expire(q) ==
  /\ cached[q] # None
  /\ cached' = [cached EXCEPT ![q] = None]
  /\ UNCHANGED <<list, rules, req, run, members, saves, mixed>>

\* The process, and both caches with it.
Crash ==
  /\ \E t \in Threads : req[t].at # "idle"
  /\ req' = [t \in Threads |-> Idle] /\ run' = [p \in Runners |-> IdleRun]
  /\ members' = {} /\ cached' = [q \in Queries |-> None]
  /\ UNCHANGED <<list, rules, saves, mixed>>

Next ==
  \/ \E t \in Threads :
       \/ \E l \in ItemLists : CreateList(t, l) \/ SaveLoads(t, l) \/ DeleteLoads(t, l)
       \/ SaveReplaces(t) \/ SaveCommits(t) \/ SaveFinds(t) \/ DeleteCommits(t)
       \/ \E q \in Queries, names \in SUBSET RuleNames :
            \E reads \in [names -> ItemLists \cup {None}] : RulesLoad(t, q, reads)
       \/ RulesClear(t) \/ RulesCommit(t)
       \/ \E q \in Queries : Invalidate(t, q)
       \/ Refused(t) \/ LookupFails(t)
  \/ \E p \in Runners :
       \/ \E q \in Queries : RunLoads(p, q)
       \/ \E l \in ItemLists : Resolves(p, l) \/ Reads(p, l)
       \/ Remembers(p) \/ RunStores(p) \/ RunEnds(p)
  \/ \E q \in Queries : Expire(q)
  \/ Forget \/ Crash

Spec == Init /\ [][Next]_vars

-----------------------------------------------------------------------------

\* "Keyed by list id and its integer version, ... so an edit changes the key and
\* a stale set is never served": what is remembered under the version a list
\* has is what the list holds, although version and items are read apart.
MembersAreCurrent ==
  \A m \in members : IsStored(m.list) /\ m.version = list[m.list].version =>
    m.items = list[m.list].items

\* A save replaces: all items of a list, and all rules of a query, are of one
\* save, unless two saves overlapped, which leaves the rows of both.
SavesReplace ==
  /\ \A l \in ItemLists \ mixed : \A a, b \in list[l].items : a = b
  /\ \A q \in Queries \ mixed : \A a, b \in rules[q] : a.by = b.by

\* A rule reads a list that is there, whatever raced with its deletion.
RulesReadLists == \A q \in Queries : \A l \in Used(rules[q]) : IsStored(l)

\* A cached result, unless a save overtook its run, is flagged with the rules and
\* the items as they are, or a request is on its way to drop it.
FlagsFollowLists ==
  \A q \in Queries : cached[q] # None =>
    \/ cached[q].late
    \/ Current(q, cached[q].rules, cached[q].got)
    \/ \E t \in Threads : \/ req[t].at = "purging" /\ q \in req[t].todo
                          \/ req[t].at = "committed" /\ q \in UsedBy(req[t].list)
=============================================================================
